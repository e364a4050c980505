CONSTANTS
  b1 = b1
  b2 = b2
  b3 = b3
  Blocks <- MCBlocks
  Sockets = {1, 2, 3}
  MaxMisses = 2
  Networks <- MCNetworks
  MaxOutages = 1
  MayDestroy = TRUE
  Timely = TRUE
  MaxOffers = 4
  MaxKicks = 1
  Politeness = {"polite", "impolite"}
  Frames = {"f1", "f2"}
  Lanes = {"lane"}
  MaxQueue = 1
  MaxCuts = 1
  Jobs = {"j1", "j2"}
  Kinds = {"slice", "verify", "small"}
  TotalBlocks = 3
  Width = 2
  Endpoints = {"e1", "e2", "e3"}
  Candidates = {"i1", "i2"}
  Attempts = 3
  Window = 3
  MaxTime = 7
  Tabs = {"t1", "t2"}
  Beat = 2
  FreshFor = 3
  Expiry = 5
  MaxReloads = 1
SPECIFICATION PartsSpec
INVARIANTS PartsTypeOK FinalizeReturnsAll NeverStranded OneGaveWay RelayKeepsRetrying NoFrameLost VerifiedIsIntact StoreIsRight NullOnlyIfNone LimitHolds OneTabPerId BusKnowsTabs
PROPERTIES TempFileRemoved BackOnSocket JobsSettle
CHECK_DEADLOCK FALSE
