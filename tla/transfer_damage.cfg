SPECIFICATION Spec
CONSTANTS
  NumBlocks = 1
  NumChunks = 2
  DamageKinds <- NotLonger
  MaxDataLoss = 1
  MaxCtlLoss = 0
  MaxLoss = 2
  MaxDamage = 1
  InitialCredits = 1
  MaxCredits = 1
  MaxPauses = 0
  ReadsFail = FALSE
  MaxRetries = 1
  WorkerBlocks <- AllByWorker
  WritesFail = FALSE
  MaxEarly = 1
  AllowCancel = FALSE
\* The system stops when the file is through.
CHECK_DEADLOCK FALSE
INVARIANTS DeliveredIntact ReceiverNeverSpins
