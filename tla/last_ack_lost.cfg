SPECIFICATION FairSpec
CONSTANTS
  NumBlocks = 2
  NumChunks = 1
  DamageKinds <- NoDamage
  MaxDataLoss = 0
  MaxCtlLoss = 1
  MaxLoss = 2
  MaxDamage = 0
  InitialCredits = 2
  MaxCredits = 2
  MaxPauses = 0
  ReadsFail = FALSE
  MaxRetries = 1
  WorkerBlocks <- FirstBlock
  WritesFail = FALSE
  MaxEarly = 0
  AllowCancel = FALSE
\* The system stops when the file is through.
CHECK_DEADLOCK FALSE
PROPERTIES SenderCompletes
