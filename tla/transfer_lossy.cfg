SPECIFICATION Spec
CONSTANTS
  NumBlocks = 2
  NumChunks = 1
  DamageKinds <- NoDamage
  MaxDataLoss = 1
  MaxCtlLoss = 1
  MaxLoss = 2
  MaxDamage = 0
  InitialCredits = 1
  MaxCredits = 2
  MaxPauses = 0
  ReadsFail = TRUE
  MaxRetries = 1
  WorkerBlocks <- FirstBlock
  WritesFail = TRUE
  MaxEarly = 0
  AllowCancel = TRUE
\* The system stops when the file is through.
CHECK_DEADLOCK FALSE
INVARIANTS TypeOK AckedIsStored WindowRespected
PROPERTIES WrittenOnce ImplementsDelivery
