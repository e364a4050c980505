SPECIFICATION FairSpec
CONSTANTS
  NumBlocks = 2
  NumChunks = 1
  DamageKinds <- NoDamage
  MaxDataLoss = 1
  MaxCtlLoss = 1
  MaxLoss = 1
  MaxDamage = 0
  InitialCredits = 2
  MaxCredits = 2
  MaxPauses = 1
  ReadsFail = FALSE
  MaxRetries = 1
  WorkerBlocks <- FirstBlock
  WritesFail = FALSE
  MaxEarly = 0
  AllowCancel = FALSE
\* The system stops when the file is through.
CHECK_DEADLOCK FALSE
INVARIANT BlocksNotForgotten
PROPERTIES SenderLearns ReceiverDelivers
