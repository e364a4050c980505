CONSTANTS
  NumFiles = 2
  BatchOf <- OneBatch
  LossKinds <- Asking
  MaxLost = 1
  MaxAttempts = 1
  Faults <- MildFaults
SPECIFICATION FairSpec
INVARIANTS OneAtATime
PROPERTIES SettledStays EveryFileSettles
\* The system stops when the files are through.
CHECK_DEADLOCK FALSE
