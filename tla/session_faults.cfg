CONSTANTS
  NumFiles = 2
  BatchOf <- OneBatch
  LossKinds <- NoKinds
  MaxLost = 0
  MaxAttempts = 0
  Faults <- LocalFaults
SPECIFICATION Spec
INVARIANTS SessionInv AnsweredOnce StreamOnlyAccepted NothingUnasked
\* The system stops when the files are through.
CHECK_DEADLOCK FALSE
