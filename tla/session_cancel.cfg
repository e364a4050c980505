CONSTANTS
  NumFiles = 2
  BatchOf <- CallsEach
  LossKinds <- NoKinds
  MaxLost = 0
  MaxAttempts = 0
  Faults <- UserFaults
SPECIFICATION Spec
INVARIANTS NoIdleSlot
\* The system stops when the files are through.
CHECK_DEADLOCK FALSE
