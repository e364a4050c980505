CONSTANTS
  b1 = b1
  b2 = b2
  b3 = b3
  Blocks <- MCBlocks
SPECIFICATION Spec
INVARIANT FallbackLosesNothing
CHECK_DEADLOCK FALSE
