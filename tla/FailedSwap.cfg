\* FailedSwap
SPECIFICATION Spec
CONSTANTS
  MaxAttempts = 1
  None = None
INVARIANTS
  FailureLeavesOriginal
CHECK_DEADLOCK FALSE
