SPECIFICATION Spec
CONSTANTS
  Fallbacks = 1
INVARIANTS AllCalledBack
CHECK_DEADLOCK FALSE
