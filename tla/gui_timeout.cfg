SPECIFICATION Spec
CONSTANTS
  MaxRequests = 3
  MaxTimeouts = 1
  MayDie = FALSE
INVARIANT PreviousConsumed
CHECK_DEADLOCK FALSE
