SPECIFICATION Spec
CONSTANTS
  Warm = 2
  Dur = 2
  Grace = 1
  Cap = 1
  MaxSent = 3
  MaxExtra = 2
INVARIANT CountsMatch NoFalseFailure BlastsToDeadline
PROPERTY Returns
CHECK_DEADLOCK FALSE
