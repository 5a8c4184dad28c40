SPECIFICATION Spec
CONSTANTS
  MaxAttempt = 7
  MaxDuration = 20
  MaxInt = 63
INVARIANTS
  DoublesUpToCap
  WithinBounds
CHECK_DEADLOCK FALSE
