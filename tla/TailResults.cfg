SPECIFICATION Spec
CONSTANTS
  None = None
  MinRows = 2
  Worlds <- Results
INVARIANT RefusedForBudget
CHECK_DEADLOCK FALSE
