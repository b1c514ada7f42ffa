SPECIFICATION Spec
CONSTANTS
  None = None
  MinRows = 2
  Worlds <- Combined
INVARIANT TellsAll
CHECK_DEADLOCK FALSE
