SPECIFICATION Spec
CONSTANTS
  Messages = {a, b}
  MaxEntries = 3
INVARIANT IndexIsPlace
CHECK_DEADLOCK FALSE
