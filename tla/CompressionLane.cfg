SPECIFICATION Spec
CONSTANTS
  None = None
  Worlds <- MCWorlds
INVARIANTS WorkIsKept WrittenOnce OutageDecidesNothing
PROPERTIES EachGetsItsTurn
