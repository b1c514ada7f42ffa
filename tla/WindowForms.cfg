SPECIFICATION FormsSpec
CONSTANTS
  None = None
  Newer = Newer
  main = main
  b1 = b1
  h1 = h1
  Named = {1, 2}
  MaxItems = 4
  Branches = {main, b1}
  Main = main
  Worlds <- MCWorlds
INVARIANTS HeardIsWindow UnpresentedIsPresentable LogAsRead SlotIsMemory RefusedCannotFit
PROPERTIES ImplementsAgentWindow WhatIsToldStands
CHECK_DEADLOCK FALSE
