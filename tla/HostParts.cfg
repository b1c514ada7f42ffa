SYMMETRY Siblings
SPECIFICATION PartsSpec
CONSTANTS
  None = None
  A = A
  B = B
  D = D
  view = view
  Root = root
  Main = main
  Branches = {main, b1}
  Instances = {A, B, D}
  HandleOf <- MCHandleOf
  Rows0 <- MCRows0
  Worlds <- MCWorlds
INVARIANTS ReadsWhatIsStored HeardIsDurable
PROPERTIES BodiesGoWhole AppendsStayCheap ChangesAreTold
CHECK_DEADLOCK FALSE
