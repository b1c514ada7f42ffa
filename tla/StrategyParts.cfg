SPECIFICATION PartsSpec
CONSTANTS
  None = None
  A = A
  B = B
  I = I
  J = J
  main = main
  b1 = b1
  h1 = h1
  h2 = h2
  Instance = {A, B}
  Worlds <- MCWorlds
SYMMETRY Instances
INVARIANTS PaidOnce AlertedOnce RowsTold RequestPairs SentWhereMinted FoldedOnce LookedUnfolds AloneDoneIsSummarised
PROPERTIES NothingBack LedgerKeeps NeverRefused
CHECK_DEADLOCK FALSE
