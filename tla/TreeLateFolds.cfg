SPECIFICATION Spec
CONSTANTS
  None = None
  A = A
  B = B
  Inst = {A, B}
  Rows <- ThreeRows
  Tokens <- Sizes
  ChunkTokens = 2
  ChunkRows = 1
  Threshold = 2
  SpanBase = 10
  MaxItems = 4
  MaxSummaries = 3
  MaxCrashes = 1
  CrashShared = TRUE
SYMMETRY Instances
INVARIANTS LookedUnfolds
CHECK_DEADLOCK FALSE
