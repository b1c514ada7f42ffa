SPECIFICATION Spec
CONSTANTS
  None = None
  A = A
  B = B
  Inst = {A, B}
  Rows <- TwoRows
  Tokens <- Big
  ChunkTokens = 2
  ChunkRows = 1
  Threshold = 2
  SpanBase = 10
  MaxItems = 4
  MaxSummaries = 3
  MaxCrashes = 0
  CrashShared = FALSE
SYMMETRY Instances
INVARIANTS DoneIsSummarised
CHECK_DEADLOCK FALSE
