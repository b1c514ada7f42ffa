SPECIFICATION PartsSpec
CONSTANTS
  None = None
  Refused = Refused
  Threshold = 2
  SpanBase = 10
  MaxCopies = 4
  Ids <- MCIds
  Variants <- MCVariants
  RecordLists <- MCRecordLists
  At <- MCAt
INVARIANTS OneParent SettlesOnce CutMergesSettle CutsAreLegal RepairUncrosses MintsTellHistory
CHECK_DEADLOCK FALSE
