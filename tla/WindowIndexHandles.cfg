SPECIFICATION PartsSpec
CONSTANTS
  None = None
  Handles = {h1, h2}
  Branches = {main, b1}
  Main = main
  Bodies0 <- MCBodies1
  Logs0 <- MCNoLogs
  Outcomes <- MCOutcomes
  MaxSeq = 4
  MaxNames = 1
  MaxLoss = 1
INVARIANTS TypeOK ReadingIsStore CutKeepsRow PresentedOnce WriteDownIsRecord PlanIsSent ControlHolds
CHECK_DEADLOCK FALSE
