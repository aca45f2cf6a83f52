SPECIFICATION Spec
CONSTANTS
  Run = {r1}
  LastNode = 3
  Execute = 1
  Review = 2
  Limit = 1
  Proc = {p1}
  MaxKills = 0
  None = None
INVARIANT ReplayKeepsPartialRuns
CHECK_DEADLOCK FALSE
