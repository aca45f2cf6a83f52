SPECIFICATION Spec
CONSTANTS
  Run = {r1}
  LastNode = 4
  Execute = 1
  Review = 3
  Limit = 1
  Proc = {p1}
  MaxKills = 0
  None = None
INVARIANTS
  StateAgrees
  ReplayIsCautious
PROPERTY ReconcileRepairs
CHECK_DEADLOCK FALSE
