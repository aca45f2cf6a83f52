SPECIFICATION FairSpec
CONSTANTS
  Run = {r1}
  LastNode = 3
  Execute = 1
  Review = 2
  Limit = 1
  Proc = {p1}
  MaxKills = 2
  None = None
INVARIANTS
  StateAgrees
  ReplayIsCautious
PROPERTIES
  ReconcileRepairs
  NoRunIsForgotten
CHECK_DEADLOCK FALSE
