SPECIFICATION Spec
CONSTANTS
  Run = {r1, r2, r3, r4}
  LastNode = 3
  Execute = 1
  Review = 2
  Limit = 2
  Proc = {p1, p2}
  MaxKills = 0
  None = None
SYMMETRY RunSymmetry
INVARIANT OpenRunsWithinLimit
CHECK_DEADLOCK FALSE
