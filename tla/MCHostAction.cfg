SPECIFICATION MCSpec
CONSTANTS
  w1 = w1
  w2 = w2
  Worker = {w1, w2}
  Host = {h1, h2}
  Claim = {c1, c2, c3}
  MaxAsks = 2
  None = None
INVARIANTS
  ClaimIsHonoured
  WorkspaceIsKept
  OnePatchAtATime
  NoStaleAnswer
  PatchIsOfItsClaim
PROPERTY WorkspaceIsReclaimed
CHECK_DEADLOCK FALSE
