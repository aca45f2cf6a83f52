SPECIFICATION FairSpec
CONSTANTS
  c1 = c1
  c2 = c2
  r1 = r1
  Change = {c1, c2}
  Run = {r1}
  Findings <- OneRun
  Ticker = t
  User = {u}
  Limit = 1
  Retries = 1
  MaxIssues = 1
  MaxKills = 1
  MaxCommands = 2
  None = None
INVARIANTS
  AppliedOnce
  OnlyStaleWritesDisagree
PROPERTY ApprovedIsApplied
