SPECIFICATION FairSpec
CONSTANTS
  Run = {r1}
  Coordinator = {c1, c2}
  TelemetryTries = 2
  MaxClaims = 3
  MaxKills = 1
  MaxResets = 1
  None = None
INVARIANTS
  ResultIsOfItsClaim
  RecoveryIsCounted
PROPERTIES
  RunsEnd
