SPECIFICATION FairSpec
CONSTANTS
  Claim = {c1, c2, c3}
  Operator = {scheduler}
  MaxAttempts = 2
  MaxExecutor = 2
  None = None
INVARIANTS
  NoDuplicateExecution
  OneResultPerAttempt
PROPERTIES
  OnlyNewestClaimLands
  RunningEnds
