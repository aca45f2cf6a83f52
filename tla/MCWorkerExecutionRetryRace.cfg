SPECIFICATION Spec
CONSTANTS
  Claim = {c1, c2, c3}
  Operator = {scheduler, user}
  MaxAttempts = 2
  MaxExecutor = 2
  None = None
INVARIANT NoDuplicateExecution
