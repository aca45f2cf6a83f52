SPECIFICATION LocksSpec
CONSTANTS
  Proc = {p1, p2, p3}
  None = None
  OwnerlessLocks = TRUE
INVARIANTS
  OnlyMisfiresBreakTheLock
PROPERTY EveryWaiterEnds
