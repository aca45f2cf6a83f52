SPECIFICATION Spec
CONSTANTS
  None = None
  Intakes <- Every
  Scheduler = s
  User = {u}
  Limit = 2
  MaxAttempts = 2
  MaxWorkers = 12
  MaxTroubles <- Troubles
INVARIANTS
  PlansAreValid
  CapabilitiesAreBound
  BarriersHold
  OneWorkerPerNode
PROPERTY RunAdvances
CHECK_DEADLOCK FALSE
