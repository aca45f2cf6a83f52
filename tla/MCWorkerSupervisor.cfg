SPECIFICATION SupervisorSpec
CONSTANTS
  Jobs = 2
  MaxConcurrency = 1
  Kind <- Kinds
  NoReason = NoReason
CHECK_DEADLOCK FALSE
INVARIANTS
  StatusIsTrue
PROPERTIES
  GroupsEnd
  RunIsAnswered
