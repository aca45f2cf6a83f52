SPECIFICATION Spec
CONSTANTS
  p1 = p1
  p2 = p2
  file = file
  default = default
  Patch = {p1, p2}
  OpKey = {p1, p2, file}
  Reason = {default}
  Base = {b1, b2}
  Actor = {a1, a2}
  Kind <- Kinds
  None = None
SYMMETRY ActorSymmetry
INVARIANTS
  OnlyRacesBreakTheDelivery
  ClearedIsMergeable
  MergedWasCleared
