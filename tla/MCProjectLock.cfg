SPECIFICATION Spec
CONSTANTS
  Proc = {p1, p2, p3, p4}
  None = None
  OwnerlessLocks = FALSE
SYMMETRY ProcSymmetry
INVARIANT MutualExclusion
