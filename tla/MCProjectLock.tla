--------------------------- MODULE MCProjectLock ---------------------------
(* Processes are interchangeable. *)
EXTENDS ProjectLock, TLC

ProcSymmetry == Permutations(Proc)
=============================================================================
