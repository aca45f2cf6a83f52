------------------------------ MODULE MCLocks ------------------------------
(* Three processes: an owner that dies and two that clear its lock. *)
EXTENDS Locks
=============================================================================
