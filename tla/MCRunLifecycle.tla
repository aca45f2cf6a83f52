-------------------------- MODULE MCRunLifecycle --------------------------
(* Runs for TLC.                                                           *)
EXTENDS RunLifecycle, TLC

RunSymmetry == Permutations(Run)
=============================================================================
