--------------------------- MODULE MCHostAction ---------------------------
(* The host actions for TLC: two workers, of which at least one writes a    *)
(* patch, and two hosts.                                                   *)
EXTENDS HostAction

CONSTANTS w1, w2

\* Which of two different workers writes the patch makes no difference.
MCInit == Init /\ patching \in {{w1, w2}, {w1}}

MCSpec == MCInit /\ [][Next]_vars /\ Fairness
=============================================================================
