--------------------------- MODULE MCLearningJobs ---------------------------
(* One run whose review proposes two texts.                                 *)
EXTENDS LearningJobs

CONSTANTS c1, c2, r1

OneRun == [r \in {r1} |-> {c1, c2}]
=============================================================================
