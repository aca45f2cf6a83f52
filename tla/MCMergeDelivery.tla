-------------------------- MODULE MCMergeDelivery --------------------------
(* The kinds of run that are looked at, and the bounds of each.             *)
EXTENDS MergeDelivery, TLC

CONSTANTS p1, p2, file, default

Conflicting == (p1 :> {file}) @@ (p2 :> {file})
Apart == (p1 :> {p1}) @@ (p2 :> {p2})

\* Two processes and two patches in conflict.
Raced == [approval |-> FALSE, evidence |-> FALSE, ticksOnly |-> FALSE,
          keys |-> Conflicting, reasons |-> {default},
          maxEdits |-> 0, maxReports |-> 1, maxBusy |-> 2]

\* A merge that needs an approval, the candidate verified and reviewed again:
\* once the project is edited, or with another patch.
Edited == [Raced EXCEPT !.approval = TRUE, !.keys = p1 :> {file}, !.reasons = {},
                        !.maxEdits = 1, !.maxReports = 2, !.maxBusy = 1]
Grown == [Edited EXCEPT !.keys = Apart, !.maxEdits = 0]

\* A verification that was begun before the merge goes on after it.
Twice == [Raced EXCEPT !.keys = p1 :> {file}, !.reasons = {}, !.maxReports = 2]

\* Nothing to merge.
EvidenceOnly == [Edited EXCEPT !.approval = FALSE, !.evidence = TRUE]

Kinds == [raced |-> Raced, edited |-> Edited, grown |-> Grown, twice |-> Twice,
          evidence |-> EvidenceOnly]

\* A run that ticks alone carry on.
Ticked == [ticked |-> [Raced EXCEPT !.keys = p1 :> {file}, !.ticksOnly = TRUE, !.maxBusy = 1]]

Alone == [alone |-> [Raced EXCEPT !.keys = Apart, !.maxBusy = 1]]
TwiceOnly == [twice |-> Twice]

\* Processes are interchangeable.
ActorSymmetry == Permutations(Actor)
=============================================================================
