--------------------------- MODULE PlanExecution ---------------------------
(* A run from its plan to its review: workers are dispatched for the nodes  *)
(* of the plan (apex-v2.mjs, core/worker.mjs), and execute, verify and      *)
(* review are passed, or the work is taken back to be done again.           *)
(*                                                                          *)
(* What a worker does is in WorkerExecution and HostAction, what becomes of *)
(* its patch in MergeDelivery; here it is open, blocked or finished.        *)
EXTENDS PlanGraph

CONSTANTS
  Intakes,      \* the intakes a run may be for
  Scheduler,    \* dispatches under the scheduler lock: tick --run-agents, drain
  User,         \* dispatch without it: tick --dispatch, worker create
  Limit,        \* wip_limits.parallel_workers
  MaxAttempts,  \* of a worker, by the retry policy
  MaxWorkers,   \* bound on the workers created
  MaxTroubles   \* bound on what goes wrong, by intake

ASSUME PlanExecutionAssumption ==
  /\ \A i \in Intakes : /\ i.explicit \in Packs \cup {None}
                         /\ i.tests # {}              \* "tests/", if nothing else
                         /\ i.routed \in Seq(ToSet(i.routed)) /\ IsInjective(i.routed)
                         /\ BuildTaskPlanGraph(i) # None     \* no plan is none
  /\ Limit \in Nat \ {0} /\ MaxAttempts \in Nat \ {0}
  /\ MaxWorkers \in Nat /\ MaxTroubles \in [Intakes -> Nat]

VARIABLES
  intake,
  plan,          \* plan-graph.json, or None
  node,          \* run.json: execute, verify and review
  workers,       \* worker.json of each, in the order of created_at
  pc,            \* of each dispatching process: what it goes through
  edited,        \* the project is not as it was: an edit that may be undone
  reports,       \* the verification-commit keys, with their answers
  verification,  \* verification-report.json, or None
  refused,       \* the review-generate keys answered with BLOCKED
  rework,        \* rework-request.json
  reworked,      \* the review-rework keys that are committed
  troubles

vars == <<intake, plan, node, workers, pc, edited, reports, verification,
          refused, rework, reworked, troubles>>
stage == <<node, reports, verification, refused, rework, reworked>>

Proc == {Scheduler} \cup User
Created == 1 .. Len(workers)
Idle == [todo |-> {}, node |-> None, generation |-> 0, seen |-> 0,
         stale |-> FALSE, by |-> "dispatch"]

Is(w, statuses) == workers[w].status \in statuses

\* Statuses: a worker is "done" when its evidence or decision is submitted.
Open == {w \in Created : Is(w, {"active", "claimed"})}
Successful == {w \in Created : Is(w, {"done", "queued"})}
Of(n) == {w \in Created : workers[w].node = n}

\* usesPostVerificationReview.
ReviewsLast == Workflow(plan.pack) \in {"quick", "governed_v2"}

\* workerCountsForCurrentStage.
Counts(w) ==
  \/ ~ReviewsLast
  \/ IF /\ rework.status = "open"
        /\ workers[w].node \in {"implementation", "tests", "review"}
     THEN w \notin rework.superseded
     ELSE workers[w].node = "review" => verification # None /\ w > verification.at

Counting == {w \in Created : Counts(w)}
Latest(S) == IF S = {} THEN None ELSE Max(S)
LatestOf(n) == Latest(Of(n) \cap Counting)

\* What the candidate's digest is made of.
Digest == [patches |-> {w \in Created : Is(w, {"queued"})}, edited |-> edited]

\* advanceRunPlanning: a plan that cannot be built, or is not valid, throws.
Plan(i) ==
  LET built == BuildTaskPlanGraph(i) IN
  IF built.ok /\ ValidatePlanGraph(built, i) THEN built ELSE None

\* The run is planned before anything else is done for it.
Init ==
  /\ intake \in Intakes
  /\ plan = Plan(intake)
  /\ node = [n \in {"execute", "verify", "review"} |-> "pending"]
  /\ workers = <<>>
  /\ pc = [p \in Proc |-> Idle]
  /\ edited = FALSE
  /\ reports = {}
  /\ verification = None
  /\ refused = {}
  /\ rework = [status |-> "none", superseded |-> {}]
  /\ reworked = {}
  /\ troubles = 0

\* What the run is followed to: MergeDelivery goes on from a passed review.
Ended == node["review"] = "passed" \/ node["execute"] = "halted"

\* What agents, users and others do against the plan is bounded.
Trouble == ~Ended /\ troubles < MaxTroubles[intake] /\ troubles' = troubles + 1

-----------------------------------------------------------------------------
(* Dispatch: the nodes are chosen from one look at the workers, and each is *)
(* then counted and created by itself.                                      *)

\* A mistake: dispatch is over with execute.
StageOpenForExecute(n) ==
  /\ node["execute"] = "pending"
  /\ ReviewsLast /\ Barrier(n) = "delivery-readiness" => node["verify"] = "passed"

StageOpen(n) ==
  IF ReviewsLast /\ Barrier(n) = "delivery-readiness"
  THEN node["verify"] = "passed" /\ (node["execute"] = "pending" \/ node["review"] = "pending")
  ELSE node["execute"] = "pending"

Ready ==
  {n \in ToSet(plan.nodes) :
    /\ Of(n) \cap Counting = {}
    /\ \A d \in Dependencies(plan, n) : Of(d) \cap Successful # {}
    /\ StageOpen(n)}

\* Nodes are dispatched in the order of the plan.
Place(n) == SelectInSeq(plan.nodes, LAMBDA m : m = n)

DispatchRead(p) ==
  LET available == Limit - Cardinality(Open)
      todo == {n \in Ready :
                 Cardinality({m \in Ready : Place(m) < Place(n)}) < available}
  IN /\ plan # None /\ ~Ended
     /\ pc[p] = Idle
     /\ available > 0 /\ todo # {}
     /\ pc' = [pc EXCEPT ![p] = [Idle EXCEPT !.todo = todo, !.seen = Len(workers)]]
     /\ IF p = Scheduler THEN UNCHANGED troubles ELSE Trouble
     /\ UNCHANGED <<intake, plan, workers, edited, stage>>

\* worker create: any node without a worker; none is merged before the review.
CreateRead(p, n) ==
  /\ plan # None /\ pc[p] = Idle
  /\ n \in ToSet(plan.nodes)
  /\ Of(n) = {}
  /\ pc' = [pc EXCEPT ![p] = [Idle EXCEPT !.todo = {n}, !.seen = Len(workers),
                                          !.by = "user"]]
  /\ Trouble
  /\ UNCHANGED <<intake, plan, workers, edited, stage>>

\* The generation is part of the key of the transaction ...
CountGeneration(p) ==
  /\ pc[p].node = None
  /\ \E n \in pc[p].todo :
       /\ \A m \in pc[p].todo : Place(n) <= Place(m)
       /\ pc' = [pc EXCEPT ![p].todo = @ \ {n}, ![p].node = n,
                           ![p].generation = Cardinality(Of(n)) + 1,
                           ![p].stale = Len(workers) > pc[p].seen]
  /\ UNCHANGED <<intake, plan, workers, edited, stage, troubles>>

NewWorker(p) ==
  [node |-> pc[p].node, generation |-> pc[p].generation, status |-> "active",
   attempt |-> 0, saw |-> None, posture |-> "none", by |-> pc[p].by,
   stale |-> pc[p].stale]

\* The nodes that are left; a worker of its own is no news to a process.
Onward(p, own) ==
  IF pc[p].todo = {} THEN Idle
  ELSE [pc[p] EXCEPT !.node = None, !.generation = 0, !.seen = @ + own]

\* ... which is answered from the record if another process was there first.
ReplayCreate(p) ==
  /\ pc[p].node # None
  /\ \E w \in Of(pc[p].node) : workers[w].generation = pc[p].generation
  /\ pc' = [pc EXCEPT ![p] = Onward(p, 0)]
  /\ UNCHANGED <<intake, plan, workers, edited, stage, troubles>>

Unprovided(n) == ~intake.providers /\ \E c \in Carried(plan, n) : c.required /\ c.provider

\* A mistake: the transaction has no key.
CreateWorkerAnew(p) ==
  /\ pc[p].node # None
  /\ ~Unprovided(pc[p].node)
  /\ Len(workers) < MaxWorkers
  /\ workers' = Append(workers, NewWorker(p))
  /\ pc' = [pc EXCEPT ![p] = Onward(p, 1)]
  /\ UNCHANGED <<intake, plan, edited, stage, troubles>>

CreateWorker(p) ==
  /\ pc[p].node # None
  /\ \A w \in Of(pc[p].node) : workers[w].generation # pc[p].generation
  /\ ~Unprovided(pc[p].node)
  /\ Len(workers) < MaxWorkers
  /\ workers' = Append(workers, NewWorker(p))
  /\ pc' = [pc EXCEPT ![p] = Onward(p, 1)]
  /\ UNCHANGED <<intake, plan, edited, stage, troubles>>

\* Without the provider of a capability the dispatch ends there, for all nodes.
CreateThrows(p) ==
  /\ pc[p].node # None
  /\ Unprovided(pc[p].node)
  /\ pc' = [pc EXCEPT ![p] = Idle]
  /\ UNCHANGED <<intake, plan, workers, edited, stage, troubles>>

Dispatch(p) ==
  \/ DispatchRead(p) \/ CountGeneration(p) \/ ReplayCreate(p)
  \/ CreateWorker(p) \/ CreateThrows(p)

-----------------------------------------------------------------------------
(* Workers, as the run sees them.                                           *)

Becomes(w, status) == workers' = [workers EXCEPT ![w].status = status]

\* An agent takes its work; a reviewer is told what the candidate is then.
Claim(w) ==
  /\ Is(w, {"active"})
  /\ workers' = [workers EXCEPT
       ![w].status = "claimed",
       ![w].saw = IF workers[w].node = "review" THEN Digest ELSE None]
  /\ UNCHANGED <<intake, plan, pc, edited, stage, troubles>>

Submit(w) ==
  /\ Is(w, {"claimed"})
  /\ \/ /\ workers[w].node # "review"
        /\ Becomes(w, IF ExecutionClass(workers[w].node) = "workspace_patch"
                      THEN "queued" ELSE "done")
        /\ UNCHANGED troubles
     \/ /\ workers[w].node = "review"
        /\ \E posture \in {"approve", "block"} :
             /\ workers' = [workers EXCEPT ![w].status = "done", ![w].posture = posture]
             /\ IF posture = "block" THEN Trouble ELSE UNCHANGED troubles
  /\ UNCHANGED <<intake, plan, pc, edited, stage>>

Fail(w) ==
  /\ Is(w, {"claimed"})
  /\ workers' = [workers EXCEPT ![w].status = "blocked", ![w].attempt = @ + 1]
  /\ Trouble
  /\ UNCHANGED <<intake, plan, pc, edited, stage>>

\* host cancel: the worker stays, and is never taken up again.
Cancel(w) ==
  /\ Is(w, {"claimed"})
  /\ Becomes(w, "cancelled")
  /\ Trouble
  /\ UNCHANGED <<intake, plan, pc, edited, stage>>

\* merge resolve: of two patches in conflict one is kept. The scopes of two
\* nodes are apart, so that they are patches of one node.
DropPatch(w) ==
  /\ Is(w, {"queued"})
  /\ \E kept \in Of(workers[w].node) \ {w} : Is(kept, {"queued"})
  /\ Becomes(w, "dropped")
  /\ Trouble
  /\ UNCHANGED <<intake, plan, pc, edited, stage>>

\* Somebody changes the project, or takes the change back.
EditProject ==
  /\ edited' = ~edited
  /\ Trouble
  /\ UNCHANGED <<intake, plan, workers, pc, stage>>

Retry(w) ==
  /\ ~Ended
  /\ Is(w, {"blocked"}) /\ workers[w].attempt < MaxAttempts
  /\ Becomes(w, "active")
  /\ UNCHANGED <<intake, plan, pc, edited, stage, troubles>>

\* The run is halted for any worker that is blocked for good.
HaltBlockedRun ==
  /\ ~Ended
  /\ Open = {}
  /\ \E w \in Created : Is(w, {"blocked"})
  /\ \A w \in Created : Is(w, {"blocked"}) => workers[w].attempt >= MaxAttempts
  /\ node' = [node EXCEPT !["execute"] = "halted"]
  /\ UNCHANGED <<intake, plan, workers, pc, edited, reports, verification,
                 refused, rework, reworked, troubles>>

-----------------------------------------------------------------------------
(* The stages of a tick.                                                    *)

ExecuteNodes ==
  {n \in ToSet(plan.nodes) : ReviewsLast => Barrier(n) # "delivery-readiness"}

CompleteExecute ==
  /\ plan # None
  /\ node["execute"] = "pending"
  /\ \A n \in ExecuteNodes : LatestOf(n) \in Successful
  /\ node' = [node EXCEPT !["execute"] = "passed"]
  /\ UNCHANGED <<intake, plan, workers, pc, edited, reports, verification,
                 refused, rework, reworked, troubles>>

\* A candidate is verified once: its answer is kept, and the report that is
\* on disk remains that of the candidate verified last.
Verdict(status) ==
  \/ /\ \A r \in reports : r.of # Digest
     /\ reports' = reports \cup {[of |-> Digest, status |-> status]}
     /\ verification' = [of |-> Digest, status |-> status, at |-> Len(workers)]
     /\ IF status = "FAIL" THEN Trouble ELSE UNCHANGED troubles
  \/ /\ [of |-> Digest, status |-> status] \in reports
     /\ UNCHANGED <<reports, verification, troubles>>

VerifyReadyRun ==
  /\ node["execute"] = "passed" /\ node["verify"] = "pending"
  /\ \E status \in {"PASS", "FAIL"} :
       /\ Verdict(status)
       /\ node' = IF status = "PASS" THEN [node EXCEPT !["verify"] = "passed"]
                                     ELSE node
  /\ UNCHANGED <<intake, plan, workers, pc, edited, refused, rework, reworked>>

\* verify run: the report without the node.
VerifyAgain ==
  /\ ~Ended
  /\ node["execute"] = "passed"
  /\ \E status \in {"PASS", "FAIL"} : Verdict(status)
  /\ UNCHANGED <<intake, plan, node, workers, pc, edited, refused, rework, reworked>>

\* A review is asked for if the plan's reviewer, where it has one, is done.
ReviewReady ==
  /\ plan # None
  /\ node["verify"] = "passed" /\ node["review"] = "pending"
  /\ node["execute"] # "halted"
  /\ ReviewsLast => LatestOf("review") \in Successful

\* The reviewer that is heard is the latest of all there were.
Reviewer == workers[Latest(Of("review"))]

Approved ==
  /\ verification.status = "PASS" /\ verification.of = Digest
  /\ ReviewsLast => /\ Reviewer.status = "done"
                    /\ Reviewer.saw = Digest
                    /\ Reviewer.posture = "approve"

\* generateReviewInternal answers a key as it did the first time.
ReviewKey == <<verification, Digest>>

PassReview ==
  /\ ReviewReady
  /\ Approved /\ ReviewKey \notin refused
  /\ node' = [node EXCEPT !["review"] = "passed"]
  /\ rework' = [rework EXCEPT !.status = IF @ = "open" THEN "resolved" ELSE @]
  /\ UNCHANGED <<intake, plan, workers, pc, edited, reports, verification,
                 refused, reworked, troubles>>

Refused == ReviewReady /\ (~Approved \/ ReviewKey \in refused)
AsksForRework == ReviewsLast /\ Reviewer.posture = "block"

\* governedReviewRequestsRework is false, or its key is committed.
RefuseReview ==
  /\ Refused /\ ReviewKey \notin refused
  /\ AsksForRework => Digest \in reworked
  /\ refused' = refused \cup {ReviewKey}
  /\ UNCHANGED <<intake, plan, node, workers, pc, edited, reports, verification,
                 rework, reworked, troubles>>

\* reopenGovernedCandidate: all patches are dropped, and what was done for the
\* candidate no longer counts.
ReopenCandidate ==
  /\ Refused /\ AsksForRework
  /\ Digest \notin reworked
  /\ node' = [n \in DOMAIN node |-> "pending"]
  /\ workers' = [w \in Created |->
       IF Is(w, {"queued"}) THEN [workers[w] EXCEPT !.status = "dropped"]
                            ELSE workers[w]]
  /\ rework' = [status |-> "open", superseded |->
       UNION {Of(n) : n \in {"implementation", "tests", "review"}}]
  /\ refused' = refused \cup {ReviewKey}
  /\ reworked' = reworked \cup {Digest}
  /\ UNCHANGED <<intake, plan, pc, edited, reports, verification, troubles>>

-----------------------------------------------------------------------------
Stages ==
  \/ CompleteExecute \/ VerifyReadyRun
  \/ PassReview \/ RefuseReview \/ ReopenCandidate

Next ==
  \/ \E p \in Proc : Dispatch(p)
  \/ \E p \in User, n \in {"context", "risk", "design", "challenger",
       "implementation", "tests", "verification", "review"} : CreateRead(p, n)
  \/ \E w \in Created :
       Claim(w) \/ Submit(w) \/ Fail(w) \/ Cancel(w) \/ DropPatch(w) \/ Retry(w)
  \/ EditProject \/ VerifyAgain
  \/ HaltBlockedRun
  \/ Stages

\* The scheduler goes on, and an agent answers what it is asked; a user may
\* leave off anywhere.
Fairness ==
  /\ WF_vars(Dispatch(Scheduler))
  /\ \A w \in 1 .. MaxWorkers :
       /\ WF_vars(w \in Created /\ Claim(w))
       /\ WF_vars(w \in Created /\ Submit(w))
       /\ WF_vars(w \in Created /\ Retry(w))
  /\ WF_vars(HaltBlockedRun)
  /\ WF_vars(CompleteExecute) /\ WF_vars(VerifyReadyRun)
  /\ WF_vars(PassReview \/ RefuseReview \/ ReopenCandidate)

Spec == Init /\ [][Next]_vars /\ Fairness

-----------------------------------------------------------------------------
(* Properties.                                                              *)

\* A plan that is built is one that the validation accepts, unless the scopes
\* of the implementation and of the tests are apart by the one judgement of
\* overlap and not by the other, or the old pack has nowhere to implement: then
\* no run can be planned for the intake, and every tick fails at it.
PlansAreValid ==
  plan = None /\ BuildTaskPlanGraph(intake).ok =>
    \/ ~Disjoint(ScopesOverlap, intake.impl, intake.tests)
    \/ intake.impl = {} /\ intake.explicit = "governed-v1"

\* Every capability that was routed to the run is carried by one node, which
\* can carry it and has room for it, or it is run by the kernel.
CapabilitiesAreBound ==
  plan # None =>
    /\ \A c \in ToSet(intake.routed) :
         Cardinality({n \in ToSet(plan.nodes) : c \in Carried(plan, n)})
           + (IF c \in plan.kernel THEN 1 ELSE 0) = 1
    /\ \A n \in ToSet(plan.nodes) : \A c \in Carried(plan, n) :
         /\ Compatible(c, n)
         /\ c.category \in {"core", "conditional"} =>
              Cardinality({d \in Carried(plan, n) : d.category = c.category})
                <= Limits(Workflow(plan.pack))[c.category]

Rank(n) == SelectInSeq(Barriers, LAMBDA b : b = Barrier(n))

\* A worker is dispatched for a node only when the work of every earlier
\* barrier has been done, also that of a node it does not wait for, and also
\* when the work is done again: the dependencies and the state of the stages
\* imply the barriers, which dispatch never looks at. Users may create a
\* worker ahead of them.
BarriersHold ==
  plan # None /\ (\A w \in Created : workers[w].by = "dispatch") =>
    \A w \in Created, n \in ToSet(plan.nodes) :
      Rank(n) < Rank(workers[w].node) =>
        \E v \in Of(n) : v < w /\ Is(v, {"done", "queued", "dropped"})

\* A node has two workers for the same candidate only if the process that
\* created one had chosen the node before the other existed, and counted the
\* generation after: the key of the transaction closes the rest of the gap.
OneWorkerPerNode ==
  node["review"] = "pending" =>
    \A v, w \in Counting :
      v < w /\ workers[v].node = workers[w].node => workers[w].stale

-----------------------------------------------------------------------------
(* The ends a run may come to without an answer.                            *)

Unplannable == plan = None

LacksProvider == plan # None /\ \E n \in ToSet(plan.nodes) : Of(n) = {} /\ Unprovided(n)

\* The latest worker of a node is cancelled or dropped: it counts, so that no
\* other is created, and it does not succeed.
LostWork ==
  /\ plan # None
  /\ \E n \in ToSet(plan.nodes) :
       /\ StageOpen(n)
       /\ LatestOf(n) # None /\ Is(LatestOf(n), {"cancelled", "dropped"})

\* The candidate has failed, and its answer is kept.
FailedCandidate ==
  /\ node["execute"] = "passed" /\ node["verify"] = "pending"
  /\ [of |-> Digest, status |-> "FAIL"] \in reports

\* The review of the candidate was refused and is not asked for again.
RefusedForGood ==
  /\ Refused /\ ReviewKey \in refused
  /\ AsksForRework => Digest \in reworked

Stranded ==
  Unplannable \/ LacksProvider \/ LostWork \/ FailedCandidate \/ RefusedForGood

\* A run comes to a review that passes, is halted, or stays in one of the
\* ends above: there is no other way for dispatch, the stages, retries and
\* rework to wait for each other.
RunAdvances ==
  <>[](node["review"] = "passed" \/ node["execute"] = "halted" \/ Stranded)
=============================================================================
