--------------------------- MODULE RunLifecycle ---------------------------
(***************************************************************************)
(* Delivery runs: src/src/core/run-state.mjs, commands/run.mjs, passNode    *)
(* and the tick of apex-v2.mjs, core/store.mjs and core/reconcile.mjs.      *)
(* The state of a run is kept four times: in its run.json, in active_runs   *)
(* of project.json, in the roadmap, and in events.jsonl, from which         *)
(* replayProjectStateFromEvents rebuilds active_runs.  Most commands write  *)
(* them one after the other, with no lock and no transaction, and may be    *)
(* killed in between; reconcile compares and repairs them.  What runs in a  *)
(* transaction is one step (ProjectTransaction).                            *)
(***************************************************************************)
EXTENDS Naturals, Sequences, FiniteSets

CONSTANTS
  Run,        \* run ids: run-create:<roadmap node> allows one per roadmap node
  LastNode,   \* the nodes of a run are 1..LastNode; the last is learn
  Execute,    \* the node execute; those before it are planning
  Review,     \* the node review; verify is the one before, integrate comes after
  Limit,      \* wip_limits.active_runs
  Proc,       \* operators: users and ticks that run commands side by side
  MaxKills,   \* bound: commands killed in between
  None

ASSUME RunAssumption ==
  /\ LastNode \in Nat \ {0} /\ Execute \in 1..LastNode - 1
  /\ Review \in Execute + 1..LastNode - 1
  /\ Limit \in Nat /\ MaxKills \in Nat
  /\ None \notin Run

Node == 1..LastNode

VARIABLES
  created,  \* runs with a run.json
  run,      \* [Run -> run.json]
  roadmap,  \* [Run -> status of its node in roadmap/graph.json]
  active,   \* active_runs of project.json
  behind,   \* last_event_id of project.json is not the last event
  replay,   \* what replayProjectStateFromEvents makes of events.jsonl
  todo,     \* [Proc -> the writes its command has still to make]
  cmd,      \* [Proc -> what its command has read and decided]
  kills,    \* commands killed so far
  cut       \* a command was killed since reconcile last ended

vars == <<created, run, roadmap, active, behind, replay, todo, cmd, kills, cut>>

NodeStatus == {"pending", "active", "passed", "partial_pass", "failed", "halted"}

\* failed stands for failed_rework, failed_replan and escalated.  A partial
\* pass leaves one carry-forward item, named by its node.
RunFile == [status : {"planned", "active", "paused", "done", "halted"},
            node : [Node -> NodeStatus],
            carry : [Node -> {"none", "open", "handled"}],
            closed : BOOLEAN]

Replay == [active : SUBSET Run, partial : SUBSET Run, learned : SUBSET Run,
           open : [Run -> SUBSET Node]]

Gate == {"PASS", "PARTIAL_PASS", "FAIL", "HALT"}

Write == {"read_active", "write_active", "read_roadmap", "write_roadmap", "write_run",
          "completed", "carry", "halted", "closed", "derive", "fix_runs", "reconciled"}

Command == [run : Run \cup {None}, node : Node, gate : Gate, copy : RunFile,
            active : SUBSET Run, roadmap : [Run -> {"ready", "active", "done", "blocked"}],
            left : SUBSET Run]

TypeOK ==
  /\ created \in SUBSET Run
  /\ run \in [Run -> RunFile]
  /\ roadmap \in [Run -> {"ready", "active", "done", "blocked"}]
  /\ active \in SUBSET Run
  /\ behind \in BOOLEAN
  /\ replay \in Replay
  /\ todo \in [Proc -> Seq(Write)]
  /\ cmd \in [Proc -> Command]
  /\ kills \in 0..MaxKills
  /\ cut \in BOOLEAN

Planned == [status |-> "planned", node |-> [n \in Node |-> "pending"],
            carry |-> [n \in Node |-> "none"], closed |-> FALSE]

Idle == [run |-> None, node |-> 1, gate |-> "PASS", copy |-> Planned,
         active |-> {}, roadmap |-> [r \in Run |-> "ready"], left |-> {}]

Init ==
  /\ created = {}
  /\ run = [r \in Run |-> Planned]
  /\ roadmap = [r \in Run |-> "ready"]
  /\ active = {}
  /\ behind = FALSE
  /\ replay = [active |-> {}, partial |-> {}, learned |-> {}, open |-> [r \in Run |-> {}]]
  /\ todo = [p \in Proc |-> <<>>]
  /\ cmd = [p \in Proc |-> Idle]
  /\ kills = 0
  /\ cut = FALSE

----------------------------------------------------------------------------
(* The event log, as the code replays it.                                  *)

EventCreated(x, r) == [x EXCEPT !.active = @ \cup {r}]

EventHalted(x, r) ==
  [x EXCEPT !.active = @ \ {r}, !.partial = @ \ {r}, !.learned = @ \ {r}, !.open[r] = {}]

EventClosed(x, r) == [x EXCEPT !.active = @ \ {r}, !.learned = @ \cup {r}]

EventCompleted(x, r, n, gate) ==
  LET y == IF gate = "PARTIAL_PASS"
           THEN [x EXCEPT !.partial = @ \cup {r}, !.open[r] = @ \cup {n}]
           ELSE x
  IN IF n = LastNode /\ gate \in {"PASS", "PARTIAL_PASS"}
     THEN [y EXCEPT !.learned = @ \cup {r},
                    !.active = IF r \in y.partial THEN @ ELSE @ \ {r}]
     ELSE y

EventCarryHandled(x, r, n) ==
  LET y == [x EXCEPT !.open[r] = @ \ {n},
                     !.partial = IF x.open[r] \subseteq {n} THEN @ \ {r} ELSE @]
  IN [y EXCEPT !.active = IF r \notin y.partial /\ r \in y.learned THEN @ \ {r} ELSE @]

\* A mistake: the runs of the event are not taken over.
EventReconciledInPart(x, ids) == [x EXCEPT !.partial = {}, !.learned = {}]

\* The open items of runs are kept.
EventReconciled(x, ids) == [x EXCEPT !.active = ids, !.partial = {}, !.learned = {}]

----------------------------------------------------------------------------
(* run.json.                                                               *)

All(f, statuses) == \A n \in Node : f.node[n] \in statuses

\* promoteHandledCarrySource
Promoted(f, n) ==
  IF f.node[n] = "partial_pass" /\ f.carry[n] = "handled"
  THEN [f EXCEPT !.node[n] = "passed"]
  ELSE f

\* closeRunIfComplete, what it does to the copy of run.json.
Closed(f) ==
  IF ~All(f, {"passed", "partial_pass"}) THEN f
  ELSE IF All(f, {"passed"}) /\ \A n \in Node : f.carry[n] # "open"
       THEN [f EXCEPT !.status = "done"]
       ELSE [f EXCEPT !.status = "paused"]

ExpectedStatus(f) ==
  IF \E n \in Node : f.node[n] = "halted" THEN "halted"
  ELSE IF All(f, {"passed"}) THEN "done"
  ELSE IF All(f, {"passed", "partial_pass"}) THEN "paused"
  ELSE IF All(f, {"pending"}) THEN "planned" ELSE "active"

\* normalizeRunForReconciliation
Normalized(f) ==
  LET g == [f EXCEPT !.node = [n \in Node |-> Promoted(f, n).node[n]]]
  IN IF g # f /\ All(g, {"passed"}) THEN [g EXCEPT !.status = "done"] ELSE g

Finished(f) == ExpectedStatus(Normalized(f)) \in {"done", "halted"}

\* A mistake: only runs in the list are looked at.
DerivedFromList == {r \in created \cap active : ~Finished(run[r])}

DerivedActive == {r \in created : ~Finished(run[r])}

DerivedRoadmap(f) ==
  LET s == ExpectedStatus(Normalized(f))
  IN IF s = "done" THEN "done" ELSE IF s = "halted" THEN "blocked" ELSE "active"

----------------------------------------------------------------------------
(* Commands in one transaction.                                            *)

Ready(p) == todo[p] = <<>>

\* run create, and the tick for a ready node.
CreateRun(p, r) ==
  /\ Ready(p)
  /\ r \notin created
  /\ roadmap[r] \in {"ready", "active"}
  /\ Cardinality(active) < Limit
  /\ created' = created \cup {r}
  /\ roadmap' = [roadmap EXCEPT ![r] = "active"]
  /\ active' = active \cup {r}
  /\ replay' = EventCreated(replay, r)
  /\ behind' = FALSE
  /\ UNCHANGED <<run, todo, cmd, kills, cut>>

\* learnReadyRuns: the node before is passed, and the closing is part of it.
LearnReadyRun(p, r) ==
  LET f == Closed([run[r] EXCEPT !.node[LastNode] = "passed", !.status = "active"])
      x == EventCompleted(replay, r, LastNode, "PASS")
  IN
  /\ Ready(p)
  /\ r \in active
  /\ run[r].node[LastNode - 1] = "passed"
  /\ run[r].node[LastNode] = "pending"
  /\ IF f.status = "done"
     THEN /\ run' = [run EXCEPT ![r] = [f EXCEPT !.closed = TRUE]]
          /\ active' = active \ {r}
          /\ roadmap' = [roadmap EXCEPT ![r] = "done"]
          /\ replay' = EventClosed(x, r)
     ELSE /\ run' = [run EXCEPT ![r] = f]
          /\ replay' = x
          /\ UNCHANGED <<active, roadmap>>
  /\ behind' = FALSE
  /\ UNCHANGED <<created, todo, cmd, kills, cut>>

\* haltTerminallyBlockedRuns: no worker of the run can be recovered.
HaltBlockedRun(p, r) ==
  /\ Ready(p)
  /\ r \in active
  /\ run[r].status = "active"
  /\ run' = [run EXCEPT ![r].node[Execute] = "halted", ![r].status = "halted"]
  /\ active' = active \ {r}
  /\ roadmap' = [roadmap EXCEPT ![r] = "blocked"]
  /\ replay' = EventHalted(replay, r)
  /\ behind' = FALSE
  /\ UNCHANGED <<created, todo, cmd, kills, cut>>

\* reopenGovernedCandidate: the review asks for rework.  Open items of the
\* nodes that are to be done again stay open.
Reopened(f) ==
  [f EXCEPT !.node = [n \in Node |-> IF n \in Execute..Review THEN "pending" ELSE f.node[n]],
            !.status = "active"]

ReopenRun(p, r) ==
  /\ Ready(p)
  /\ r \in active
  /\ run[r].node[Review - 1] = "passed"
  /\ run[r].node[Review] = "pending"
  /\ run' = [run EXCEPT ![r] = Reopened(@)]
  /\ behind' = FALSE
  /\ UNCHANGED <<created, roadmap, active, replay, todo, cmd, kills, cut>>

----------------------------------------------------------------------------
(* Commands that read run.json and write it back.                          *)

\* A mistake: the roadmap is left as it was.
LeavingTheRoadmap == <<"read_active", "write_active", "write_run">>

\* closeRunIfComplete and haltRun write before their caller does.
Leaving == <<"read_active", "write_active", "read_roadmap", "write_roadmap", "write_run">>

Writes(f) == IF f.status = "done" THEN Leaving ELSE <<"write_run">>

\* A mistake: no event of the closing.
SilentClosure(f) == <<>>

\* recordRunClosure: only a run that is done and has no event of it.
Closure(f) == IF f.status = "done" /\ ~f.closed THEN <<"closed", "write_run">> ELSE <<>>

Begin(p, r, n, gate, f, writes) ==
  /\ Ready(p)
  /\ todo' = [todo EXCEPT ![p] = writes]
  /\ cmd' = [cmd EXCEPT ![p] = [Idle EXCEPT !.run = r, !.node = n, !.gate = gate, !.copy = f]]
  /\ UNCHANGED <<created, run, roadmap, active, behind, replay, kills, cut>>

\* run node start
StartNode(p, r, n) ==
  /\ r \in created
  /\ run[r].node[n] \in {"pending", "failed"}
  /\ Begin(p, r, n, "PASS",
           [run[r] EXCEPT !.node[n] = "active", !.status = "active"],
           <<"write_run">>)

\* run node complete, fail and escalate: any node, in any order.
CompleteNode(p, r, n, gate) ==
  LET s == CASE gate = "PASS" -> "passed" [] gate = "PARTIAL_PASS" -> "partial_pass"
             [] gate = "FAIL" -> "failed" [] OTHER -> "halted"
      f == [run[r] EXCEPT !.node[n] = s,
                          !.carry[n] = IF gate = "PARTIAL_PASS" THEN "open" ELSE @]
      g == IF gate = "HALT" THEN [f EXCEPT !.status = "halted"] ELSE Closed(f)
      end == IF gate = "HALT" THEN <<"completed", "halted">> ELSE <<"completed">> \o Closure(g)
  IN
  /\ r \in created
  /\ run[r].node[n] \in {"active", "pending", "failed"}
  /\ Begin(p, r, n, gate, g,
           (IF gate = "HALT" THEN Leaving ELSE Writes(g)) \o end)

\* passNode, for the nodes a tick passes outside a transaction: planning in
\* any case, execute once there is a plan, the others after the node before,
\* if the verification, the review and the merge succeed (MergeDelivery),
\* which they may never do.
PassNode(p, r, n) ==
  LET f == Closed([run[r] EXCEPT !.node[n] = "passed", !.status = "active"])
  IN
  /\ r \in active
  /\ n < LastNode
  /\ run[r].node[n] = "pending"
  /\ n = Execute => \A m \in 1..n - 1 : run[r].node[m] \in {"passed", "partial_pass"}
  /\ n > Execute => run[r].node[n - 1] = "passed"
  /\ Begin(p, r, n, "PASS", f, Writes(f) \o <<"completed">> \o Closure(f))

\* run carry resolve and accept
HandleCarry(p, r, n) ==
  LET f == [run[r] EXCEPT !.carry[n] = "handled"]
      g == Promoted(f, n)
      h == Closed(g)
  IN
  /\ r \in created
  /\ run[r].carry[n] = "open"
  /\ Begin(p, r, n, "PASS", h,
           Writes(h) \o <<"carry">>
           \o (IF g # f THEN <<"completed">> ELSE <<>>) \o Closure(h))

\* project reconcile --apply, from an inspection without issues.
Reconcile(p) ==
  /\ Ready(p)
  /\ todo' = [todo EXCEPT ![p] = <<"derive", "fix_runs", "reconciled">>]
  /\ cmd' = [cmd EXCEPT ![p] = [Idle EXCEPT !.active = DerivedActive, !.left = created]]
  /\ UNCHANGED <<created, run, roadmap, active, behind, replay, kills, cut>>

----------------------------------------------------------------------------
(* Their writes, one by one.                                               *)

\* cmd[p] is forgotten with the last write.
Do(p, w) ==
  /\ todo[p] # <<>> /\ Head(todo[p]) = w
  /\ todo' = [todo EXCEPT ![p] = Tail(@)]

Keep(p, c) == cmd' = [cmd EXCEPT ![p] = IF Len(todo[p]) = 1 THEN Idle ELSE c]

ReadActive(p) ==
  /\ Do(p, "read_active")
  /\ Keep(p, [cmd[p] EXCEPT !.active = active])
  /\ UNCHANGED <<created, run, roadmap, active, behind, replay, kills, cut>>

WriteActive(p) ==
  /\ Do(p, "write_active")
  /\ active' = cmd[p].active \ {cmd[p].run}
  /\ Keep(p, [cmd[p] EXCEPT !.active = {}])
  /\ UNCHANGED <<created, run, roadmap, behind, replay, kills, cut>>

ReadRoadmap(p) ==
  /\ Do(p, "read_roadmap")
  /\ Keep(p, [cmd[p] EXCEPT !.roadmap = roadmap])
  /\ UNCHANGED <<created, run, roadmap, active, behind, replay, kills, cut>>

WriteRoadmap(p) ==
  /\ Do(p, "write_roadmap")
  /\ roadmap' = [cmd[p].roadmap EXCEPT ![cmd[p].run] =
       IF cmd[p].gate = "HALT" THEN "blocked" ELSE "done"]
  /\ Keep(p, [cmd[p] EXCEPT !.roadmap = Idle.roadmap])
  /\ UNCHANGED <<created, run, active, behind, replay, kills, cut>>

WriteRun(p) ==
  /\ Do(p, "write_run")
  /\ run' = [run EXCEPT ![cmd[p].run] = cmd[p].copy]
  /\ Keep(p, cmd[p])
  /\ UNCHANGED <<created, roadmap, active, behind, replay, kills, cut>>

\* What the event at the head of p's list adds to the log.
Appended(p) ==
  LET r == cmd[p].run IN
  CASE Head(todo[p]) = "completed" -> EventCompleted(replay, r, cmd[p].node, cmd[p].gate)
    [] Head(todo[p]) = "carry" -> EventCarryHandled(replay, r, cmd[p].node)
    [] Head(todo[p]) = "halted" -> EventHalted(replay, r)
    [] Head(todo[p]) = "closed" -> EventClosed(replay, r)
    [] OTHER -> EventReconciled(replay, cmd[p].active)

Event == {"completed", "carry", "halted", "closed", "reconciled"}

\* appendEvent and the updateProject after it.
AppendEvent(p) ==
  /\ \E e \in Event \ {"reconciled"} : Do(p, e)
  /\ replay' = Appended(p)
  /\ behind' = FALSE
  /\ Keep(p, IF Head(todo[p]) = "closed" THEN [cmd[p] EXCEPT !.copy.closed = TRUE] ELSE cmd[p])
  /\ UNCHANGED <<created, run, roadmap, active, kills, cut>>

Derive(p) ==
  /\ Do(p, "derive")
  /\ active' = cmd[p].active
  /\ behind' = FALSE
  /\ UNCHANGED <<created, run, roadmap, replay, cmd, kills, cut>>

Repaired(f) == [Normalized(f) EXCEPT !.status = ExpectedStatus(Normalized(f))]

FixRun(p) ==
  /\ todo[p] # <<>> /\ Head(todo[p]) = "fix_runs"
  /\ \E r \in cmd[p].left :
       /\ run' = [run EXCEPT ![r] = Repaired(@)]
       /\ cmd' = [cmd EXCEPT ![p].left = @ \ {r}]
  /\ UNCHANGED <<created, roadmap, active, behind, replay, todo, kills, cut>>

FixRoadmap(p) ==
  /\ todo[p] # <<>> /\ Head(todo[p]) = "fix_runs" /\ cmd[p].left = {}
  /\ roadmap' = [r \in Run |-> IF r \in created THEN DerivedRoadmap(run[r]) ELSE roadmap[r]]
  /\ todo' = [todo EXCEPT ![p] = <<"reconciled">>]
  /\ UNCHANGED <<created, run, active, behind, replay, cmd, kills, cut>>

EndReconcile(p) ==
  /\ Do(p, "reconciled")
  /\ replay' = Appended(p)
  /\ behind' = FALSE
  /\ cut' = FALSE
  /\ Keep(p, cmd[p])
  /\ UNCHANGED <<created, run, roadmap, active, kills>>

\* A kill between two writes, or after the append to events.jsonl and before
\* project.json is written.
Kill(p) ==
  /\ todo[p] # <<>>
  /\ kills < MaxKills
  /\ kills' = kills + 1
  /\ cut' = TRUE
  /\ todo' = [todo EXCEPT ![p] = <<>>]
  /\ cmd' = [cmd EXCEPT ![p] = Idle]
  /\ \/ UNCHANGED <<replay, behind>>
     \/ Head(todo[p]) \in Event /\ replay' = Appended(p) /\ behind' = TRUE
  /\ UNCHANGED <<created, run, roadmap, active>>

----------------------------------------------------------------------------
Step(p) ==
  \/ ReadActive(p) \/ WriteActive(p) \/ ReadRoadmap(p) \/ WriteRoadmap(p) \/ WriteRun(p)
  \/ AppendEvent(p) \/ Derive(p) \/ FixRun(p) \/ FixRoadmap(p) \/ EndReconcile(p)

Tick(p) ==
  \E r \in Run : \/ CreateRun(p, r) \/ LearnReadyRun(p, r) \/ ReopenRun(p, r)
                 \/ \E n \in Node : PassNode(p, r, n)

Next ==
  \E p \in Proc :
    \/ Step(p) \/ Tick(p) \/ Reconcile(p) \/ Kill(p)
    \/ \E r \in Run :
         \/ HaltBlockedRun(p, r)
         \/ \E n \in Node : \/ StartNode(p, r, n) \/ HandleCarry(p, r, n)
                            \/ \E g \in Gate : CompleteNode(p, r, n, g)

Spec == Init /\ [][Next]_vars

\* A command ends or is killed, and somebody runs reconcile after a kill.
Fairness == \A p \in Proc : WF_vars(Step(p)) /\ SF_vars(cut /\ Reconcile(p))

FairSpec == Spec /\ Fairness

----------------------------------------------------------------------------
(* Properties.                                                             *)

Quiet == \A p \in Proc : todo[p] = <<>>

ActiveAgrees == active = DerivedActive

RoadmapAgrees == \A r \in created : roadmap[r] = DerivedRoadmap(run[r])

ReplayAgrees == replay.active = DerivedActive

RunFilesAgree == \A r \in created : Repaired(run[r]) = run[r]

\* All nodes are passed and an item is open: a node that passed in part was
\* done again.  The run is paused, where reconcile takes it for done.
Owing(f) == All(f, {"passed"}) /\ \E n \in Node : f.carry[n] = "open"

\* Between commands, as long as none was killed, the project's list of active
\* runs and the roadmap say what the run files say.
StateAgrees ==
  Quiet /\ ~cut =>
    /\ active \subseteq created
    /\ \A r \in created : Owing(run[r]) \/ (/\ r \in active <=> r \in DerivedActive
                                           /\ roadmap[r] = DerivedRoadmap(run[r]))
    /\ ~behind

\* The event log never revives a run that is over, and it loses a run only
\* once its learn node has passed.
ReplayIsCautious ==
  Quiet /\ ~cut =>
    /\ replay.active \subseteq active
    /\ \A r \in active \ replay.active : run[r].node[LastNode] \in {"passed", "partial_pass"}

\* After a reconcile that was not killed, inspectProjectConsistency finds
\* nothing, whatever kills and commands came before.
ReconcileRepairs ==
  [][\A p \in Proc : EndReconcile(p) =>
       (ActiveAgrees /\ RoadmapAgrees /\ ReplayAgrees /\ RunFilesAgree /\ ~behind)']_vars

\* A run that is not over does not stay out of the list of active runs, from
\* which a tick takes the runs it carries on, or at another place in the
\* roadmap, even when commands are killed half way.
NoRunIsForgotten ==
  \A r \in Run :
    r \in created /\ ~Finished(run[r]) ~>
      (r \in active /\ roadmap[r] = "active") \/ Finished(run[r])

\* "event replay keeps a partial run active until every carry-forward is
\* handled" (tests/event-replay.test.mjs).
ReplayKeepsPartialRuns ==
  Quiet /\ ~cut =>
    \A r \in active : (\E n \in Node : run[r].carry[n] = "open") => r \in replay.active

\* A run is refused once there are as many runs as the limit allows ("达到
\* active run WIP 限制后拒绝继续创建 run", tests/apex-v2.test.mjs).
OpenRunsWithinLimit == Cardinality(DerivedActive) <= Limit
=============================================================================
