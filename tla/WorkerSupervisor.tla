-------------------------- MODULE WorkerSupervisor --------------------------
(***************************************************************************)
(* The supervisor that runs the children of a tick: at most MaxConcurrency  *)
(* at a time, each in a process group of its own, stopped by a timeout, by  *)
(* too much output, by close() or with its parent: SIGTERM first, SIGKILL   *)
(* after a grace (core/worker-supervisor.mjs).                              *)
(*                                                                         *)
(* A step is one event of the parent's loop with the callbacks and promises *)
(* that follow from it at once, or something that happens in a group.  A    *)
(* job is over when its leader has ended and its pipes are closed, which a  *)
(* helper of the same group may hold open.  Jobs are numbered in order.     *)
(***************************************************************************)
EXTENDS Naturals, FiniteSets

CONSTANTS
  Jobs,           \* how many there are
  MaxConcurrency,
  Kind,           \* the kinds of command to look at
  NoReason

ASSUME SupervisorAssumption ==
  /\ Jobs \in Nat /\ MaxConcurrency \in Nat \ {0}
  /\ Kind \subseteq [spawn : {"starts", "throws", "fails"}, stubborn : BOOLEAN,
                     helper : {"absent", "piped", "quiet"}, helperStubborn : BOOLEAN]
  /\ NoReason \notin {"supervisor-close", "parent-exit", "timeout", "output-limit"}

VARIABLES
  kind,     \* [Job -> Kind]: how the command of a job behaves
  next,     \* nextIndex: the jobs up to it were taken
  job,      \* the state of each job
  leader, helper, \* its process group
  stop,     \* stopReason
  registered,     \* are the handlers of the parent's signals in place?
  waiting,  \* the jobs the handler of a signal waits for
  parent    \* the process of the supervisor, and what it does

supervisorVars == <<kind, next, job, leader, helper, stop, registered, waiting, parent>>

Job == 1..Jobs

Reason == {"supervisor-close", "parent-exit", "timeout", "output-limit"}

Status == {"spawn_error", "timed_out", "output_limit", "cancelled", "succeeded", "failed"}

JobState == [at : {"queued", "active", "answered"}, timedOut : BOOLEAN, overflow : BOOLEAN,
             reason : Reason \cup {NoReason}, termSent : BOOLEAN, killTimer : {"unset", "set", "over"},
             status : Status \cup {NoReason}]

NewJob == [at |-> "queued", timedOut |-> FALSE, overflow |-> FALSE, reason |-> NoReason,
           termSent |-> FALSE, killTimer |-> "unset", status |-> NoReason]

SupervisorTypeOK ==
  /\ kind \in [Job -> Kind]
  /\ next \in 0..Jobs
  /\ job \in [Job -> JobState]
  /\ leader \in [Job -> {"none", "running", "zero", "nonzero", "killed"}]
  /\ helper \in [Job -> {"none", "running", "gone"}]
  /\ stop \in {NoReason, "supervisor-close", "parent-exit"}
  /\ registered \in BOOLEAN
  /\ waiting \in (SUBSET Job) \cup {NoReason}
  /\ parent \in {"idle", "running", "returned", "gone"}

SupervisorInit ==
  /\ kind \in [Job -> Kind]
  /\ next = 0
  /\ job = [j \in Job |-> NewJob]
  /\ leader = [j \in Job |-> "none"]
  /\ helper = [j \in Job |-> "none"]
  /\ stop = NoReason
  /\ registered = FALSE
  /\ waiting = NoReason
  /\ parent = "idle"

In(jobs, at) == {j \in Job : jobs[j].at = at}

Up == parent \in {"idle", "running"}

-----------------------------------------------------------------------------
(* Scheduling.                                                              *)

\* The jobs schedule() starts: in order, while fewer than MaxConcurrency are
\* active; one whose spawn throws is over at once and takes no place.
Started(jobs) ==
  {j \in next + 1 .. Jobs :
     Cardinality(In(jobs, "active"))
       + Cardinality({i \in next + 1 .. j - 1 : kind[i].spawn # "throws"}) < MaxConcurrency}

Launched(j) ==
  IF kind[j].spawn = "throws"
  THEN [NewJob EXCEPT !.at = "answered", !.status = "spawn_error"]
  ELSE [NewJob EXCEPT !.at = "active"]

CancelledBeforeStart(reason) ==
  [NewJob EXCEPT !.at = "answered", !.status = "cancelled", !.reason = reason]

\* schedule(), after jobs became what they are; run() resolves with the last
\* answer, and then the handlers are taken away.
Schedule(jobs, reason) ==
  LET started == IF reason = NoReason THEN Started(jobs) ELSE {}
      after == [j \in Job |->
                  IF j <= next THEN jobs[j]
                  ELSE IF reason # NoReason THEN CancelledBeforeStart(reason)
                  ELSE IF j \in started THEN Launched(j) ELSE jobs[j]]
      answered == In(after, "answered") = Job
  IN
  /\ job' = after
  /\ next' = IF reason # NoReason THEN Jobs ELSE next + Cardinality(started)
  /\ leader' = [j \in Job |-> IF j \in started /\ kind[j].spawn = "starts"
                              THEN "running" ELSE leader[j]]
  /\ helper' = [j \in Job |-> IF j \in started /\ kind[j].spawn = "starts"
                                 /\ kind[j].helper # "absent"
                              THEN "running" ELSE helper[j]]
  /\ registered' = ~answered
  /\ parent' = "running"

\* run, of runWorkerJobs.
Run ==
  /\ parent = "idle" /\ stop = NoReason
  /\ Schedule(job, stop)
  /\ UNCHANGED <<kind, stop, waiting>>

\* All jobs are answered: runWorkerJobs closes the supervisor and returns.
Return ==
  /\ parent = "running" /\ In(job, "answered") = Job
  /\ parent' = "returned"
  /\ stop' = IF stop = NoReason THEN "supervisor-close" ELSE stop
  /\ registered' = FALSE
  /\ UNCHANGED <<kind, next, job, leader, helper, waiting>>

-----------------------------------------------------------------------------
(* The end of a job.                                                        *)

\* A mistake: SIGTERM, and no more.
TerminatedKindly(s, reason) ==
  [s EXCEPT !.reason = IF @ = NoReason THEN reason ELSE @, !.termSent = TRUE]

\* terminate: the first reason stands, SIGTERM and the kill timer come once.
Terminated(s, reason) ==
  [s EXCEPT !.reason = IF @ = NoReason THEN reason ELSE @, !.termSent = TRUE,
            !.killTimer = IF @ = "unset" THEN "set" ELSE @]

\* A mistake: a clean exit is a success, whatever was before.
StatusOfExit(j) ==
  IF kind[j].spawn = "fails" THEN "spawn_error"
  ELSE IF leader[j] = "zero" THEN "succeeded"
  ELSE IF job[j].reason # NoReason THEN "cancelled" ELSE "failed"

\* resultStatus.
StatusOf(j) ==
  IF kind[j].spawn = "fails" THEN "spawn_error"
  ELSE IF job[j].timedOut THEN "timed_out"
  ELSE IF job[j].overflow THEN "output_limit"
  ELSE IF job[j].reason # NoReason THEN "cancelled"
  ELSE IF leader[j] = "zero" THEN "succeeded" ELSE "failed"

Finished(j) ==
  [job EXCEPT ![j] = [@ EXCEPT !.at = "answered", !.status = StatusOf(j), !.killTimer = "over"]]

PipesOpen(j) ==
  \/ leader[j] = "running"
  \/ helper[j] = "running" /\ kind[j].helper = "piped"

\* The event "close".
Close(j) ==
  /\ parent = "running" /\ job[j].at = "active"
  /\ ~PipesOpen(j)
  /\ Schedule(Finished(j), stop)
  /\ UNCHANGED <<kind, stop, waiting>>

Timeout(j) ==
  /\ parent = "running" /\ job[j].at = "active" /\ ~job[j].timedOut
  /\ job' = [job EXCEPT ![j] = Terminated([@ EXCEPT !.timedOut = TRUE], "timeout")]
  /\ UNCHANGED <<kind, next, leader, helper, stop, registered, waiting, parent>>

\* captureOutput, past the limit.
Overflow(j) ==
  /\ parent = "running" /\ job[j].at = "active" /\ ~job[j].overflow
  /\ PipesOpen(j)
  /\ job' = [job EXCEPT ![j] = Terminated([@ EXCEPT !.overflow = TRUE], "output-limit")]
  /\ UNCHANGED <<kind, next, leader, helper, stop, registered, waiting, parent>>

KilledLeaders(J) == [j \in Job |-> IF j \in J /\ leader[j] = "running" THEN "killed" ELSE leader[j]]
KilledHelpers(J) == [j \in Job |-> IF j \in J /\ helper[j] = "running" THEN "gone" ELSE helper[j]]

\* The grace is over: SIGKILL to the group.
KillTimer(j) ==
  /\ parent = "running" /\ job[j].at = "active" /\ job[j].killTimer = "set"
  /\ job' = [job EXCEPT ![j].killTimer = "over"]
  /\ leader' = KilledLeaders({j})
  /\ helper' = KilledHelpers({j})
  /\ UNCHANGED <<kind, next, stop, registered, waiting, parent>>

\* Every active job is terminated, and none is started any more.
StopAll(reason) ==
  /\ stop' = IF stop = NoReason THEN reason ELSE stop
  /\ job' = [j \in Job |-> IF job[j].at = "active" THEN Terminated(job[j], reason) ELSE job[j]]

\* close(), by whoever has the supervisor.
CloseSupervisor ==
  /\ parent = "running" /\ stop = NoReason
  /\ StopAll("supervisor-close")
  /\ UNCHANGED <<kind, next, leader, helper, registered, waiting, parent>>

-----------------------------------------------------------------------------
(* The parent.                                                              *)

\* SIGINT, SIGTERM or SIGHUP: the handler waits for the jobs that are active;
\* while it does, more signals are ignored.  With no handler in place the
\* process ends.
Signal ==
  /\ Up /\ waiting = NoReason
  /\ IF registered
     THEN /\ StopAll("parent-exit")
          /\ waiting' = In(job, "active")
          /\ UNCHANGED parent
     ELSE /\ parent' = "gone"
          /\ UNCHANGED <<job, stop, waiting>>
  /\ UNCHANGED <<kind, next, leader, helper, registered>>

\* The handler is taken away and the signal sent again; the event "exit" does
\* not come then.
DieOfSignal ==
  /\ parent \in {"running", "returned"} /\ waiting # NoReason
  /\ waiting \subseteq In(job, "answered")
  /\ parent' = "gone" /\ registered' = FALSE
  /\ UNCHANGED <<kind, next, job, leader, helper, stop, waiting>>

\* A mistake: the jobs that were told to end are left alone.
ExitKillsOthers == IF registered THEN {j \in In(job, "active") : ~job[j].termSent} ELSE {}

\* process.exit: the handler of "exit" sends SIGTERM and SIGKILL.
ExitKills == IF registered THEN In(job, "active") ELSE {}

Exit ==
  /\ Up
  /\ leader' = KilledLeaders(ExitKills)
  /\ helper' = KilledHelpers(ExitKills)
  /\ job' = [j \in Job |-> IF j \in ExitKills THEN Terminated(job[j], "parent-exit") ELSE job[j]]
  /\ parent' = "gone"
  /\ UNCHANGED <<kind, next, stop, registered, waiting>>

-----------------------------------------------------------------------------
(* The groups.                                                              *)

GroupStep(j) ==
  UNCHANGED <<kind, next, job, stop, registered, waiting, parent>>

\* The command ends, with one code or the other.
LeaderExits(j) ==
  /\ leader[j] = "running"
  /\ \E code \in {"zero", "nonzero"} : leader' = [leader EXCEPT ![j] = code]
  /\ UNCHANGED helper
  /\ GroupStep(j)

LeaderObeys(j) ==
  /\ leader[j] = "running" /\ job[j].termSent /\ ~kind[j].stubborn
  /\ leader' = [leader EXCEPT ![j] = "killed"]
  /\ UNCHANGED helper
  /\ GroupStep(j)

HelperEnds(j) ==
  /\ helper[j] = "running"
  /\ helper' = [helper EXCEPT ![j] = "gone"]
  /\ UNCHANGED leader
  /\ GroupStep(j)

\* One of the ways it ends.
HelperObeys(j) ==
  job[j].termSent /\ ~kind[j].helperStubborn /\ HelperEnds(j)

SupervisorNext ==
  \/ Run \/ Return \/ CloseSupervisor \/ Signal \/ DieOfSignal \/ Exit
  \/ \E j \in Job : \/ Close(j) \/ Timeout(j) \/ Overflow(j) \/ KillTimer(j)
                    \/ LeaderExits(j) \/ LeaderObeys(j) \/ HelperEnds(j)

\* The loop of the parent delivers its events and timers, and a process obeys
\* a signal it does not ignore.  No command need end by itself.
SupervisorFairness ==
  /\ WF_supervisorVars(Return) /\ WF_supervisorVars(DieOfSignal)
  /\ \A j \in Job : /\ WF_supervisorVars(Close(j))
                    /\ WF_supervisorVars(Timeout(j))
                    /\ WF_supervisorVars(KillTimer(j))
                    /\ WF_supervisorVars(LeaderObeys(j))
                    /\ WF_supervisorVars(HelperObeys(j))

SupervisorSpec ==
  SupervisorInit /\ [][SupervisorNext]_supervisorVars /\ SupervisorFairness

-----------------------------------------------------------------------------
(* Properties.                                                              *)

\* The status tells what ended the job, whatever came first: a job the
\* supervisor stopped never counts as succeeded or failed, even when its
\* command had ended by then; one it did not stop ended by itself; and a job
\* that never ran was cancelled by a stop, or could not be started.
StatusIsTrue ==
  \A j \in Job : job[j].at = "answered" =>
    /\ job[j].status = "succeeded" => ~job[j].termSent /\ leader[j] = "zero"
    /\ job[j].status = "failed" => ~job[j].termSent /\ leader[j] = "nonzero"
    /\ leader[j] = "none" => \/ job[j].status = "spawn_error"
                             \/ job[j].status = "cancelled" /\ stop # NoReason
    /\ job[j].status = "cancelled" => stop # NoReason

\* A group that was told to end ends, stubborn as it may be, and though the
\* parent ends too: unless a helper ignores SIGTERM and holds no pipe, for the
\* kill timer is cleared with the job.
GroupsEnd ==
  \A j \in Job :
    job[j].termSent /\ ~(kind[j].helper = "quiet" /\ kind[j].helperStubborn)
      ~> leader[j] # "running" /\ helper[j] # "running"

\* run() answers every job, or its process is gone: no command, however
\* stubborn, keeps a tick waiting for ever.
RunIsAnswered == parent = "running" ~> parent \in {"returned", "gone"}
=============================================================================
