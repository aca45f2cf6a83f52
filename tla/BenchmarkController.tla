------------------------- MODULE BenchmarkController -------------------------
(***************************************************************************)
(* The benchmark controller: coordinators, each a process, claim official   *)
(* runs under a lease and a fencing token, prepare a workspace, let an      *)
(* agent work in it, evaluate the outcome and record the result             *)
(* (scripts/product-benchmark-controller.mjs, src/benchmark).               *)
(*                                                                         *)
(* Every change of controller.json is made under the project lock, after    *)
(* the runs whose lease passed or whose coordinator is gone were marked     *)
(* interrupted: one step.  The workspace and the result file are written    *)
(* without the lock, with no second look at the lease.  strayed is a        *)
(* history variable: runs whose result file was written by a coordinator    *)
(* that no longer held the lease.                                           *)
(***************************************************************************)
EXTENDS Naturals

CONSTANTS
  Run,            \* official runs: a task in a mode
  Coordinator,    \* processes; one that stopped may be started again
  TelemetryTries, \* shouldRetryBenchmarkValidation: attempts, 3 in the code
  MaxClaims,      \* bound on the claims of a run
  MaxKills,       \* bound on the coordinators killed
  MaxResets,      \* bound on the resets by the user
  None

ASSUME BenchmarkAssumption ==
  /\ Run # {}
  /\ None \notin Run \cup Coordinator
  /\ {TelemetryTries, MaxClaims} \subseteq Nat \ {0}
  /\ {MaxKills, MaxResets} \subseteq Nat

VARIABLES
  run,        \* controller.json: the runs
  status,     \* controller.json: the status of the whole
  workspace,  \* [Run -> its directory]
  file,       \* [Run -> Nat]: the claim whose result is in the result file, 0 if none
  lapsed,     \* leases whose time has passed
  coord,      \* [Coordinator -> what the process does]
  strayed,
  kills, resets

vars == <<run, status, workspace, file, lapsed, coord, strayed, kills, resets>>

Ended == {"completed", "failed", "invalid"}
Claimable == {"pending", "interrupted"}

\* The fencing token stands for the lease id, too: both are new in each claim.
RunFile == [status : Claimable \cup Ended \cup {"running"}, attempt : 0..MaxClaims,
            recoveries : 0..MaxClaims, fencing : 0..MaxClaims,
            by : Coordinator \cup {None}, result : 0..MaxClaims]

NewRun == [status |-> "pending", attempt |-> 0, recoveries |-> 0, fencing |-> 0,
           by |-> None, result |-> 0]

At == {"off", "loop", "claimed", "copying", "prepared", "executed", "updated",
       "evaluated", "hashed", "throwing"}

\* outcome is of the agent, then of the evaluation; seen is the file hashed.
Process == [at : At, run : Run \cup {None}, fencing : 0..MaxClaims, attempt : 0..MaxClaims,
            outcome : {"none", "timed_out", "resource", "ran", "valid", "invalid", "gap"},
            seen : 0..MaxClaims, done : SUBSET Run]

Off == [at |-> "off", run |-> None, fencing |-> 0, attempt |-> 0, outcome |-> "none",
        seen |-> 0, done |-> {}]

TypeOK ==
  /\ run \in [Run -> RunFile]
  /\ status \in {"pending", "running", "blocked", "complete"}
  /\ workspace \in [Run -> {"absent", "partial", "whole"}]
  /\ file \in [Run -> 0..MaxClaims]
  /\ lapsed \subseteq Run \X (1..MaxClaims)
  /\ coord \in [Coordinator -> Process]
  /\ strayed \subseteq Run
  /\ kills \in 0..MaxKills /\ resets \in 0..MaxResets

Init ==
  /\ run = [r \in Run |-> NewRun]
  /\ status = "pending"
  /\ workspace = [r \in Run |-> "absent"]
  /\ file = [r \in Run |-> 0]
  /\ lapsed = {}
  /\ coord = [c \in Coordinator |-> Off]
  /\ strayed = {}
  /\ kills = 0 /\ resets = 0

-----------------------------------------------------------------------------
(* controller.json.                                                         *)

\* The process that claimed r lives: it works on this very claim.
Alive(r) ==
  \E c \in Coordinator : /\ run[r].by = c
                         /\ coord[c].run = r /\ coord[c].fencing = run[r].fencing

\* A mistake: only the time of the lease counts.
AbandonedInTime(r) ==
  run[r].status = "running" /\ <<r, run[r].fencing>> \in lapsed

Abandoned(r) ==
  /\ run[r].status = "running"
  /\ <<r, run[r].fencing>> \in lapsed \/ ~Alive(r)

Interrupted(f) == [f EXCEPT !.status = "interrupted", !.recoveries = @ + 1, !.by = None]

\* recoverBenchmarkControllerState, which every command begins with.
Recovered == [r \in Run |-> IF Abandoned(r) THEN Interrupted(run[r]) ELSE run[r]]
RecoveredStatus == IF \E r \in Run : Abandoned(r) THEN "pending" ELSE status

ControllerStatus(runs) ==
  IF \A r \in Run : runs[r].status = "completed" THEN "complete"
  ELSE IF \E r \in Run : runs[r].status = "running" THEN "running"
  ELSE IF \E r \in Run : runs[r].status \in {"failed", "invalid"} THEN "blocked"
  ELSE "pending"

\* A mistake: no look at the fencing token.
HoldsUnfenced(c) ==
  LET r == coord[c].run IN
  Recovered[r].status = "running" /\ <<r, coord[c].fencing>> \notin lapsed

\* assertRunLease, for the claim that c took.
HoldsLease(c) ==
  LET r == coord[c].run IN
  /\ run[r].status = "running"
  /\ run[r].fencing = coord[c].fencing
  /\ <<r, coord[c].fencing>> \notin lapsed

Claimed(f, c) ==
  [f EXCEPT !.status = "running", !.attempt = @ + 1, !.fencing = @ + 1, !.by = c]

\* A mistake: a planned interruption is no recovery.
FinishedUncounted(f, s, result) ==
  [f EXCEPT !.status = s, !.by = None, !.result = result]

Finished(f, s, result) ==
  [f EXCEPT !.status = s, !.by = None, !.result = result,
            !.recoveries = IF s = "interrupted" THEN @ + 1 ELSE @]

-----------------------------------------------------------------------------
(* A coordinator.                                                           *)

\* run: loadAndRecover and then the loop; runParallel starts such processes.
Start(c) ==
  /\ coord[c].at = "off"
  /\ coord' = [coord EXCEPT ![c].at = "loop"]
  /\ run' = Recovered
  /\ status' = RecoveredStatus
  /\ UNCHANGED <<workspace, file, lapsed, strayed, kills, resets>>

\* The next run that this process has not had.
Available(c) == {r \in Run \ coord[c].done : Recovered[r].status \in Claimable}

Claim(c, r) ==
  /\ coord[c].at = "loop"
  /\ r \in Available(c)
  /\ run[r].fencing < MaxClaims
  /\ run' = [Recovered EXCEPT ![r] = Claimed(@, c)]
  /\ status' = "running"
  /\ coord' = [coord EXCEPT ![c] =
       [Off EXCEPT !.at = "claimed", !.run = r, !.done = coord[c].done \cup {r},
                   !.fencing = run[r].fencing + 1, !.attempt = run[r].attempt + 1]]
  /\ UNCHANGED <<workspace, file, lapsed, strayed, kills, resets>>

\* No run is left for it: the process ends.
Stop(c) ==
  /\ coord[c].at = "loop"
  /\ \A r \in Available(c) : run[r].fencing = MaxClaims
  /\ coord' = [coord EXCEPT ![c] = Off]
  /\ run' = Recovered
  /\ status' = RecoveredStatus
  /\ UNCHANGED <<workspace, file, lapsed, strayed, kills, resets>>

\* What leaves controller.json alone.
Goes(c, at) ==
  /\ coord' = [coord EXCEPT ![c].at = at]
  /\ UNCHANGED <<run, status, lapsed, kills, resets>>

\* prepareBenchmarkWorkspace: a first attempt starts over, a later one takes
\* the directory that is there.
BeginPrepare(c) ==
  LET r == coord[c].run
      reused == coord[c].attempt # 1 /\ workspace[r] # "absent"
  IN
  /\ coord[c].at = "claimed"
  /\ workspace' = IF reused THEN workspace ELSE [workspace EXCEPT ![r] = "partial"]
  /\ Goes(c, IF reused THEN "prepared" ELSE "copying")
  /\ UNCHANGED <<file, strayed>>

EndPrepare(c) ==
  /\ coord[c].at = "copying"
  /\ workspace' = [workspace EXCEPT ![coord[c].run] = "whole"]
  /\ Goes(c, "prepared")
  /\ UNCHANGED <<file, strayed>>

\* The agent works, until it is done, out of time or stopped by the guard.
Execute(c) ==
  /\ coord[c].at = "prepared"
  /\ \E o \in {"timed_out", "resource", "ran"} :
       coord' = [coord EXCEPT ![c].at = "executed", ![c].outcome = o]
  /\ UNCHANGED <<run, status, workspace, file, lapsed, strayed, kills, resets>>

\* updateBenchmarkRunLocked: the session and the logs are recorded under the lease.
Update(c) ==
  /\ coord[c].at = "executed"
  /\ IF HoldsLease(c)
     THEN /\ coord' = [coord EXCEPT ![c].at = "updated"]
          /\ run' = Recovered
          /\ status' = RecoveredStatus
     ELSE /\ coord' = [coord EXCEPT ![c].at = "throwing"]
          /\ UNCHANGED <<run, status>>
  /\ UNCHANGED <<workspace, file, lapsed, strayed, kills, resets>>

\* The run is evaluated and the result file written.
Evaluate(c) ==
  LET r == coord[c].run IN
  /\ coord[c].at = "updated" /\ coord[c].outcome = "ran"
  /\ \E o \in {"valid", "invalid", "gap"} :
       coord' = [coord EXCEPT ![c].at = "evaluated", ![c].outcome = o]
  /\ file' = [file EXCEPT ![r] = coord[c].fencing]
  /\ strayed' = IF HoldsLease(c) THEN strayed ELSE strayed \cup {r}
  /\ UNCHANGED <<run, status, workspace, lapsed, kills, resets>>

\* Only usage evidence is missing, and it may be tried again.
Retryable(c) == coord[c].outcome = "gap" /\ coord[c].attempt < TelemetryTries

Hash(c) ==
  /\ coord[c].at = "evaluated" /\ ~Retryable(c)
  /\ coord' = [coord EXCEPT ![c].at = "hashed", ![c].seen = file[coord[c].run]]
  /\ UNCHANGED <<run, status, workspace, file, lapsed, strayed, kills, resets>>

\* finishBenchmarkRunLocked: c's run ends with s, and c goes on to the next
\* or, with a failure, ends.
Ends(c, s, result, next) ==
  LET runs == [Recovered EXCEPT ![coord[c].run] = Finished(@, s, result)] IN
  /\ IF HoldsLease(c)
     THEN /\ run' = runs
          /\ status' = ControllerStatus(runs)
          /\ coord' = [coord EXCEPT ![c] = [Off EXCEPT !.at = next, !.done = coord[c].done]]
     ELSE /\ coord' = [coord EXCEPT ![c].at = "throwing"]
          /\ UNCHANGED <<run, status>>
  /\ UNCHANGED <<workspace, file, lapsed, strayed, kills, resets>>

FinishInterrupted(c) ==
  /\ \/ coord[c].at = "updated" /\ coord[c].outcome = "timed_out"
     \/ coord[c].at = "evaluated" /\ Retryable(c)
  /\ Ends(c, "interrupted", 0, "loop")

FinishGuarded(c) ==
  /\ coord[c].at = "updated" /\ coord[c].outcome = "resource"
  /\ Ends(c, "failed", 0, "off")

FinishCompleted(c) ==
  /\ coord[c].at = "hashed" /\ coord[c].outcome = "valid"
  /\ Ends(c, "completed", coord[c].seen, "loop")

FinishInvalid(c) ==
  /\ coord[c].at = "hashed" /\ coord[c].outcome \in {"invalid", "gap"}
  /\ Ends(c, "invalid", coord[c].seen, "off")

\* Any part of it may throw: a full disk, git, evidence that is not there.
Throw(c) ==
  /\ coord[c].at \in {"claimed", "copying", "prepared", "executed", "updated", "evaluated"}
  /\ Goes(c, "throwing")
  /\ UNCHANGED <<workspace, file, strayed>>

\* The base is looked at before the handler is in place: the process ends, and
\* nothing records why.
Drop(c) ==
  /\ coord[c].at = "claimed"
  /\ coord' = [coord EXCEPT ![c] = Off]
  /\ UNCHANGED <<run, status, workspace, file, lapsed, strayed, kills, resets>>

\* The handler records the failure if the lease is still there; the process ends.
Catch(c) ==
  LET runs == [Recovered EXCEPT ![coord[c].run] = Finished(@, "failed", 0)] IN
  /\ coord[c].at = "throwing"
  /\ IF HoldsLease(c)
     THEN run' = runs /\ status' = ControllerStatus(runs)
     ELSE UNCHANGED <<run, status>>
  /\ coord' = [coord EXCEPT ![c] = Off]
  /\ UNCHANGED <<workspace, file, lapsed, strayed, kills, resets>>

Kill(c) ==
  /\ coord[c].at # "off" /\ kills < MaxKills
  /\ kills' = kills + 1
  /\ coord' = [coord EXCEPT ![c] = Off]
  /\ UNCHANGED <<run, status, workspace, file, lapsed, strayed, resets>>

\* The time of a lease passes.
Lapse(r) ==
  /\ run[r].status = "running"
  /\ <<r, run[r].fencing>> \notin lapsed
  /\ lapsed' = lapsed \cup {<<r, run[r].fencing>>}
  /\ UNCHANGED <<run, status, workspace, file, coord, strayed, kills, resets>>

\* reset: the user starts a run over, whoever is at work on it.
Resettable(r) == run[r].status # "completed"

Reset(r) ==
  /\ Resettable(r) /\ run[r].status # "pending" /\ resets < MaxResets
  /\ resets' = resets + 1
  /\ run' = [run EXCEPT ![r] = [NewRun EXCEPT !.fencing = run[r].fencing]]
  /\ status' = "pending"
  /\ workspace' = [workspace EXCEPT ![r] = "absent"]
  /\ UNCHANGED <<file, lapsed, coord, strayed, kills>>

-----------------------------------------------------------------------------
Step(c) ==
  \/ BeginPrepare(c) \/ EndPrepare(c) \/ Execute(c) \/ Update(c) \/ Evaluate(c)
  \/ Hash(c) \/ FinishInterrupted(c) \/ FinishGuarded(c) \/ FinishCompleted(c)
  \/ FinishInvalid(c) \/ Catch(c)

Loop(c) == Start(c) \/ (\E r \in Run : Claim(c, r)) \/ Stop(c)

Next ==
  \/ \E c \in Coordinator : Step(c) \/ Loop(c) \/ Throw(c) \/ Drop(c) \/ Kill(c)
  \/ \E r \in Run : Lapse(r) \/ Reset(r)

\* A coordinator goes on, and the controller is run again; no time need pass.
Fairness == \A c \in Coordinator : WF_vars(Step(c) \/ Loop(c))

Spec == Init /\ [][Next]_vars
FairSpec == Spec /\ Fairness

-----------------------------------------------------------------------------
(* Properties.                                                              *)

\* A recorded result is of the claim that ended the run, and it is what the
\* result file holds, unless a coordinator that had lost its lease wrote the
\* file: fencing covers controller.json, not the file.
ResultIsOfItsClaim ==
  \A r \in Run :
    run[r].status \in {"completed", "invalid"} =>
      /\ run[r].result > 0
      /\ r \notin strayed => run[r].result = run[r].fencing /\ file[r] = run[r].result

\* recovery_count, which the evaluation takes as evidence, counts each
\* attempt that ended without a verdict, once: whether the coordinator gave
\* up, was killed, or lost its lease, and in whatever order these were noticed.
RecoveryIsCounted ==
  \A r \in Run :
    run[r].attempt = run[r].recoveries
                     + (IF run[r].status \in Claimable THEN 0 ELSE 1)

\* The status of the whole is that of its runs.
StatusIsHonest ==
  /\ status = "complete" <=> \A r \in Run : run[r].status = "completed"
  /\ status = "running" => \E r \in Run : run[r].status = "running"
  /\ status = "blocked" => \E r \in Run : run[r].status \in {"failed", "invalid"}

\* A completed run is never taken again, and its result stays.
CompletedIsFinal ==
  [][\A r \in Run : run[r].status = "completed" => run'[r] = run[r]]_vars

\* A run is carried to its end, whoever of its coordinators dies on the way.
RunsEnd ==
  \A r \in Run : <>(run[r].status \in Ended \/ run[r].fencing = MaxClaims)
=============================================================================
