-------------------------- MODULE WorkerExecution --------------------------
(***************************************************************************)
(* One worker run by coding agents: the scheduler claims it under a lease   *)
(* and a fencing token (core/worker.mjs), a child process executes it       *)
(* outside any lock and commits in a transaction (core/worker-execution),   *)
(* the supervisor records a child that failed (apex-v2.mjs), an expired     *)
(* claim is recovered, and a blocked worker is retried or handed to the     *)
(* next executor (commands/worker.mjs).                                     *)
(*                                                                         *)
(* A claim under the project lock and a commit in a transaction are one     *)
(* step (ProjectTransaction).  retryWorkerInternal and                      *)
(* fallbackWorkerInternal take no lock: they read worker.json in one step   *)
(* and write what they read, amended, in another.                           *)
(***************************************************************************)
EXTENDS Naturals

CONSTANTS
  Claim,        \* claim tokens; finite in a model: it bounds the claims
  Operator,     \* who retries: the scheduler's cycle, a user at the CLI
  MaxAttempts,  \* policies/retry.json max_attempts
  MaxExecutor,  \* executors 1..MaxExecutor, in adapter_fallback_order
  None

ASSUME ExecutionAssumption ==
  /\ None \notin Claim
  /\ MaxAttempts \in Nat \ {0}
  /\ MaxExecutor \in Nat \ {0}

VARIABLES
  worker,  \* worker.json
  clock,   \* source of updated_at: later writes carry later stamps
  lapsed,  \* claims whose lease has passed
  issued,  \* [Claim -> Nat]: fencing token it was issued with, 0 if unused
  child,   \* [Claim -> ChildStep]: the process executing under the claim
  read,    \* [Claim -> Worker]: worker.json as the child read it
  keys,    \* committed idempotency keys: attempt and executor
  results, \* adapter-result files: attempt and claim
  stale    \* [Operator -> Worker or NoRead]: worker.json as an operator read it

vars == <<worker, clock, lapsed, issued, child, read, keys, results, stale>>

Executor == 1..MaxExecutor

Submitted == {"patch_submitted", "evidence_submitted"}

Worker == [status : {"active", "running", "blocked"} \cup Submitted,
           token : Claim \cup {None}, fencing : Nat, attempt : Nat,
           executor : Executor, stamp : Nat]

NewWorker == [status |-> "active", token |-> None, fencing |-> 0,
              attempt |-> 0, executor |-> 1, stamp |-> 0]

ChildStep == {"none", "claimed", "executing", "succeeded", "failed", "reported"}

\* An operator that has read nothing.
NoRead == NewWorker

TypeOK ==
  /\ worker \in Worker
  /\ clock \in Nat
  /\ lapsed \in SUBSET Claim
  /\ issued \in [Claim -> Nat]
  /\ child \in [Claim -> ChildStep]
  /\ read \in [Claim -> Worker]
  /\ keys \in SUBSET (Nat \X Executor)
  /\ results \in SUBSET [attempt : Nat, claim : Claim]
  /\ stale \in [Operator -> Worker]

Init ==
  /\ worker = NewWorker
  /\ clock = 0
  /\ lapsed = {}
  /\ issued = [c \in Claim |-> 0]
  /\ child = [c \in Claim |-> "none"]
  /\ read = [c \in Claim |-> NewWorker]
  /\ keys = {}
  /\ results = {}
  /\ stale = [o \in Operator |-> NoRead]

Holds(c) == worker.status = "running" /\ worker.token = c

Expired == worker.status = "running" /\ worker.token \in lapsed \cup {None}

\* Every write of worker.json renews updated_at.
Write(w) == /\ clock' = clock + 1
            /\ worker' = [w EXCEPT !.stamp = clock + 1]

ChildGoes(c, s) == child' = [child EXCEPT ![c] = s]

----------------------------------------------------------------------------
(* The claim.                                                              *)

\* A mistake: a running worker is claimed before its lease is over.
ClaimRegardless(c) ==
  /\ child[c] = "none"
  /\ worker.status \in {"active", "running"}
  /\ Write([worker EXCEPT !.status = "running", !.token = c, !.fencing = @ + 1])
  /\ issued' = [issued EXCEPT ![c] = worker.fencing + 1]
  /\ ChildGoes(c, "claimed")
  /\ UNCHANGED <<lapsed, read, keys, results, stale>>

\* An active worker, or one whose claim has expired, is claimed; its sandbox
\* is prepared and the child process is started with the token.
ClaimExecution(c) ==
  /\ child[c] = "none"
  /\ worker.status = "active" \/ Expired
  /\ Write([worker EXCEPT !.status = "running", !.token = c, !.fencing = @ + 1])
  /\ issued' = [issued EXCEPT ![c] = worker.fencing + 1]
  /\ ChildGoes(c, "claimed")
  /\ UNCHANGED <<lapsed, read, keys, results, stale>>

\* Time passes: the lease of the current claim is over.
LeaseLapses ==
  /\ worker.status = "running"
  /\ worker.token \in Claim \ lapsed
  /\ lapsed' = lapsed \cup {worker.token}
  /\ UNCHANGED <<worker, clock, issued, child, read, keys, results, stale>>

\* A mistake: only running workers without a claim are recovered.
RecoverUnclaimed ==
  /\ worker.status = "running" /\ worker.token = None
  /\ Write([worker EXCEPT !.status = "active", !.token = None])
  /\ UNCHANGED <<lapsed, issued, child, read, keys, results, stale>>

RecoverExpired ==
  /\ Expired
  /\ Write([worker EXCEPT !.status = "active", !.token = None])
  /\ UNCHANGED <<lapsed, issued, child, read, keys, results, stale>>

----------------------------------------------------------------------------
(* The child process.                                                      *)

\* exec-agent reads worker.json, and refuses to run without its claim.
ChildStarts(c) ==
  /\ child[c] = "claimed"
  /\ \/ Holds(c) /\ ChildGoes(c, "executing") /\ read' = [read EXCEPT ![c] = worker]
     \/ ~Holds(c) /\ ChildGoes(c, "failed") /\ UNCHANGED read
  /\ UNCHANGED <<worker, clock, lapsed, issued, keys, results, stale>>

CommitKey(c) == <<read[c].attempt + 1, read[c].executor>>

\* The key was committed before: the child prints that commit's result.
ChildIsReplayed(c) ==
  /\ child[c] = "executing"
  /\ CommitKey(c) \in keys
  /\ ChildGoes(c, "succeeded")
  /\ UNCHANGED <<worker, clock, lapsed, issued, read, keys, results, stale>>

\* A mistake: any running worker will do, whoever holds it.
CommitToAnyRunning(c) == worker.status = "running"

\* The worker is as the child read it: its result is recorded.
CommitAllowed(c) == Holds(c) /\ worker.stamp = read[c].stamp

ChildCommits(c) ==
  /\ child[c] = "executing"
  /\ CommitKey(c) \notin keys
  /\ CommitAllowed(c)
  /\ \E s \in Submitted \cup {"blocked"} :
       Write([worker EXCEPT !.status = s, !.token = None, !.attempt = @ + 1])
  /\ keys' = keys \cup {CommitKey(c)}
  /\ results' = results \cup {[attempt |-> worker.attempt + 1, claim |-> c]}
  /\ ChildGoes(c, "succeeded")
  /\ UNCHANGED <<lapsed, issued, read, stale>>

\* The worker changed meanwhile: the transaction throws and is rolled back.
ChildIsRefused(c) ==
  /\ child[c] = "executing"
  /\ CommitKey(c) \notin keys
  /\ ~CommitAllowed(c)
  /\ ChildGoes(c, "failed")
  /\ UNCHANGED <<worker, clock, lapsed, issued, read, keys, results, stale>>

\* Killed, timed out, over its output limit, or its output is not JSON.
ChildDies(c) ==
  /\ child[c] \in {"claimed", "executing", "succeeded"}
  /\ ChildGoes(c, "failed")
  /\ UNCHANGED <<worker, clock, lapsed, issued, read, keys, results, stale>>

\* A mistake: the failed attempt is reported but not counted.
FailureNotCounted(c) ==
  /\ child[c] = "failed"
  /\ \/ /\ Holds(c)
        /\ Write([worker EXCEPT !.status = "blocked", !.token = None])
        /\ results' = results \cup {[attempt |-> worker.attempt + 1, claim |-> c]}
     \/ ~Holds(c) /\ UNCHANGED <<worker, clock, results>>
  /\ ChildGoes(c, "reported")
  /\ UNCHANGED <<lapsed, issued, read, keys, stale>>

\* recordSupervisorFailure: the attempt is spent if the claim still holds,
\* else the failure is stale.  A supervisor that died records nothing.
RecordFailure(c) ==
  /\ child[c] = "failed"
  /\ \/ /\ Holds(c)
        /\ Write([worker EXCEPT !.status = "blocked", !.token = None, !.attempt = @ + 1])
        /\ results' = results \cup {[attempt |-> worker.attempt + 1, claim |-> c]}
     \/ ~Holds(c) /\ UNCHANGED <<worker, clock, results>>
  /\ ChildGoes(c, "reported")
  /\ UNCHANGED <<lapsed, issued, read, keys, stale>>

----------------------------------------------------------------------------
(* Retry and fallback of a blocked worker, without a lock.                 *)

ReadBlocked(o) ==
  /\ stale[o] = NoRead
  /\ worker.status = "blocked"
  /\ stale' = [stale EXCEPT ![o] = worker]
  /\ UNCHANGED <<worker, clock, lapsed, issued, child, read, keys, results>>

Reactivated(w) == [w EXCEPT !.status = "active", !.token = None]

Retry(o) ==
  /\ stale[o] # NoRead
  /\ stale[o].attempt < MaxAttempts
  /\ Write(Reactivated(stale[o]))
  /\ stale' = [stale EXCEPT ![o] = NoRead]
  /\ UNCHANGED <<lapsed, issued, child, read, keys, results>>

Fallback(o) ==
  /\ stale[o] # NoRead
  /\ stale[o].executor < MaxExecutor
  /\ Write([Reactivated(stale[o]) EXCEPT !.executor = @ + 1])
  /\ stale' = [stale EXCEPT ![o] = NoRead]
  /\ UNCHANGED <<lapsed, issued, child, read, keys, results>>

\* The failure kind, or the limits, allow neither.
GiveUp(o) ==
  /\ stale[o] # NoRead
  /\ stale' = [stale EXCEPT ![o] = NoRead]
  /\ UNCHANGED <<worker, clock, lapsed, issued, child, read, keys, results>>

----------------------------------------------------------------------------
Child(c) == ChildStarts(c) \/ ChildIsReplayed(c) \/ ChildCommits(c)
            \/ ChildIsRefused(c)

Operate(o) == ReadBlocked(o) \/ Retry(o) \/ Fallback(o) \/ GiveUp(o)

\* Nothing is left to do for the worker (a bound of the model: the claims).
Settled == /\ worker.status \notin {"running", "blocked"}
           /\ \A c \in Claim : child[c] \in {"none", "succeeded", "reported"}
           /\ worker.status = "active" => \A c \in Claim : child[c] # "none"
           /\ UNCHANGED vars

Next ==
  \/ \E c \in Claim : ClaimExecution(c) \/ Child(c) \/ ChildDies(c) \/ RecordFailure(c)
  \/ LeaseLapses \/ RecoverExpired
  \/ \E o \in Operator : Operate(o)
  \/ Settled

Spec == Init /\ [][Next]_vars

\* Time passes, and every cycle of the scheduler starts with the recovery of
\* the claims that have expired.
FairSpec == Spec /\ WF_vars(LeaseLapses) /\ WF_vars(RecoverExpired)

----------------------------------------------------------------------------
(* Properties.                                                             *)

\* No two children execute the worker at once, unless the lease of one of
\* them is over: lease and fencing prevent duplicate execution.
NoDuplicateExecution ==
  \A c, d \in Claim \ lapsed :
    child[c] = "executing" /\ child[d] = "executing" => c = d

\* Each attempt has one result, whoever recorded it: the child that
\* committed, or the supervisor of a child that failed.
OneResultPerAttempt ==
  \A r, s \in results : r.attempt = s.attempt => r = s

\* A child that reported success has ended its claim: the transaction log
\* never answers the current claim with the result of an earlier one.
SuccessEndsTheClaim == \A c \in Claim : child[c] = "succeeded" => ~Holds(c)

\* Only the newest claim's result is ever recorded: a claim that lost the
\* worker to a later one is fenced off, however late its child answers.
OnlyNewestClaimLands ==
  [][\A r \in results' \ results : \A c \in Claim : issued[c] <= issued[r.claim]]_vars

\* The fencing token and the attempt number never go back: no writer puts
\* back a worker.json it read before somebody else's update.
CountersNeverGoBack ==
  [][worker'.fencing >= worker.fencing /\ worker'.attempt >= worker.attempt]_vars

\* A dead child, supervisor or machine does not keep the worker for ever.
RunningEnds == worker.status = "running" ~> worker.status # "running"
=============================================================================
