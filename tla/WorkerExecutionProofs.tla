----------------------- MODULE WorkerExecutionProofs -----------------------
(***************************************************************************)
(* The safety of WorkerExecution for all claims, limits and executors, when *)
(* one process at a time retries the worker (OneOperator): its scheduler,   *)
(* and no user next to it.  The run MCWorkerExecutionRetryRace shows that   *)
(* two are too many.                                                        *)
(*                                                                         *)
(* And the truth of the supervisor's answers about the children it ran, for *)
(* all numbers and kinds of jobs, whatever ends the parent.                 *)
(***************************************************************************)
EXTENDS WorkerExecution, WorkerSupervisor, FiniteSetTheorems, TLAPS

OneOperator == \A o, p \in Operator : o = p

\* worker.json is as the operator read it: nobody else touches a blocked one.
Fresh == \A o \in Operator : stale[o] # NoRead => worker = stale[o] /\ worker.status = "blocked"

\* Fencing tokens are issued once, the newest to the claim that runs.
Fenced ==
  /\ \A c \in Claim : issued[c] <= worker.fencing /\ (child[c] = "none" => issued[c] = 0)
  /\ \A c \in Claim : Holds(c) => issued[c] = worker.fencing

\* A child that executes within its lease holds the worker.
Leased == \A c \in Claim \ lapsed : child[c] = "executing" => Holds(c)

\* No attempt beyond the worker's own is recorded, and none twice.
Counted ==
  /\ \A r \in results : r.attempt <= worker.attempt
  /\ \A k \in keys : k[1] <= worker.attempt
  /\ OneResultPerAttempt

\* A child that still holds the worker read its present attempt.
Reading == \A c \in Claim : child[c] = "executing" /\ Holds(c) => read[c].attempt = worker.attempt

\* No claim is held before its child is there, nor after it succeeded.
Claimed == \A c \in Claim : child[c] \in {"none", "succeeded"} => ~Holds(c)

WInv == TypeOK /\ Fresh /\ Fenced /\ Leased /\ Counted /\ Reading /\ Claimed

----------------------------------------------------------------------------
LEMMA NewWorkerType == NewWorker \in Worker
<1>1. 1 \in Executor
  BY ExecutionAssumption DEF ExecutionAssumption, Executor
<1>2. QED
  BY <1>1 DEF NewWorker, Worker, Submitted

LEMMA InitInv == Init => WInv
<1> SUFFICES ASSUME Init
             PROVE  WInv
  OBVIOUS
<1>1. TypeOK
  BY NewWorkerType DEF Init, TypeOK, ChildStep, NoRead
<1>2. \A c \in Claim : ~Holds(c)
  BY DEF Init, Holds, NewWorker
<1>3. Fresh /\ Fenced /\ Leased /\ Counted /\ Reading /\ Claimed
  BY <1>2 DEF Init, Fresh, Fenced, Leased, Counted, Reading, Claimed, OneResultPerAttempt,
              NewWorker
<1>4. QED
  BY <1>1, <1>3 DEF WInv

\* A worker record and its amendments.
LEMMA Fields ==
  ASSUME NEW w \in Worker
  PROVE  /\ w.fencing \in Nat /\ w.attempt \in Nat /\ w.executor \in Executor
         /\ w.token \in Claim \cup {None}
         /\ w.status \in {"active", "running", "blocked"} \cup Submitted
  BY DEF Worker

\* What Write puts on disk is the worker it was given, restamped.
LEMMA Written ==
  ASSUME TypeOK, NEW w \in Worker, Write(w)
  PROVE  /\ worker' \in Worker /\ clock' \in Nat
         /\ worker'.status = w.status /\ worker'.token = w.token
         /\ worker'.fencing = w.fencing /\ worker'.attempt = w.attempt
<1>1. clock + 1 \in Nat /\ worker' = [w EXCEPT !.stamp = clock + 1] /\ clock' = clock + 1
  BY DEF TypeOK, Write
<1>2. worker' \in Worker
  BY <1>1 DEF Worker
<1>3. /\ worker'.status = w.status /\ worker'.token = w.token
      /\ worker'.fencing = w.fencing /\ worker'.attempt = w.attempt
  BY <1>1 DEF Worker
<1>4. QED
  BY <1>1, <1>2, <1>3

LEMMA ClaimInv ==
  ASSUME WInv, NEW c \in Claim, ClaimExecution(c)
  PROVE  WInv' /\ worker'.attempt = worker.attempt /\ worker'.fencing = worker.fencing + 1
<1>1. /\ TypeOK /\ worker \in Worker /\ worker.fencing + 1 \in Nat /\ worker.attempt \in Nat
      /\ worker.fencing \in Nat
  BY Fields DEF WInv, TypeOK
<1> DEFINE w == [worker EXCEPT !.status = "running", !.token = c, !.fencing = worker.fencing + 1]
<1>2. w \in Worker
  BY <1>1 DEF Worker
<1>3. w.status = "running" /\ w.token = c /\ w.fencing = worker.fencing + 1 /\ w.attempt = worker.attempt
  BY <1>1 DEF Worker
<1>4. /\ Write(w) /\ child[c] = "none"
      /\ issued' = [issued EXCEPT ![c] = worker.fencing + 1]
      /\ child' = [child EXCEPT ![c] = "claimed"]
      /\ UNCHANGED <<lapsed, read, keys, results, stale>>
  BY DEF ClaimExecution, ChildGoes
<1> HIDE DEF w
<1>5. /\ worker' \in Worker /\ clock' \in Nat /\ worker'.status = "running" /\ worker'.token = c
      /\ worker'.fencing = worker.fencing + 1 /\ worker'.attempt = worker.attempt
  BY <1>1, <1>2, <1>3, <1>4, Written
<1>6. TypeOK'
  BY <1>1, <1>4, <1>5 DEF TypeOK, ChildStep
<1>7. \A d \in Claim : Holds(d)' <=> d = c
  BY <1>5 DEF Holds
<1>8. Fresh'
  <2>1. worker.status # "blocked"
    BY DEF ClaimExecution, Expired
  <2>2. QED
    BY <1>4, <2>1 DEF WInv, Fresh
<1>9. Fenced'
  BY <1>1, <1>4, <1>5, <1>7 DEF WInv, Fenced, TypeOK
<1>10. \A d \in Claim \ lapsed : child'[d] # "executing"
  <2>1. ASSUME NEW d \in Claim \ lapsed, child[d] = "executing"
        PROVE  FALSE
    <3>1. worker.status = "running" /\ worker.token = d
      BY <2>1 DEF WInv, Leased, Holds
    <3>2. QED
      BY <2>1, <3>1, ExecutionAssumption DEF ClaimExecution, Expired, ExecutionAssumption
  <2>2. QED
    BY <1>1, <1>4, <2>1 DEF TypeOK
<1>11. Leased' /\ Claimed' /\ Reading'
  BY <1>1, <1>4, <1>7, <1>10 DEF WInv, TypeOK, Leased, Reading, Claimed
<1>12. Counted'
  BY <1>4, <1>5 DEF WInv, Counted, OneResultPerAttempt
<1>13. QED
  BY <1>5, <1>6, <1>8, <1>9, <1>11, <1>12 DEF WInv

LEMMA LapseInv == ASSUME WInv, LeaseLapses PROVE WInv'
<1>1. /\ lapsed' \in SUBSET Claim /\ lapsed \subseteq lapsed'
      /\ UNCHANGED <<worker, clock, issued, child, read, keys, results, stale>>
  BY DEF WInv, TypeOK, LeaseLapses
<1>2. \A c \in Claim : Holds(c)' <=> Holds(c)
  BY <1>1 DEF Holds
<1>3. TypeOK' /\ Fresh' /\ Leased' /\ Counted'
  BY <1>1, <1>2 DEF WInv, TypeOK, Fresh, Leased, Counted, OneResultPerAttempt
<1>4. Fenced' /\ Reading' /\ Claimed'
  BY <1>1, <1>2 DEF WInv, Fenced, Reading, Claimed
<1>5. QED
  BY <1>3, <1>4 DEF WInv

\* A worker that nobody runs any more, its attempts as before.
LEMMA RecoverInv ==
  ASSUME WInv, RecoverExpired
  PROVE  WInv' /\ worker'.attempt = worker.attempt /\ worker'.fencing = worker.fencing
<1>1. TypeOK /\ worker \in Worker
  BY DEF WInv, TypeOK
<1> DEFINE w == [worker EXCEPT !.status = "active", !.token = None]
<1>2. w \in Worker /\ w.status = "active" /\ w.fencing = worker.fencing /\ w.attempt = worker.attempt
  BY <1>1 DEF Worker
<1>3. Write(w) /\ Expired /\ UNCHANGED <<lapsed, issued, child, read, keys, results, stale>>
  BY DEF RecoverExpired
<1> HIDE DEF w
<1>4. /\ worker' \in Worker /\ clock' \in Nat /\ worker'.status = "active"
      /\ worker'.fencing = worker.fencing /\ worker'.attempt = worker.attempt
  BY <1>1, <1>2, <1>3, Written
<1>5. TypeOK'
  BY <1>1, <1>3, <1>4 DEF TypeOK
<1>6. \A c \in Claim : ~Holds(c)'
  BY <1>4 DEF Holds
<1>7. Leased'
  <2>1. ASSUME NEW c \in Claim \ lapsed, child[c] = "executing"
        PROVE  FALSE
    BY <1>3, <2>1, ExecutionAssumption DEF WInv, Leased, Holds, Expired, ExecutionAssumption
  <2>2. QED
    BY <1>3, <2>1 DEF Leased
<1>8. Fresh'
  BY <1>3 DEF WInv, Fresh, Expired
<1>9. Fenced' /\ Reading' /\ Claimed'
  BY <1>3, <1>4, <1>6 DEF WInv, Fenced, Reading, Claimed
<1>10. Counted'
  BY <1>3, <1>4 DEF WInv, Counted, OneResultPerAttempt
<1>11. QED
  BY <1>4, <1>5, <1>7, <1>8, <1>9, <1>10 DEF WInv

----------------------------------------------------------------------------
\* A step that only moves the child on, to where a holder may stay.
LEMMA ChildMovesInv ==
  ASSUME WInv, NEW c \in Claim, NEW s \in ChildStep, ChildGoes(c, s), child[c] # "none",
         s \notin {"none", "executing"}, s = "succeeded" => ~Holds(c),
         UNCHANGED <<worker, clock, lapsed, issued, read, keys, results, stale>>
  PROVE  WInv'
<1>1. child' = [child EXCEPT ![c] = s] /\ child \in [Claim -> ChildStep]
  BY DEF WInv, TypeOK, ChildGoes
<1>2. TypeOK' /\ Fresh' /\ Counted'
  BY <1>1 DEF WInv, TypeOK, Fresh, Counted, OneResultPerAttempt
<1>3. \A d \in Claim : Holds(d)' <=> Holds(d)
  BY DEF Holds
<1>4. Fenced' /\ Leased' /\ Reading' /\ Claimed'
  BY <1>1, <1>3 DEF WInv, Fenced, Leased, Reading, Claimed
<1>5. QED
  BY <1>2, <1>4 DEF WInv

LEMMA StartInv == ASSUME WInv, NEW c \in Claim, ChildStarts(c) PROVE WInv'
<1>1. CASE Holds(c) /\ ChildGoes(c, "executing") /\ read' = [read EXCEPT ![c] = worker]
  <2>1. /\ child' = [child EXCEPT ![c] = "executing"] /\ child \in [Claim -> ChildStep]
        /\ child[c] = "claimed" /\ worker \in Worker /\ read \in [Claim -> Worker]
        /\ UNCHANGED <<worker, clock, lapsed, issued, keys, results, stale>>
    BY <1>1 DEF WInv, TypeOK, ChildGoes, ChildStarts
  <2>2. TypeOK' /\ Fresh' /\ Counted'
    BY <1>1, <2>1 DEF WInv, TypeOK, Fresh, Counted, OneResultPerAttempt, ChildStep
  <2>3. \A d \in Claim : Holds(d)' <=> Holds(d)
    BY <2>1 DEF Holds
  <2>4. Fenced' /\ Leased' /\ Reading' /\ Claimed'
    BY <1>1, <2>1, <2>3 DEF WInv, Fenced, Leased, Reading, Claimed
  <2>5. QED
    BY <2>2, <2>4 DEF WInv
<1>2. CASE ~Holds(c) /\ ChildGoes(c, "failed") /\ UNCHANGED read
  BY <1>2, ChildMovesInv DEF ChildStarts, ChildStep
<1>3. QED
  BY <1>1, <1>2 DEF ChildStarts

\* A key that was committed is of an attempt the holder has left behind.
LEMMA ReplayedHoldsNothing ==
  ASSUME WInv, NEW c \in Claim, ChildIsReplayed(c)
  PROVE  ~Holds(c)
<1> SUFFICES ASSUME Holds(c)
             PROVE  FALSE
  OBVIOUS
<1>1. CommitKey(c) \in keys /\ CommitKey(c)[1] = read[c].attempt + 1
  BY DEF ChildIsReplayed, CommitKey
<1>2. read[c].attempt = worker.attempt /\ worker.attempt \in Nat
  BY Fields DEF WInv, TypeOK, Reading, ChildIsReplayed
<1>3. CommitKey(c)[1] <= worker.attempt
  BY <1>1 DEF WInv, Counted
<1>4. QED
  BY <1>1, <1>2, <1>3

LEMMA ReplayInv == ASSUME WInv, NEW c \in Claim, ChildIsReplayed(c) PROVE WInv'
  BY ReplayedHoldsNothing, ChildMovesInv DEF ChildIsReplayed, ChildStep

LEMMA RefuseInv == ASSUME WInv, NEW c \in Claim, ChildIsRefused(c) PROVE WInv'
  BY ChildMovesInv DEF ChildIsRefused, ChildStep

LEMMA DieInv == ASSUME WInv, NEW c \in Claim, ChildDies(c) PROVE WInv'
  BY ChildMovesInv DEF ChildDies, ChildStep

\* The one step behind a commit and a recorded failure: the holder's attempt
\* is over, has its result, and the worker is nobody's.
LEMMA EndAttemptInv ==
  ASSUME WInv, NEW c \in Claim, Holds(c),
         NEW st \in {"blocked"} \cup Submitted, NEW s \in {"succeeded", "reported"},
         Write([worker EXCEPT !.status = st, !.token = None, !.attempt = worker.attempt + 1]),
         results' = results \cup {[attempt |-> worker.attempt + 1, claim |-> c]},
         NEW ks, keys' = keys \cup ks, ks \subseteq {<<worker.attempt + 1, read[c].executor>>},
         ChildGoes(c, s), child[c] # "none", UNCHANGED <<lapsed, issued, read, stale>>
  PROVE  WInv' /\ worker'.attempt = worker.attempt + 1 /\ worker'.fencing = worker.fencing
<1>1. /\ TypeOK /\ worker \in Worker /\ worker.attempt + 1 \in Nat
      /\ worker.attempt \in Nat /\ read[c].executor \in Executor /\ worker.status = "running"
  BY Fields DEF WInv, TypeOK, Holds
<1> DEFINE w == [worker EXCEPT !.status = st, !.token = None, !.attempt = worker.attempt + 1]
<1>2. w \in Worker
  BY <1>1 DEF Worker
<1>3. w.status = st /\ w.fencing = worker.fencing /\ w.attempt = worker.attempt + 1
  BY <1>1 DEF Worker
<1>4. Write(w)
  OBVIOUS
<1> HIDE DEF w
<1>5. /\ worker' \in Worker /\ clock' \in Nat /\ worker'.status = st
      /\ worker'.fencing = worker.fencing /\ worker'.attempt = worker.attempt + 1
  BY <1>1, <1>2, <1>3, <1>4, Written
<1>6. child' = [child EXCEPT ![c] = s] /\ child \in [Claim -> ChildStep]
  BY DEF WInv, TypeOK, ChildGoes
<1>7. TypeOK'
  BY <1>1, <1>5, <1>6 DEF TypeOK, ChildStep
<1>8. \A d \in Claim : ~Holds(d)'
  BY <1>5 DEF Holds, Submitted
<1>9. Fresh'
  BY <1>1 DEF WInv, Fresh
<1>10. Leased'
  <2>1. ASSUME NEW d \in Claim \ lapsed, child[d] = "executing"
        PROVE  d = c
    BY <2>1 DEF WInv, Leased, Holds
  <2>2. QED
    BY <1>6, <2>1 DEF Leased
<1>11. Fenced' /\ Reading' /\ Claimed'
  BY <1>5, <1>6, <1>8 DEF WInv, Fenced, Reading, Claimed
<1>12. Counted'
  <2>1. \A r \in results : r.attempt <= worker.attempt /\ r.attempt \in Nat
    BY <1>1 DEF WInv, Counted, TypeOK
  <2>2. \A k \in keys : k[1] <= worker.attempt /\ k[1] \in Nat
    BY <1>1 DEF WInv, Counted, TypeOK
  <2>3. \A r \in results' : r.attempt <= worker'.attempt
    BY <1>1, <1>5, <2>1
  <2>4. \A k \in keys' : k[1] <= worker'.attempt
    BY <1>1, <1>5, <2>2
  <2>5. OneResultPerAttempt'
    BY <1>1, <2>1 DEF WInv, Counted, OneResultPerAttempt
  <2>6. QED
    BY <2>3, <2>4, <2>5 DEF Counted
<1>13. QED
  BY <1>5, <1>7, <1>9, <1>10, <1>11, <1>12 DEF WInv

LEMMA CommitInv ==
  ASSUME WInv, NEW c \in Claim, ChildCommits(c)
  PROVE  WInv' /\ worker'.attempt = worker.attempt + 1 /\ worker'.fencing = worker.fencing
<1>1. PICK st \in Submitted \cup {"blocked"} :
        Write([worker EXCEPT !.status = st, !.token = None, !.attempt = worker.attempt + 1])
  BY DEF ChildCommits
<1>2. Holds(c) /\ child[c] = "executing"
  BY DEF ChildCommits, CommitAllowed
<1>3. CommitKey(c) = <<worker.attempt + 1, read[c].executor>>
  BY <1>2 DEF WInv, Reading, CommitKey
<1>4. /\ keys' = keys \cup {CommitKey(c)} /\ ChildGoes(c, "succeeded")
      /\ results' = results \cup {[attempt |-> worker.attempt + 1, claim |-> c]}
      /\ UNCHANGED <<lapsed, issued, read, stale>>
  BY DEF ChildCommits
<1>5. QED
  BY <1>1, <1>2, <1>3, <1>4, EndAttemptInv

LEMMA FailureInv ==
  ASSUME WInv, NEW c \in Claim, RecordFailure(c)
  PROVE  WInv' /\ (\/ worker' = worker
                   \/ worker'.attempt = worker.attempt + 1 /\ worker'.fencing = worker.fencing)
<1>1. CASE Holds(c)
  <2>1. /\ Write([worker EXCEPT !.status = "blocked", !.token = None, !.attempt = worker.attempt + 1])
        /\ results' = results \cup {[attempt |-> worker.attempt + 1, claim |-> c]}
        /\ ChildGoes(c, "reported") /\ child[c] = "failed"
        /\ keys' = keys \cup {} /\ UNCHANGED <<lapsed, issued, read, stale>>
    BY <1>1 DEF RecordFailure
  <2>2. QED
    BY <1>1, <2>1, EndAttemptInv
<1>2. CASE ~Holds(c)
  BY <1>2, ChildMovesInv DEF RecordFailure, ChildStep
<1>3. QED
  BY <1>1, <1>2

----------------------------------------------------------------------------
LEMMA ReadBlockedInv == ASSUME WInv, NEW o \in Operator, ReadBlocked(o) PROVE WInv'
<1>1. /\ stale' = [stale EXCEPT ![o] = worker] /\ worker.status = "blocked"
      /\ UNCHANGED <<worker, clock, lapsed, issued, child, read, keys, results>>
  BY DEF ReadBlocked
<1>2. \A d \in Claim : Holds(d)' <=> Holds(d)
  BY <1>1 DEF Holds
<1>3. TypeOK' /\ Fresh' /\ Counted'
  BY <1>1 DEF WInv, TypeOK, Fresh, Counted, OneResultPerAttempt
<1>4. Fenced' /\ Leased' /\ Reading' /\ Claimed'
  BY <1>1, <1>2 DEF WInv, Fenced, Leased, Reading, Claimed
<1>5. QED
  BY <1>3, <1>4 DEF WInv

LEMMA GiveUpInv == ASSUME WInv, NEW o \in Operator, GiveUp(o) PROVE WInv'
<1>1. /\ stale' = [stale EXCEPT ![o] = NoRead]
      /\ UNCHANGED <<worker, clock, lapsed, issued, child, read, keys, results>>
  BY DEF GiveUp
<1>2. \A d \in Claim : Holds(d)' <=> Holds(d)
  BY <1>1 DEF Holds
<1>3. TypeOK' /\ Fresh' /\ Counted'
  BY <1>1, NewWorkerType DEF WInv, TypeOK, Fresh, Counted, OneResultPerAttempt, NoRead
<1>4. Fenced' /\ Leased' /\ Reading' /\ Claimed'
  BY <1>1, <1>2 DEF WInv, Fenced, Leased, Reading, Claimed
<1>5. QED
  BY <1>3, <1>4 DEF WInv

\* The one step behind a retry and a fallback: the blocked worker, which is
\* still as the operator read it, is active again.
LEMMA ReactivateInv ==
  ASSUME WInv, OneOperator, NEW o \in Operator, stale[o] # NoRead, NEW w \in Worker, Write(w),
         w.status = "active", w.attempt = stale[o].attempt, w.fencing = stale[o].fencing,
         stale' = [stale EXCEPT ![o] = NoRead],
         UNCHANGED <<lapsed, issued, child, read, keys, results>>
  PROVE  WInv' /\ worker'.attempt = worker.attempt /\ worker'.fencing = worker.fencing
<1>1. worker = stale[o] /\ worker.status = "blocked" /\ TypeOK
  BY DEF WInv, Fresh
<1>2. /\ worker' \in Worker /\ clock' \in Nat /\ worker'.status = "active"
      /\ worker'.fencing = worker.fencing /\ worker'.attempt = worker.attempt
  BY <1>1, Written
<1>3. TypeOK'
  BY <1>1, <1>2, NewWorkerType DEF TypeOK, NoRead
<1>4. \A d \in Claim : ~Holds(d) /\ ~Holds(d)'
  BY <1>1, <1>2 DEF Holds
<1>5. Fresh'
  BY <1>1 DEF OneOperator, Fresh, TypeOK
<1>6. Fenced' /\ Leased' /\ Reading' /\ Claimed'
  BY <1>2, <1>4 DEF WInv, Fenced, Leased, Reading, Claimed
<1>7. Counted'
  BY <1>2 DEF WInv, Counted, OneResultPerAttempt
<1>8. QED
  BY <1>2, <1>3, <1>5, <1>6, <1>7 DEF WInv

LEMMA RetryInv ==
  ASSUME WInv, OneOperator, NEW o \in Operator, Retry(o)
  PROVE  WInv' /\ worker'.attempt = worker.attempt /\ worker'.fencing = worker.fencing
<1>1. stale[o] \in Worker
  BY DEF WInv, TypeOK
<1> DEFINE w == Reactivated(stale[o])
<1>2. /\ w \in Worker /\ w.status = "active"
      /\ w.attempt = stale[o].attempt /\ w.fencing = stale[o].fencing
  BY <1>1 DEF Reactivated, Worker
<1>3. QED
  BY <1>2, ReactivateInv DEF Retry

LEMMA FallbackInv ==
  ASSUME WInv, OneOperator, NEW o \in Operator, Fallback(o)
  PROVE  WInv' /\ worker'.attempt = worker.attempt /\ worker'.fencing = worker.fencing
<1>1. stale[o] \in Worker /\ stale[o].executor \in Executor
  BY Fields DEF WInv, TypeOK
<1>2. stale[o].executor + 1 \in Executor
  BY <1>1, ExecutionAssumption DEF Fallback, Executor, ExecutionAssumption
<1> DEFINE v == Reactivated(stale[o])
           w == [v EXCEPT !.executor = @ + 1]
<1>3. /\ v \in Worker /\ v.status = "active" /\ v.executor = stale[o].executor
      /\ v.attempt = stale[o].attempt /\ v.fencing = stale[o].fencing
  BY <1>1 DEF Reactivated, Worker
<1> HIDE DEF v
<1>4. w \in Worker /\ w.status = "active" /\ w.attempt = v.attempt /\ w.fencing = v.fencing
  BY <1>2, <1>3 DEF Worker
<1>5. Write(w) /\ stale[o] # NoRead /\ stale' = [stale EXCEPT ![o] = NoRead]
      /\ UNCHANGED <<lapsed, issued, child, read, keys, results>>
  BY DEF Fallback, v
<1> HIDE DEF w
<1>6. QED
  BY <1>3, <1>4, <1>5, ReactivateInv

----------------------------------------------------------------------------
LEMMA StutterInv == ASSUME WInv, UNCHANGED vars PROVE WInv'
<1>1. \A d \in Claim : Holds(d)' <=> Holds(d)
  BY DEF vars, Holds
<1>2. TypeOK' /\ Fresh' /\ Counted'
  BY DEF vars, WInv, TypeOK, Fresh, Counted, OneResultPerAttempt
<1>3. Fenced' /\ Leased' /\ Reading' /\ Claimed'
  BY <1>1 DEF vars, WInv, Fenced, Leased, Reading, Claimed
<1>4. QED
  BY <1>2, <1>3 DEF WInv

LEMMA StepInv == ASSUME WInv, OneOperator, [Next]_vars PROVE WInv'
<1>1. CASE UNCHANGED vars
  BY <1>1, StutterInv
<1>2. ASSUME NEW c \in Claim,
             ClaimExecution(c) \/ Child(c) \/ ChildDies(c) \/ RecordFailure(c)
      PROVE  WInv'
  BY <1>2, ClaimInv, StartInv, ReplayInv, CommitInv, RefuseInv, DieInv, FailureInv DEF Child
<1>3. CASE LeaseLapses \/ RecoverExpired
  BY <1>3, LapseInv, RecoverInv
<1>4. ASSUME NEW o \in Operator, Operate(o)
      PROVE  WInv'
  BY <1>4, ReadBlockedInv, RetryInv, FallbackInv, GiveUpInv DEF Operate
<1>5. QED
  BY <1>1, <1>2, <1>3, <1>4 DEF Next, Settled

\* The strengthened invariant, for one operator.
THEOREM ExecutionSound == ASSUME OneOperator PROVE Spec => []WInv
<1>1. WInv /\ [Next]_vars => WInv'
  BY StepInv
<1>2. QED
  BY InitInv, <1>1, PTL DEF Spec

\* Two children never execute one worker, both within their leases
\* (worker.mjs claimWorkerExecution, worker-execution.mjs assertClaim).
THEOREM NoDuplicates == ASSUME OneOperator PROVE Spec => []NoDuplicateExecution
<1>1. WInv => NoDuplicateExecution
  BY DEF WInv, Leased, Holds, NoDuplicateExecution
<1>2. QED
  BY ExecutionSound, <1>1, PTL

\* No attempt is recorded twice, by child and supervisor or by two children
\* (commitAgentExecution, recordSupervisorFailure).
THEOREM OneResult == ASSUME OneOperator PROVE Spec => []OneResultPerAttempt
<1>1. WInv => OneResultPerAttempt
  BY DEF WInv, Counted
<1>2. QED
  BY ExecutionSound, <1>1, PTL

\* A replayed key never stands for the result of the claim that holds the
\* worker (agentCommitKey against the attempts counted in worker.json).
THEOREM SuccessIsOfTheClaim == ASSUME OneOperator PROVE Spec => []SuccessEndsTheClaim
<1>1. WInv => SuccessEndsTheClaim
  BY DEF WInv, Claimed, SuccessEndsTheClaim
<1>2. QED
  BY ExecutionSound, <1>1, PTL

\* What lands is the newest claim's (the fencing check of the commit).
THEOREM NewestLands == ASSUME OneOperator PROVE Spec => OnlyNewestClaimLands
<1>1. ASSUME WInv, [Next]_vars, NEW r \in results' \ results
      PROVE  \A c \in Claim : issued[c] <= issued[r.claim]
  <2>1. PICK d \in Claim : results' = results \cup {[attempt |-> worker.attempt + 1, claim |-> d]}
                           /\ Holds(d)
    BY <1>1 DEF Next, vars, ClaimExecution, Child, ChildStarts, ChildIsReplayed, ChildCommits,
         CommitAllowed, ChildIsRefused, ChildDies, RecordFailure, LeaseLapses, RecoverExpired,
         Operate, ReadBlocked, Retry, Fallback, GiveUp, Settled
  <2>2. r.claim = d
    BY <1>1, <2>1
  <2>3. QED
    BY <1>1, <2>1, <2>2 DEF WInv, Fenced
<1>2. WInv /\ [Next]_vars =>
        [\A r \in results' \ results : \A c \in Claim : issued[c] <= issued[r.claim]]_vars
  BY <1>1
<1>3. QED
  BY ExecutionSound, <1>2, PTL DEF Spec, OnlyNewestClaimLands

\* No writer of worker.json puts back counters it read earlier
\* (retryWorkerInternal and fallbackWorkerInternal, which take no lock).
THEOREM CountersGrow == ASSUME OneOperator PROVE Spec => CountersNeverGoBack
<1> DEFINE A == worker'.fencing >= worker.fencing /\ worker'.attempt >= worker.attempt
<1>1. ASSUME WInv, Next
      PROVE  A
  <2>1. worker.fencing \in Nat /\ worker.attempt \in Nat
    BY <1>1, Fields DEF WInv, TypeOK
  <2>2. ASSUME NEW c \in Claim, ClaimExecution(c)
        PROVE  A
    BY <1>1, <2>1, <2>2, ClaimInv
  <2>3. ASSUME NEW c \in Claim, Child(c) \/ ChildDies(c) \/ RecordFailure(c)
        PROVE  A
    BY <1>1, <2>1, <2>3, CommitInv, FailureInv
       DEF Child, ChildStarts, ChildIsReplayed, ChildIsRefused, ChildDies
  <2>4. CASE LeaseLapses \/ RecoverExpired
    BY <1>1, <2>1, <2>4, RecoverInv DEF LeaseLapses
  <2>5. ASSUME NEW o \in Operator, Operate(o)
        PROVE  A
    BY <1>1, <2>1, <2>5, RetryInv, FallbackInv DEF Operate, ReadBlocked, GiveUp
  <2>6. QED
    BY <1>1, <2>1, <2>2, <2>3, <2>4, <2>5 DEF Next, Settled, vars
<1>2. WInv /\ [Next]_vars => [A]_vars
  BY <1>1
<1>3. QED
  BY ExecutionSound, <1>2, PTL DEF Spec, CountersNeverGoBack
----------------------------------------------------------------------------
(* The supervisor of the children.  SupervisorInv: a job whose turn has not *)
(* come is new; of an active one it is known why it was told to end, if it  *)
(* was; an answered one has a status that is true, and stays as it is.      *)

\* A job, in state s, of which run() has not come to the turn.
Untaken(s, j) == j > next => s = NewJob /\ leader[j] = "none"

\* What is known of a command that was started, and of who ended it why.
Running(s, j) ==
  /\ kind[j].spawn # "throws"
  /\ kind[j].spawn = "starts" => leader[j] # "none"
  /\ leader[j] = "killed" => s.termSent
  /\ s.killTimer = "set" => s.termSent
  /\ s.termSent => s.reason # NoReason
  /\ s.reason = "timeout" => s.timedOut
  /\ s.reason = "output-limit" => s.overflow
  /\ s.reason \in {"supervisor-close", "parent-exit"} => stop # NoReason \/ parent = "gone"

\* A status that is true, of a command that is no more.
Answered(s, j) ==
  /\ leader[j] # "running"
  /\ s.status = "succeeded" => ~s.termSent /\ leader[j] = "zero"
  /\ s.status = "failed" => ~s.termSent /\ leader[j] = "nonzero"
  /\ leader[j] = "none" => s.status \in {"spawn_error", "cancelled"}
  /\ s.status = "cancelled" => stop # NoReason

JobInv(s, j) ==
  /\ Untaken(s, j)
  /\ s.at = "active" => Running(s, j)
  /\ s.at = "answered" => Answered(s, j)

SupervisorInv == SupervisorTypeOK /\ \A j \in Job : JobInv(job[j], j)

\* schedule() starts the jobs in order, with no gap, and none past the last.
LEMMA StartedInOrder ==
  ASSUME SupervisorAssumption, next \in 0..Jobs, NEW jobs
  PROVE  /\ Started(jobs) \subseteq Job
         /\ \A j \in Started(jobs) : j > next /\ j <= next + Cardinality(Started(jobs))
         /\ next + Cardinality(Started(jobs)) \in 0..Jobs
<1> DEFINE S == Started(jobs)
           A == In(jobs, "active")
           Ahead(j) == {i \in next + 1 .. j - 1 : kind[i].spawn # "throws"}
<1>0. Jobs \in Nat /\ next \in Nat /\ next <= Jobs /\ MaxConcurrency \in Nat
  BY DEF SupervisorAssumption
<1>1. \A j : j \in S <=> j \in next + 1 .. Jobs /\ Cardinality(A) + Cardinality(Ahead(j)) < MaxConcurrency
  BY DEF Started
<1>2. Cardinality(A) \in Nat
  <2>1. A \subseteq 1..Jobs
    BY DEF In, Job
  <2>2. IsFiniteSet(1..Jobs)
    BY <1>0, FS_Interval
  <2>3. IsFiniteSet(A)
    BY <2>1, <2>2, FS_Subset
  <2>4. QED
    BY <2>3, FS_CardinalityType
<1>3. S \subseteq next + 1 .. Jobs
  BY <1>1
<1>4. IsFiniteSet(S) /\ Cardinality(S) \in Nat /\ Cardinality(S) <= Jobs - next
  <2>1. /\ IsFiniteSet(next + 1 .. Jobs)
        /\ Cardinality(next + 1 .. Jobs) = IF next + 1 > Jobs THEN 0 ELSE Jobs - (next + 1) + 1
    BY <1>0, FS_Interval
  <2>2. IsFiniteSet(S) /\ Cardinality(S) <= Cardinality(next + 1 .. Jobs)
    BY <1>3, <2>1, FS_Subset
  <2>3. Cardinality(S) \in Nat
    BY <2>2, FS_CardinalityType
  <2>4. QED
    BY <1>0, <2>1, <2>2, <2>3
<1>5. ASSUME NEW j \in S
      PROVE  j > next /\ j <= next + Cardinality(S)
  <2>1. j \in Nat /\ j > next /\ j <= Jobs
    BY <1>0, <1>3
  <2>2. \A i \in next + 1 .. j : i \in S
    <3> SUFFICES ASSUME NEW i \in next + 1 .. j
                 PROVE  i \in S
      OBVIOUS
    <3>1. Ahead(i) \subseteq Ahead(j)
      BY <1>0, <2>1
    <3>2. IsFiniteSet(Ahead(j))
      <4>1. Ahead(j) \subseteq next + 1 .. j - 1
        OBVIOUS
      <4>2. IsFiniteSet(next + 1 .. j - 1)
        BY <1>0, <2>1, FS_Interval
      <4>3. QED
        BY <4>1, <4>2, FS_Subset
    <3>3. IsFiniteSet(Ahead(i)) /\ Cardinality(Ahead(i)) <= Cardinality(Ahead(j))
      BY <3>1, <3>2, FS_Subset
    <3>4. Cardinality(Ahead(i)) \in Nat /\ Cardinality(Ahead(j)) \in Nat
      BY <3>2, <3>3, FS_CardinalityType
    <3>5. i \in next + 1 .. Jobs
      BY <1>0, <2>1
    <3>6. Cardinality(A) + Cardinality(Ahead(j)) < MaxConcurrency
      BY <1>1
    <3>7. Cardinality(A) + Cardinality(Ahead(i)) < MaxConcurrency
      <4> HIDE DEF A, Ahead
      <4> QED
        BY <1>0, <1>2, <3>3, <3>4, <3>6
    <3>8. QED
      BY <1>1, <3>5, <3>7
  <2>3. Cardinality(next + 1 .. j) = j - next
    BY <1>0, <2>1, FS_Interval
  <2>4. Cardinality(next + 1 .. j) <= Cardinality(S)
    BY <1>4, <2>2, FS_Subset
  <2>5. QED
    <3> HIDE DEF S
    <3> QED
      BY <1>0, <1>4, <2>1, <2>3, <2>4
<1>6. S \subseteq Job
  BY <1>0, <1>3 DEF Job
<1>7. next + Cardinality(S) \in 0..Jobs
  <2> HIDE DEF S
  <2> QED
    BY <1>0, <1>4
<1>8. QED
  BY <1>5, <1>6, <1>7

LEMMA NewJobType ==
  ASSUME NEW j \in Job
  PROVE  /\ Launched(j) \in JobState
         /\ \A reason \in Reason : CancelledBeforeStart(reason) \in JobState
<1>1. NewJob \in JobState
  BY DEF NewJob, JobState
<1>2. QED
  BY <1>1 DEF Launched, CancelledBeforeStart, NewJob, JobState, Status, Reason

\* terminate changes nothing but these.
LEMMA TerminatedFields ==
  ASSUME NEW s \in JobState, NEW reason \in Reason
  PROVE  /\ Terminated(s, reason) \in JobState
         /\ Terminated(s, reason).at = s.at
         /\ Terminated(s, reason).timedOut = s.timedOut
         /\ Terminated(s, reason).overflow = s.overflow
         /\ Terminated(s, reason).status = s.status
         /\ Terminated(s, reason).termSent = TRUE
         /\ Terminated(s, reason).reason = IF s.reason = NoReason THEN reason ELSE s.reason
  BY DEF Terminated, JobState

\* A job that is told to end, for a reason that is on record.
LEMMA TerminatedInv ==
  ASSUME SupervisorAssumption, NEW j \in Job, NEW s \in JobState, NEW u \in JobState,
         NEW reason \in Reason, JobInv(u, j), u.at = "active",
         s.at = "active", s.termSent = u.termSent, s.reason = u.reason,
         u.timedOut => s.timedOut, u.overflow => s.overflow,
         reason = "timeout" => s.timedOut, reason = "output-limit" => s.overflow,
         reason \in {"supervisor-close", "parent-exit"} => stop' # NoReason \/ parent' = "gone",
         stop # NoReason => stop' # NoReason, parent = "gone" => parent' = "gone",
         leader'[j] \in {leader[j], "killed"}, leader[j] = "none" => leader'[j] = "none",
         UNCHANGED <<kind, next>>
  PROVE  JobInv(Terminated(s, reason), j)'
<1> DEFINE v == Terminated(s, reason)
<1>1. /\ v.at = "active" /\ v.timedOut = s.timedOut /\ v.overflow = s.overflow
      /\ v.termSent = TRUE /\ v.reason = IF u.reason = NoReason THEN reason ELSE u.reason
  BY TerminatedFields
<1>2. Running(u, j) /\ ~(j > next)
  BY DEF JobInv, Untaken, NewJob
<1> HIDE DEF v
<1>3. v.reason # NoReason
  BY <1>1 DEF SupervisorAssumption, Reason
<1>4. v.reason = "timeout" => v.timedOut
  BY <1>1, <1>2 DEF Running
<1>5. v.reason = "output-limit" => v.overflow
  BY <1>1, <1>2 DEF Running
<1>6. v.reason \in {"supervisor-close", "parent-exit"} => stop' # NoReason \/ parent' = "gone"
  BY <1>1, <1>2 DEF Running
<1>7. Running(v, j)'
  BY <1>1, <1>2, <1>3, <1>4, <1>5, <1>6 DEF Running
<1>8. QED
  BY <1>1, <1>2, <1>7 DEF JobInv, Untaken, v

\* A job that nobody touches.
LEMMA JobStays ==
  ASSUME NEW j \in Job, NEW s, JobInv(s, j), leader'[j] = leader[j],
         stop # NoReason => stop' # NoReason, parent = "gone" => parent' = "gone",
         UNCHANGED <<kind, next>>
  PROVE  JobInv(s, j)'
  BY DEF JobInv, Untaken, Running, Answered

LEMMA ScheduleInv ==
  ASSUME SupervisorAssumption, SupervisorTypeOK, parent # "gone",
         NEW jobs \in [Job -> JobState], \A j \in Job : JobInv(jobs[j], j),
         Schedule(jobs, stop), UNCHANGED <<kind, stop, waiting>>
  PROVE  SupervisorInv'
<1> DEFINE started == IF stop = NoReason THEN Started(jobs) ELSE {}
           after == [j \in Job |->
                       IF j <= next THEN jobs[j]
                       ELSE IF stop # NoReason THEN CancelledBeforeStart(stop)
                       ELSE IF j \in started THEN Launched(j) ELSE jobs[j]]
<1>1. /\ job' = after
      /\ next' = IF stop # NoReason THEN Jobs ELSE next + Cardinality(started)
      /\ leader' = [j \in Job |-> IF j \in started /\ kind[j].spawn = "starts"
                                  THEN "running" ELSE leader[j]]
      /\ helper' = [j \in Job |-> IF j \in started /\ kind[j].spawn = "starts"
                                     /\ kind[j].helper # "absent"
                                  THEN "running" ELSE helper[j]]
      /\ registered' \in BOOLEAN
      /\ parent' = "running"
  BY DEF Schedule
<1>2. /\ next \in 0..Jobs /\ Jobs \in Nat /\ stop \in Reason \cup {NoReason}
      /\ leader \in [Job -> {"none", "running", "zero", "nonzero", "killed"}]
      /\ helper \in [Job -> {"none", "running", "gone"}]
      /\ kind \in [Job -> Kind]
  BY DEF SupervisorTypeOK, SupervisorAssumption, Reason
<1>3. /\ started \subseteq Job
      /\ \A j \in started : j > next /\ j <= next'
      /\ next' \in 0..Jobs /\ next <= next'
  <2>1. CASE stop = NoReason
    <3>1. /\ Started(jobs) \subseteq Job
          /\ \A j \in Started(jobs) : j > next /\ j <= next + Cardinality(Started(jobs))
          /\ next + Cardinality(Started(jobs)) \in 0..Jobs
      BY <1>2, StartedInOrder
    <3>2. started = Started(jobs) /\ next' = next + Cardinality(Started(jobs))
      BY <1>1, <2>1
    <3>3. Started(jobs) = {} => Cardinality(Started(jobs)) = 0
      BY FS_EmptySet
    <3>4. next <= next'
      <4>1. CASE Started(jobs) = {}
        BY <1>2, <3>2, <3>3, <4>1
      <4>2. CASE Started(jobs) # {}
        <5>1. PICK j \in Started(jobs) : TRUE
          BY <4>2
        <5>2. j \in Nat /\ j > next /\ j <= next'
          BY <1>2, <3>1, <3>2, <5>1 DEF Job
        <5>3. next' \in Nat /\ next \in Nat
          BY <1>2, <3>1, <3>2
        <5>4. QED
          BY <5>2, <5>3
      <4>3. QED
        BY <4>1, <4>2
    <3>5. QED
      BY <3>1, <3>2, <3>4
  <2>2. CASE stop # NoReason
    BY <1>1, <1>2, <2>2
  <2>3. QED
    BY <2>1, <2>2
<1> HIDE DEF started
<1>4. ASSUME NEW j \in Job
      PROVE  after[j] \in JobState
  BY <1>2, NewJobType
<1>5. SupervisorTypeOK'
  BY <1>1, <1>2, <1>3, <1>4 DEF SupervisorTypeOK
<1>6. ASSUME NEW j \in Job
      PROVE  JobInv(job[j], j)'
  <2>0. j \in Nat /\ next \in Nat /\ next' \in Nat
    BY <1>2, <1>3 DEF Job
  <2>1. CASE j <= next
    <3>1. j \notin started
      BY <1>3, <2>0, <2>1
    <3>2. job'[j] = jobs[j] /\ leader'[j] = leader[j] /\ ~(j > next')
      BY <1>1, <1>3, <2>0, <2>1, <3>1
    <3>3. JobInv(jobs[j], j)
      OBVIOUS
    <3>4. QED
      BY <1>1, <3>2, <3>3 DEF JobInv, Untaken, Running, Answered
  <2>2. CASE ~(j <= next) /\ stop # NoReason
    <3>1. /\ job'[j] = CancelledBeforeStart(stop) /\ leader'[j] = leader[j] /\ next' = Jobs
          /\ leader[j] = "none"
      BY <1>1, <2>0, <2>2 DEF started, JobInv, Untaken
    <3>2. /\ CancelledBeforeStart(stop).at = "answered"
          /\ CancelledBeforeStart(stop).status = "cancelled"
      BY DEF CancelledBeforeStart, NewJob
    <3>3. ~(j > next')
      BY <1>2, <2>0, <3>1 DEF Job
    <3>4. QED
      BY <2>2, <3>1, <3>2, <3>3 DEF JobInv, Untaken, Answered
  <2>3. CASE ~(j <= next) /\ stop = NoReason
    <3>0. jobs[j] = NewJob /\ leader[j] = "none"
      BY <2>0, <2>3 DEF JobInv, Untaken
    <3>1. CASE j \in started /\ kind[j].spawn = "throws"
      <4>1. job'[j] = Launched(j) /\ leader'[j] = "none" /\ ~(j > next')
        BY <1>1, <1>3, <2>0, <2>3, <3>0, <3>1
      <4>2. Launched(j).at = "answered" /\ Launched(j).status = "spawn_error"
        BY <3>1 DEF Launched, NewJob
      <4>3. QED
        BY <4>1, <4>2 DEF JobInv, Untaken, Answered
    <3>2. CASE j \in started /\ kind[j].spawn # "throws"
      <4>1. /\ job'[j] = Launched(j) /\ ~(j > next')
            /\ leader'[j] = IF kind[j].spawn = "starts" THEN "running" ELSE "none"
        BY <1>1, <1>3, <2>0, <2>3, <3>0, <3>2
      <4>2. /\ job'[j].at = "active" /\ job'[j].reason = NoReason
            /\ job'[j].termSent = FALSE /\ job'[j].killTimer = "unset"
        BY <3>2, <4>1 DEF Launched, NewJob
      <4>3. Running(job[j], j)'
        BY <3>2, <4>1, <4>2 DEF Running, SupervisorAssumption
      <4>4. QED
        BY <4>1, <4>2, <4>3 DEF JobInv, Untaken
    <3>3. CASE j \notin started
      <4>1. job'[j] = NewJob /\ leader'[j] = "none"
        BY <1>1, <2>0, <2>3, <3>0, <3>3
      <4>2. NewJob.at = "queued"
        BY DEF NewJob
      <4>3. QED
        BY <4>1, <4>2 DEF JobInv, Untaken
    <3>4. QED
      BY <3>1, <3>2, <3>3
  <2>4. QED
    BY <2>1, <2>2, <2>3
<1>7. QED
  BY <1>5, <1>6 DEF SupervisorInv

LEMMA CloseInv ==
  ASSUME SupervisorAssumption, SupervisorInv, NEW j \in Job, Close(j)
  PROVE  SupervisorInv'
<1> DEFINE jobs == Finished(j)
<1>1. /\ SupervisorTypeOK /\ parent = "running" /\ job[j].at = "active" /\ ~PipesOpen(j)
      /\ Schedule(jobs, stop) /\ UNCHANGED <<kind, stop, waiting>>
  BY DEF Close, SupervisorInv
<1>2. job \in [Job -> JobState]
  BY <1>1 DEF SupervisorTypeOK
<1>3. JobInv(job[j], j) /\ Running(job[j], j) /\ ~(j > next)
  BY <1>1 DEF SupervisorInv, JobInv, Untaken, NewJob
<1>4. /\ jobs[j].at = "answered" /\ jobs[j].status = StatusOf(j)
      /\ jobs[j].termSent = job[j].termSent
      /\ \A i \in Job : i # j => jobs[i] = job[i]
      /\ jobs \in [Job -> JobState]
  <2>1. StatusOf(j) \in Status
    BY DEF StatusOf, Status
  <2>2. job[j] \in JobState
    BY <1>2
  <2>3. [job[j] EXCEPT !.at = "answered", !.status = StatusOf(j), !.killTimer = "over"] \in JobState
    BY <2>1, <2>2 DEF JobState
  <2>4. QED
    BY <1>2, <2>2, <2>3 DEF Finished, JobState
<1> HIDE DEF jobs
<1>5. /\ kind[j].spawn \in {"starts", "fails"}
      /\ leader[j] \in {"none", "zero", "nonzero", "killed"}
      /\ job[j].reason \in Reason \cup {NoReason}
  <2>1. kind[j] \in Kind /\ leader[j] \in {"none", "running", "zero", "nonzero", "killed"}
    BY <1>1 DEF SupervisorTypeOK
  <2>2. kind[j].spawn \in {"starts", "throws", "fails"}
    BY <2>1 DEF SupervisorAssumption
  <2>3. leader[j] # "running"
    BY <1>1 DEF PipesOpen
  <2>4. QED
    BY <1>2, <1>3, <2>1, <2>2, <2>3 DEF Running, JobState
<1>6. Answered(jobs[j], j)
  <2>1. CASE kind[j].spawn = "fails"
    BY <1>4, <1>5, <2>1 DEF StatusOf, Answered
  <2>2. CASE kind[j].spawn = "starts"
    <3>1. /\ leader[j] # "none"
          /\ leader[j] = "killed" => job[j].termSent
          /\ job[j].termSent => job[j].reason # NoReason
      BY <1>3, <2>2 DEF Running
    <3>2. job[j].reason # NoReason /\ ~job[j].timedOut /\ ~job[j].overflow => stop # NoReason
      BY <1>1, <1>3, <1>5 DEF Running, Reason
    <3>3. QED
      BY <1>4, <1>5, <2>2, <3>1, <3>2 DEF StatusOf, Answered
  <2>3. QED
    BY <1>5, <2>1, <2>2
<1>7. \A i \in Job : JobInv(jobs[i], i)
  BY <1>3, <1>4, <1>6 DEF SupervisorInv, JobInv, Untaken
<1>8. QED
  BY <1>1, <1>4, <1>7, ScheduleInv

\* One active job is told to end.
LEMMA OneTerminatedInv ==
  ASSUME SupervisorAssumption, SupervisorInv, NEW j \in Job, Timeout(j) \/ Overflow(j)
  PROVE  SupervisorInv'
<1>1. SupervisorTypeOK /\ job \in [Job -> JobState] /\ job[j].at = "active"
  BY DEF SupervisorInv, SupervisorTypeOK, Timeout, Overflow
<1>2. PICK s \in JobState, reason \in Reason :
        /\ job' = [job EXCEPT ![j] = Terminated(s, reason)]
        /\ s.at = "active" /\ s.termSent = job[j].termSent /\ s.reason = job[j].reason
        /\ job[j].timedOut => s.timedOut
        /\ job[j].overflow => s.overflow
        /\ reason = "timeout" => s.timedOut
        /\ reason = "output-limit" => s.overflow
        /\ reason \in {"timeout", "output-limit"}
  <2>1. CASE Timeout(j)
    <3> DEFINE s == [job[j] EXCEPT !.timedOut = TRUE]
    <3>1. /\ s \in JobState /\ s.at = "active" /\ s.termSent = job[j].termSent
          /\ s.reason = job[j].reason /\ s.timedOut = TRUE /\ s.overflow = job[j].overflow
      BY <1>1 DEF JobState
    <3>2. job' = [job EXCEPT ![j] = Terminated(s, "timeout")]
      BY <2>1 DEF Timeout
    <3> HIDE DEF s
    <3>3. QED
      BY <3>1, <3>2 DEF Reason
  <2>2. CASE Overflow(j)
    <3> DEFINE s == [job[j] EXCEPT !.overflow = TRUE]
    <3>1. /\ s \in JobState /\ s.at = "active" /\ s.termSent = job[j].termSent
          /\ s.reason = job[j].reason /\ s.overflow = TRUE /\ s.timedOut = job[j].timedOut
      BY <1>1 DEF JobState
    <3>2. job' = [job EXCEPT ![j] = Terminated(s, "output-limit")]
      BY <2>2 DEF Overflow
    <3> HIDE DEF s
    <3>3. QED
      BY <3>1, <3>2 DEF Reason
  <2>3. QED
    BY <2>1, <2>2
<1>3. UNCHANGED <<kind, next, leader, helper, stop, registered, waiting, parent>>
  BY DEF Timeout, Overflow
<1>4. /\ job' \in [Job -> JobState] /\ job'[j] = Terminated(s, reason)
      /\ \A i \in Job : i # j => job'[i] = job[i]
  <2>1. Terminated(s, reason) \in JobState
    BY TerminatedFields
  <2>2. QED
    BY <1>1, <1>2, <2>1
<1>5. SupervisorTypeOK'
  BY <1>1, <1>3, <1>4 DEF SupervisorTypeOK
<1>6. JobInv(Terminated(s, reason), j)'
  <2>1. JobInv(job[j], j) /\ job[j] \in JobState
    BY <1>1 DEF SupervisorInv
  <2>2. QED
    BY <1>1, <1>2, <1>3, <2>1, TerminatedInv
<1>7. ASSUME NEW i \in Job
      PROVE  JobInv(job[i], i)'
  <2>1. CASE i = j
    BY <1>4, <1>6, <2>1 DEF JobInv, Untaken, Running, Answered
  <2>2. CASE i # j
    <3>1. JobInv(job[i], i) /\ job'[i] = job[i]
      BY <1>4, <2>2 DEF SupervisorInv
    <3>2. QED
      BY <1>3, <3>1 DEF JobInv, Untaken, Running, Answered
  <2>3. QED
    BY <2>1, <2>2
<1>8. QED
  BY <1>5, <1>7 DEF SupervisorInv

\* Some active jobs are told to end, as the supervisor is closed or left.
LEMMA ManyTerminatedInv ==
  ASSUME SupervisorAssumption, SupervisorInv, NEW J \in SUBSET Job,
         NEW reason \in {"supervisor-close", "parent-exit"},
         \A j \in J : job[j].at = "active",
         job' = [j \in Job |-> IF j \in J THEN Terminated(job[j], reason) ELSE job[j]],
         \A j \in Job : \/ leader'[j] = leader[j]
                        \/ j \in J /\ leader[j] = "running" /\ leader'[j] = "killed",
         J # {} => stop' # NoReason \/ parent' = "gone",
         stop # NoReason => stop' # NoReason, parent = "gone" => parent' = "gone",
         UNCHANGED <<kind, next>>
  PROVE  job' \in [Job -> JobState] /\ \A j \in Job : JobInv(job[j], j)'
<1>1. job \in [Job -> JobState] /\ reason \in Reason
  BY DEF SupervisorInv, SupervisorTypeOK, Reason
<1>2. ASSUME NEW j \in Job
      PROVE  job'[j] \in JobState /\ JobInv(job[j], j)'
  <2>1. job[j] \in JobState /\ JobInv(job[j], j)
    BY <1>1 DEF SupervisorInv
  <2>2. CASE j \in J
    <3>1. job'[j] = Terminated(job[j], reason)
      BY <2>2
    <3>2. Terminated(job[j], reason) \in JobState
      BY <1>1, <2>1, TerminatedFields
    <3>3. stop' # NoReason \/ parent' = "gone"
      BY <2>2
    <3>4. leader'[j] \in {leader[j], "killed"} /\ (leader[j] = "none" => leader'[j] = "none")
      OBVIOUS
    <3>5. PICK s : s = job[j]
      OBVIOUS
    <3>6. s \in JobState /\ s.at = "active" /\ JobInv(s, j)
      BY <2>1, <2>2, <3>5
    <3>7. JobInv(Terminated(s, reason), j)'
      BY <1>1, <3>3, <3>4, <3>6, TerminatedInv
    <3>8. job'[j] = Terminated(s, reason)
      BY <3>1, <3>5
    <3>9. QED
      BY <3>1, <3>2, <3>7, <3>8 DEF JobInv, Untaken, Running, Answered
  <2>3. CASE j \notin J
    <3>1. job'[j] = job[j] /\ leader'[j] = leader[j]
      BY <2>3
    <3>2. QED
      BY <2>1, <3>1 DEF JobInv, Untaken, Running, Answered
  <2>4. QED
    BY <2>2, <2>3
<1>3. QED
  BY <1>2

LEMMA StopInv ==
  ASSUME SupervisorAssumption, SupervisorInv, CloseSupervisor \/ Signal
  PROVE  SupervisorInv'
<1>0. SupervisorTypeOK
  BY DEF SupervisorInv
<1>1. CASE Signal /\ ~registered
  <2>1. /\ UNCHANGED <<kind, next, job, leader, helper, stop, registered, waiting>>
        /\ parent' = "gone"
    BY <1>1 DEF Signal
  <2>2. SupervisorTypeOK'
    BY <1>0, <2>1 DEF SupervisorTypeOK
  <2>3. \A j \in Job : JobInv(job[j], j)'
    BY <2>1 DEF SupervisorInv, JobInv, Untaken, Running, Answered
  <2>4. QED
    BY <2>2, <2>3 DEF SupervisorInv
<1>2. CASE CloseSupervisor \/ (Signal /\ registered)
  <2>1. PICK reason \in {"supervisor-close", "parent-exit"} : StopAll(reason)
    BY <1>2 DEF CloseSupervisor, Signal
  <2>2. /\ UNCHANGED <<kind, next, leader, helper, registered, parent>>
        /\ waiting' \in (SUBSET Job) \cup {NoReason}
    BY <1>0, <1>2 DEF CloseSupervisor, Signal, SupervisorTypeOK, In
  <2>3. /\ stop' = IF stop = NoReason THEN reason ELSE stop
        /\ job' = [j \in Job |-> IF j \in In(job, "active")
                                 THEN Terminated(job[j], reason) ELSE job[j]]
    BY <2>1 DEF StopAll, In
  <2>4. stop' # NoReason /\ stop' \in {NoReason, "supervisor-close", "parent-exit"}
    BY <1>0, <2>3 DEF SupervisorTypeOK, SupervisorAssumption
  <2>5. In(job, "active") \subseteq Job /\ \A j \in In(job, "active") : job[j].at = "active"
    BY DEF In
  <2>6. job' \in [Job -> JobState] /\ \A j \in Job : JobInv(job[j], j)'
    <3>1. PICK J \in SUBSET Job : J = In(job, "active")
      BY <2>5
    <3>2. QED
      BY <2>2, <2>3, <2>4, <2>5, <3>1, ManyTerminatedInv
  <2>7. SupervisorTypeOK'
    BY <1>0, <2>2, <2>4, <2>6 DEF SupervisorTypeOK
  <2>8. QED
    BY <2>6, <2>7 DEF SupervisorInv
<1>3. QED
  BY <1>1, <1>2

LEMMA ExitInv ==
  ASSUME SupervisorAssumption, SupervisorInv, Exit
  PROVE  SupervisorInv'
<1>0. SupervisorTypeOK
  BY DEF SupervisorInv
<1>1. /\ leader' = KilledLeaders(ExitKills)
      /\ helper' = KilledHelpers(ExitKills)
      /\ job' = [j \in Job |-> IF j \in ExitKills THEN Terminated(job[j], "parent-exit") ELSE job[j]]
      /\ parent' = "gone"
      /\ UNCHANGED <<kind, next, stop, registered, waiting>>
  BY DEF Exit
<1>2. ExitKills \in SUBSET Job /\ \A j \in ExitKills : job[j].at = "active"
  BY DEF ExitKills, In
<1>3. /\ leader' \in [Job -> {"none", "running", "zero", "nonzero", "killed"}]
      /\ helper' \in [Job -> {"none", "running", "gone"}]
      /\ \A j \in Job : \/ leader'[j] = leader[j]
                        \/ j \in ExitKills /\ leader[j] = "running" /\ leader'[j] = "killed"
  BY <1>0, <1>1 DEF KilledLeaders, KilledHelpers, SupervisorTypeOK
<1>4. job' \in [Job -> JobState] /\ \A j \in Job : JobInv(job[j], j)'
  <2>1. PICK J \in SUBSET Job : J = ExitKills
    BY <1>2
  <2>2. QED
    BY <1>1, <1>2, <1>3, <2>1, ManyTerminatedInv
<1>5. SupervisorTypeOK'
  BY <1>0, <1>1, <1>3, <1>4 DEF SupervisorTypeOK
<1>6. QED
  BY <1>4, <1>5 DEF SupervisorInv

\* What happens in a group, or to it by the timer.
LEMMA GroupInv ==
  ASSUME SupervisorInv, NEW j \in Job,
         KillTimer(j) \/ LeaderExits(j) \/ LeaderObeys(j) \/ HelperEnds(j)
  PROVE  SupervisorInv'
<1>0. SupervisorTypeOK /\ JobInv(job[j], j) /\ job[j] \in JobState
  BY DEF SupervisorInv, SupervisorTypeOK
<1>1. UNCHANGED <<kind, next, stop, registered, waiting, parent>>
  BY DEF KillTimer, LeaderExits, LeaderObeys, HelperEnds, GroupStep
<1>2. CASE KillTimer(j)
  <2>1. /\ job[j].at = "active" /\ job[j].termSent
        /\ job' = [job EXCEPT ![j] = [@ EXCEPT !.killTimer = "over"]]
        /\ leader' = KilledLeaders({j}) /\ helper' = KilledHelpers({j})
    BY <1>0, <1>2 DEF KillTimer, JobInv, Running
  <2>2. /\ job'[j] \in JobState /\ job'[j].at = "active" /\ job'[j].termSent
        /\ job'[j].reason = job[j].reason /\ job'[j].timedOut = job[j].timedOut
        /\ job'[j].overflow = job[j].overflow /\ job'[j].killTimer = "over"
        /\ \A i \in Job : i # j => job'[i] = job[i]
    BY <1>0, <2>1 DEF JobState, SupervisorTypeOK
  <2>3. /\ leader'[j] \in {leader[j], "killed"} /\ (leader[j] = "none" => leader'[j] = "none")
        /\ \A i \in Job : i # j => leader'[i] = leader[i]
    BY <1>0, <2>1 DEF KilledLeaders
  <2>4. job' \in [Job -> JobState]
    BY <1>0, <2>1, <2>2 DEF SupervisorTypeOK
  <2>5. /\ leader' \in [Job -> {"none", "running", "zero", "nonzero", "killed"}]
        /\ helper' \in [Job -> {"none", "running", "gone"}]
    BY <1>0, <2>1 DEF KilledLeaders, KilledHelpers, SupervisorTypeOK
  <2>6. SupervisorTypeOK'
    BY <1>0, <1>1, <2>4, <2>5 DEF SupervisorTypeOK
  <2>7. JobInv(job[j], j)'
    <3>1. Running(job[j], j) /\ ~(j > next)
      BY <1>0, <2>1 DEF JobInv, Untaken, NewJob
    <3>2. /\ (kind[j].spawn # "throws")'
          /\ (kind[j].spawn = "starts" => leader[j] # "none")'
          /\ (leader[j] = "killed" => job[j].termSent)'
          /\ (job[j].killTimer = "set" => job[j].termSent)'
      BY <1>1, <2>2, <2>3, <3>1 DEF Running
    <3>3. (job[j].termSent => job[j].reason # NoReason)'
      BY <2>1, <2>2, <3>1 DEF Running
    <3>4. /\ (job[j].reason = "timeout" => job[j].timedOut)'
          /\ (job[j].reason = "output-limit" => job[j].overflow)'
      BY <2>2, <3>1 DEF Running
    <3>5. (job[j].reason \in {"supervisor-close", "parent-exit"}
             => stop # NoReason \/ parent = "gone")'
      BY <1>1, <2>2, <3>1 DEF Running
    <3>6. Running(job[j], j)'
      BY <3>2, <3>3, <3>4, <3>5 DEF Running
    <3>7. QED
      BY <1>1, <2>2, <3>1, <3>6 DEF JobInv, Untaken
  <2>8. ASSUME NEW i \in Job, i # j
        PROVE  JobInv(job[i], i)'
    <3>1. JobInv(job[i], i) /\ job'[i] = job[i] /\ leader'[i] = leader[i]
      BY <2>2, <2>3, <2>8 DEF SupervisorInv
    <3>2. QED
      BY <1>1, <3>1 DEF JobInv, Untaken, Running, Answered
  <2>9. QED
    BY <2>6, <2>7, <2>8 DEF SupervisorInv
<1>3. CASE LeaderExits(j) \/ LeaderObeys(j)
  <2>1. /\ leader[j] = "running" /\ UNCHANGED <<job, helper>>
        /\ \E code \in {"zero", "nonzero", "killed"} :
             /\ leader' = [leader EXCEPT ![j] = code]
             /\ code = "killed" => job[j].termSent
    BY <1>3 DEF LeaderExits, LeaderObeys, GroupStep
  <2>2. /\ leader'[j] \in {"zero", "nonzero", "killed"}
        /\ leader'[j] = "killed" => job[j].termSent
        /\ \A i \in Job : i # j => leader'[i] = leader[i]
        /\ leader' \in [Job -> {"none", "running", "zero", "nonzero", "killed"}]
    BY <1>0, <2>1 DEF SupervisorTypeOK
  <2>3. SupervisorTypeOK'
    BY <1>0, <1>1, <2>1, <2>2 DEF SupervisorTypeOK
  <2>4. JobInv(job[j], j)'
    BY <1>0, <1>1, <2>1, <2>2 DEF JobInv, Untaken, Running, Answered
  <2>5. ASSUME NEW i \in Job, i # j
        PROVE  JobInv(job[i], i)'
    <3>1. JobInv(job[i], i) /\ job'[i] = job[i] /\ leader'[i] = leader[i]
      BY <2>1, <2>2, <2>5 DEF SupervisorInv
    <3>2. QED
      BY <1>1, <3>1 DEF JobInv, Untaken, Running, Answered
  <2>6. QED
    BY <2>3, <2>4, <2>5 DEF SupervisorInv
<1>4. CASE HelperEnds(j)
  <2>1. UNCHANGED <<job, leader>> /\ helper' = [helper EXCEPT ![j] = "gone"]
    BY <1>4 DEF HelperEnds, GroupStep
  <2>2. SupervisorTypeOK'
    BY <1>0, <1>1, <2>1 DEF SupervisorTypeOK
  <2>3. \A i \in Job : JobInv(job[i], i)'
    BY <1>1, <2>1 DEF SupervisorInv, JobInv, Untaken, Running, Answered
  <2>4. QED
    BY <2>2, <2>3 DEF SupervisorInv
<1>5. QED
  BY <1>2, <1>3, <1>4

\* The supervisor has nothing to do any more.
LEMMA ReturnInv ==
  ASSUME SupervisorAssumption, SupervisorInv, Return \/ DieOfSignal
  PROVE  SupervisorInv'
<1>0. SupervisorTypeOK
  BY DEF SupervisorInv
<1>1. /\ UNCHANGED <<kind, next, job, leader, helper, waiting>>
      /\ stop' \in {NoReason, "supervisor-close", "parent-exit"}
      /\ stop # NoReason => stop' # NoReason
      /\ parent = "gone" => parent' = "gone"
      /\ registered' \in BOOLEAN /\ parent' \in {"returned", "gone"}
  BY <1>0 DEF Return, DieOfSignal, SupervisorTypeOK
<1>2. SupervisorTypeOK'
  BY <1>0, <1>1 DEF SupervisorTypeOK
<1>3. \A j \in Job : JobInv(job[j], j)'
  BY <1>1 DEF SupervisorInv, JobInv, Untaken, Running, Answered
<1>4. QED
  BY <1>2, <1>3 DEF SupervisorInv

LEMMA RunInv ==
  ASSUME SupervisorAssumption, SupervisorInv, Run
  PROVE  SupervisorInv'
<1>1. /\ SupervisorTypeOK /\ parent # "gone" /\ job \in [Job -> JobState]
      /\ \A j \in Job : JobInv(job[j], j)
      /\ Schedule(job, stop) /\ UNCHANGED <<kind, stop, waiting>>
  BY DEF Run, SupervisorInv, SupervisorTypeOK
<1>2. PICK jobs \in [Job -> JobState] : jobs = job
  BY <1>1
<1>3. Schedule(jobs, stop)
  BY <1>1, <1>2 DEF Schedule, Started, In
<1>4. QED
  BY <1>1, <1>2, <1>3, ScheduleInv

LEMMA SupervisorInitInv == ASSUME SupervisorAssumption, SupervisorInit PROVE SupervisorInv
<1>1. SupervisorTypeOK
  <2>1. NewJob \in JobState
    BY DEF NewJob, JobState
  <2>2. job \in [Job -> JobState]
    BY <2>1 DEF SupervisorInit
  <2>3. next \in 0..Jobs
    BY DEF SupervisorAssumption, SupervisorInit
  <2>4. /\ leader \in [Job -> {"none", "running", "zero", "nonzero", "killed"}]
        /\ helper \in [Job -> {"none", "running", "gone"}]
    BY DEF SupervisorInit
  <2>5. QED
    BY <2>2, <2>3, <2>4 DEF SupervisorInit, SupervisorTypeOK
<1>2. \A j \in Job : JobInv(job[j], j)
  BY DEF SupervisorInit, JobInv, Untaken, NewJob
<1>3. QED
  BY <1>1, <1>2 DEF SupervisorInv

LEMMA SupervisorStepInv ==
  ASSUME SupervisorAssumption, SupervisorInv, [SupervisorNext]_supervisorVars
  PROVE  SupervisorInv'
<1>1. CASE UNCHANGED supervisorVars
  BY <1>1 DEF supervisorVars, SupervisorInv, SupervisorTypeOK, JobInv, Untaken, Running, Answered
<1>2. CASE SupervisorNext
  BY <1>2, RunInv, ReturnInv, StopInv, ExitInv, CloseInv, OneTerminatedInv, GroupInv
     DEF SupervisorNext
<1>3. QED
  BY <1>1, <1>2

\* For any number of jobs, whatever their commands do and however the parent
\* ends: the status of an answered job is true (resultStatus).
THEOREM StatusStaysTrue == SupervisorSpec => []StatusIsTrue
<1>1. SupervisorInv => StatusIsTrue
  BY DEF SupervisorInv, JobInv, Answered, StatusIsTrue
<1>2. QED
  BY <1>1, SupervisorInitInv, SupervisorStepInv, SupervisorAssumption, PTL DEF SupervisorSpec
=============================================================================
