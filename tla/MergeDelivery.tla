--------------------------- MODULE MergeDelivery ---------------------------
(***************************************************************************)
(* The delivery of one run: patches are queued and their conflicts          *)
(* resolved, a candidate (queued patches, resolutions, project source) is   *)
(* verified in a staged copy, reviewed, approved and merged into the        *)
(* source, or sent back for rework.  src/src/commands/integration.mjs,      *)
(* core/candidate.mjs, core/governance.mjs and the delivery part of a tick  *)
(* (apex-v2.mjs).                                                           *)
(*                                                                         *)
(* A transaction is one step (ProjectTransaction).  What a command reads    *)
(* before it enters one, and what it writes outside one, are steps of their *)
(* own.  The plan graph and the policies are part of the source's base.     *)
(***************************************************************************)
EXTENDS Naturals, FiniteSets

CONSTANTS
  Patch, Reason, Base,
  OpKey,            \* conflict keys: a file, or a text of a file
  Actor,            \* processes: ticks, and users at the CLI
  Kind,             \* the kinds of run to look at, with the bounds of each
  None

\* What a kind of run has: must a merge be approved, and do its workers submit
\* evidence only; do users leave the commands of the delivery to ticks; which
\* patches it has, which keys each claims, and for which reasons a conflict is resolved; and, as
\* bounds of the model, the edits of the project, the verifications (and
\* reviews) that are committed, and the actors at work at a time.
RunKind ==
  [approval : BOOLEAN, evidence : BOOLEAN, ticksOnly : BOOLEAN,
   keys : UNION {[S -> SUBSET OpKey] : S \in SUBSET Patch}, reasons : SUBSET Reason,
   maxEdits : Nat, maxReports : Nat, maxBusy : Nat]

ASSUME DeliveryAssumption ==
  /\ \A k \in DOMAIN Kind : Kind[k] \in RunKind
  /\ IsFiniteSet(Patch)
  /\ Base # {}

VARIABLES
  queue,        \* merge-queue.json
  source,       \* project files: their base version, the patches applied
  edits,        \* edits of the project so far
  passed,       \* nodes of run.json that are passed
  verification, \* verification-report.json
  review,       \* review-report.json
  integration,  \* integration-report.json
  approvals,    \* approvals/items.json, the merge approvals of the run
  log,          \* what the transactions of the run have committed, by kind
  pc,           \* per actor
  tick,         \* does the actor run a tick, which passes nodes?
  held,         \* what an actor has read and not used yet
  policy,       \* the kind of the run (in Kind)
  disturbed     \* somebody changed what an actor had read, where no check
                \* or transaction of the actor would notice

storeVars == <<queue, source, edits, passed, verification, review, integration, approvals, log>>
actorVars == <<pc, tick, held>>
runVars == <<policy, disturbed>>
vars == <<storeVars, actorVars, runVars>>

TheRun == Kind[policy]

ItemStatus == {"none", "queued", "blocked", "dropped", "merged"}

Queue == [status : [Patch -> ItemStatus],
          rank : [Patch -> 0..Cardinality(Patch)],
          kept : SUBSET (Patch \X Reason)]

EmptyQueue == [status |-> [p \in Patch |-> "none"],
               rank |-> [p \in Patch |-> 0], kept |-> {}]

Source == [base : Base, merged : SUBSET Patch]

\* candidate_digest: equal for equal contents only.
Digest == [patches : SUBSET Patch, kept : SUBSET (Patch \X Reason), source : Source]

\* What the checks of a verification really ran on.
Staged == [patches : SUBSET Patch, source : Source, sound : BOOLEAN]

Verdict == {"PASS", "FAIL"}

Verification == [digest : Digest, status : Verdict, staged : Staged]

Review == [digest : Digest, status : Verdict]

\* The idempotency key of review-generate.
ReviewKey == [verified : BOOLEAN, report : Verification \cup {None}, digest : Digest]

Merge == [digest : Digest, patches : SUBSET Patch]

\* A report that is not there is none.
ASSUME NoReport == None \notin Verification \cup Review \cup Merge

Approval == [digest : Digest, decision : {"pending", "approved", "rejected"},
             expired : BOOLEAN]

\* What was committed under the keys of enqueue, resolve, verification-commit,
\* review-generate, rework and merge-apply.
Log == [enqueue : SUBSET Patch, resolve : SUBSET (Patch \X Reason),
        verify : SUBSET Verification, review : SUBSET [key : ReviewKey, result : Review],
        rework : SUBSET Digest, merge : SUBSET Merge]

Node == {"execute", "verify", "review", "integrate"}

Stage == {"idle", "stage", "candidate", "check", "passverify", "review",
          "passreview", "blocked", "merge", "passintegrate"}

Item(q, s) == {p \in Patch : q.status[p] = s}

Waiting(q) == Item(q, "queued") \cup Item(q, "blocked")

Undropped(q) == Waiting(q) \cup Item(q, "merged")

QueueIsEmpty(q) == Item(q, "none") = Patch

----------------------------------------------------------------------------
(* Conflicts and the candidate.                                            *)

\* A mistake: an owner has to come strictly before every claim, its own too.
ConflictsOfStrictOwners(q) ==
  LET items == Undropped(q)
      Owns(o, k) == \A p \in items : k \in TheRun.keys[p] => q.rank[o] < q.rank[p]
  IN {c \in items \X Waiting(q) :
        c[1] # c[2] /\ \E k \in TheRun.keys[c[1]] \cap TheRun.keys[c[2]] : Owns(c[1], k)}

\* The first item that claims a key owns it; every later claim, unless it is
\* merged, is a conflict with the owner.
Conflicts(q) ==
  LET items == Undropped(q)
      Owns(o, k) == \A p \in items : k \in TheRun.keys[p] => q.rank[o] <= q.rank[p]
  IN {c \in items \X Waiting(q) :
        c[1] # c[2] /\ \E k \in TheRun.keys[c[1]] \cap TheRun.keys[c[2]] : Owns(c[1], k)}

Recomputed(q) ==
  LET waiting == Waiting(q)
      conflicts == Conflicts(q)
  IN [q EXCEPT !.status = [p \in Patch |->
        IF p \notin waiting THEN q.status[p]
        ELSE IF \E c \in conflicts : p \in {c[1], c[2]} THEN "blocked" ELSE "queued"]]

\* A mistake: dropped and merged items are part of the candidate.
CandidateOfAll(q, s) ==
  [patches |-> Patch \ Item(q, "none"), kept |-> q.kept, source |-> s]

Candidate(q, s) == [patches |-> Waiting(q), kept |-> q.kept, source |-> s]

Current == Candidate(queue, source)

----------------------------------------------------------------------------
FirstSource == [base |-> CHOOSE b \in Base : TRUE, merged |-> {}]

NoStaged == [patches |-> {}, source |-> FirstSource, sound |-> FALSE]

NoDigest == [patches |-> {}, kept |-> {}, source |-> FirstSource]

NoKey == [verified |-> FALSE, report |-> None, digest |-> NoDigest]

Nothing == [queue |-> EmptyQueue, staged |-> NoStaged, digest |-> NoDigest, key |-> NoKey]

Held == [queue : Queue, staged : Staged, digest : Digest, key : ReviewKey]

TypeOK ==
  /\ queue \in Queue
  /\ source \in Source
  /\ edits \in 0..TheRun.maxEdits
  /\ passed \subseteq Node
  /\ verification \in Verification \cup {None}
  /\ review \in Review \cup {None}
  /\ integration \in Merge \cup {None}
  /\ approvals \subseteq Approval
  /\ log \in Log
  /\ pc \in [Actor -> Stage]
  /\ tick \in [Actor -> BOOLEAN]
  /\ held \in [Actor -> Held]
  /\ policy \in DOMAIN Kind
  /\ disturbed \in BOOLEAN

Init ==
  /\ queue = EmptyQueue
  /\ source = FirstSource
  /\ edits = 0
  /\ passed = {}
  /\ verification = None
  /\ review = None
  /\ integration = None
  /\ approvals = {}
  /\ log = [enqueue |-> {}, resolve |-> {}, verify |-> {}, review |-> {},
            rework |-> {}, merge |-> {}]
  /\ pc = [a \in Actor |-> "idle"]
  /\ tick = [a \in Actor |-> FALSE]
  /\ held = [a \in Actor |-> Nothing]
  /\ policy \in DOMAIN Kind
  /\ disturbed = FALSE

\* Actor a goes on with what h holds; idle, it forgets it.
Goto(a, s, h) ==
  /\ pc' = [pc EXCEPT ![a] = s]
  /\ held' = [held EXCEPT ![a] = IF s = "idle" THEN Nothing ELSE h]
  /\ tick' = IF s = "idle" THEN [tick EXCEPT ![a] = FALSE] ELSE tick

\* Actor a starts a command; a tick starts it when its node n is pending and
\* the node before it, before, is passed.
Begin(a, s, h, before, n) ==
  /\ pc[a] = "idle"
  /\ Cardinality({b \in Actor : pc[b] # "idle"}) < TheRun.maxBusy
  /\ pc' = [pc EXCEPT ![a] = s]
  /\ held' = [held EXCEPT ![a] = h]
  /\ \/ ~TheRun.ticksOnly /\ tick' = tick
     \/ before \in passed /\ n \notin passed /\ tick' = [tick EXCEPT ![a] = TRUE]

----------------------------------------------------------------------------
(* The merge queue, the source, and the execute node.                      *)

\* merge-enqueue, once per patch, at any stage of the run.
Enqueue(p) ==
  /\ ~TheRun.evidence
  /\ p \in DOMAIN TheRun.keys \ log.enqueue
  /\ queue' = Recomputed(
       [status |-> [queue.status EXCEPT ![p] = "queued"],
        rank |-> [queue.rank EXCEPT ![p] = 1 + Cardinality(Patch \ Item(queue, "none"))],
        kept |-> queue.kept])
  /\ log' = [log EXCEPT !.enqueue = @ \cup {p}]
  /\ UNCHANGED <<source, edits, passed, verification, review, integration, approvals, actorVars>>

\* merge-resolve, once per patch kept and reason: the other patches of its
\* conflicts are dropped, unless they are merged; the one that is kept waits,
\* again if it was merged.
Resolve(p, r) ==
  /\ r \in TheRun.reasons
  /\ <<p, r>> \notin log.resolve
  /\ LET q == Recomputed(queue)
         others == UNION {{c[1], c[2]} : c \in {d \in Conflicts(q) : p \in {d[1], d[2]}}} \ {p}
     IN /\ others # {}
        /\ queue' = Recomputed(
             [status |-> [o \in Patch |->
                IF o = p THEN "queued"
                ELSE IF o \in others \ Item(q, "merged") THEN "dropped" ELSE q.status[o]],
              rank |-> q.rank,
              kept |-> q.kept \cup {<<p, r>>}])
  /\ log' = [log EXCEPT !.resolve = @ \cup {<<p, r>>}]
  /\ UNCHANGED <<source, edits, passed, verification, review, integration, approvals, actorVars>>

\* Somebody edits the project, its plan or its policies.
EditSource(b) ==
  /\ edits < TheRun.maxEdits
  /\ edits' = edits + 1
  /\ source.base # b
  /\ source' = [source EXCEPT !.base = b]
  /\ UNCHANGED <<queue, passed, verification, review, integration, approvals, log, actorVars>>

\* The workers of the execute stage are done.
PassExecute ==
  /\ "execute" \notin passed
  /\ TheRun.evidence \/ Undropped(queue) # {}
  /\ passed' = passed \cup {"execute"}
  /\ UNCHANGED <<queue, source, edits, verification, review, integration, approvals, log, actorVars>>

----------------------------------------------------------------------------
(* Verification.                                                           *)

\* verify run, or a tick: refused once there is an integration report.
BeginVerification(a) ==
  /\ "execute" \in passed
  /\ integration = None
  /\ Begin(a, "stage", [Nothing EXCEPT !.queue = queue], "execute", "verify")
  /\ UNCHANGED storeVars

\* The queue read before is recomputed and written back without a lock, and
\* its patches are applied to a copy of the project.
StagePatches(a) ==
  /\ pc[a] = "stage"
  /\ LET q == Recomputed(held[a].queue) IN
       /\ queue' = q
       /\ Goto(a, "candidate", [held[a] EXCEPT !.staged =
            [patches |-> Waiting(q), source |-> source, sound |-> Conflicts(q) = {}]])
  /\ UNCHANGED <<source, edits, passed, verification, review, integration, approvals, log>>

\* The candidate is built from the store as it is after the staging.
BuildCandidate(a) ==
  /\ pc[a] = "candidate"
  /\ Goto(a, "check", [held[a] EXCEPT !.digest = Current])
  /\ UNCHANGED storeVars

\* The checks have run in the copy.  A report of the same digest committed
\* before is answered again in place of this one.
CommitVerification(a) ==
  /\ pc[a] = "check"
  /\ LET digest == held[a].digest
         earlier == {v \in log.verify : v.digest = digest}
     IN \E s \in Verdict :
          /\ \/ /\ \E v \in earlier : v.status = s
                /\ UNCHANGED <<verification, log>>
             \/ /\ earlier = {}
                /\ Cardinality(log.verify) < TheRun.maxReports
                /\ s = "PASS" => held[a].staged.sound /\ Current = digest
                /\ verification' = [digest |-> digest, status |-> s, staged |-> held[a].staged]
                /\ log' = [log EXCEPT !.verify = @ \cup {verification'}]
          /\ Goto(a, IF s = "PASS" /\ tick[a] THEN "passverify" ELSE "idle", Nothing)
  /\ UNCHANGED <<queue, source, edits, passed, review, integration, approvals>>

\* A tick passes the node in a write of its own, after the transaction.
PassNode(a, s, n) ==
  /\ pc[a] = s
  /\ tick[a]
  /\ passed' = passed \cup {n}
  /\ Goto(a, "idle", Nothing)
  /\ UNCHANGED <<queue, source, edits, verification, review, integration, approvals, log>>

PassVerify(a) == PassNode(a, "passverify", "verify")

----------------------------------------------------------------------------
(* Review and rework.                                                      *)

\* review generate, or a tick: run.json and what the key is made of are read.
BeginReview(a) ==
  /\ Begin(a, "review",
           [Nothing EXCEPT !.key = [verified |-> "verify" \in passed,
                                    report |-> verification, digest |-> Current]],
           "verify", "review")
  /\ UNCHANGED storeVars

\* A mistake: the review trusts the verification to have found the conflicts.
ReviewableUnseen(a) ==
  /\ held[a].key.verified
  /\ verification # None
  /\ verification.status = "PASS"
  /\ verification.digest = Current
  /\ ~QueueIsEmpty(queue) \/ (TheRun.evidence /\ "execute" \in passed)

\* What the review demands of the store, the review agent's evidence apart.
Reviewable(a) ==
  /\ held[a].key.verified
  /\ verification # None
  /\ verification.status = "PASS"
  /\ verification.digest = Current
  /\ Conflicts(queue) = {}
  /\ ~QueueIsEmpty(queue) \/ (TheRun.evidence /\ "execute" \in passed)

\* The review passes if the review agent approves as well; a BLOCKED review
\* (FAIL here) of a tick may ask for rework.
CommitReview(a) ==
  /\ pc[a] = "review"
  /\ LET earlier == {r \in log.review : r.key = held[a].key}
     IN \E s \in Verdict : \E d \in {Current} \cup {r.result.digest : r \in earlier} :
          /\ \/ /\ \E r \in earlier : r.result = [digest |-> d, status |-> s]
                /\ UNCHANGED <<queue, review, log>>
             \/ /\ earlier = {}
                /\ Cardinality(log.review) < TheRun.maxReports
                /\ d = Current
                /\ s = "PASS" => Reviewable(a)
                /\ queue' = Recomputed(queue)
                /\ review' = [digest |-> d, status |-> s]
                /\ log' = [log EXCEPT !.review = @ \cup {[key |-> held[a].key, result |-> review']}]
          /\ Goto(a, CASE ~tick[a] -> "idle"
                       [] tick[a] /\ s = "PASS" -> "passreview"
                       [] tick[a] /\ s = "FAIL" -> "blocked",
                  [Nothing EXCEPT !.digest = d])
  /\ UNCHANGED <<source, edits, passed, verification, integration, approvals>>

PassReview(a) == PassNode(a, "passreview", "review")

\* A mistake: rework starts from an empty queue.
ReworkEmptiesQueue(a) ==
  /\ pc[a] = "blocked"
  /\ held[a].digest \notin log.rework
  /\ queue' = EmptyQueue
  /\ passed' = passed \ {"execute", "verify", "review"}
  /\ log' = [log EXCEPT !.rework = @ \cup {held[a].digest}]
  /\ Goto(a, "idle", Nothing)
  /\ UNCHANGED <<source, edits, verification, review, integration, approvals>>

\* reopenGovernedCandidate, once per digest: every patch that is not merged is
\* dropped and the run goes back to the execute stage.
Rework(a) ==
  /\ pc[a] = "blocked"
  /\ \/ /\ held[a].digest \notin log.rework
        /\ queue' = [queue EXCEPT !.status = [p \in Patch |->
                       IF p \in Waiting(queue) THEN "dropped" ELSE queue.status[p]]]
        /\ passed' = passed \ {"execute", "verify", "review"}
        /\ log' = [log EXCEPT !.rework = @ \cup {held[a].digest}]
     \/ /\ held[a].digest \in log.rework
        /\ UNCHANGED <<queue, passed, log>>
  /\ Goto(a, "idle", Nothing)
  /\ UNCHANGED <<source, edits, verification, review, integration, approvals>>

----------------------------------------------------------------------------
(* Approval and merge.                                                     *)

\* A mistake: that a review has passed is enough, whatever it was of.
ClearedByAnyReview ==
  /\ "review" \in passed
  /\ verification # None /\ verification.status = "PASS" /\ verification.digest = Current
  /\ review # None /\ review.status = "PASS"

\* The checks of merge apply.  A queue that passes them has no conflict and is
\* empty only in a run of evidence (ClearedIsMergeable), so the two BLOCKED
\* integration reports are never written.
Cleared ==
  /\ "review" \in passed
  /\ verification # None /\ verification.status = "PASS" /\ verification.digest = Current
  /\ review # None /\ review.status = "PASS" /\ review.digest = Current

ApprovalsOf(d) == {i \in approvals : i.digest = d /\ ~i.expired}

Approved(d) == \E i \in ApprovalsOf(d) : i.decision = "approved"

\* Everything but the write is decided here, on what is read without a lock.
BeginMerge(a) ==
  /\ Cleared
  /\ ~QueueIsEmpty(queue)
  /\ TheRun.approval => Approved(Current)
  /\ Begin(a, "merge", [queue |-> Recomputed(queue), staged |-> NoStaged, digest |-> Current, key |-> NoKey],
           "review", "integrate")
  /\ UNCHANGED storeVars

\* An approval bound to the candidate is requested, and the command throws.
RequestApproval(a) ==
  /\ pc[a] = "idle"
  /\ Cleared
  /\ ~QueueIsEmpty(queue)
  /\ TheRun.approval
  /\ ApprovalsOf(Current) = {}
  /\ approvals' = approvals \cup {[digest |-> Current, decision |-> "pending", expired |-> FALSE]}
  /\ UNCHANGED <<queue, source, edits, passed, verification, review, integration, log, actorVars>>

Decide(i, decision) ==
  /\ i \in approvals
  /\ i.decision = "pending"
  /\ ~i.expired
  /\ approvals' = (approvals \ {i}) \cup {[i EXCEPT !.decision = decision]}
  /\ UNCHANGED <<queue, source, edits, passed, verification, review, integration, log, actorVars>>

\* Its time to live is over.
Expire(i) ==
  /\ i \in approvals
  /\ ~i.expired
  /\ approvals' = (approvals \ {i}) \cup {[i EXCEPT !.expired = TRUE]}
  /\ UNCHANGED <<queue, source, edits, passed, verification, review, integration, log, actorVars>>

\* merge-apply, once per digest: the queue read before is merged and written.
CommitMerge(a) ==
  /\ pc[a] = "merge"
  /\ LET q == held[a].queue
         merge == [digest |-> held[a].digest, patches |-> Undropped(q)]
     IN \/ /\ \A m \in log.merge : m.digest # merge.digest
           /\ queue' = [q EXCEPT !.status = [p \in Patch |->
                          IF p \in Undropped(q) THEN "merged" ELSE q.status[p]]]
           /\ source' = [source EXCEPT !.merged = @ \cup Undropped(q)]
           /\ integration' = merge
           /\ log' = [log EXCEPT !.merge = @ \cup {merge}]
        \/ /\ \E m \in log.merge : m.digest = merge.digest
           /\ UNCHANGED <<queue, source, integration, log>>
  /\ Goto(a, IF tick[a] THEN "passintegrate" ELSE "idle", Nothing)
  /\ UNCHANGED <<edits, passed, verification, review, approvals>>

\* A run of evidence has nothing to merge: NOOP.
MergeNothing(a) ==
  /\ Cleared
  /\ QueueIsEmpty(queue)
  /\ TheRun.evidence /\ "execute" \in passed
  /\ integration' = [digest |-> Current, patches |-> {}]
  /\ Begin(a, "passintegrate", Nothing, "review", "integrate")
  /\ UNCHANGED <<queue, source, edits, passed, verification, review, approvals, log>>

PassIntegrate(a) == PassNode(a, "passintegrate", "integrate")

----------------------------------------------------------------------------
\* The actor is killed, its command throws, or it ends without a further step
\* (a blocked review that asks for no rework, a CLI command that passes none).
Stop(a) ==
  /\ pc[a] # "idle"
  /\ Goto(a, "idle", Nothing)
  /\ UNCHANGED storeVars

Verify(a) == BeginVerification(a) \/ StagePatches(a) \/ BuildCandidate(a)
             \/ CommitVerification(a) \/ PassVerify(a)

ReviewOrRework(a) == BeginReview(a) \/ CommitReview(a) \/ PassReview(a) \/ Rework(a)

Integrate(a) == BeginMerge(a) \/ RequestApproval(a) \/ CommitMerge(a)
                \/ MergeNothing(a) \/ PassIntegrate(a)

Work(a) == Verify(a) \/ ReviewOrRework(a) \/ Integrate(a)

Outside ==
  \/ \E p \in Patch : Enqueue(p)
  \/ \E p \in Patch, r \in Reason : Resolve(p, r)
  \/ \E b \in Base : EditSource(b)
  \/ PassExecute
  \/ \E i \in approvals : Expire(i) \/ Decide(i, "approved") \/ Decide(i, "rejected")

\* Between what an actor reads without a lock and what it then writes or
\* commits from it, another changes the queue or the source.
Disturbs ==
  \E a \in Actor :
    /\ pc[a] \in {"stage", "candidate", "merge"}
    /\ pc'[a] = pc[a]
    /\ <<queue, source>>' # <<queue, source>>

Marked == disturbed' = (disturbed \/ Disturbs) /\ UNCHANGED policy

Next == (Outside \/ \E a \in Actor : Work(a) \/ Stop(a)) /\ Marked

Spec == Init /\ [][Next]_vars

FairSpec == Spec /\ \A a \in Actor : WF_vars(Work(a) /\ Marked)

----------------------------------------------------------------------------
(* Properties.                                                             *)

\* The digest of what was merged, or of what ended a run of evidence with
\* nothing to merge, passed the verification, passed the review and was
\* approved, whatever was edited, queued, dropped, reviewed again or expired in
\* between.
MergedWasCleared ==
  \A m \in log.merge \cup ({integration} \ {None}) :
    /\ \E v \in log.verify : v.digest = m.digest /\ v.status = "PASS"
    /\ \E r \in log.review : r.result = [digest |-> m.digest, status |-> "PASS"]
    /\ TheRun.approval /\ m.patches # {} =>
         \E i \in approvals : i.digest = m.digest /\ i.decision = "approved"

\* What is merged is what its digest says, no patch more: one that was merged
\* before is not in the candidate, and is not applied again with it.
MergedIsTheCandidate ==
  \A m \in log.merge \cup ({integration} \ {None}) : m.digest.patches = m.patches

\* A candidate that passes its verification is what the checks ran on.
StagedMatchesDigest ==
  \A v \in log.verify : v.status = "PASS" =>
    v.staged.patches = v.digest.patches /\ v.staged.source = v.digest.source

\* A patch whose submitter was told that it is queued stays in the queue.
QueuedStaysQueued == \A p \in log.enqueue : queue.status[p] # "none"

\* Two patches that change the same file or text never both reach the source.
NoConflictIsMerged ==
  \A o, p \in source.merged : o # p => TheRun.keys[o] \cap TheRun.keys[p] = {}

\* All four hold as long as nobody changes the queue or the project between
\* the reading and the writing of a command that takes no second look.
OnlyRacesBreakTheDelivery ==
  ~disturbed => /\ StagedMatchesDigest
                /\ QueuedStaysQueued
                /\ NoConflictIsMerged
                /\ MergedIsTheCandidate

\* What passes the checks of merge apply can be merged: no BLOCKED report ends
\* a run that nothing could verify again.
ClearedIsMergeable ==
  Cleared => Conflicts(queue) = {} /\ (QueueIsEmpty(queue) => TheRun.evidence)

\* A merge that was committed is recorded in the run: its integrate node
\* passes and the run can go on to learn and close.
MergedIsIntegrated == integration # None ~> "integrate" \in passed
=============================================================================
