------------------------- MODULE HostActionProofs -------------------------
(* The safety of claims, leases and workspaces, for all workers and hosts;  *)
(* and of the heartbeat, for all daemons, users and notifications.          *)
EXTENDS HostAction, Heartbeat, FiniteSetTheorems, TLAPS

Final == {"queued", "evidence_submitted", "cancelled"}

\* What is known of the claims that were and were not issued.
Issued ==
  \A c \in Claim :
    IF by[c] = None THEN c \notin lapsed /\ outcome[c] = "none"
                    ELSE of[c] \in Worker

\* A claimed worker names its claim.
Named ==
  \A w \in Worker : Claimed(w) =>
    /\ worker[w].token \in Claim
    /\ by[worker[w].token] # None
    /\ of[worker[w].token] = w
    /\ outcome[worker[w].token] = "none"

\* A worker with a claim that ended is finished, by that claim.
EndedIsFinal ==
  \A c \in Claim : outcome[c] # "none" =>
    worker[of[c]].status \in Final /\ worker[of[c]].token = c

Bookkeeping == Issued /\ Named /\ EndedIsFinal /\ ClaimIsHonoured

\* The steps in the terms of the bookkeeping.
Ends(c) ==
  /\ ActiveClaim(c)
  /\ \E s \in Final : worker' = [worker EXCEPT ![of[c]].status = s]
  /\ \E o \in {"submitted", "cancelled"} : outcome' = [outcome EXCEPT ![c] = o]
  /\ UNCHANGED <<of, by, lapsed>>

AgentMoves(w) ==
  /\ worker[w].status \in {"active", "running"}
  /\ \E s \in {"active", "running", "queued"} : worker' = [worker EXCEPT ![w].status = s]
  /\ UNCHANGED <<of, by, lapsed, outcome>>

Idle == UNCHANGED <<worker, of, by, lapsed, outcome>>

\* The edits in a claimed worker's workspace are those of its claim, and late
\* ones.
CleanTree ==
  \A w \in Worker : Claimed(w) /\ w \in patching =>
    \A e \in tree[w].edits : e.claim = worker[w].token \/ e.late

\* Keys are of numbers used up; a command under way reads no number to come,
\* and the host whose number is still free does not hold the worker.
Recent ==
  /\ \A k \in keys : k.fencing <= worker[k.worker].fencing
  /\ \A k \in asks :
       \/ k.fencing <= worker[k.worker].fencing
       \/ k.fencing = worker[k.worker].fencing + 1 /\ ~HeldBy(k.worker, k.host)

Inv == TypeOK /\ Bookkeeping /\ WorkspaceIsKept /\ OnePatchAtATime

----------------------------------------------------------------------------
\* A fresh id is one that was not issued.
LEMMA FreshIsUnused ==
  ASSUME \E c \in Claim : by[c] = None
  PROVE  Fresh \in Claim /\ by[Fresh] = None
  BY DEF Fresh

\* Types and the bookkeeping of claims hold initially.
LEMMA InitInv == Init => Inv
  BY HostAssumption
  DEF Init, Inv, Bookkeeping, TypeOK, Issued, Named, EndedIsFinal, ClaimIsHonoured,
      WorkspaceIsKept, OnePatchAtATime, Claimed, Live,
      Status, Tree, NoTree, WorkerFile, ActionFile, Manifest

\* The parts of a claim command, by type.
LEMMA AskTypes ==
  ASSUME TypeOK, NEW k \in asks
  PROVE  k.worker \in Worker /\ k.host \in Host /\ k.fencing \in Nat
  BY DEF TypeOK

\* A committed key is of the type of the keys.
LEMMA CommitTypes ==
  ASSUME TypeOK, NEW k \in asks, NEW c \in Claim, CommitKey(k, c)
  PROVE  keys' \in SUBSET [worker : Worker, host : Host, fencing : Nat, claim : Claim]
  BY AskTypes DEF CommitKey, TypeOK

\* Issuing a claim keeps the types of what it writes.
LEMMA IssueTypes ==
  ASSUME TypeOK, NEW w \in Worker, NEW h \in Host, IssueClaim(w, h)
  PROVE  /\ worker' \in [Worker -> WorkerFile]
         /\ action' \in [Worker -> ActionFile]
         /\ manifest' \in [Worker -> Manifest]
         /\ tree' \in [Worker -> Tree]
         /\ of' \in [Claim -> Worker \cup {None}]
         /\ by' \in [Claim -> Host \cup {None}]
         /\ worker'[w] = [status |-> "claimed", token |-> Fresh, fencing |-> worker[w].fencing + 1]
<1> USE DEF TypeOK
<1>1. Fresh \in Claim
  BY FreshIsUnused DEF IssueClaim
<1>2. worker[w].fencing + 1 \in Nat
  BY DEF WorkerFile
<1>3. [status |-> "claimed", token |-> Fresh, fencing |-> worker[w].fencing + 1]
        \in WorkerFile
  BY <1>1, <1>2 DEF Status, WorkerFile
<1>4. worker' = [worker EXCEPT ![w] =
        [status |-> "claimed", token |-> Fresh, fencing |-> worker[w].fencing + 1]]
  BY DEF IssueClaim
<1>5. /\ worker' \in [Worker -> WorkerFile]
      /\ worker'[w] = [status |-> "claimed", token |-> Fresh, fencing |-> worker[w].fencing + 1]
  BY <1>3, <1>4
<1>6. action' \in [Worker -> ActionFile]
  <2>1. [token |-> Fresh, fencing |-> worker[w].fencing + 1] \in ActionFile
    BY <1>1, <1>2 DEF ActionFile
  <2> QED
    BY <2>1 DEF IssueClaim
<1>7. CreateWorkspace(w, Fresh)
  BY DEF IssueClaim
<1>8. manifest' \in [Worker -> Manifest]
  <2>1. [action |-> Fresh, status |-> "active"] \in Manifest
    BY <1>1 DEF Manifest
  <2> QED
    BY <1>7, <2>1 DEF CreateWorkspace
<1>9. tree' \in [Worker -> Tree]
  <2>1. [there |-> TRUE, edits |-> {}] \in Tree
    BY DEF Tree
  <2> QED
    BY <1>7, <2>1 DEF CreateWorkspace
<1>10. of' \in [Claim -> Worker \cup {None}] /\ by' \in [Claim -> Host \cup {None}]
  BY <1>1 DEF IssueClaim
<1> QED
  BY <1>5, <1>6, <1>8, <1>9, <1>10

\* A new status, and a discarded workspace, are of the right type.
LEMMA StatusTypes ==
  ASSUME TypeOK, NEW w \in Worker, NEW s \in Status
  PROVE  [worker EXCEPT ![w].status = s] \in [Worker -> WorkerFile]
<1>1. [worker[w] EXCEPT !.status = s] \in WorkerFile
  BY DEF TypeOK, WorkerFile
<1> QED
  BY <1>1 DEF TypeOK

\* The same of the manifest.
LEMMA ManifestTypes ==
  ASSUME TypeOK, NEW w \in Worker, NEW s \in {"submitted", "cancelled", "failed"}
  PROVE  [manifest EXCEPT ![w].status = s] \in [Worker -> Manifest]
<1>1. [manifest[w] EXCEPT !.status = s] \in Manifest
  BY DEF TypeOK, Manifest
<1> QED
  BY <1>1 DEF TypeOK

\* The same of the workspace.
LEMMA NoTreeTypes ==
  ASSUME TypeOK, NEW w \in Worker
  PROVE  [tree EXCEPT ![w] = NoTree] \in [Worker -> Tree]
<1>1. NoTree \in Tree
  BY DEF NoTree, Tree
<1> QED
  BY <1>1 DEF TypeOK

\* Every action keeps the types.
LEMMA TypesKept == TypeOK /\ Issued /\ Named /\ [Next]_vars => TypeOK'
<1> SUFFICES ASSUME TypeOK, Issued, Named, [Next]_vars PROVE TypeOK'
  OBVIOUS
<1>1. ASSUME NEW w \in Worker, NEW h \in Host, AskClaim(w, h) PROVE TypeOK'
  <2>1. worker[w].fencing + 1 \in Nat
    BY DEF TypeOK, WorkerFile
  <2> QED
    BY <1>1, <2>1 DEF AskClaim, TypeOK
<1>2. ASSUME NEW k \in asks, ReplayClaim(k) PROVE TypeOK'
  BY <1>2 DEF ReplayClaim, TypeOK
<1>3. ASSUME NEW k \in asks, ClaimHostAction(k) PROVE TypeOK'
  <2>1. CASE IssueClaim(k.worker, k.host)
    <3>0. k.worker \in Worker /\ k.host \in Host
      BY AskTypes
    <3>1. worker'[k.worker].token = Fresh
      <4>1. worker'[k.worker] = [status |-> "claimed", token |-> Fresh,
                                 fencing |-> worker[k.worker].fencing + 1]
        BY <2>1, <3>0, IssueTypes
      <4> QED
        BY <4>1
    <3>2. CommitKey(k, Fresh) /\ Fresh \in Claim
      BY <1>3, <2>1, <3>1, FreshIsUnused DEF ClaimHostAction, IssueClaim
    <3>3. keys' \in SUBSET [worker : Worker, host : Host, fencing : Nat, claim : Claim]
      BY <3>2, CommitTypes
    <3>4. asks' \in SUBSET [worker : Worker, host : Host, fencing : Nat]
      BY <1>3 DEF ClaimHostAction, TypeOK
    <3> QED
      BY <1>3, <2>1, <3>0, <3>3, <3>4, IssueTypes DEF ClaimHostAction, TypeOK
  <2>2. CASE HeldBy(k.worker, k.host) /\ UNCHANGED <<worker, action, manifest, tree, of, by>>
    <3>1. worker'[k.worker].token \in Claim
      BY <2>2, AskTypes DEF HeldBy, Named
    <3>2. keys' \in SUBSET [worker : Worker, host : Host, fencing : Nat, claim : Claim]
      BY <1>3, <3>1, CommitTypes DEF ClaimHostAction
    <3> QED
      BY <1>3, <2>2, <3>2 DEF ClaimHostAction, TypeOK
  <2> QED
    BY <1>3, <2>1, <2>2 DEF ClaimHostAction
<1>4. ASSUME NEW k \in asks, RefuseClaim(k) PROVE TypeOK'
  BY <1>4 DEF RefuseClaim, TypeOK
<1>5. ASSUME NEW c \in Claim, LeaseLapses(c) PROVE TypeOK'
  BY <1>5 DEF LeaseLapses, TypeOK
<1>6. ASSUME NEW c \in Claim, EditWorkspace(c) PROVE TypeOK'
  <2>1. of[c] \in Worker /\ [claim |-> c, late |-> c \in lapsed] \in Edit
    BY <1>6 DEF EditWorkspace, Issued, Edit
  <2>2. [tree[of[c]] EXCEPT !.edits = @ \cup {[claim |-> c, late |-> c \in lapsed]}] \in Tree
    BY <2>1 DEF TypeOK, Tree
  <2>3. tree' \in [Worker -> Tree]
    BY <1>6, <2>1, <2>2 DEF EditWorkspace, TypeOK
  <2> QED
    BY <1>6, <2>3 DEF EditWorkspace, TypeOK
<1>7. ASSUME NEW c \in Claim, SubmitPatch(c) PROVE TypeOK'
  <2>1. of[c] \in Worker
    BY <1>7 DEF SubmitPatch, TypeOK
  <2>2. tree[of[c]].edits \in SUBSET Edit
    BY <2>1 DEF TypeOK, Tree
  <2>3. worker' \in [Worker -> WorkerFile]
    BY <1>7, <2>1, StatusTypes DEF SubmitPatch, Status
  <2>4. manifest' \in [Worker -> Manifest]
    BY <1>7, <2>1, ManifestTypes DEF SubmitPatch
  <2> QED
    BY <1>7, <2>1, <2>2, <2>3, <2>4 DEF SubmitPatch, TypeOK
<1>8. ASSUME NEW c \in Claim, SubmitEvidence(c) PROVE TypeOK'
  <2>1. of[c] \in Worker
    BY <1>8 DEF SubmitEvidence, ActiveClaim, Issued, TypeOK
  <2>2. worker' \in [Worker -> WorkerFile]
    BY <1>8, <2>1, StatusTypes DEF SubmitEvidence, Status
  <2> QED
    BY <1>8, <2>2 DEF SubmitEvidence, TypeOK
<1>9. ASSUME NEW c \in Claim, CancelHostAction(c) PROVE TypeOK'
  <2>1. of[c] \in Worker
    BY <1>9 DEF CancelHostAction, ActiveClaim, Issued, TypeOK
  <2>2. worker' \in [Worker -> WorkerFile]
    BY <1>9, <2>1, StatusTypes DEF CancelHostAction, Status
  <2>3. tree' \in [Worker -> Tree] /\ manifest' \in [Worker -> Manifest]
    <3>1. CASE manifest[of[c]].status = "none"
      BY <1>9, <3>1 DEF CancelHostAction, TypeOK
    <3>2. CASE manifest[of[c]].status # "none"
      <4>1. Discard(of[c], "cancelled")
        BY <1>9, <3>2 DEF CancelHostAction
      <4> QED
        BY <2>1, <4>1, NoTreeTypes, ManifestTypes DEF Discard
    <3> QED
      BY <3>1, <3>2
  <2> QED
    BY <1>9, <2>2, <2>3 DEF CancelHostAction, TypeOK
<1>10. ASSUME NEW w \in Worker, RecoverWorkspace(w) PROVE TypeOK'
  <2>1. tree' \in [Worker -> Tree] /\ manifest' \in [Worker -> Manifest]
    <3>1. CASE Discard(w, "failed")
      BY <3>1, NoTreeTypes, ManifestTypes DEF Discard
    <3>2. CASE tree' = [tree EXCEPT ![w] = NoTree] /\ UNCHANGED manifest
      BY <3>2, NoTreeTypes DEF TypeOK
    <3> QED
      BY <1>10, <3>1, <3>2 DEF RecoverWorkspace
  <2> QED
    BY <1>10, <2>1 DEF RecoverWorkspace, TypeOK
<1>11. ASSUME NEW w \in Worker, ClaimByAgent(w) PROVE TypeOK'
  <2>1. worker' \in [Worker -> WorkerFile]
    BY <1>11, StatusTypes DEF ClaimByAgent, Status
  <2> QED
    BY <1>11, <2>1 DEF ClaimByAgent, TypeOK
<1>12. ASSUME NEW w \in Worker, AgentEnds(w) PROVE TypeOK'
  <2>1. worker' \in [Worker -> WorkerFile]
    <3>1. PICK s \in {"active", "queued"} : worker' = [worker EXCEPT ![w].status = s]
      BY <1>12 DEF AgentEnds
    <3> QED
      BY <3>1, StatusTypes DEF Status
  <2> QED
    BY <1>12, <2>1 DEF AgentEnds, TypeOK
<1>13. CASE UNCHANGED vars
  BY <1>13 DEF vars, TypeOK
<1> QED
  BY <1>1, <1>2, <1>3, <1>4, <1>5, <1>6, <1>7, <1>8, <1>9, <1>10, <1>11, <1>12, <1>13 DEF Next

----------------------------------------------------------------------------
\* The bookkeeping under each kind of step.
LEMMA IdleKept == Bookkeeping /\ Idle => Bookkeeping'
  BY DEF Bookkeeping, Idle, Issued, Named, EndedIsFinal, ClaimIsHonoured, Claimed, Live

\* Issuing a claim keeps the books.
LEMMA IssueKept ==
  ASSUME TypeOK, Bookkeeping, NEW w \in Worker, NEW h \in Host, IssueClaim(w, h),
         UNCHANGED <<lapsed, outcome>>
  PROVE  Bookkeeping'
<1> USE DEF TypeOK
<1>1. Fresh \in Claim /\ by[Fresh] = None
  BY FreshIsUnused DEF IssueClaim
<1>2. worker[w].status = "active" \/ (Claimed(w) /\ Expired(w))
  BY DEF IssueClaim, Claimable
<1>3. /\ worker'[w].status = "claimed" /\ worker'[w].token = Fresh
      /\ \A v \in Worker \ {w} : worker'[v] = worker[v]
  <2>1. worker'[w] = [status |-> "claimed", token |-> Fresh, fencing |-> worker[w].fencing + 1]
    BY IssueTypes
  <2> QED
    BY <2>1 DEF IssueClaim
<1>4. /\ of'[Fresh] = w /\ by'[Fresh] = h /\ h # None
      /\ \A c \in Claim \ {Fresh} : of'[c] = of[c] /\ by'[c] = by[c]
  BY <1>1, HostAssumption DEF IssueClaim
<1>5. Issued'
  BY <1>1, <1>4 DEF Bookkeeping, Issued
<1>6. Named'
  BY <1>1, <1>3, <1>4 DEF Bookkeeping, Issued, Named, Claimed
<1>7. EndedIsFinal'
  <2> SUFFICES ASSUME NEW c \in Claim, outcome[c] # "none"
               PROVE  worker'[of'[c]].status \in Final /\ worker'[of'[c]].token = c
    BY DEF EndedIsFinal
  <2>1. c # Fresh /\ of[c] \in Worker /\ worker[of[c]].status \in Final
    BY <1>1 DEF Bookkeeping, Issued, EndedIsFinal
  <2>2. of[c] # w
    BY <1>2, <2>1 DEF Claimed, Final
  <2> QED
    BY <1>3, <1>4, <2>1, <2>2 DEF Bookkeeping, EndedIsFinal
<1>8. ClaimIsHonoured'
  <2> SUFFICES ASSUME NEW c \in Claim, Live(c)'
               PROVE  Claimed(of[c])' /\ worker'[of'[c]].token = c
    BY DEF ClaimIsHonoured
  <2>1. CASE c = Fresh
    BY <1>3, <1>4, <2>1 DEF Claimed
  <2>2. CASE c # Fresh
    <3>1. Live(c) /\ of[c] \in Worker
      BY <1>4, <2>2 DEF Live, Bookkeeping, Issued
    <3>2. Claimed(of[c]) /\ worker[of[c]].token = c
      BY <3>1 DEF Bookkeeping, ClaimIsHonoured
    <3>3. of[c] # w
      BY <1>2, <3>1, <3>2 DEF Live, Claimed, Expired
    <3> QED
      BY <1>3, <1>4, <2>2, <3>1, <3>2, <3>3 DEF Claimed
  <2> QED
    BY <2>1, <2>2
<1> QED
  BY <1>5, <1>6, <1>7, <1>8 DEF Bookkeeping

\* So does the end of a lease.
LEMMA LapseKept ==
  ASSUME TypeOK, Bookkeeping, NEW c \in Claim, LeaseLapses(c)
  PROVE  Bookkeeping'
  BY DEF LeaseLapses, Bookkeeping, Issued, Named, EndedIsFinal, ClaimIsHonoured, Claimed, Live

\* So does the end of a claim.
LEMMA EndKept ==
  ASSUME TypeOK, Bookkeeping, NEW c \in Claim, Ends(c)
  PROVE  Bookkeeping'
<1> USE DEF TypeOK
<1>1. of[c] \in Worker /\ Claimed(of[c]) /\ worker[of[c]].token = c /\ by[c] # None
  BY DEF Ends, ActiveClaim, Bookkeeping, Issued
<1>2. PICK s \in Final : worker' = [worker EXCEPT ![of[c]].status = s]
  BY DEF Ends
<1>3. /\ worker'[of[c]].status = s /\ worker'[of[c]].token = c
      /\ \A v \in Worker \ {of[c]} : worker'[v] = worker[v]
  BY <1>1, <1>2 DEF WorkerFile
<1>4. outcome'[c] # "none" /\ \A d \in Claim \ {c} : outcome'[d] = outcome[d]
  BY DEF Ends
<1>5. UNCHANGED <<of, by, lapsed>>
  BY DEF Ends
<1>6. s \in Final /\ "claimed" \notin Final
  BY DEF Final
<1>7. Issued'
  BY <1>1, <1>4, <1>5 DEF Bookkeeping, Issued
<1>8. Named'
  BY <1>1, <1>3, <1>4, <1>5, <1>6 DEF Bookkeeping, Named, Claimed
<1>9. EndedIsFinal'
  BY <1>1, <1>3, <1>4, <1>5, <1>6 DEF Bookkeeping, Issued, EndedIsFinal, Claimed
<1>10. ClaimIsHonoured'
  BY <1>1, <1>3, <1>4, <1>5 DEF Bookkeeping, Issued, ClaimIsHonoured, Claimed, Live
<1> QED
  BY <1>7, <1>8, <1>9, <1>10 DEF Bookkeeping

\* So does a scheduler's agent.
LEMMA AgentKept ==
  ASSUME TypeOK, Bookkeeping, NEW w \in Worker, AgentMoves(w)
  PROVE  Bookkeeping'
<1> USE DEF TypeOK
<1>1. PICK s \in {"active", "running", "queued"} : worker' = [worker EXCEPT ![w].status = s]
  BY DEF AgentMoves
<1>2. worker'[w].status = s /\ \A v \in Worker \ {w} : worker'[v] = worker[v]
  BY <1>1 DEF WorkerFile
<1>3. UNCHANGED <<of, by, lapsed, outcome>>
  BY DEF AgentMoves
<1>4. worker[w].status \notin Final /\ ~Claimed(w) /\ s # "claimed"
  BY DEF AgentMoves, Final, Claimed
<1>5. Issued' /\ Named'
  BY <1>2, <1>3, <1>4 DEF Bookkeeping, Issued, Named, Claimed
<1>6. EndedIsFinal'
  BY <1>2, <1>3, <1>4 DEF Bookkeeping, Issued, EndedIsFinal
<1>7. ClaimIsHonoured'
  BY <1>2, <1>3, <1>4 DEF Bookkeeping, Issued, ClaimIsHonoured, Claimed, Live
<1> QED
  BY <1>5, <1>6, <1>7 DEF Bookkeeping

\* Every step is of one of these kinds.
LEMMA StepKinds ==
  ASSUME TypeOK, Bookkeeping, [Next]_vars
  PROVE  \/ Idle
         \/ \E k \in asks : ClaimHostAction(k) /\ IssueClaim(k.worker, k.host)
         \/ \E c \in Claim : LeaseLapses(c)
         \/ \E c \in Claim : Ends(c)
         \/ \E w \in Worker : AgentMoves(w)
<1>1. ASSUME NEW w \in Worker, NEW h \in Host, AskClaim(w, h) PROVE Idle
  BY <1>1 DEF AskClaim, Idle
<1>2. ASSUME NEW k \in asks, ReplayClaim(k) \/ RefuseClaim(k) PROVE Idle
  BY <1>2 DEF ReplayClaim, RefuseClaim, Idle
<1>3. ASSUME NEW k \in asks, ClaimHostAction(k), ~IssueClaim(k.worker, k.host) PROVE Idle
  BY <1>3 DEF ClaimHostAction, Idle
<1>4. ASSUME NEW c \in Claim, EditWorkspace(c) PROVE Idle
  BY <1>4 DEF EditWorkspace, Idle
<1>5. ASSUME NEW c \in Claim, SubmitPatch(c) \/ SubmitEvidence(c) \/ CancelHostAction(c)
      PROVE  Ends(c)
  BY <1>5 DEF SubmitPatch, SubmitEvidence, CancelHostAction, Ends, Final
<1>6. ASSUME NEW w \in Worker, RecoverWorkspace(w) PROVE Idle
  BY <1>6 DEF RecoverWorkspace, Idle
<1>7. ASSUME NEW w \in Worker, ClaimByAgent(w) \/ AgentEnds(w) PROVE AgentMoves(w)
  BY <1>7 DEF ClaimByAgent, AgentEnds, AgentMoves
<1>8. CASE UNCHANGED vars
  BY <1>8 DEF vars, Idle
<1> QED
  BY <1>1, <1>2, <1>3, <1>4, <1>5, <1>6, <1>7, <1>8 DEF Next

\* Every step keeps the books.
LEMMA BookkeepingKept == TypeOK /\ Bookkeeping /\ [Next]_vars => Bookkeeping'
<1> SUFFICES ASSUME TypeOK, Bookkeeping, [Next]_vars PROVE Bookkeeping'
  OBVIOUS
<1>1. ASSUME NEW k \in asks, ClaimHostAction(k), IssueClaim(k.worker, k.host)
      PROVE  Bookkeeping'
  <2>1. k.worker \in Worker /\ k.host \in Host
    BY AskTypes
  <2>2. UNCHANGED <<lapsed, outcome>>
    BY <1>1 DEF ClaimHostAction
  <2> QED
    BY <1>1, <2>1, <2>2, IssueKept
<1> QED
  BY <1>1, StepKinds, IdleKept, LapseKept, EndKept, AgentKept

\* A claim is live after a step that does not issue it only if it was before.
LEMMA LiveBefore ==
  ASSUME TypeOK, Bookkeeping, [Next]_vars, NEW c \in Claim, Live(c)',
         ~\E k \in asks : ClaimHostAction(k) /\ IssueClaim(k.worker, k.host)
  PROVE  Live(c) /\ of'[c] = of[c]
<1>1. ASSUME Idle PROVE Live(c) /\ of'[c] = of[c]
  BY <1>1 DEF Idle, Live
<1>2. ASSUME NEW d \in Claim, LeaseLapses(d) PROVE Live(c) /\ of'[c] = of[c]
  BY <1>2 DEF LeaseLapses, Live
<1>3. ASSUME NEW d \in Claim, Ends(d) PROVE Live(c) /\ of'[c] = of[c]
  BY <1>3 DEF Ends, Live, TypeOK
<1>4. ASSUME NEW w \in Worker, AgentMoves(w) PROVE Live(c) /\ of'[c] = of[c]
  BY <1>4 DEF AgentMoves, Live
<1> QED
  BY <1>1, <1>2, <1>3, <1>4, StepKinds

\* Issuing a claim to w: every other live claim is of another worker, and of
\* no worker that writes a patch if w does.
LEMMA IssueIsAlone ==
  ASSUME TypeOK, Bookkeeping, NEW k \in asks, ClaimHostAction(k),
         IssueClaim(k.worker, k.host), NEW c \in Claim, Live(c)', c # Fresh
  PROVE  /\ Live(c) /\ of'[c] = of[c]
         /\ of[c] \in Worker \ {k.worker}
         /\ k.worker \in patching => of[c] \notin patching
<1> USE DEF TypeOK
<1>1. Live(c) /\ of'[c] = of[c]
  BY FreshIsUnused DEF ClaimHostAction, IssueClaim, Live
<1>2. of[c] \in Worker /\ Claimed(of[c]) /\ ~Expired(of[c])
  BY <1>1 DEF Bookkeeping, Issued, ClaimIsHonoured, Live, Expired
<1>3. of[c] # k.worker
  BY <1>2 DEF IssueClaim, Claimable, Claimed
<1>4. k.worker \in patching => of[c] \notin patching
  BY <1>2, <1>3 DEF IssueClaim, Claimable, PatchClaimedElsewhere
<1> QED
  BY <1>1, <1>2, <1>3, <1>4

\* Every step keeps patches apart.
LEMMA PatchKept ==
  TypeOK /\ Bookkeeping /\ OnePatchAtATime /\ [Next]_vars => OnePatchAtATime'
<1> SUFFICES ASSUME TypeOK, Bookkeeping, OnePatchAtATime, [Next]_vars,
                    NEW c \in Claim, NEW d \in Claim, Live(c)', Live(d)',
                    {of'[c], of'[d]} \subseteq patching'
             PROVE  c = d
  BY DEF OnePatchAtATime
<1>1. patching' = patching
  BY DEF Next, AskClaim, ReplayClaim, ClaimHostAction, RefuseClaim, LeaseLapses,
     EditWorkspace, SubmitPatch, SubmitEvidence, CancelHostAction, RecoverWorkspace,
     ClaimByAgent, AgentEnds, vars
<1>2. CASE \E k \in asks : ClaimHostAction(k) /\ IssueClaim(k.worker, k.host)
  <2>1. PICK k \in asks : ClaimHostAction(k) /\ IssueClaim(k.worker, k.host)
    BY <1>2
  <2>2. Fresh \in Claim /\ of'[Fresh] = k.worker
    BY <2>1, FreshIsUnused DEF IssueClaim, TypeOK
  <2>3. CASE c # Fresh /\ d # Fresh
    BY <1>1, <2>1, <2>3, IssueIsAlone DEF OnePatchAtATime
  <2>4. CASE c = Fresh /\ d # Fresh
    BY <1>1, <2>1, <2>2, <2>4, IssueIsAlone
  <2>5. CASE c # Fresh /\ d = Fresh
    BY <1>1, <2>1, <2>2, <2>5, IssueIsAlone
  <2> QED
    BY <2>3, <2>4, <2>5
<1>3. CASE ~\E k \in asks : ClaimHostAction(k) /\ IssueClaim(k.worker, k.host)
  BY <1>1, <1>3, LiveBefore DEF OnePatchAtATime
<1> QED
  BY <1>2, <1>3

\* What a step other than the issue of a claim does to the workspace of a
\* live one.
LEMMA WorkspaceUntouched ==
  ASSUME TypeOK, Bookkeeping, WorkspaceIsKept, [Next]_vars, NEW c \in Claim,
         Live(c), Live(c)', of[c] \in patching,
         ~\E k \in asks : ClaimHostAction(k) /\ IssueClaim(k.worker, k.host)
  PROVE  manifest'[of[c]] = manifest[of[c]] /\ tree'[of[c]].there
<1> USE DEF TypeOK
<1> DEFINE Goal == manifest'[of[c]] = manifest[of[c]] /\ tree'[of[c]].there
<1>1. /\ of[c] \in Worker /\ tree[of[c]].there
      /\ Claimed(of[c]) /\ worker[of[c]].token = c /\ c \notin lapsed
  BY DEF Bookkeeping, Issued, ClaimIsHonoured, WorkspaceIsKept, Live
<1>2. ASSUME UNCHANGED <<manifest, tree>> PROVE Goal
  BY <1>1, <1>2
<1>3. ASSUME NEW k \in asks, ClaimHostAction(k) PROVE Goal
  BY <1>2, <1>3 DEF ClaimHostAction
<1>4. ASSUME NEW d \in Claim, EditWorkspace(d) PROVE Goal
  BY <1>1, <1>4 DEF EditWorkspace, Tree
<1>5. ASSUME NEW d \in Claim, SubmitPatch(d) PROVE Goal
  <2>1. d # c
    BY <1>5 DEF SubmitPatch, Live
  <2>2. of[d] # of[c]
    BY <1>1, <1>5, <2>1 DEF SubmitPatch, ActiveClaim
  <2> QED
    BY <1>1, <1>5, <2>2 DEF SubmitPatch
<1>6. ASSUME NEW d \in Claim, CancelHostAction(d) PROVE Goal
  <2>1. d # c
    BY <1>6 DEF CancelHostAction, Live
  <2>2. of[d] # of[c]
    BY <1>1, <1>6, <2>1 DEF CancelHostAction, ActiveClaim
  <2> QED
    BY <1>1, <1>6, <2>2 DEF CancelHostAction, Discard
<1>7. ASSUME NEW w \in Worker, RecoverWorkspace(w) PROVE Goal
  <2>1. w # of[c]
    BY <1>1, <1>7 DEF RecoverWorkspace, Orphaned, Expired
  <2> QED
    BY <1>1, <1>7, <2>1 DEF RecoverWorkspace, Discard
<1> HIDE DEF Goal
<1>8. Goal
  BY <1>2, <1>3, <1>4, <1>5, <1>6, <1>7
  DEF Next, AskClaim, ReplayClaim, RefuseClaim, LeaseLapses, SubmitEvidence,
      ClaimByAgent, AgentEnds, vars
<1> QED
  BY <1>8 DEF Goal

\* Every step keeps the workspaces of live claims.
LEMMA WorkspaceKept ==
  TypeOK /\ Bookkeeping /\ WorkspaceIsKept /\ [Next]_vars => WorkspaceIsKept'
<1> SUFFICES ASSUME TypeOK, Bookkeeping, WorkspaceIsKept, [Next]_vars,
                    NEW c \in Claim, Live(c)', of'[c] \in patching'
             PROVE  /\ manifest'[of'[c]] = [action |-> c, status |-> "active"]
                    /\ tree'[of'[c]].there
  BY DEF WorkspaceIsKept
<1>1. patching' = patching
  BY DEF Next, AskClaim, ReplayClaim, ClaimHostAction, RefuseClaim, LeaseLapses,
     EditWorkspace, SubmitPatch, SubmitEvidence, CancelHostAction, RecoverWorkspace,
     ClaimByAgent, AgentEnds, vars
<1>2. CASE \E k \in asks : ClaimHostAction(k) /\ IssueClaim(k.worker, k.host)
  <2>1. PICK k \in asks : ClaimHostAction(k) /\ IssueClaim(k.worker, k.host)
    BY <1>2
  <2>2. k.worker \in Worker /\ Fresh \in Claim /\ of'[Fresh] = k.worker
    BY <2>1, AskTypes, FreshIsUnused DEF IssueClaim, TypeOK
  <2>3. CreateWorkspace(k.worker, Fresh)
    BY <2>1 DEF IssueClaim
  <2>4. CASE c = Fresh
    BY <1>1, <2>2, <2>3, <2>4 DEF CreateWorkspace, TypeOK
  <2>5. CASE c # Fresh
    <3>1. Live(c) /\ of'[c] = of[c] /\ of[c] \in Worker \ {k.worker}
      BY <2>1, <2>5, IssueIsAlone
    <3>2. manifest[of[c]] = [action |-> c, status |-> "active"] /\ tree[of[c]].there
      BY <1>1, <3>1 DEF WorkspaceIsKept
    <3> QED
      BY <2>2, <2>3, <3>1, <3>2 DEF CreateWorkspace, TypeOK
  <2> QED
    BY <2>4, <2>5
<1>3. CASE ~\E k \in asks : ClaimHostAction(k) /\ IssueClaim(k.worker, k.host)
  <2>1. Live(c) /\ of'[c] = of[c]
    BY <1>3, LiveBefore
  <2>2. manifest[of[c]] = [action |-> c, status |-> "active"]
    BY <1>1, <2>1 DEF WorkspaceIsKept
  <2> QED
    BY <1>1, <1>3, <2>1, <2>2, WorkspaceUntouched
<1> QED
  BY <1>2, <1>3

\* The invariant is inductive.
LEMMA InvKept == Inv /\ [Next]_vars => Inv'
  BY TypesKept, BookkeepingKept, WorkspaceKept, PatchKept DEF Inv, Bookkeeping

\* The invariant holds throughout.
LEMMA Invariance == Spec => []Inv
  BY InitInv, InvKept, PTL DEF Spec

\* The records keep their types.
THEOREM TypeCorrect == Spec => []TypeOK
<1>1. Inv => TypeOK
  BY DEF Inv
<1> QED
  BY <1>1, Invariance, PTL

\* A worker stays with the host that claimed it while the lease runs, however
\* claims, agents, recoveries and cancellations interleave.
THEOREM LeaseSafety == Spec => []ClaimIsHonoured
<1>1. Inv => ClaimIsHonoured
  BY DEF Inv, Bookkeeping
<1> QED
  BY <1>1, Invariance, PTL

\* No recovery, claim or cancellation takes the workspace of a live claim.
THEOREM WorkspaceSafety == Spec => []WorkspaceIsKept
<1>1. Inv => WorkspaceIsKept
  BY DEF Inv
<1> QED
  BY <1>1, Invariance, PTL

\* Of any number of workers and hosts, one writes a patch at a time.
THEOREM PatchExclusion == Spec => []OnePatchAtATime
<1>1. Inv => OnePatchAtATime
  BY DEF Inv
<1> QED
  BY <1>1, Invariance, PTL

\* A worker is submitted or cancelled under one claim only.
THEOREM SingleOutcome == Spec => []OneOutcome
<1>1. Inv => OneOutcome
  BY DEF Inv, Bookkeeping, EndedIsFinal, OneOutcome
<1> QED
  BY <1>1, Invariance, PTL

----------------------------------------------------------------------------
(* Patches.                                                                *)
\* Initially there are no edits and no patches.
LEMMA CleanInit == Init => CleanTree /\ PatchIsOfItsClaim
  BY DEF Init, CleanTree, PatchIsOfItsClaim, Claimed

\* Every step keeps workspaces and patches clean.
LEMMA CleanKept ==
  ASSUME Inv, CleanTree, PatchIsOfItsClaim, [Next]_vars
  PROVE  CleanTree' /\ PatchIsOfItsClaim'
<1> USE DEF Inv, TypeOK, Bookkeeping
<1> DEFINE Goal == CleanTree' /\ PatchIsOfItsClaim'
<1>1. ASSUME Idle, UNCHANGED <<patching, tree, queue>> PROVE Goal
  BY <1>1 DEF Idle, CleanTree, PatchIsOfItsClaim, Claimed
<1>2. ASSUME NEW k \in asks, ClaimHostAction(k) PROVE Goal
  <2>1. CASE IssueClaim(k.worker, k.host)
    <3>0. k.worker \in Worker /\ k.host \in Host
      BY AskTypes
    <3>1. CreateWorkspace(k.worker, Fresh) /\ UNCHANGED <<patching, queue>>
      BY <1>2, <2>1 DEF ClaimHostAction, IssueClaim
    <3>2. \A v \in Worker \ {k.worker} : worker'[v] = worker[v] /\ tree'[v] = tree[v]
      BY <2>1, <3>1 DEF IssueClaim, CreateWorkspace
    <3>3. k.worker \in patching => tree'[k.worker].edits = {}
      BY <3>0, <3>1 DEF CreateWorkspace
    <3> QED
      BY <3>1, <3>2, <3>3 DEF CleanTree, PatchIsOfItsClaim, Claimed
  <2>2. CASE ~IssueClaim(k.worker, k.host)
    BY <1>1, <1>2, <2>2 DEF ClaimHostAction, Idle
  <2> QED
    BY <2>1, <2>2
<1>3. ASSUME NEW c \in Claim, LeaseLapses(c) PROVE Goal
  BY <1>3 DEF LeaseLapses, CleanTree, PatchIsOfItsClaim, Claimed
<1>4. ASSUME NEW c \in Claim, EditWorkspace(c) PROVE Goal
  <2>1. of[c] \in Worker /\ UNCHANGED <<patching, worker, queue>>
    BY <1>4 DEF EditWorkspace, Issued
  <2>2. tree'[of[c]].edits = tree[of[c]].edits \cup {[claim |-> c, late |-> c \in lapsed]}
    BY <1>4, <2>1 DEF EditWorkspace, Tree
  <2>3. \A v \in Worker \ {of[c]} : tree'[v] = tree[v]
    BY <1>4 DEF EditWorkspace
  <2>4. Claimed(of[c]) /\ c \notin lapsed => worker[of[c]].token = c
    <3>1. CASE outcome[c] = "none"
      BY <1>4, <3>1 DEF EditWorkspace, ClaimIsHonoured, Live
    <3>2. CASE outcome[c] # "none"
      BY <3>2 DEF EndedIsFinal, Final, Claimed
    <3> QED
      BY <3>1, <3>2
  <2>5. ASSUME NEW w \in Worker, Claimed(w), w \in patching, NEW e \in tree'[w].edits
        PROVE  e.claim = worker[w].token \/ e.late
    <3>1. CASE w = of[c] /\ e = [claim |-> c, late |-> c \in lapsed]
      BY <2>4, <2>5, <3>1
    <3>2. CASE e \in tree[w].edits
      BY <2>5, <3>2 DEF CleanTree
    <3> QED
      BY <2>2, <2>3, <3>1, <3>2
  <2> QED
    BY <2>1, <2>5 DEF CleanTree, PatchIsOfItsClaim, Claimed
<1>5. ASSUME NEW c \in Claim, SubmitPatch(c) PROVE Goal
  <2>1. /\ of[c] \in Worker /\ of[c] \in patching /\ Claimed(of[c])
        /\ worker[of[c]].token = c /\ tree[of[c]].edits # {}
    BY <1>5 DEF SubmitPatch, ActiveClaim, Issued
  <2>2. \A e \in tree[of[c]].edits : e.claim = c \/ e.late
    BY <2>1 DEF CleanTree
  <2>3. queue' = queue \cup {[worker |-> of[c], claim |-> c, edits |-> tree[of[c]].edits]}
    BY <1>5 DEF SubmitPatch
  <2>4. PatchIsOfItsClaim'
    BY <2>2, <2>3 DEF PatchIsOfItsClaim
  <2>5. /\ worker' = [worker EXCEPT ![of[c]].status = "queued"]
        /\ UNCHANGED <<patching, tree>>
    BY <1>5 DEF SubmitPatch
  <2>6. worker'[of[c]].status = "queued" /\ \A v \in Worker \ {of[c]} : worker'[v] = worker[v]
    BY <2>1, <2>5 DEF WorkerFile
  <2> QED
    BY <2>4, <2>5, <2>6 DEF CleanTree, Claimed
<1>6. ASSUME NEW c \in Claim, SubmitEvidence(c) \/ CancelHostAction(c) PROVE Goal
  <2>1. of[c] \in Worker /\ UNCHANGED <<patching, queue>>
    BY <1>6 DEF SubmitEvidence, CancelHostAction, ActiveClaim, Issued
  <2>2. PICK s \in Final : worker' = [worker EXCEPT ![of[c]].status = s]
    BY <1>6 DEF SubmitEvidence, CancelHostAction, Final
  <2>3. worker'[of[c]].status = s /\ \A v \in Worker \ {of[c]} : worker'[v] = worker[v]
    BY <2>1, <2>2 DEF WorkerFile
  <2>4. \A v \in Worker \ {of[c]} : tree'[v] = tree[v]
    BY <1>6 DEF SubmitEvidence, CancelHostAction, Discard
  <2> QED
    BY <2>1, <2>3, <2>4 DEF CleanTree, PatchIsOfItsClaim, Claimed, Final
<1>7. ASSUME NEW w \in Worker, RecoverWorkspace(w) PROVE Goal
  <2>1. tree' = [tree EXCEPT ![w] = NoTree] /\ UNCHANGED <<patching, worker, queue>>
    BY <1>7 DEF RecoverWorkspace, Discard
  <2>2. tree'[w].edits = {} /\ \A v \in Worker \ {w} : tree'[v] = tree[v]
    BY <2>1 DEF NoTree
  <2> QED
    BY <2>1, <2>2 DEF CleanTree, PatchIsOfItsClaim, Claimed
<1>8. ASSUME NEW w \in Worker, ClaimByAgent(w) \/ AgentEnds(w) PROVE Goal
  <2>1. UNCHANGED <<patching, tree, queue>>
    BY <1>8 DEF ClaimByAgent, AgentEnds
  <2>2. PICK s \in {"running", "active", "queued"} : worker' = [worker EXCEPT ![w].status = s]
    BY <1>8 DEF ClaimByAgent, AgentEnds
  <2>3. worker'[w].status = s /\ \A v \in Worker \ {w} : worker'[v] = worker[v]
    BY <2>2 DEF WorkerFile
  <2> QED
    BY <2>1, <2>3 DEF CleanTree, PatchIsOfItsClaim, Claimed
<1> HIDE DEF Goal
<1>9. Goal
  BY <1>1, <1>2, <1>3, <1>4, <1>5, <1>6, <1>7, <1>8
  DEF Next, AskClaim, ReplayClaim, RefuseClaim, vars, Idle
<1> QED
  BY <1>9 DEF Goal

\* A patch holds nothing of another claim, but for what a host wrote after its
\* lease had passed.
THEOREM PatchSafety == Spec => []PatchIsOfItsClaim
<1> DEFINE CInv == Inv /\ CleanTree /\ PatchIsOfItsClaim
<1>1. Init => CInv
  BY InitInv, CleanInit
<1>2. CInv /\ [Next]_vars => CInv'
  BY InvKept, CleanKept
<1>3. CInv => PatchIsOfItsClaim
  OBVIOUS
<1> HIDE DEF CInv
<1> QED
  BY <1>1, <1>2, <1>3, PTL DEF Spec

----------------------------------------------------------------------------
(* Claim keys.                                                             *)
\* Initially there are no keys and no commands.
LEMMA RecentInit == Init => Recent
  BY DEF Init, Recent

\* Only the issue of a claim raises a number or makes a host hold a worker.
LEMMA HeldBefore ==
  ASSUME TypeOK, Bookkeeping, [Next]_vars, NEW w \in Worker,
         ~\E k \in asks : k.worker = w /\ ClaimHostAction(k) /\ IssueClaim(w, k.host)
  PROVE  /\ worker'[w].fencing = worker[w].fencing
         /\ \A h \in Host : HeldBy(w, h)' => HeldBy(w, h)
<1> USE DEF TypeOK, Bookkeeping
<1> DEFINE Goal == /\ worker'[w].fencing = worker[w].fencing
                   /\ \A h \in Host : HeldBy(w, h)' => HeldBy(w, h)
<1>1. ASSUME Idle PROVE Goal
  BY <1>1 DEF Idle, HeldBy, Claimed, Expired
<1>2. ASSUME NEW k \in asks, ClaimHostAction(k), IssueClaim(k.worker, k.host) PROVE Goal
  <2>1. k.worker \in Worker /\ k.worker # w
    BY <1>2, AskTypes
  <2>2. worker'[w] = worker[w]
    BY <1>2, <2>1 DEF IssueClaim
  <2>3. lapsed' = lapsed
    BY <1>2 DEF ClaimHostAction
  <2>4. Claimed(w) => by'[worker[w].token] = by[worker[w].token]
    <3>1. by[Fresh] = None /\ by' = [by EXCEPT ![Fresh] = k.host]
      BY <1>2, FreshIsUnused DEF IssueClaim
    <3> QED
      BY <3>1 DEF Named
  <2> QED
    BY <2>2, <2>3, <2>4 DEF HeldBy, Claimed, Expired
<1>3. ASSUME NEW c \in Claim, LeaseLapses(c) PROVE Goal
  BY <1>3 DEF LeaseLapses, HeldBy, Claimed, Expired
<1>4. ASSUME NEW c \in Claim, Ends(c) PROVE Goal
  <2>1. PICK s \in Final : worker' = [worker EXCEPT ![of[c]].status = s]
    BY <1>4 DEF Ends
  <2>2. worker'[w].fencing = worker[w].fencing /\ worker'[w].token = worker[w].token
    BY <2>1 DEF WorkerFile
  <2>3. worker'[w].status \in {worker[w].status, s}
    BY <2>1 DEF WorkerFile
  <2> QED
    BY <1>4, <2>2, <2>3 DEF Ends, Final, HeldBy, Claimed, Expired
<1>5. ASSUME NEW v \in Worker, AgentMoves(v) PROVE Goal
  <2>1. PICK s \in {"active", "running", "queued"} : worker' = [worker EXCEPT ![v].status = s]
    BY <1>5 DEF AgentMoves
  <2>2. worker'[w].fencing = worker[w].fencing /\ worker'[w].token = worker[w].token
    BY <2>1 DEF WorkerFile
  <2>3. worker'[w].status \in {worker[w].status, s}
    BY <2>1 DEF WorkerFile
  <2> QED
    BY <1>5, <2>2, <2>3 DEF AgentMoves, HeldBy, Claimed, Expired
<1> HIDE DEF Goal
<1>6. Goal
  BY <1>1, <1>2, <1>3, <1>4, <1>5, StepKinds
<1> QED
  BY <1>6 DEF Goal

\* What Recent says of a key, and of a command under way.
KeyUsed(k) == k.fencing <= worker[k.worker].fencing

AskOpen(k) == KeyUsed(k) \/ (k.fencing = worker[k.worker].fencing + 1 /\ ~HeldBy(k.worker, k.host))

\* Every step keeps the numbers of keys in bounds.
LEMMA RecentKept ==
  ASSUME TypeOK, Bookkeeping, Recent, [Next]_vars
  PROVE  Recent'
<1> USE DEF TypeOK
<1>1. \A w \in Worker : worker[w].fencing \in Nat
  BY DEF WorkerFile
<1>2. ASSUME NEW k \in asks, ClaimHostAction(k) PROVE Recent'
  <2>0. k.worker \in Worker /\ k.host \in Host /\ k.fencing \in Nat
    BY AskTypes
  <2>1. asks' \subseteq asks
    BY <1>2 DEF ClaimHostAction
  <2>2. PICK c : c = worker'[k.worker].token /\ CommitKey(k, c)
    BY <1>2 DEF ClaimHostAction
  <2>3. CASE IssueClaim(k.worker, k.host)
    <3>1. worker'[k.worker].fencing = worker[k.worker].fencing + 1
      <4>1. worker'[k.worker] = [status |-> "claimed", token |-> Fresh,
                                 fencing |-> worker[k.worker].fencing + 1]
        BY <2>0, <2>3, IssueTypes
      <4> QED
        BY <4>1
    <3>2. \A v \in Worker \ {k.worker} : worker'[v].fencing = worker[v].fencing
      BY <2>3 DEF IssueClaim
    <3>3. ASSUME NEW j \in asks PROVE AskOpen(j)'
      <4>0. j.worker \in Worker /\ j.host \in Host /\ j.fencing \in Nat
        BY AskTypes
      <4>1. CASE j.worker = k.worker
        BY <1>1, <3>1, <4>0, <4>1 DEF Recent, AskOpen, KeyUsed
      <4>2. CASE j.worker # k.worker
        <5>1. worker'[j.worker].fencing = worker[j.worker].fencing
          BY <3>2, <4>0, <4>2
        <5>2. HeldBy(j.worker, j.host)' => HeldBy(j.worker, j.host)
          <6>1. ASSUME NEW i \in asks, i.worker = j.worker, ClaimHostAction(i),
                       IssueClaim(j.worker, i.host)
                PROVE  FALSE
            BY <3>1, <1>1, <2>0, <4>0, <4>2, <6>1 DEF IssueClaim
          <6> QED
            BY <4>0, <6>1, HeldBefore
        <5> QED
          BY <5>1, <5>2 DEF Recent, AskOpen, KeyUsed
      <4> QED
        BY <4>1, <4>2
    <3>4. KeyUsed(k)'
      BY <1>1, <2>0, <3>1 DEF Recent, KeyUsed
    <3>5. ASSUME NEW j \in keys PROVE KeyUsed(j)'
      <4>1. j.worker \in Worker /\ j.fencing \in Nat
        OBVIOUS
      <4> QED
        BY <1>1, <3>1, <3>2, <4>1 DEF Recent, KeyUsed
    <3>6. keys' = keys \cup {[worker |-> k.worker, host |-> k.host,
                              fencing |-> k.fencing, claim |-> c]}
      BY <2>2 DEF CommitKey
    <3>7. ASSUME NEW j \in keys' PROVE KeyUsed(j)'
      BY <3>4, <3>5, <3>6 DEF KeyUsed
    <3> QED
      BY <2>1, <3>3, <3>7 DEF Recent, AskOpen, KeyUsed
  <2>4. CASE ~IssueClaim(k.worker, k.host)
    <3>1. HeldBy(k.worker, k.host) /\ UNCHANGED <<worker, by, lapsed>>
      BY <1>2, <2>4 DEF ClaimHostAction
    <3>2. KeyUsed(k)
      BY <3>1 DEF Recent, KeyUsed
    <3>3. keys' = keys \cup {[worker |-> k.worker, host |-> k.host,
                              fencing |-> k.fencing, claim |-> c]}
      BY <2>2 DEF CommitKey
    <3>4. ASSUME NEW j \in keys' PROVE KeyUsed(j)'
      BY <3>1, <3>2, <3>3 DEF Recent, KeyUsed
    <3>5. ASSUME NEW j \in asks' PROVE AskOpen(j)'
      BY <2>1, <3>1 DEF Recent, AskOpen, KeyUsed, HeldBy, Claimed, Expired
    <3> QED
      BY <3>4, <3>5 DEF Recent, AskOpen, KeyUsed
  <2> QED
    BY <2>3, <2>4
<1>3. ASSUME ~\E k \in asks : ClaimHostAction(k), keys' = keys, asks' \subseteq asks
      PROVE  Recent'
  <2>1. \A w \in Worker : /\ worker'[w].fencing = worker[w].fencing
                          /\ \A h \in Host : HeldBy(w, h)' => HeldBy(w, h)
    BY <1>3, HeldBefore
  <2>2. ASSUME NEW k \in keys' PROVE KeyUsed(k)'
    <3>1. k \in keys /\ k.worker \in Worker
      BY <1>3
    <3> QED
      BY <2>1, <3>1 DEF Recent, KeyUsed
  <2>3. ASSUME NEW k \in asks' PROVE AskOpen(k)'
    <3>1. k \in asks /\ k.worker \in Worker /\ k.host \in Host
      BY <1>3
    <3> QED
      BY <2>1, <3>1 DEF Recent, AskOpen, KeyUsed
  <2> QED
    BY <2>2, <2>3 DEF Recent, AskOpen, KeyUsed
<1>4. ASSUME NEW w \in Worker, NEW h \in Host, AskClaim(w, h) PROVE Recent'
  <2>1. /\ UNCHANGED <<worker, by, lapsed, keys>> /\ ~HeldBy(w, h)
        /\ asks' = asks \cup {[worker |-> w, host |-> h, fencing |-> worker[w].fencing + 1]}
    BY <1>4 DEF AskClaim
  <2>2. ASSUME NEW k \in asks' PROVE AskOpen(k)'
    BY <2>1 DEF Recent, AskOpen, KeyUsed, HeldBy, Claimed, Expired
  <2> QED
    BY <2>1, <2>2 DEF Recent, AskOpen, KeyUsed
<1> QED
  BY <1>2, <1>3, <1>4
  DEF Next, ReplayClaim, RefuseClaim, LeaseLapses, EditWorkspace, SubmitPatch,
      SubmitEvidence, CancelHostAction, RecoverWorkspace, ClaimByAgent, AgentEnds, vars

\* A claim command that reads the worker now gets a new claim or an error,
\* never the answer of a claim that has passed.
THEOREM AnswerSafety == Spec => []NoStaleAnswer
<1>1. Inv /\ Recent => NoStaleAnswer
  <2> SUFFICES ASSUME Inv, Recent, NEW w \in Worker, NEW h \in Host, NEW c \in Claim,
                      [worker |-> w, host |-> h, fencing |-> worker[w].fencing + 1,
                       claim |-> c] \in keys
               PROVE  FALSE
    BY DEF NoStaleAnswer, Committed
  <2>1. worker[w].fencing + 1 <= worker[w].fencing
    BY DEF Recent
  <2>2. worker[w].fencing \in Nat
    BY DEF Inv, TypeOK, WorkerFile
  <2> QED
    BY <2>1, <2>2
<1>2. Inv /\ Recent /\ [Next]_vars => (Inv /\ Recent)'
  BY InvKept, RecentKept DEF Inv
<1> QED
  BY <1>1, <1>2, InitInv, RecentInit, PTL DEF Spec
----------------------------------------------------------------------------
(* The heartbeat.  What a process has in memory fits the place it is at;    *)
(* one user at a time is between the look at daemon.json and its write,     *)
(* unless a start was raced; and a reading of the outbox that nobody has    *)
(* made an old one is what the outbox says.                                 *)

Memory == [box : [Note -> Item] \cup {NoBox}, note : Nat, key : Key \cup {"none"},
           force : BOOLEAN, outdated : BOOLEAN, target : Daemon \cup {NoDaemon}]

Place == {"idle", "refresh", "queue", "dispatch", "next", "deliver", "settle", "acknowledge",
          "spawn", "record", "terminate", "kill"}

\* The places at which a process goes by its reading of the outbox, and those
\* at which it has a notification in hand.
Reads == {"queue", "next", "deliver", "settle", "acknowledge"}
Delivers == {"deliver", "settle"}

\* The memory m fits the place s.
Fits(s, m) ==
  /\ m \in Memory
  /\ s \in Reads => m.box \in [Note -> Item]
  /\ s \in Delivers \cup {"acknowledge"} => m.note \in Note
  /\ s \in {"record", "terminate", "kill"} => m.target \in Daemon

HeartbeatTypeOK ==
  /\ outbox \in [Note -> Item]
  /\ made \in Nat
  /\ sink \in [Note -> Nat]
  /\ daemon \in Daemon \cup {NoDaemon}
  /\ running \in SUBSET Daemon
  /\ left \in [Kinds -> Nat]
  /\ pc \in [Proc -> Place] /\ mem \in [Proc -> Memory]
  /\ \A p \in Proc : Fits(pc[p], mem[p])

\* There is room for what is about to be queued.
Queueing == {p \in Proc : pc[p] = "queue"}

Room ==
  /\ IsFiniteSet(Queueing)
  /\ made + Cardinality(Queueing) + left["notification"] <= MaxNotes

\* One start at a time, which found that nothing runs.
OneStart ==
  /\ \A u, v \in User : Starting(u) /\ Starting(v) => u = v
  /\ \A u \in User : pc[u] = "spawn" => running = {}
  /\ \A u \in User : pc[u] = "record" => running \subseteq {mem[u].target}
  /\ (\A u \in User : pc[u] # "record") => running \subseteq {daemon}

\* What a process at s that has m in memory knows of the outbox and the sink.
Truthful(s, m) ==
  /\ s \in Reads /\ ~m.outdated =>
       \A n \in Note : (s = "settle" /\ n = m.note) \/ m.box[n] = outbox[n]
  /\ s \in Delivers => outbox[m.note].status \in {"delivering", "acknowledged"}
  /\ s = "deliver" => sink[m.note] = 0
  /\ s = "settle" =>
       \/ m.box[m.note].status = "delivered" /\ sink[m.note] = 1
       \/ m.box[m.note].status \in {"failed", "dead"} /\ sink[m.note] = 0
  /\ s = "acknowledge" => m.box[m.note].status # "none"

\* The status of a notification says what became of it.
Told(n) ==
  /\ outbox[n].status # "none"
  /\ sink[n] <= 1
  /\ outbox[n].status = "delivered" => sink[n] = 1
  /\ outbox[n].status \in {"queued", "failed", "dead"} => sink[n] = 0

Unmade(n) == outbox[n].status = "none" /\ sink[n] = 0

OutboxInv ==
  /\ \A p \in Proc : Truthful(pc[p], mem[p])
  /\ \A p, q \in Proc : pc[p] \in Delivers /\ pc[q] \in Delivers /\ mem[p].note = mem[q].note => p = q
  /\ \A n \in Note : IF n <= made THEN Told(n) ELSE Unmade(n)

HeartbeatInv ==
  /\ HeartbeatTypeOK /\ Room
  /\ raced \/ OneStart
  /\ stale \/ unlogged \/ OutboxInv

----------------------------------------------------------------------------
LEMMA SpendFacts ==
  ASSUME left \in [Kinds -> Nat], NEW k \in Kinds, Spend(k)
  PROVE  /\ left' \in [Kinds -> Nat]
         /\ \A l \in Kinds : left'[l] = IF l = k THEN left[l] - 1 ELSE left[l]
         /\ left'["notification"] <= left["notification"]
<1>1. left[k] \in Nat /\ left[k] > 0 /\ left' = [left EXCEPT ![k] = left[k] - 1]
  BY DEF Spend
<1>2. left[k] - 1 \in Nat
  BY <1>1
<1>3. left' \in [Kinds -> Nat]
  BY <1>1, <1>2
<1>4. \A l \in Kinds : left'[l] = IF l = k THEN left[l] - 1 ELSE left[l]
  BY <1>1
<1>5. "notification" \in Kinds
  BY DEF Kinds
<1>6. left["notification"] \in Nat
  BY <1>5
<1>7. left'["notification"] <= left["notification"]
  BY <1>4, <1>5, <1>6
<1>8. QED
  BY <1>3, <1>4, <1>7

LEMMA NothingFits ==
  /\ Nothing \in Memory
  /\ \A s : s \notin Reads \cup {"record", "terminate", "kill"} => Fits(s, Nothing)
<1>1. Nothing \in Memory
  BY DEF Nothing, Memory
<1>2. QED
  BY <1>1 DEF Fits, Reads, Delivers

\* Goto moves one process.
LEMMA GotoMoves ==
  ASSUME HeartbeatTypeOK, NEW p \in Proc, NEW s \in Place, NEW m \in Memory,
         Fits(s, m), Goto(p, s, m)
  PROVE  /\ pc' \in [Proc -> Place] /\ mem' \in [Proc -> Memory]
         /\ pc'[p] = s /\ mem'[p] = IF s = "idle" THEN Nothing ELSE m
         /\ \A q \in Proc : q # p => pc'[q] = pc[q] /\ mem'[q] = mem[q]
         /\ \A q \in Proc : Fits(pc'[q], mem'[q])
<1>1. /\ pc \in [Proc -> Place] /\ mem \in [Proc -> Memory]
      /\ \A q \in Proc : Fits(pc[q], mem[q])
  BY DEF HeartbeatTypeOK
<1>2. Nothing \in Memory /\ Fits("idle", Nothing)
  BY NothingFits DEF Reads
<1>3. PICK n \in Memory : n = IF s = "idle" THEN Nothing ELSE m
  BY <1>2
<1>4. pc' = [pc EXCEPT ![p] = s] /\ mem' = [mem EXCEPT ![p] = n]
  BY <1>3 DEF Goto
<1>5. Fits(s, n)
  BY <1>2, <1>3
<1>6. /\ pc' \in [Proc -> Place] /\ mem' \in [Proc -> Memory] /\ pc'[p] = s /\ mem'[p] = n
      /\ \A q \in Proc : q # p => pc'[q] = pc[q] /\ mem'[q] = mem[q]
  BY <1>1, <1>4
<1>7. QED
  BY <1>1, <1>3, <1>5, <1>6

LEMMA RoomKept ==
  ASSUME HeartbeatAssumption, HeartbeatTypeOK, Room, made' = made, left' \in [Kinds -> Nat],
         left'["notification"] <= left["notification"],
         \A q \in Proc : pc'[q] = "queue" => pc[q] = "queue"
  PROVE  Room'
<1>1. /\ IsFiniteSet(Queueing) /\ made \in Nat /\ left["notification"] \in Nat
      /\ made + Cardinality(Queueing) + left["notification"] <= MaxNotes
  BY DEF Room, HeartbeatTypeOK, Kinds
<1>2. Queueing' \subseteq Queueing
  BY DEF Queueing
<1>3. IsFiniteSet(Queueing') /\ Cardinality(Queueing') <= Cardinality(Queueing)
  BY <1>1, <1>2, FS_Subset
<1>4. Cardinality(Queueing) \in Nat /\ Cardinality(Queueing') \in Nat
  BY <1>1, <1>3, FS_CardinalityType
<1>5. left'["notification"] \in Nat /\ MaxNotes \in Nat
  BY DEF Kinds, HeartbeatAssumption
<1>6. QED
  BY <1>1, <1>3, <1>4, <1>5 DEF Room

\* No start is begun, none spawns a daemon, and none records it.
LEMMA OneStartKept ==
  ASSUME raced \/ OneStart, raced => raced', daemon' = daemon, running' \subseteq running,
         \A u \in User : \/ pc'[u] = pc[u] /\ mem'[u].target = mem[u].target
                         \/ pc[u] # "record" /\ pc'[u] \notin {"spawn", "record"}
  PROVE  raced' \/ OneStart'
<1> SUFFICES ASSUME OneStart
             PROVE  OneStart'
  OBVIOUS
<1>1. \A u \in User : Starting(u)' => Starting(u) /\ pc'[u] = pc[u] /\ mem'[u].target = mem[u].target
  BY DEF Starting
<1>2. \A u, v \in User : Starting(u)' /\ Starting(v)' => u = v
  BY <1>1 DEF OneStart
<1>3. \A u \in User : (pc[u] = "spawn")' => running' = {}
  BY <1>1 DEF OneStart, Starting
<1>4. \A u \in User : (pc[u] = "record")' => running' \subseteq {mem'[u].target}
  BY <1>1 DEF OneStart, Starting
<1>5. (\A u \in User : pc'[u] # "record") => running' \subseteq {daemon'}
  BY DEF OneStart
<1>6. QED
  BY <1>2, <1>3, <1>4, <1>5 DEF OneStart

\* The outbox, the sink and who delivers stay; a process that moves has read
\* the outbox now, or does not go by it.
LEMMA OutboxKept ==
  ASSUME stale \/ unlogged \/ OutboxInv,
         UNCHANGED <<outbox, made, sink>>, stale => stale', unlogged => unlogged',
         \A q \in Proc :
           \/ pc'[q] = pc[q] /\ mem'[q] = mem[q]
           \/ pc'[q] \notin Reads
           \/ pc'[q] \in {"queue", "next"} /\ mem'[q].box = outbox
           \/ /\ pc'[q] = "acknowledge" /\ mem'[q].box = outbox
              /\ outbox[mem'[q].note].status # "none"
  PROVE  stale' \/ unlogged' \/ OutboxInv'
<1> SUFFICES ASSUME OutboxInv
             PROVE  OutboxInv'
  OBVIOUS
<1>1. ASSUME NEW q \in Proc
      PROVE  Truthful(pc[q], mem[q])'
  <2>1. CASE pc'[q] = pc[q] /\ mem'[q] = mem[q]
    <3>1. Truthful(pc[q], mem[q])
      BY DEF OutboxInv
    <3>2. QED
      BY <2>1, <3>1 DEF Truthful
  <2>2. CASE pc'[q] \notin Reads
    BY <2>2 DEF Truthful, Reads, Delivers
  <2>3. CASE pc'[q] \in {"queue", "next"} /\ mem'[q].box = outbox
    BY <2>3 DEF Truthful, Delivers
  <2>4. CASE /\ pc'[q] = "acknowledge" /\ mem'[q].box = outbox
             /\ outbox[mem'[q].note].status # "none"
    BY <2>4 DEF Truthful, Delivers
  <2>5. QED
    BY <2>1, <2>2, <2>3, <2>4
<1>2. \A q \in Proc : pc'[q] \in Delivers => pc'[q] = pc[q] /\ mem'[q] = mem[q]
  BY DEF Delivers, Reads
<1>3. \A p, q \in Proc :
        pc'[p] \in Delivers /\ pc'[q] \in Delivers /\ mem'[p].note = mem'[q].note => p = q
  BY <1>2 DEF OutboxInv
<1>4. \A n \in Note : IF n <= made' THEN Told(n)' ELSE Unmade(n)'
  BY DEF OutboxInv, Told, Unmade
<1>5. QED
  BY <1>1, <1>3, <1>4 DEF OutboxInv

\* A step of one process that leaves the outbox and the sink alone.
LEMMA MoveInv ==
  ASSUME HeartbeatAssumption, HeartbeatInv, NEW p \in Proc, NEW s \in Place, NEW m \in Memory,
         Goto(p, s, m), Fits(s, m), s # "queue",
         \/ s \notin Reads
         \/ s = "next" /\ m.box = outbox
         \/ s = "acknowledge" /\ m.box = outbox /\ outbox[m.note].status # "none",
         UNCHANGED <<outbox, made, sink, stale, unlogged>>,
         left' \in [Kinds -> Nat], left'["notification"] <= left["notification"],
         daemon' \in Daemon \cup {NoDaemon}, running' \in SUBSET Daemon, raced' \/ OneStart'
  PROVE  HeartbeatInv'
<1>1. HeartbeatTypeOK /\ Room /\ (stale \/ unlogged \/ OutboxInv)
  BY DEF HeartbeatInv
<1>2. /\ pc' \in [Proc -> Place] /\ mem' \in [Proc -> Memory]
      /\ pc'[p] = s /\ mem'[p] = IF s = "idle" THEN Nothing ELSE m
      /\ \A q \in Proc : q # p => pc'[q] = pc[q] /\ mem'[q] = mem[q]
      /\ \A q \in Proc : Fits(pc'[q], mem'[q])
  BY <1>1, GotoMoves
<1>3. HeartbeatTypeOK'
  BY <1>1, <1>2 DEF HeartbeatTypeOK
<1>4. Room'
  <2>1. \A q \in Proc : pc'[q] = "queue" => pc[q] = "queue"
    BY <1>2
  <2>2. QED
    BY <1>1, <2>1, RoomKept
<1>5. stale' \/ unlogged' \/ OutboxInv'
  <2>1. ASSUME NEW q \in Proc
        PROVE  \/ pc'[q] = pc[q] /\ mem'[q] = mem[q]
               \/ pc'[q] \notin Reads
               \/ pc'[q] \in {"queue", "next"} /\ mem'[q].box = outbox
               \/ /\ pc'[q] = "acknowledge" /\ mem'[q].box = outbox
                  /\ outbox[mem'[q].note].status # "none"
    BY <1>2 DEF Reads
  <2>2. QED
    BY <1>1, <2>1, OutboxKept
<1>6. QED
  BY <1>3, <1>4, <1>5 DEF HeartbeatInv

\* ... and the daemons too.
LEMMA PlainMoveInv ==
  ASSUME HeartbeatAssumption, HeartbeatInv, NEW p \in Proc, NEW s \in Place, NEW m \in Memory,
         Goto(p, s, m), Fits(s, m), s \notin {"queue", "spawn", "record"}, pc[p] # "record",
         \/ s \notin Reads
         \/ s = "next" /\ m.box = outbox
         \/ s = "acknowledge" /\ m.box = outbox /\ outbox[m.note].status # "none",
         UNCHANGED <<outbox, made, sink, stale, unlogged, daemon, running>>, raced => raced',
         left' \in [Kinds -> Nat], left'["notification"] <= left["notification"]
  PROVE  HeartbeatInv'
<1>1. HeartbeatTypeOK /\ (raced \/ OneStart)
  BY DEF HeartbeatInv
<1>2. /\ pc'[p] = s
      /\ \A q \in Proc : q # p => pc'[q] = pc[q] /\ mem'[q] = mem[q]
  BY <1>1, GotoMoves
<1>3. \A u \in User : \/ pc'[u] = pc[u] /\ mem'[u].target = mem[u].target
                      \/ pc[u] # "record" /\ pc'[u] \notin {"spawn", "record"}
  BY <1>2 DEF Proc
<1>4. raced' \/ OneStart'
  BY <1>1, <1>3, OneStartKept
<1>5. daemon' \in Daemon \cup {NoDaemon} /\ running' \in SUBSET Daemon
  BY <1>1 DEF HeartbeatTypeOK
<1>6. QED
  BY <1>4, <1>5, MoveInv

LEMMA RefreshInv ==
  ASSUME HeartbeatAssumption, HeartbeatInv, NEW p \in Proc, Refresh(p)
  PROVE  HeartbeatInv'
<1>0. HeartbeatTypeOK /\ Room /\ left \in [Kinds -> Nat] /\ pc[p] = "refresh"
  BY DEF HeartbeatInv, HeartbeatTypeOK, Refresh
<1>1. UNCHANGED <<outbox, made, sink, stale, unlogged, daemon, running, raced>>
  BY DEF Refresh, notes, daemons
<1>2. left["notification"] \in Nat
  BY <1>0 DEF Kinds
<1>3. CASE \E s \in {"dispatch", "idle"} : Goto(p, s, Nothing) /\ UNCHANGED left
  <2>1. PICK s \in {"dispatch", "idle"} : Goto(p, s, Nothing) /\ left' = left
    BY <1>3
  <2>2. Fits(s, Nothing) /\ Nothing \in Memory /\ s \notin Reads
    BY NothingFits DEF Reads
  <2>3. QED
    BY <1>0, <1>1, <1>2, <2>1, <2>2, PlainMoveInv DEF Place
<1>4. CASE \E key \in Key : /\ Spend("notification")
                            /\ Goto(p, "queue", [Nothing EXCEPT !.key = key, !.box = outbox])
  <2>1. PICK key \in Key : /\ Spend("notification")
                           /\ Goto(p, "queue", [Nothing EXCEPT !.key = key, !.box = outbox])
    BY <1>4
  <2>2. PICK m : m = [Nothing EXCEPT !.key = key, !.box = outbox]
    OBVIOUS
  <2>3. m \in Memory /\ m.box = outbox
    BY <1>0, <2>2, NothingFits DEF Memory, HeartbeatTypeOK
  <2>4. Fits("queue", m)
    BY <1>0, <2>3 DEF Fits, Delivers, HeartbeatTypeOK
  <2>5. /\ pc' \in [Proc -> Place] /\ mem' \in [Proc -> Memory]
        /\ pc'[p] = "queue" /\ mem'[p] = m
        /\ \A q \in Proc : q # p => pc'[q] = pc[q] /\ mem'[q] = mem[q]
        /\ \A q \in Proc : Fits(pc'[q], mem'[q])
    <3>1. Goto(p, "queue", m)
      BY <2>1, <2>2
    <3>2. QED
      BY <1>0, <2>3, <2>4, <3>1, GotoMoves DEF Place
  <2>6. left' \in [Kinds -> Nat] /\ left'["notification"] = left["notification"] - 1
    BY <1>0, <2>1, SpendFacts DEF Kinds
  <2>7. HeartbeatTypeOK'
    BY <1>0, <1>1, <2>5, <2>6 DEF HeartbeatTypeOK
  <2>8. Room'
    <3>1. Queueing' = Queueing \cup {p} /\ p \notin Queueing
      BY <1>0, <2>5 DEF Queueing
    <3>2. IsFiniteSet(Queueing) /\ made + Cardinality(Queueing) + left["notification"] <= MaxNotes
      BY <1>0 DEF Room
    <3>3. IsFiniteSet(Queueing') /\ Cardinality(Queueing') = Cardinality(Queueing) + 1
      BY <3>1, <3>2, FS_AddElement
    <3>4. Cardinality(Queueing) \in Nat /\ made \in Nat /\ made' = made /\ MaxNotes \in Nat
      BY <1>0, <1>1, <3>2, FS_CardinalityType DEF HeartbeatTypeOK, HeartbeatAssumption
    <3>5. QED
      BY <1>2, <2>6, <3>2, <3>3, <3>4 DEF Room
  <2>9. raced' \/ OneStart'
    <3>1. \A u \in User : \/ pc'[u] = pc[u] /\ mem'[u].target = mem[u].target
                          \/ pc[u] # "record" /\ pc'[u] \notin {"spawn", "record"}
      BY <1>0, <2>5 DEF Proc
    <3>2. QED
      BY <1>1, <3>1, OneStartKept DEF HeartbeatInv
  <2>10. stale' \/ unlogged' \/ OutboxInv'
    <3>1. \A q \in Proc : \/ pc'[q] = pc[q] /\ mem'[q] = mem[q]
                          \/ pc'[q] \notin Reads
                          \/ pc'[q] \in {"queue", "next"} /\ mem'[q].box = outbox
                          \/ /\ pc'[q] = "acknowledge" /\ mem'[q].box = outbox
                             /\ outbox[mem'[q].note].status # "none"
      BY <2>3, <2>5
    <3>2. QED
      BY <1>1, <3>1, OutboxKept DEF HeartbeatInv
  <2>11. QED
    BY <2>7, <2>8, <2>9, <2>10 DEF HeartbeatInv
<1>5. QED
  BY <1>3, <1>4 DEF Refresh, AfterTelling

LEMMA DispatchReadInv ==
  ASSUME HeartbeatAssumption, HeartbeatInv, NEW p \in Proc, DispatchRead(p)
  PROVE  HeartbeatInv'
<1>0. HeartbeatTypeOK /\ left \in [Kinds -> Nat] /\ pc[p] = "dispatch" /\ mem[p] \in Memory
  BY DEF HeartbeatInv, HeartbeatTypeOK, DispatchRead
<1>1. UNCHANGED <<outbox, made, sink, stale, unlogged, daemon, running, raced, left>>
  BY DEF DispatchRead, notes, daemons
<1>2. PICK m : m = [mem[p] EXCEPT !.box = outbox, !.outdated = FALSE]
  OBVIOUS
<1>3. m \in Memory /\ m.box = outbox /\ outbox \in [Note -> Item]
  BY <1>0, <1>2 DEF Memory, HeartbeatTypeOK
<1>4. Fits("next", m)
  BY <1>3 DEF Fits, Delivers
<1>5. Goto(p, "next", m)
  BY <1>2 DEF DispatchRead
<1>6. left["notification"] \in Nat
  BY <1>0 DEF Kinds
<1>7. QED
  BY <1>0, <1>1, <1>3, <1>4, <1>5, <1>6, PlainMoveInv DEF Place

LEMMA AllDispatchedInv ==
  ASSUME HeartbeatAssumption, HeartbeatInv, NEW p \in Proc, AllDispatched(p)
  PROVE  HeartbeatInv'
<1>0. left \in [Kinds -> Nat] /\ pc[p] = "next"
  BY DEF HeartbeatInv, HeartbeatTypeOK, AllDispatched
<1>1. /\ UNCHANGED <<outbox, made, sink, stale, unlogged, daemon, running, raced, left>>
      /\ Goto(p, "idle", Nothing)
  BY DEF AllDispatched, notes, daemons
<1>2. Fits("idle", Nothing) /\ Nothing \in Memory /\ "idle" \notin Reads
  BY NothingFits DEF Reads
<1>3. left["notification"] \in Nat
  BY <1>0 DEF Kinds
<1>4. QED
  BY <1>0, <1>1, <1>2, <1>3, PlainMoveInv DEF Place

LEMMA BeatInv ==
  ASSUME HeartbeatAssumption, HeartbeatInv, NEW d \in Daemon, Beat(d)
  PROVE  HeartbeatInv'
<1>0. left \in [Kinds -> Nat] /\ pc[d] = "idle" /\ d \in Proc
  BY DEF HeartbeatInv, HeartbeatTypeOK, Beat, Proc
<1>1. /\ UNCHANGED <<outbox, made, sink, stale, unlogged, daemon, running, raced, left>>
      /\ Goto(d, "refresh", Nothing)
  BY DEF Beat, notes, daemons
<1>2. Fits("refresh", Nothing) /\ Nothing \in Memory /\ "refresh" \notin Reads
  BY NothingFits DEF Reads
<1>3. left["notification"] \in Nat
  BY <1>0 DEF Kinds
<1>4. QED
  BY <1>0, <1>1, <1>2, <1>3, PlainMoveInv DEF Place

\* Whoever is killed, the mark of a start that did not write its pid stays.
LEMMA KillInv ==
  ASSUME HeartbeatAssumption, HeartbeatInv, NEW p \in Proc, Kill(p)
  PROVE  HeartbeatInv'
<1>0. left \in [Kinds -> Nat] /\ HeartbeatTypeOK
  BY DEF HeartbeatInv, HeartbeatTypeOK
<1>1. /\ UNCHANGED <<outbox, made, sink, stale, unlogged, daemon, running>>
      /\ Goto(p, "idle", Nothing) /\ Spend("trouble")
      /\ raced => raced'
      /\ pc[p] = "record" => raced'
  BY DEF Kill, notes
<1>2. Fits("idle", Nothing) /\ Nothing \in Memory /\ "idle" \notin Reads
  BY NothingFits DEF Reads
<1>3. left' \in [Kinds -> Nat] /\ left'["notification"] <= left["notification"]
  BY <1>0, <1>1, SpendFacts DEF Kinds
<1>4. CASE pc[p] # "record"
  BY <1>1, <1>2, <1>3, <1>4, PlainMoveInv DEF Place
<1>5. CASE pc[p] = "record"
  <2>1. daemon' \in Daemon \cup {NoDaemon} /\ running' \in SUBSET Daemon
    BY <1>0, <1>1 DEF HeartbeatTypeOK
  <2>2. QED
    BY <1>1, <1>2, <1>3, <1>5, <2>1, MoveInv DEF Place
<1>6. QED
  BY <1>4, <1>5

\* Time passes.
LEMMA TimeInv ==
  ASSUME HeartbeatInv, DelayPasses \/ WindowPasses \/ TrialAges
  PROVE  HeartbeatInv'
<1>1. UNCHANGED <<outbox, made, sink, daemon, running, raced, pc, mem, left, stale, unlogged>>
  BY DEF DelayPasses, WindowPasses, TrialAges, notes, daemons
<1>2. HeartbeatTypeOK' /\ Room'
  BY <1>1 DEF HeartbeatInv, HeartbeatTypeOK, Room, Queueing
<1>3. OneStart => OneStart'
  BY <1>1 DEF OneStart, Starting
<1>4. OutboxInv => OutboxInv'
  BY <1>1 DEF OutboxInv, Truthful, Told, Unmade
<1>5. QED
  BY <1>1, <1>2, <1>3, <1>4 DEF HeartbeatInv

\* A user begins a command.
LEMMA BeginInv ==
  ASSUME HeartbeatAssumption, HeartbeatInv, NEW u \in User, Begin(u)
  PROVE  HeartbeatInv'
<1>0. /\ left \in [Kinds -> Nat] /\ HeartbeatTypeOK /\ u \in Proc /\ pc[u] = "idle"
      /\ UNCHANGED <<outbox, made, sink, stale, unlogged, daemon, running>>
  BY DEF HeartbeatInv, HeartbeatTypeOK, Begin, Proc, notes
<1>1. CASE /\ raced' = raced
           /\ \/ Spend("refresh") /\ Goto(u, "refresh", Nothing)
              \/ /\ Spend("dispatch")
                 /\ \E force \in BOOLEAN : Goto(u, "dispatch", [Nothing EXCEPT !.force = force])
              \/ /\ Spend("stop") /\ Alive
                 /\ Goto(u, "terminate", [Nothing EXCEPT !.target = daemon])
              \/ /\ Spend("acknowledge")
                 /\ \E n \in Note :
                      /\ outbox[n].status # "none"
                      /\ Goto(u, "acknowledge", [Nothing EXCEPT !.box = outbox, !.note = n])
  <2>1. PICK s \in {"refresh", "dispatch", "terminate", "acknowledge"}, m \in Memory :
          /\ Goto(u, s, m) /\ Fits(s, m)
          /\ s \notin Reads \/ (s = "acknowledge" /\ m.box = outbox /\ outbox[m.note].status # "none")
    <3>0. Nothing \in Memory
      BY NothingFits
    <3>1. CASE Goto(u, "refresh", Nothing)
      <4>1. Fits("refresh", Nothing) /\ "refresh" \notin Reads
        BY NothingFits DEF Reads
      <4>2. QED
        BY <3>0, <3>1, <4>1
    <3>2. CASE \E force \in BOOLEAN : Goto(u, "dispatch", [Nothing EXCEPT !.force = force])
      <4>1. PICK force \in BOOLEAN : Goto(u, "dispatch", [Nothing EXCEPT !.force = force])
        BY <3>2
      <4>2. PICK m : m = [Nothing EXCEPT !.force = force]
        OBVIOUS
      <4>3. m \in Memory
        BY <3>0, <4>2 DEF Memory
      <4>4. Fits("dispatch", m) /\ "dispatch" \notin Reads
        BY <4>3 DEF Fits, Reads, Delivers
      <4>5. QED
        BY <4>1, <4>2, <4>3, <4>4
    <3>3. CASE Alive /\ Goto(u, "terminate", [Nothing EXCEPT !.target = daemon])
      <4>1. daemon \in Daemon
        BY <1>0, <3>3 DEF Alive, HeartbeatTypeOK
      <4>2. PICK m : m = [Nothing EXCEPT !.target = daemon]
        OBVIOUS
      <4>3. m \in Memory /\ m.target = daemon
        BY <3>0, <4>1, <4>2 DEF Memory
      <4>4. Fits("terminate", m) /\ "terminate" \notin Reads
        BY <4>1, <4>3 DEF Fits, Reads, Delivers
      <4>5. QED
        BY <3>3, <4>2, <4>3, <4>4
    <3>4. CASE \E n \in Note :
                 /\ outbox[n].status # "none"
                 /\ Goto(u, "acknowledge", [Nothing EXCEPT !.box = outbox, !.note = n])
      <4>1. PICK n \in Note :
              /\ outbox[n].status # "none"
              /\ Goto(u, "acknowledge", [Nothing EXCEPT !.box = outbox, !.note = n])
        BY <3>4
      <4>2. PICK m : m = [Nothing EXCEPT !.box = outbox, !.note = n]
        OBVIOUS
      <4>3. n \in Nat /\ outbox \in [Note -> Item]
        BY <1>0 DEF Note, HeartbeatTypeOK, HeartbeatAssumption
      <4>4. m \in Memory /\ m.box = outbox /\ m.note = n
        BY <3>0, <4>2, <4>3 DEF Memory
      <4>5. Fits("acknowledge", m)
        BY <4>3, <4>4 DEF Fits, Reads, Delivers
      <4>6. QED
        BY <4>1, <4>2, <4>4, <4>5
    <3>5. QED
      BY <1>1, <3>1, <3>2, <3>3, <3>4
  <2>2. left' \in [Kinds -> Nat] /\ left'["notification"] <= left["notification"]
    BY <1>0, <1>1, SpendFacts DEF Kinds
  <2>3. pc[u] # "record" /\ s \notin {"queue", "spawn", "record"} /\ s \in Place
    BY <1>0 DEF Place
  <2>4. raced => raced'
    BY <1>1
  <2>5. QED
    BY <1>0, <2>1, <2>2, <2>3, <2>4, PlainMoveInv DEF Place
<1>2. CASE /\ Spend("start") /\ ~Alive /\ Goto(u, "spawn", Nothing)
           /\ raced' = (raced \/ \E v \in User : Starting(v))
  <2>1. left' \in [Kinds -> Nat] /\ left'["notification"] <= left["notification"]
    BY <1>0, <1>2, SpendFacts DEF Kinds
  <2>2. Fits("spawn", Nothing) /\ Nothing \in Memory /\ "spawn" \notin Reads
    BY NothingFits DEF Reads
  <2>3. raced' \/ OneStart'
    <3>1. SUFFICES ASSUME ~raced, \A v \in User : ~Starting(v)
                   PROVE  OneStart'
      BY <1>2
    <3>2. running = {}
      BY <1>2, <3>1 DEF HeartbeatInv, OneStart, Starting, Alive
    <3>3. /\ pc'[u] = "spawn"
          /\ \A v \in User : v # u => pc'[v] = pc[v]
      BY <1>0, <1>2, <2>2, GotoMoves DEF Proc, Place
    <3>4. \A v \in User : v # u => ~(Starting(v)')
      BY <3>1, <3>3 DEF Starting
    <3>5. running' = {}
      BY <1>0, <3>2
    <3>6. \A v \in User : pc'[v] # "record"
      BY <3>3, <3>4 DEF Starting
    <3>7. QED
      BY <3>4, <3>5, <3>6 DEF OneStart
  <2>4. daemon' \in Daemon \cup {NoDaemon} /\ running' \in SUBSET Daemon
    BY <1>0 DEF HeartbeatTypeOK
  <2>5. QED
    BY <1>0, <1>2, <2>1, <2>2, <2>3, <2>4, MoveInv DEF Place
<1>3. QED
  BY <1>1, <1>2 DEF Begin

\* What Spawn does, of the daemon it chooses.
LEMMA SpawnChooses ==
  ASSUME NEW u \in User, Spawn(u)
  PROVE  \E d \in Daemon : /\ running' = running \cup {d}
                           /\ Goto(u, "record", [Nothing EXCEPT !.target = d])
<1> DEFINE S == Daemon \ (running \cup {daemon})
           d == CHOOSE x \in S : TRUE
<1>1. S # {}
  BY DEF Spawn
<1>2. d \in S
  BY <1>1
<1>3. running' = running \cup {d} /\ Goto(u, "record", [Nothing EXCEPT !.target = d])
  BY DEF Spawn
<1>4. d \in Daemon
  BY <1>2
<1> HIDE DEF d
<1>5. QED
  BY <1>3, <1>4

LEMMA SpawnInv ==
  ASSUME HeartbeatAssumption, HeartbeatInv, NEW u \in User, Spawn(u)
  PROVE  HeartbeatInv'
<1>0. /\ left \in [Kinds -> Nat] /\ HeartbeatTypeOK /\ u \in Proc /\ pc[u] = "spawn"
      /\ UNCHANGED <<outbox, made, sink, stale, unlogged, daemon, left, raced>>
  BY DEF HeartbeatInv, HeartbeatTypeOK, Spawn, Proc, notes
<1>1. PICK d \in Daemon : /\ running' = running \cup {d}
                          /\ Goto(u, "record", [Nothing EXCEPT !.target = d])
  BY SpawnChooses
<1>2. PICK m : m = [Nothing EXCEPT !.target = d]
  OBVIOUS
<1>3. m \in Memory /\ m.target = d
  BY <1>2, NothingFits DEF Memory
<1>4. Fits("record", m) /\ "record" \notin Reads
  BY <1>3 DEF Fits, Reads, Delivers
<1>5. Goto(u, "record", m)
  BY <1>1, <1>2
<1>6. raced' \/ OneStart'
  <2>1. SUFFICES ASSUME OneStart
                 PROVE  OneStart'
    BY <1>0 DEF HeartbeatInv
  <2>2. /\ pc'[u] = "record" /\ mem'[u] = m
        /\ \A v \in User : v # u => pc'[v] = pc[v] /\ mem'[v] = mem[v]
    BY <1>0, <1>3, <1>4, <1>5, GotoMoves DEF Proc, Place
  <2>3. running = {} /\ \A v \in User : v # u => ~Starting(v)
    BY <1>0, <2>1 DEF OneStart, Starting
  <2>4. running' = {d}
    BY <1>1, <2>3
  <2>5. \A v \in User : v # u => ~(Starting(v)') /\ pc'[v] \notin {"spawn", "record"}
    BY <2>2, <2>3 DEF Starting
  <2>6. QED
    BY <1>3, <2>2, <2>4, <2>5 DEF OneStart
<1>7. daemon' \in Daemon \cup {NoDaemon} /\ running' \in SUBSET Daemon
  BY <1>0, <1>1 DEF HeartbeatTypeOK
<1>8. left'["notification"] <= left["notification"]
  BY <1>0 DEF Kinds
<1>9. QED
  BY <1>0, <1>3, <1>4, <1>5, <1>6, <1>7, <1>8, MoveInv DEF Place

LEMMA RecordDaemonInv ==
  ASSUME HeartbeatAssumption, HeartbeatInv, NEW u \in User, RecordDaemon(u)
  PROVE  HeartbeatInv'
<1>0. /\ left \in [Kinds -> Nat] /\ HeartbeatTypeOK /\ u \in Proc /\ pc[u] = "record"
      /\ UNCHANGED <<outbox, made, sink, stale, unlogged, running, left, raced>>
      /\ daemon' = mem[u].target /\ Goto(u, "idle", Nothing)
  BY DEF HeartbeatInv, HeartbeatTypeOK, RecordDaemon, Proc, notes
<1>1. mem[u].target \in Daemon
  BY <1>0 DEF HeartbeatTypeOK, Fits
<1>2. Fits("idle", Nothing) /\ Nothing \in Memory /\ "idle" \notin Reads
  BY NothingFits DEF Reads
<1>3. raced' \/ OneStart'
  <2>1. SUFFICES ASSUME OneStart
                 PROVE  OneStart'
    BY <1>0 DEF HeartbeatInv
  <2>2. /\ pc'[u] = "idle"
        /\ \A v \in User : v # u => pc'[v] = pc[v] /\ mem'[v] = mem[v]
    BY <1>0, <1>2, GotoMoves DEF Proc, Place
  <2>3. running \subseteq {mem[u].target} /\ \A v \in User : v # u => ~Starting(v)
    BY <1>0, <2>1 DEF OneStart, Starting
  <2>4. running' \subseteq {daemon'}
    BY <1>0, <2>3
  <2>5. \A v \in User : ~(Starting(v)') /\ pc'[v] \notin {"spawn", "record"}
    BY <2>2, <2>3 DEF Starting
  <2>6. QED
    BY <2>4, <2>5 DEF OneStart
<1>4. daemon' \in Daemon \cup {NoDaemon} /\ running' \in SUBSET Daemon
  BY <1>0, <1>1 DEF HeartbeatTypeOK
<1>5. left'["notification"] <= left["notification"]
  BY <1>0 DEF Kinds
<1>6. QED
  BY <1>0, <1>2, <1>3, <1>4, <1>5, MoveInv DEF Place

\* A user stops the daemon: whatever the heartbeat was about, it ends.
LEMMA StopDaemonInv ==
  ASSUME HeartbeatAssumption, HeartbeatInv, NEW u \in User, Terminate(u) \/ KillDaemon(u)
  PROVE  HeartbeatInv'
<1> DEFINE d == mem[u].target
<1>0. /\ HeartbeatTypeOK /\ u \in Proc /\ pc[u] \in {"terminate", "kill"}
      /\ UNCHANGED <<outbox, made, sink, stale, unlogged, daemon, left, raced>>
      /\ running' \subseteq running
  BY DEF HeartbeatInv, Terminate, KillDaemon, Proc, notes, daemons
<1>1. d \in Daemon /\ d \in Proc /\ d # u
  BY <1>0 DEF HeartbeatTypeOK, Fits, HeartbeatAssumption, Proc
<1>2. Nothing \in Memory /\ Fits("idle", Nothing)
  BY NothingFits DEF Reads
<1>3. /\ pc' \in [Proc -> Place] /\ mem' \in [Proc -> Memory]
      /\ \A q \in Proc : \/ pc'[q] = pc[q] /\ mem'[q] = mem[q]
                         \/ pc'[q] = "idle" /\ mem'[q] = Nothing
                         \/ q = u /\ pc'[q] = "kill" /\ mem'[q] = mem[q]
      /\ \A q \in User : q # u => pc'[q] = pc[q] /\ mem'[q] = mem[q]
      /\ pc'[u] \in {"idle", "kill"}
  <2>1. pc \in [Proc -> Place] /\ mem \in [Proc -> Memory] /\ d \notin User
    BY <1>0, <1>1 DEF HeartbeatTypeOK, HeartbeatAssumption
  <2>2. CASE Terminate(u)
    <3>1. pc' = [pc EXCEPT ![u] = "kill", ![d] = "idle"] /\ mem' = [mem EXCEPT ![d] = Nothing]
      BY <2>2 DEF Terminate
    <3> HIDE DEF d
    <3>2. QED
      BY <1>0, <1>1, <1>2, <2>1, <3>1 DEF Place, Proc
  <2>3. CASE KillDaemon(u)
    <3>1. /\ pc' = [pc EXCEPT ![u] = "idle", ![d] = "idle"]
          /\ mem' = [mem EXCEPT ![u] = Nothing, ![d] = Nothing]
      BY <2>3 DEF KillDaemon
    <3> HIDE DEF d
    <3>2. QED
      BY <1>0, <1>1, <1>2, <2>1, <3>1 DEF Place, Proc
  <2>4. QED
    BY <2>2, <2>3
<1>4. HeartbeatTypeOK'
  <2>1. \A q \in Proc : Fits(pc[q], mem[q])
    BY <1>0 DEF HeartbeatTypeOK
  <2>2. Fits("kill", mem[u])
    BY <1>0, <1>1, <2>1 DEF Fits, Reads, Delivers
  <2>3. \A q \in Proc : Fits(pc'[q], mem'[q])
    BY <1>2, <1>3, <2>1, <2>2
  <2>4. QED
    BY <1>0, <1>3, <2>3 DEF HeartbeatTypeOK
<1>5. Room'
  <2>1. \A q \in Proc : pc'[q] = "queue" => pc[q] = "queue"
    BY <1>3
  <2>2. left' \in [Kinds -> Nat] /\ left'["notification"] <= left["notification"]
    BY <1>0 DEF HeartbeatTypeOK, Kinds
  <2>3. QED
    BY <1>0, <2>1, <2>2, RoomKept DEF HeartbeatInv
<1>6. raced' \/ OneStart'
  <2>1. \A v \in User : \/ pc'[v] = pc[v] /\ mem'[v].target = mem[v].target
                        \/ pc[v] # "record" /\ pc'[v] \notin {"spawn", "record"}
    BY <1>0, <1>3
  <2>2. QED
    BY <1>0, <2>1, OneStartKept DEF HeartbeatInv
<1>7. stale' \/ unlogged' \/ OutboxInv'
  <2>1. \A q \in Proc : \/ pc'[q] = pc[q] /\ mem'[q] = mem[q]
                        \/ pc'[q] \notin Reads
    BY <1>3 DEF Reads
  <2>2. QED
    BY <1>0, <2>1, OutboxKept DEF HeartbeatInv
<1>8. QED
  BY <1>4, <1>5, <1>6, <1>7 DEF HeartbeatInv

\* WriteBox: whoever goes by another reading of the outbox is outdated.
LEMMA WriteMoves ==
  ASSUME HeartbeatAssumption, HeartbeatTypeOK, NEW p \in Proc, NEW box \in [Note -> Item],
         NEW s \in {"idle", "dispatch", "next", "deliver"}, NEW m \in Memory,
         WriteBox(p, box, s, m), s = "deliver" => m.note \in Note
  PROVE  /\ outbox' = box /\ pc' \in [Proc -> Place] /\ mem' \in [Proc -> Memory]
         /\ \A q \in Proc : Fits(pc'[q], mem'[q])
         /\ pc'[p] = s
         /\ s # "idle" => mem'[p].box = box /\ mem'[p].note = m.note
         /\ \A q \in Proc : q # p =>
              /\ pc'[q] = pc[q]
              /\ mem'[q].box = mem[q].box /\ mem'[q].note = mem[q].note
              /\ mem'[q].target = mem[q].target
              /\ ~mem'[q].outdated => ~mem[q].outdated /\ (pc[q] \in Reads => box = outbox)
         /\ stale => stale'
         /\ mem[p].outdated => stale'
<1>1. /\ pc \in [Proc -> Place] /\ mem \in [Proc -> Memory]
      /\ \A q \in Proc : Fits(pc[q], mem[q])
  BY DEF HeartbeatTypeOK
<1>2. /\ outbox' = box /\ stale' = (stale \/ mem[p].outdated) /\ pc' = [pc EXCEPT ![p] = s]
      /\ mem' = [q \in Proc |->
           IF q = p THEN IF s = "idle" THEN Nothing ELSE [m EXCEPT !.box = box]
           ELSE IF mem[q].box # NoBox /\ box # outbox
                THEN [mem[q] EXCEPT !.outdated = TRUE] ELSE mem[q]]
  BY DEF WriteBox
<1>3. /\ mem'[p] \in Memory /\ Fits(s, mem'[p])
      /\ s # "idle" => mem'[p].box = box /\ mem'[p].note = m.note
  <2>1. CASE s = "idle"
    BY <1>2, <2>1, NothingFits DEF Reads
  <2>2. CASE s # "idle"
    <3>1. mem'[p] = [m EXCEPT !.box = box]
      BY <1>2, <2>2
    <3>2. mem'[p] \in Memory /\ mem'[p].box = box /\ mem'[p].note = m.note
      BY <3>1 DEF Memory
    <3>3. QED
      BY <2>2, <3>2 DEF Fits, Reads, Delivers
  <2>3. QED
    BY <2>1, <2>2
<1>4. ASSUME NEW q \in Proc, q # p
      PROVE  /\ pc'[q] = pc[q] /\ mem'[q] \in Memory
             /\ mem'[q].box = mem[q].box /\ mem'[q].note = mem[q].note
             /\ mem'[q].target = mem[q].target
             /\ ~mem'[q].outdated => ~mem[q].outdated /\ (pc[q] \in Reads => box = outbox)
             /\ Fits(pc'[q], mem'[q])
  <2>1. pc'[q] = pc[q] /\ mem[q] \in Memory /\ Fits(pc[q], mem[q])
    BY <1>1, <1>2, <1>4
  <2>2. CASE mem[q].box # NoBox /\ box # outbox
    <3>1. mem'[q] = [mem[q] EXCEPT !.outdated = TRUE]
      BY <1>2, <1>4, <2>2
    <3>2. /\ mem'[q] \in Memory /\ mem'[q].outdated = TRUE
          /\ mem'[q].box = mem[q].box /\ mem'[q].note = mem[q].note
          /\ mem'[q].target = mem[q].target
      BY <2>1, <3>1 DEF Memory
    <3>3. QED
      BY <2>1, <3>2 DEF Fits
  <2>3. CASE ~(mem[q].box # NoBox /\ box # outbox)
    <3>1. mem'[q] = mem[q]
      BY <1>2, <1>4, <2>3
    <3>2. pc[q] \in Reads => mem[q].box # NoBox
      BY <2>1 DEF Fits, HeartbeatAssumption
    <3>3. QED
      BY <2>1, <2>3, <3>1, <3>2
  <2>4. QED
    BY <2>2, <2>3
<1>5. pc' \in [Proc -> Place] /\ pc'[p] = s
  BY <1>1, <1>2 DEF Place
<1>6. mem' \in [Proc -> Memory]
  <2>1. \A q \in Proc : mem'[q] \in Memory
    BY <1>3, <1>4
  <2>2. PICK f : f = mem'
    OBVIOUS
  <2>3. f = [q \in Proc |-> f[q]]
    BY <1>2, <2>2
  <2>4. QED
    BY <2>1, <2>2, <2>3
<1>7. \A q \in Proc : Fits(pc'[q], mem'[q])
  BY <1>3, <1>4, <1>5
<1>8. QED
  BY <1>2, <1>3, <1>4, <1>5, <1>6, <1>7

\* One notification changes, which none of the others has in hand, unless it
\* is acknowledged.
LEMMA OthersTruthful ==
  ASSUME HeartbeatTypeOK, OutboxInv, NEW p \in Proc, NEW n \in Note, sink' = sink,
         \A o \in Note : o # n => outbox'[o] = outbox[o],
         \A q \in Proc : q # p =>
           /\ pc'[q] = pc[q] /\ mem'[q].box = mem[q].box /\ mem'[q].note = mem[q].note
           /\ ~mem'[q].outdated => ~mem[q].outdated /\ (pc[q] \in Reads => outbox' = outbox),
         \A q \in Proc : q # p /\ pc[q] \in Delivers =>
           mem[q].note # n \/ outbox'[n].status = "acknowledged"
  PROVE  \A q \in Proc : q # p => Truthful(pc[q], mem[q])'
<1> SUFFICES ASSUME NEW q \in Proc, q # p
             PROVE  Truthful(pc[q], mem[q])'
  OBVIOUS
<1>1. Truthful(pc[q], mem[q]) /\ Fits(pc[q], mem[q])
  BY DEF OutboxInv, HeartbeatTypeOK
<1>2. pc'[q] = pc[q] /\ mem'[q].box = mem[q].box /\ mem'[q].note = mem[q].note
  OBVIOUS
<1>3. (pc[q] \in Reads /\ ~mem[q].outdated =>
         \A o \in Note : (pc[q] = "settle" /\ o = mem[q].note) \/ mem[q].box[o] = outbox[o])'
  BY <1>1, <1>2 DEF Truthful
<1>4. (pc[q] \in Delivers => outbox[mem[q].note].status \in {"delivering", "acknowledged"})'
  BY <1>1, <1>2 DEF Truthful, Fits
<1>5. QED
  BY <1>1, <1>2, <1>3, <1>4 DEF Truthful

\* A step of one process that writes the outbox, and changes one notification
\* of it if its reading is up to date.
LEMMA WriteInv ==
  ASSUME HeartbeatAssumption, HeartbeatInv, NEW p \in Proc, NEW box \in [Note -> Item],
         NEW s \in {"idle", "dispatch", "next", "deliver"}, NEW m \in Memory, NEW n \in Note,
         WriteBox(p, box, s, m), pc[p] \notin {"queue", "record"},
         UNCHANGED <<made, sink, daemon, running, raced, left, unlogged>>,
         s = "deliver" => m.note = n /\ box[n].status = "delivering",
         OutboxInv /\ ~mem[p].outdated =>
           /\ n <= made
           /\ \A o \in Note : o # n => box[o] = outbox[o]
           /\ \A q \in Proc : q # p /\ pc[q] \in Delivers =>
                mem[q].note # n \/ box[n].status = "acknowledged"
           /\ s = "deliver" =>
                sink[n] = 0 /\ \A q \in Proc : q # p /\ pc[q] \in Delivers => mem[q].note # n
           /\ box[n].status # "none"
           /\ sink[n] <= 1
           /\ box[n].status = "delivered" => sink[n] = 1
           /\ box[n].status \in {"queued", "failed", "dead"} => sink[n] = 0
  PROVE  HeartbeatInv'
<1>0. /\ HeartbeatTypeOK /\ Room /\ (raced \/ OneStart)
      /\ stale \/ unlogged \/ OutboxInv
  BY DEF HeartbeatInv
<1>1. /\ outbox' = box /\ pc' \in [Proc -> Place] /\ mem' \in [Proc -> Memory]
      /\ \A q \in Proc : Fits(pc'[q], mem'[q])
      /\ pc'[p] = s
      /\ s # "idle" => mem'[p].box = box /\ mem'[p].note = m.note
      /\ \A q \in Proc : q # p =>
           /\ pc'[q] = pc[q]
           /\ mem'[q].box = mem[q].box /\ mem'[q].note = mem[q].note
           /\ mem'[q].target = mem[q].target
           /\ ~mem'[q].outdated => ~mem[q].outdated /\ (pc[q] \in Reads => box = outbox)
      /\ stale => stale'
      /\ mem[p].outdated => stale'
  BY <1>0, WriteMoves
<1>2. HeartbeatTypeOK'
  BY <1>0, <1>1 DEF HeartbeatTypeOK
<1>3. Room'
  <2>1. \A q \in Proc : pc'[q] = "queue" => pc[q] = "queue"
    BY <1>1
  <2>2. left' \in [Kinds -> Nat] /\ left'["notification"] <= left["notification"]
    BY <1>0 DEF HeartbeatTypeOK, Kinds
  <2>3. QED
    BY <1>0, <2>1, <2>2, RoomKept
<1>4. raced' \/ OneStart'
  <2>1. \A v \in User : \/ pc'[v] = pc[v] /\ mem'[v].target = mem[v].target
                        \/ pc[v] # "record" /\ pc'[v] \notin {"spawn", "record"}
    BY <1>1 DEF Proc
  <2>2. QED
    BY <1>0, <2>1, OneStartKept
<1>5. stale' \/ unlogged' \/ OutboxInv'
  <2> SUFFICES ASSUME OutboxInv, ~mem[p].outdated
               PROVE  OutboxInv'
    BY <1>0, <1>1
  <2>1. \A q \in Proc : q # p => Truthful(pc[q], mem[q])'
    <3>1. \A q \in Proc : q # p =>
            /\ pc'[q] = pc[q] /\ mem'[q].box = mem[q].box /\ mem'[q].note = mem[q].note
            /\ ~mem'[q].outdated => ~mem[q].outdated /\ (pc[q] \in Reads => outbox' = outbox)
      BY <1>1
    <3>2. /\ \A o \in Note : o # n => outbox'[o] = outbox[o]
          /\ \A q \in Proc : q # p /\ pc[q] \in Delivers =>
               mem[q].note # n \/ outbox'[n].status = "acknowledged"
      BY <1>1
    <3>3. QED
      BY <1>0, <3>1, <3>2, OthersTruthful
  <2>2. Truthful(pc[p], mem[p])'
    BY <1>1 DEF Truthful, Reads, Delivers
  <2>3. \A q, r \in Proc :
          pc'[q] \in Delivers /\ pc'[r] \in Delivers /\ mem'[q].note = mem'[r].note => q = r
    <3>1. pc'[p] \in Delivers =>
            mem'[p].note = n /\ \A q \in Proc : q # p /\ pc[q] \in Delivers => mem[q].note # n
      BY <1>1 DEF Delivers
    <3>2. QED
      BY <1>1, <3>1 DEF OutboxInv
  <2>4. \A o \in Note : IF o <= made' THEN Told(o)' ELSE Unmade(o)'
    BY <1>1 DEF OutboxInv, Told, Unmade
  <2>5. QED
    BY <2>1, <2>2, <2>3, <2>4 DEF OutboxInv
<1>6. QED
  BY <1>2, <1>3, <1>4, <1>5 DEF HeartbeatInv

\* What a process with a notification in hand knows of it.
LEMMA InHand ==
  ASSUME HeartbeatTypeOK, OutboxInv, NEW p \in Proc, pc[p] \in Delivers
  PROVE  /\ mem[p].note \in Note /\ mem[p].note <= made
         /\ outbox[mem[p].note].status \in {"delivering", "acknowledged"}
         /\ \A q \in Proc : q # p /\ pc[q] \in Delivers => mem[q].note # mem[p].note
<1>1. mem[p].note \in Note /\ Truthful(pc[p], mem[p])
  BY DEF HeartbeatTypeOK, OutboxInv, Fits
<1>2. outbox[mem[p].note].status \in {"delivering", "acknowledged"}
  BY <1>1 DEF Truthful
<1>3. mem[p].note <= made
  BY <1>1, <1>2 DEF OutboxInv, Unmade
<1>4. QED
  BY <1>1, <1>2, <1>3 DEF OutboxInv

LEMMA MarkDeliveringInv ==
  ASSUME HeartbeatAssumption, HeartbeatInv, NEW p \in Proc, MarkDelivering(p)
  PROVE  HeartbeatInv'
<1>0. /\ HeartbeatTypeOK /\ pc[p] = "next" /\ mem[p] \in Memory /\ mem[p].box \in [Note -> Item]
      /\ UNCHANGED <<made, sink, daemon, running, raced, left, unlogged>>
  BY DEF HeartbeatInv, HeartbeatTypeOK, MarkDelivering, Fits, Reads, daemons
<1>1. PICK n \in Note : /\ Deliverable(p, n)
                        /\ WriteBox(p, [mem[p].box EXCEPT ![n].status = "delivering",
                                                          ![n].attempts = @ + 1],
                                    "deliver", [mem[p] EXCEPT !.note = n])
  BY DEF MarkDelivering
<1>2. PICK box : box = [mem[p].box EXCEPT ![n].status = "delivering", ![n].attempts = @ + 1]
  OBVIOUS
<1>3. PICK m : m = [mem[p] EXCEPT !.note = n]
  OBVIOUS
<1>4. /\ box \in [Note -> Item] /\ box[n].status = "delivering"
      /\ \A o \in Note : o # n => box[o] = mem[p].box[o]
  <2>1. mem[p].box[n] \in Item
    BY <1>0
  <2>2. box = [mem[p].box EXCEPT ![n] = [mem[p].box[n] EXCEPT !.status = "delivering",
                                          !.attempts = mem[p].box[n].attempts + 1]]
    BY <1>0, <1>2, <2>1 DEF Item
  <2>3. PICK item : item = [mem[p].box[n] EXCEPT !.status = "delivering",
                                           !.attempts = mem[p].box[n].attempts + 1]
    OBVIOUS
  <2>4. item \in Item /\ item.status = "delivering"
    <3>1. PICK a \in Nat : a = mem[p].box[n].attempts + 1
      BY <2>1 DEF Item
    <3>2. item = [mem[p].box[n] EXCEPT !.status = "delivering", !.attempts = a]
      BY <2>3, <3>1
    <3>3. QED
      BY <2>1, <3>2 DEF Item
  <2>5. box = [mem[p].box EXCEPT ![n] = item]
    BY <2>2, <2>3
  <2>6. QED
    BY <1>0, <2>4, <2>5
<1>5. m \in Memory /\ m.note = n
  <2>1. n \in Nat
    BY DEF Note, HeartbeatAssumption
  <2>2. QED
    BY <1>0, <1>3, <2>1 DEF Memory
<1>6. WriteBox(p, box, "deliver", m)
  BY <1>1, <1>2, <1>3
<1>7. mem[p].box[n].status \in {"queued", "failed"}
  BY <1>1 DEF Deliverable
<1>8. ASSUME OutboxInv, ~mem[p].outdated
      PROVE  /\ n <= made /\ sink[n] = 0
             /\ \A o \in Note : o # n => box[o] = outbox[o]
             /\ \A q \in Proc : q # p /\ pc[q] \in Delivers => mem[q].note # n
  <2>1. \A o \in Note : mem[p].box[o] = outbox[o]
    <3>1. Truthful(pc[p], mem[p])
      BY <1>8 DEF OutboxInv
    <3>2. QED
      BY <1>0, <1>8, <3>1 DEF Truthful, Reads
  <2>2. outbox[n].status \in {"queued", "failed"}
    BY <1>7, <2>1
  <2>3. n <= made /\ sink[n] = 0
    BY <1>8, <2>2 DEF OutboxInv, Told, Unmade
  <2>4. \A q \in Proc : q # p /\ pc[q] \in Delivers => mem[q].note # n
    BY <1>0, <1>8, <2>2, InHand
  <2>5. QED
    BY <1>4, <2>1, <2>3, <2>4
<1>9. QED
  BY <1>0, <1>4, <1>5, <1>6, <1>8, WriteInv

LEMMA SettleInv ==
  ASSUME HeartbeatAssumption, HeartbeatInv, NEW p \in Proc, Settle(p)
  PROVE  HeartbeatInv'
<1>0. /\ HeartbeatTypeOK /\ pc[p] = "settle" /\ mem[p] \in Memory /\ mem[p].box \in [Note -> Item]
      /\ mem[p].note \in Note
      /\ UNCHANGED <<made, sink, daemon, running, raced, left, unlogged>>
  BY DEF HeartbeatInv, HeartbeatTypeOK, Settle, Fits, Reads, Delivers, daemons
<1>1. PICK m \in Memory : m = mem[p]
  BY <1>0
<1>2. PICK box \in [Note -> Item] : box = mem[p].box
  BY <1>0
<1>3. PICK n \in Note : n = mem[p].note
  BY <1>0
<1>4. WriteBox(p, box, "next", m)
  BY <1>1, <1>2 DEF Settle, WriteBox
<1>5. ASSUME OutboxInv, ~mem[p].outdated
      PROVE  /\ n <= made
             /\ \A o \in Note : o # n => box[o] = outbox[o]
             /\ \A q \in Proc : q # p /\ pc[q] \in Delivers => mem[q].note # n
             /\ \/ box[n].status = "delivered" /\ sink[n] = 1
                \/ box[n].status \in {"failed", "dead"} /\ sink[n] = 0
  <2>1. Truthful(pc[p], mem[p])
    BY <1>5 DEF OutboxInv
  <2>2. \A o \in Note : o # n => box[o] = outbox[o]
    BY <1>0, <1>2, <1>3, <1>5, <2>1 DEF Truthful, Reads
  <2>3. \/ box[n].status = "delivered" /\ sink[n] = 1
        \/ box[n].status \in {"failed", "dead"} /\ sink[n] = 0
    BY <1>0, <1>2, <1>3, <2>1 DEF Truthful
  <2>4. n <= made /\ \A q \in Proc : q # p /\ pc[q] \in Delivers => mem[q].note # n
    BY <1>0, <1>3, <1>5, InHand DEF Delivers
  <2>5. QED
    BY <2>2, <2>3, <2>4
<1>6. QED
  BY <1>0, <1>4, <1>5, WriteInv

LEMMA AcknowledgeInv ==
  ASSUME HeartbeatAssumption, HeartbeatInv, NEW u \in User, Acknowledge(u)
  PROVE  HeartbeatInv'
<1>0. /\ HeartbeatTypeOK /\ u \in Proc /\ pc[u] = "acknowledge"
      /\ mem[u] \in Memory /\ mem[u].box \in [Note -> Item] /\ mem[u].note \in Note
      /\ UNCHANGED <<made, sink, daemon, running, raced, left, unlogged>>
  BY DEF HeartbeatInv, HeartbeatTypeOK, Acknowledge, Fits, Reads, daemons, Proc
<1>1. PICK n \in Note : n = mem[u].note
  BY <1>0
<1>2. PICK box : box = [mem[u].box EXCEPT ![mem[u].note].status = "acknowledged"]
  OBVIOUS
<1>3. /\ box \in [Note -> Item] /\ box[n].status = "acknowledged"
      /\ \A o \in Note : o # n => box[o] = mem[u].box[o]
  <2>1. mem[u].box[n] \in Item
    BY <1>0
  <2>2. PICK item : item = [mem[u].box[n] EXCEPT !.status = "acknowledged"]
    OBVIOUS
  <2>3. item \in Item /\ item.status = "acknowledged"
    BY <2>1, <2>2 DEF Item
  <2>4. box = [mem[u].box EXCEPT ![n] = item]
    BY <1>1, <1>2, <2>2
  <2>5. QED
    BY <1>0, <2>3, <2>4
<1>4. WriteBox(u, box, "idle", Nothing) /\ Nothing \in Memory
  BY <1>2, NothingFits DEF Acknowledge
<1>5. ASSUME OutboxInv, ~mem[u].outdated
      PROVE  /\ n <= made /\ sink[n] <= 1
             /\ \A o \in Note : o # n => box[o] = outbox[o]
  <2>1. Truthful(pc[u], mem[u])
    BY <1>0, <1>5 DEF OutboxInv
  <2>2. \A o \in Note : mem[u].box[o] = outbox[o]
    BY <1>0, <1>5, <2>1 DEF Truthful, Reads
  <2>3. outbox[n].status # "none"
    BY <1>0, <1>1, <2>1, <2>2 DEF Truthful
  <2>4. n <= made /\ sink[n] <= 1
    BY <1>5, <2>3 DEF OutboxInv, Told, Unmade
  <2>5. QED
    BY <1>3, <2>2, <2>4
<1>6. QED
  BY <1>0, <1>3, <1>4, <1>5, WriteInv

LEMMA DeliverInv ==
  ASSUME HeartbeatAssumption, HeartbeatInv, NEW p \in Proc, Deliver(p)
  PROVE  HeartbeatInv'
<1>0. /\ HeartbeatTypeOK /\ pc[p] = "deliver" /\ mem[p] \in Memory /\ mem[p].box \in [Note -> Item]
      /\ mem[p].note \in Note
      /\ UNCHANGED <<outbox, made, daemon, running, raced, stale>>
  BY DEF HeartbeatInv, HeartbeatTypeOK, Deliver, Fits, Reads, Delivers, daemons
<1>1. PICK n \in Note : n = mem[p].note
  BY <1>0
<1>2. PICK item \in Item : item = mem[p].box[n]
  BY <1>0
<1>3. PICK delivered \in BOOLEAN, logged \in BOOLEAN :
        /\ sink' = IF delivered THEN [sink EXCEPT ![n] = IF @ = 0 THEN 1 ELSE 2] ELSE sink
        /\ IF logged THEN UNCHANGED <<left, unlogged>>
                     ELSE Spend("trouble") /\ unlogged' = TRUE
        /\ \/ Goto(p, "settle", [mem[p] EXCEPT !.box[n] =
                      IF delivered /\ logged THEN [item EXCEPT !.status = "delivered"]
                                             ELSE Failed(item)])
           \/ ~logged /\ Goto(p, "idle", Nothing)
  BY <1>1, <1>2 DEF Deliver
<1>4. PICK s \in {"settle", "idle"}, m \in Memory :
        /\ Goto(p, s, m) /\ Fits(s, m)
        /\ ~logged \/ s = "settle"
        /\ s = "settle" =>
             /\ m.note = n /\ m.outdated = mem[p].outdated
             /\ \A o \in Note : o # n => m.box[o] = mem[p].box[o]
             /\ IF delivered /\ logged THEN m.box[n].status = "delivered"
                                       ELSE m.box[n].status \in {"failed", "dead"}
  <2>1. CASE Goto(p, "settle", [mem[p] EXCEPT !.box[n] =
                      IF delivered /\ logged THEN [item EXCEPT !.status = "delivered"]
                                             ELSE Failed(item)])
    <3>1. PICK new : new = IF delivered /\ logged THEN [item EXCEPT !.status = "delivered"]
                                                  ELSE Failed(item)
      OBVIOUS
    <3>2. /\ new \in Item
          /\ IF delivered /\ logged THEN new.status = "delivered"
                                    ELSE new.status \in {"failed", "dead"}
      BY <3>1 DEF Item, Failed
    <3>3. PICK box : box = [mem[p].box EXCEPT ![n] = new]
      OBVIOUS
    <3>4. box \in [Note -> Item] /\ box[n] = new /\ \A o \in Note : o # n => box[o] = mem[p].box[o]
      BY <1>0, <3>2, <3>3
    <3>5. PICK m : m = [mem[p] EXCEPT !.box = box]
      OBVIOUS
    <3>6. m \in Memory /\ m.box = box /\ m.note = n /\ m.outdated = mem[p].outdated
      BY <1>0, <1>1, <3>4, <3>5 DEF Memory
    <3>7. m = [mem[p] EXCEPT !.box[n] = new]
      BY <1>0, <3>3, <3>5 DEF Memory
    <3>8. Goto(p, "settle", m)
      BY <2>1, <3>1, <3>7
    <3>9. Fits("settle", m)
      BY <3>4, <3>6 DEF Fits
    <3>10. QED
      BY <3>2, <3>4, <3>6, <3>8, <3>9
  <2>2. CASE ~logged /\ Goto(p, "idle", Nothing)
    <3>1. Nothing \in Memory /\ Fits("idle", Nothing)
      BY NothingFits DEF Reads
    <3>2. QED
      BY <2>2, <3>1
  <2>3. QED
    BY <1>3, <2>1, <2>2
<1>5. /\ pc' \in [Proc -> Place] /\ mem' \in [Proc -> Memory]
      /\ pc'[p] = s
      /\ s = "settle" => mem'[p] = m
      /\ \A q \in Proc : q # p => pc'[q] = pc[q] /\ mem'[q] = mem[q]
      /\ \A q \in Proc : Fits(pc'[q], mem'[q])
  BY <1>0, <1>4, GotoMoves DEF Place
<1>6. /\ left' \in [Kinds -> Nat] /\ left'["notification"] <= left["notification"]
      /\ unlogged => unlogged'
      /\ ~logged => unlogged'
  BY <1>0, <1>3, SpendFacts DEF HeartbeatTypeOK, Kinds
<1>7. /\ sink' \in [Note -> Nat]
      /\ \A o \in Note : o # n => sink'[o] = sink[o]
      /\ sink'[n] = IF delivered THEN IF sink[n] = 0 THEN 1 ELSE 2 ELSE sink[n]
  <2>1. sink \in [Note -> Nat]
    BY <1>0 DEF HeartbeatTypeOK
  <2>2. QED
    BY <1>3, <2>1
<1>8. HeartbeatTypeOK'
  BY <1>0, <1>5, <1>6, <1>7 DEF HeartbeatTypeOK
<1>9. Room'
  <2>1. \A q \in Proc : pc'[q] = "queue" => pc[q] = "queue"
    BY <1>4, <1>5
  <2>2. QED
    BY <1>0, <1>6, <2>1, RoomKept DEF HeartbeatInv
<1>10. raced' \/ OneStart'
  <2>1. \A v \in User : \/ pc'[v] = pc[v] /\ mem'[v].target = mem[v].target
                        \/ pc[v] # "record" /\ pc'[v] \notin {"spawn", "record"}
    BY <1>0, <1>4, <1>5 DEF Proc
  <2>2. QED
    BY <1>0, <2>1, OneStartKept DEF HeartbeatInv
<1>11. stale' \/ unlogged' \/ OutboxInv'
  <2> SUFFICES ASSUME OutboxInv, logged
               PROVE  OutboxInv'
    BY <1>0, <1>6 DEF HeartbeatInv
  <2>1. /\ s = "settle" /\ sink[n] = 0 /\ n <= made
        /\ outbox[n].status \in {"delivering", "acknowledged"}
        /\ \A q \in Proc : q # p /\ pc[q] \in Delivers => mem[q].note # n
    <3>1. pc[p] \in Delivers /\ Truthful(pc[p], mem[p])
      BY <1>0 DEF Delivers, OutboxInv
    <3>2. sink[n] = 0
      BY <1>0, <1>1, <3>1 DEF Truthful
    <3>3. QED
      BY <1>0, <1>1, <1>4, <3>1, <3>2, InHand
  <2>2. Truthful(pc[p], mem[p])'
    <3>1. Truthful(pc[p], mem[p]) /\ mem'[p] = m /\ pc'[p] = "settle"
      BY <1>5, <2>1 DEF OutboxInv
    <3>2. \A o \in Note : o # n /\ ~m.outdated => m.box[o] = outbox[o]
      BY <1>0, <1>4, <2>1, <3>1 DEF Truthful, Reads
    <3>3. \/ m.box[n].status = "delivered" /\ sink'[n] = 1
          \/ m.box[n].status \in {"failed", "dead"} /\ sink'[n] = 0
      BY <1>4, <1>7, <2>1
    <3>4. QED
      BY <1>0, <1>4, <2>1, <3>1, <3>2, <3>3 DEF Truthful
  <2>3. ASSUME NEW q \in Proc, q # p
        PROVE  Truthful(pc[q], mem[q])'
    <3>1. Truthful(pc[q], mem[q]) /\ pc'[q] = pc[q] /\ mem'[q] = mem[q]
      BY <1>5, <2>3 DEF OutboxInv
    <3>2. pc[q] \in Delivers => mem[q].note \in Note /\ mem[q].note # n
      BY <1>0, <2>1, <2>3, InHand
    <3>3. pc[q] \in Delivers => sink'[mem[q].note] = sink[mem[q].note]
      BY <1>7, <3>2
    <3>4. QED
      BY <1>0, <3>1, <3>3 DEF Truthful, Delivers
  <2>4. \A q, r \in Proc :
          pc'[q] \in Delivers /\ pc'[r] \in Delivers /\ mem'[q].note = mem'[r].note => q = r
    BY <1>4, <1>5, <2>1 DEF OutboxInv
  <2>5. \A o \in Note : IF o <= made' THEN Told(o)' ELSE Unmade(o)'
    <3>1. ASSUME NEW o \in Note, o # n
          PROVE  IF o <= made' THEN Told(o)' ELSE Unmade(o)'
      BY <1>0, <1>7, <3>1 DEF OutboxInv, Told, Unmade
    <3>2. Told(n)' /\ n <= made'
      BY <1>0, <1>7, <2>1 DEF Told
    <3>3. QED
      BY <3>1, <3>2
  <2>6. QED
    BY <2>2, <2>3, <2>4, <2>5 DEF OutboxInv
<1>12. QED
  BY <1>8, <1>9, <1>10, <1>11 DEF HeartbeatInv

LEMMA QueueInv ==
  ASSUME HeartbeatAssumption, HeartbeatInv, NEW p \in Proc, Queue(p)
  PROVE  HeartbeatInv'
<1>0. /\ HeartbeatTypeOK /\ Room /\ pc[p] = "queue"
      /\ mem[p] \in Memory /\ mem[p].box \in [Note -> Item]
      /\ made' = made + 1 /\ made \in Nat
      /\ UNCHANGED <<sink, daemon, running, raced, left, unlogged>>
  BY DEF HeartbeatInv, HeartbeatTypeOK, Queue, Fits, Reads, daemons
<1>1. PICK n : n = made + 1
  OBVIOUS
<1>2. /\ n \in Note /\ n = made'
      /\ IsFiniteSet(Queueing \ {p})
      /\ made' + Cardinality(Queueing \ {p}) + left["notification"] <= MaxNotes
  <2>1. p \in Queueing /\ IsFiniteSet(Queueing)
    BY <1>0 DEF Queueing, Room
  <2>2. /\ IsFiniteSet(Queueing \ {p})
        /\ Cardinality(Queueing \ {p}) = Cardinality(Queueing) - 1
    BY <2>1, FS_RemoveElement
  <2>3. Cardinality(Queueing) \in Nat /\ Cardinality(Queueing \ {p}) \in Nat
    BY <2>1, <2>2, FS_CardinalityType
  <2>4. /\ left["notification"] \in Nat /\ MaxNotes \in Nat
        /\ made + Cardinality(Queueing) + left["notification"] <= MaxNotes
    BY <1>0 DEF HeartbeatTypeOK, Kinds, HeartbeatAssumption, Room
  <2>5. QED
    BY <1>0, <1>1, <2>2, <2>3, <2>4 DEF Note
<1>3. PICK box : box = [mem[p].box EXCEPT ![made'] =
                          [status |-> "queued", attempts |-> 0, key |-> mem[p].key]]
  OBVIOUS
<1>4. /\ box \in [Note -> Item] /\ box[n].status = "queued"
      /\ \A o \in Note : o # n => box[o] = mem[p].box[o]
  <2>1. PICK item : item = [status |-> "queued", attempts |-> 0, key |-> mem[p].key]
    OBVIOUS
  <2>2. item \in Item /\ item.status = "queued"
    BY <1>0, <2>1 DEF Item, Memory
  <2>3. box = [mem[p].box EXCEPT ![n] = item]
    BY <1>2, <1>3, <2>1
  <2>4. QED
    BY <1>0, <1>2, <2>2, <2>3
<1>5. PICK s \in {"idle", "dispatch"} : WriteBox(p, box, s, Nothing)
  <2>1. AfterTelling(mem[p].key) \in {"idle", "dispatch"}
    BY DEF AfterTelling
  <2>2. WriteBox(p, box, AfterTelling(mem[p].key), Nothing)
    BY <1>3 DEF Queue
  <2>3. QED
    BY <2>1, <2>2
<1>6. /\ outbox' = box /\ pc' \in [Proc -> Place] /\ mem' \in [Proc -> Memory]
      /\ \A q \in Proc : Fits(pc'[q], mem'[q])
      /\ pc'[p] = s
      /\ \A q \in Proc : q # p =>
           /\ pc'[q] = pc[q]
           /\ mem'[q].box = mem[q].box /\ mem'[q].note = mem[q].note
           /\ mem'[q].target = mem[q].target
           /\ ~mem'[q].outdated => ~mem[q].outdated /\ (pc[q] \in Reads => box = outbox)
      /\ stale => stale'
      /\ mem[p].outdated => stale'
  BY <1>0, <1>4, <1>5, NothingFits, WriteMoves
<1>7. HeartbeatTypeOK'
  <2>1. made' \in Nat
    BY <1>0
  <2>2. daemon' \in Daemon \cup {NoDaemon} /\ running' \in SUBSET Daemon /\ left' \in [Kinds -> Nat]
    BY <1>0 DEF HeartbeatTypeOK
  <2>3. outbox' \in [Note -> Item] /\ sink' \in [Note -> Nat]
    BY <1>0, <1>4, <1>6 DEF HeartbeatTypeOK
  <2>4. QED
    BY <1>6, <2>1, <2>2, <2>3 DEF HeartbeatTypeOK
<1>8. Room'
  <2>1. Queueing' = Queueing \ {p}
    BY <1>5, <1>6 DEF Queueing
  <2>2. QED
    BY <1>0, <1>2, <2>1 DEF Room
<1>9. raced' \/ OneStart'
  <2>1. \A v \in User : \/ pc'[v] = pc[v] /\ mem'[v].target = mem[v].target
                        \/ pc[v] # "record" /\ pc'[v] \notin {"spawn", "record"}
    BY <1>0, <1>5, <1>6 DEF Proc
  <2>2. QED
    BY <1>0, <2>1, OneStartKept DEF HeartbeatInv
<1>10. stale' \/ unlogged' \/ OutboxInv'
  <2> SUFFICES ASSUME OutboxInv, ~mem[p].outdated
               PROVE  OutboxInv'
    BY <1>0, <1>6 DEF HeartbeatInv
  <2>1. outbox[n].status = "none" /\ sink[n] = 0
    BY <1>0, <1>1, <1>2 DEF OutboxInv, Unmade
  <2>2. \A o \in Note : o # n => outbox'[o] = outbox[o]
    <3>1. Truthful(pc[p], mem[p])
      BY DEF OutboxInv
    <3>2. \A o \in Note : mem[p].box[o] = outbox[o]
      BY <1>0, <3>1 DEF Truthful, Reads
    <3>3. QED
      BY <1>4, <1>6, <3>2
  <2>3. \A q \in Proc : q # p => Truthful(pc[q], mem[q])'
    <3>1. \A q \in Proc : q # p =>
            /\ pc'[q] = pc[q] /\ mem'[q].box = mem[q].box /\ mem'[q].note = mem[q].note
            /\ ~mem'[q].outdated => ~mem[q].outdated /\ (pc[q] \in Reads => outbox' = outbox)
      BY <1>6
    <3>2. \A q \in Proc : q # p /\ pc[q] \in Delivers => mem[q].note # n
      BY <1>0, <2>1, InHand
    <3>3. QED
      BY <1>0, <1>2, <2>2, <3>1, <3>2, OthersTruthful
  <2>4. Truthful(pc[p], mem[p])'
    BY <1>5, <1>6 DEF Truthful, Reads, Delivers
  <2>5. \A q, r \in Proc :
          pc'[q] \in Delivers /\ pc'[r] \in Delivers /\ mem'[q].note = mem'[r].note => q = r
    BY <1>5, <1>6 DEF OutboxInv, Delivers
  <2>6. \A o \in Note : IF o <= made' THEN Told(o)' ELSE Unmade(o)'
    <3>1. Told(n)' /\ n <= made'
      BY <1>0, <1>1, <1>4, <1>6, <2>1 DEF Told
    <3>2. ASSUME NEW o \in Note, o # n
          PROVE  IF o <= made' THEN Told(o)' ELSE Unmade(o)'
      <4>1. o \in Nat /\ (o <= made' <=> o <= made)
        BY <1>0, <1>1, <3>2 DEF Note, HeartbeatAssumption
      <4>2. QED
        BY <1>0, <2>2, <3>2, <4>1 DEF OutboxInv, Told, Unmade
    <3>3. QED
      BY <3>1, <3>2
  <2>7. QED
    BY <2>3, <2>4, <2>5, <2>6 DEF OutboxInv
<1>11. QED
  BY <1>7, <1>8, <1>9, <1>10 DEF HeartbeatInv

LEMMA HeartbeatInitInv == ASSUME HeartbeatAssumption, HeartbeatInit PROVE HeartbeatInv
<1>1. HeartbeatTypeOK
  <2>1. Absent \in Item /\ Nothing \in Memory /\ Fits("idle", Nothing)
    BY NothingFits DEF Absent, Item, Reads
  <2>2. outbox \in [Note -> Item] /\ sink \in [Note -> Nat] /\ left \in [Kinds -> Nat]
    BY <2>1 DEF HeartbeatInit, HeartbeatAssumption
  <2>3. pc \in [Proc -> Place] /\ mem \in [Proc -> Memory] /\ \A p \in Proc : Fits(pc[p], mem[p])
    BY <2>1 DEF HeartbeatInit, Place
  <2>4. QED
    BY <2>2, <2>3 DEF HeartbeatInit, HeartbeatTypeOK
<1>2. Room
  <2>1. Queueing = {}
    BY DEF HeartbeatInit, Queueing
  <2>2. IsFiniteSet(Queueing) /\ Cardinality(Queueing) = 0
    BY <2>1, FS_EmptySet
  <2>3. left["notification"] \in Nat /\ left["notification"] <= MaxNotes /\ made = 0
    BY DEF HeartbeatInit, HeartbeatAssumption, Kinds
  <2>4. QED
    BY <2>2, <2>3 DEF Room
<1>3. OneStart
  BY DEF HeartbeatInit, OneStart, Starting, Proc
<1>4. OutboxInv
  <2>1. \A p \in Proc : pc[p] = "idle"
    BY DEF HeartbeatInit
  <2>2. \A p \in Proc : Truthful(pc[p], mem[p]) /\ pc[p] \notin Delivers
    BY <2>1 DEF Truthful, Reads, Delivers
  <2>3. \A n \in Note : n \in Nat /\ n > 0 /\ Unmade(n)
    BY DEF HeartbeatInit, Unmade, Absent, Note, HeartbeatAssumption
  <2>4. \A n \in Note : ~(n <= made)
    BY <2>3 DEF HeartbeatInit
  <2>5. QED
    BY <2>2, <2>3, <2>4 DEF OutboxInv
<1>5. QED
  BY <1>1, <1>2, <1>3, <1>4 DEF HeartbeatInv

LEMMA HeartbeatStepInv ==
  ASSUME HeartbeatAssumption, HeartbeatInv, [HeartbeatNext]_heartbeatVars
  PROVE  HeartbeatInv'
<1>1. CASE UNCHANGED heartbeatVars
  <2>1. UNCHANGED <<outbox, made, sink, daemon, running, raced, pc, mem, left, stale, unlogged>>
    BY <1>1 DEF heartbeatVars, notes, daemons
  <2>2. HeartbeatTypeOK' /\ Room'
    BY <2>1 DEF HeartbeatInv, HeartbeatTypeOK, Room, Queueing
  <2>3. OneStart => OneStart'
    BY <2>1 DEF OneStart, Starting
  <2>4. OutboxInv => OutboxInv'
    BY <2>1 DEF OutboxInv, Truthful, Told, Unmade
  <2>5. QED
    BY <2>1, <2>2, <2>3, <2>4 DEF HeartbeatInv
<1>2. ASSUME NEW p \in Proc, Step(p)
      PROVE  HeartbeatInv'
  BY <1>2, RefreshInv, QueueInv, DispatchReadInv, MarkDeliveringInv, AllDispatchedInv,
     DeliverInv, SettleInv DEF Step
<1>3. CASE \E d \in Daemon : Beat(d) \/ Step(d)
  BY <1>2, <1>3, BeatInv DEF Proc
<1>4. CASE \E u \in User : Begin(u) \/ UserStep(u)
  BY <1>2, <1>4, BeginInv, AcknowledgeInv, SpawnInv, RecordDaemonInv, StopDaemonInv
     DEF Proc, UserStep
<1>5. CASE DelayPasses \/ WindowPasses \/ TrialAges
  BY <1>5, TimeInv
<1>6. CASE \E p \in Proc : Kill(p)
  BY <1>6, KillInv
<1>7. QED
  BY <1>1, <1>3, <1>4, <1>5, <1>6 DEF HeartbeatNext

LEMMA HeartbeatInvariant == HeartbeatSpec => []HeartbeatInv
  BY HeartbeatInitInv, HeartbeatStepInv, HeartbeatAssumption, PTL DEF HeartbeatSpec

\* For any number of daemons and users, as long as no start is cut off between
\* its spawn and its write of daemon.json, or begun beside another: one daemon
\* at most runs, and daemon.json or the start that spawned it knows its pid
\* (startHeartbeatDaemon, stopHeartbeatDaemon).
THEOREM OneDaemonAtMost == HeartbeatSpec => []OneDaemon
<1>1. HeartbeatInv => OneDaemon
  <2> SUFFICES ASSUME OneStart
               PROVE  /\ Cardinality(running) <= 1
                      /\ running \subseteq {daemon} \cup {mem[u].target : u \in User}
    BY DEF HeartbeatInv, OneDaemon
  <2>1. PICK d : /\ running \subseteq {d}
                 /\ d \in {daemon} \cup {mem[u].target : u \in User}
    BY DEF OneStart
  <2>2. IsFiniteSet({d}) /\ Cardinality({d}) = 1
    BY FS_Singleton
  <2>3. IsFiniteSet(running) /\ Cardinality(running) <= Cardinality({d})
    BY <2>1, <2>2, FS_Subset
  <2>4. QED
    BY <2>1, <2>2, <2>3
<1>2. QED
  BY <1>1, HeartbeatInvariant, PTL

\* For any number of processes and notifications, and whatever is killed: as
\* long as nobody writes the outbox from an old reading of it, and the events
\* can be appended, a notification is delivered once at most and its status
\* says so (dispatchNotifications, acknowledgeNotification).
THEOREM NotificationsAreTold == HeartbeatSpec => []OnlyRacesSpoilTheOutbox
<1>1. HeartbeatInv => OnlyRacesSpoilTheOutbox
  <2> SUFFICES ASSUME HeartbeatInv, OutboxInv, NEW n \in 1 .. made
               PROVE  /\ outbox[n].status # "none"
                      /\ sink[n] <= 1
                      /\ outbox[n].status = "delivered" => sink[n] = 1
                      /\ outbox[n].status \in {"queued", "failed", "dead"} => sink[n] = 0
    BY DEF HeartbeatInv, OnlyRacesSpoilTheOutbox
  <2>1. n \in Note /\ n <= made
    <3>1. Cardinality(Queueing) \in Nat
      BY FS_CardinalityType DEF HeartbeatInv, Room
    <3>2. /\ made \in Nat /\ left["notification"] \in Nat /\ MaxNotes \in Nat
          /\ made + Cardinality(Queueing) + left["notification"] <= MaxNotes
      BY HeartbeatAssumption DEF HeartbeatInv, HeartbeatTypeOK, Room, Kinds, HeartbeatAssumption
    <3>3. QED
      BY <3>1, <3>2 DEF Note
  <2>2. Told(n)
    BY <2>1 DEF OutboxInv
  <2>3. QED
    BY <2>2 DEF Told
<1>2. QED
  BY <1>1, HeartbeatInvariant, PTL
=============================================================================
