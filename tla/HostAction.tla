---------------------------- MODULE HostAction ----------------------------
(***************************************************************************)
(* Interactive workers and the host agents that claim, edit and submit      *)
(* them: src/src/commands/host.mjs, src/src/core/action-workspace.mjs.      *)
(* Claims, submissions and cancellations are transactions and one step each *)
(* (ProjectTransaction); what a command reads before its transaction is a   *)
(* step of its own.  A worker that writes a patch may also be taken by a    *)
(* coding agent of the scheduler (WorkerExecution).  All workers belong to  *)
(* active runs, and the policy allows interactive patches.                  *)
(***************************************************************************)
EXTENDS Naturals, FiniteSets

CONSTANTS
  Worker,     \* interactive workers
  Host,
  Claim,      \* action ids with their claim tokens; they bound the claims
  MaxAsks,    \* bound: claim commands under way at once
  None

ASSUME HostAssumption ==
  /\ None \notin Host \cup Claim
  /\ MaxAsks \in Nat

VARIABLES
  patching,  \* the workers of the class workspace_patch; the others are cognitive
  worker,    \* [Worker -> worker.json]
  action,    \* [Worker -> host-action.json: token and fencing]
  manifest,  \* [Worker -> action-workspace.json: action and status]
  tree,      \* [Worker -> the action-workspace directory]
  queue,     \* submitted patches
  keys,      \* committed claim keys and the claim each is answered with
  asks,      \* claim commands between their first read and their transaction
  of, by,    \* [Claim -> ..]: worker and host of an issued claim
  lapsed,    \* claims whose lease has passed
  outcome    \* [Claim -> how it ended]

vars == <<patching, worker, action, manifest, tree, queue, keys, asks, of, by,
          lapsed, outcome>>

Status == {"active", "claimed", "running", "queued", "evidence_submitted", "cancelled"}

WorkerFile == [status : Status, token : Claim \cup {None}, fencing : Nat]

ActionFile == [token : Claim \cup {None}, fencing : Nat]

Manifest == [action : Claim \cup {None},
             status : {"none", "active", "submitted", "cancelled", "failed"}]

\* What a host wrote: under which claim, and was the lease passed?
Edit == [claim : Claim, late : BOOLEAN]

\* The container directory is there, with these edits, or not.
Tree == [there : BOOLEAN, edits : SUBSET Edit]

NoTree == [there |-> FALSE, edits |-> {}]

TypeOK ==
  /\ patching \in SUBSET Worker
  /\ worker \in [Worker -> WorkerFile]
  /\ action \in [Worker -> ActionFile]
  /\ manifest \in [Worker -> Manifest]
  /\ tree \in [Worker -> Tree]
  /\ queue \in SUBSET [worker : Worker, claim : Claim, edits : SUBSET Edit]
  /\ keys \in SUBSET [worker : Worker, host : Host, fencing : Nat, claim : Claim]
  /\ asks \in SUBSET [worker : Worker, host : Host, fencing : Nat]
  /\ of \in [Claim -> Worker \cup {None}]
  /\ by \in [Claim -> Host \cup {None}]
  /\ lapsed \in SUBSET Claim
  /\ outcome \in [Claim -> {"none", "submitted", "cancelled"}]

Init ==
  /\ patching \in SUBSET Worker
  /\ worker = [w \in Worker |-> [status |-> "active", token |-> None, fencing |-> 0]]
  /\ action = [w \in Worker |-> [token |-> None, fencing |-> 0]]
  /\ manifest = [w \in Worker |-> [action |-> None, status |-> "none"]]
  /\ tree = [w \in Worker |-> NoTree]
  /\ queue = {}
  /\ keys = {}
  /\ asks = {}
  /\ of = [c \in Claim |-> None]
  /\ by = [c \in Claim |-> None]
  /\ lapsed = {}
  /\ outcome = [c \in Claim |-> "none"]

Claimed(w) == worker[w].status = "claimed"

Expired(w) == worker[w].token \in lapsed

HeldBy(w, h) == Claimed(w) /\ ~Expired(w) /\ by[worker[w].token] = h

----------------------------------------------------------------------------
(* host claim, and the claim of project drain.                              *)

\* The worker is read for the number in the key.  (An unexpired claim of the
\* same host is answered at once, and changes nothing.)
AskClaim(w, h) ==
  /\ ~HeldBy(w, h)
  /\ Cardinality(asks) < MaxAsks
  /\ asks' = asks \cup {[worker |-> w, host |-> h, fencing |-> worker[w].fencing + 1]}
  /\ UNCHANGED <<patching, worker, action, manifest, tree, queue, keys, of, by, lapsed, outcome>>

Committed(k) == {c \in Claim : [worker |-> k.worker, host |-> k.host,
                                fencing |-> k.fencing, claim |-> c] \in keys}

\* The key was committed before: that claim is answered again.
ReplayClaim(k) ==
  /\ k \in asks
  /\ Committed(k) # {}
  /\ asks' = asks \ {k}
  /\ UNCHANGED <<patching, worker, action, manifest, tree, queue, keys, of, by, lapsed, outcome>>

\* A mistake: the test of the lease is the wrong way round.
ExpiredElsewhere(w) ==
  \E v \in patching \ {w} : Claimed(v) /\ Expired(v)

\* Another patch is being written under an unexpired claim.
PatchClaimedElsewhere(w) ==
  \E v \in patching \ {w} : Claimed(v) /\ ~Expired(v)

Claimable(w) ==
  /\ worker[w].status = "active" \/ (Claimed(w) /\ Expired(w))
  /\ w \in patching => ~PatchClaimedElsewhere(w)

CommitKey(k, c) ==
  keys' = keys \cup {[worker |-> k.worker, host |-> k.host, fencing |-> k.fencing, claim |-> c]}

\* A mistake: a container that is there is used as it is.
ReuseWorkspace(w, c) ==
  IF w \in patching
  THEN /\ tree' = [tree EXCEPT ![w].there = TRUE]
       /\ manifest' = [manifest EXCEPT ![w] = [action |-> c, status |-> "active"]]
  ELSE UNCHANGED <<tree, manifest>>

\* createActionWorkspace: the container of the worker is emptied and filled
\* with the project; each claim has a fresh action id.
CreateWorkspace(w, c) ==
  IF w \in patching
  THEN /\ tree' = [tree EXCEPT ![w] = [there |-> TRUE, edits |-> {}]]
       /\ manifest' = [manifest EXCEPT ![w] = [action |-> c, status |-> "active"]]
  ELSE UNCHANGED <<tree, manifest>>

\* A new id; which one makes no difference.
Fresh == CHOOSE c \in Claim : by[c] = None

\* A mistake: the fencing number is not raised.
FencingNotRaised(w, h) ==
  /\ Claimable(w)
  /\ \E c \in Claim : by[c] = None
  /\ of' = [of EXCEPT ![Fresh] = w]
  /\ by' = [by EXCEPT ![Fresh] = h]
  /\ CreateWorkspace(w, Fresh)
  /\ worker' = [worker EXCEPT ![w] =
       [status |-> "claimed", token |-> Fresh, fencing |-> @.fencing]]
  /\ action' = [action EXCEPT ![w] = [token |-> Fresh, fencing |-> worker[w].fencing]]

IssueClaim(w, h) ==
  /\ Claimable(w)
  /\ \E c \in Claim : by[c] = None
  /\ of' = [of EXCEPT ![Fresh] = w]
  /\ by' = [by EXCEPT ![Fresh] = h]
  /\ CreateWorkspace(w, Fresh)
  /\ worker' = [worker EXCEPT ![w] =
       [status |-> "claimed", token |-> Fresh, fencing |-> @.fencing + 1]]
  /\ action' = [action EXCEPT ![w] = [token |-> Fresh, fencing |-> worker[w].fencing + 1]]

\* A new claim, or the unexpired one of the same host.
ClaimHostAction(k) ==
  /\ k \in asks
  /\ Committed(k) = {}
  /\ asks' = asks \ {k}
  /\ \/ IssueClaim(k.worker, k.host)
     \/ HeldBy(k.worker, k.host) /\ UNCHANGED <<worker, action, manifest, tree, of, by>>
  /\ CommitKey(k, worker'[k.worker].token)
  /\ UNCHANGED <<patching, queue, lapsed, outcome>>

\* Finished, claimed by another host, or another patch is claimed: it throws.
RefuseClaim(k) ==
  /\ k \in asks
  /\ Committed(k) = {}
  /\ ~HeldBy(k.worker, k.host) /\ ~Claimable(k.worker)
  /\ asks' = asks \ {k}
  /\ UNCHANGED <<patching, worker, action, manifest, tree, queue, keys, of, by, lapsed, outcome>>

----------------------------------------------------------------------------
(* The host at work.                                                       *)

\* Nobody looks at the lease of a claim that has ended.
LeaseLapses(c) ==
  /\ by[c] # None
  /\ outcome[c] = "none"
  /\ c \notin lapsed
  /\ lapsed' = lapsed \cup {c}
  /\ UNCHANGED <<patching, worker, action, manifest, tree, queue, keys, asks, of, by, outcome>>

\* The host writes at the path it was given as long as something is there,
\* even when its lease has passed: the path is one per worker.  (What is
\* written once the worker is finished is read by nobody.)
EditWorkspace(c) ==
  /\ by[c] # None
  /\ of[c] \in patching
  /\ Claimed(of[c])
  /\ tree[of[c]].there
  /\ tree' = [tree EXCEPT ![of[c]].edits = @ \cup {[claim |-> c, late |-> c \in lapsed]}]
  /\ UNCHANGED <<patching, worker, action, manifest, queue, keys, asks, of, by, lapsed, outcome>>

\* assertActiveClaim, after the checks of status and host.
ActiveClaim(c) ==
  LET w == of[c] IN
  /\ by[c] # None
  /\ Claimed(w)
  /\ worker[w].token = c /\ action[w].token = c
  /\ worker[w].fencing = action[w].fencing
  /\ c \notin lapsed

\* The patch is what differs from the base; without a difference, or without
\* a workspace, it throws.  The patch joins the merge queue.
SubmitPatch(c) ==
  LET w == of[c] IN
  /\ w \in patching
  /\ ActiveClaim(c)
  /\ tree[w].there /\ tree[w].edits # {}
  /\ queue' = queue \cup {[worker |-> w, claim |-> c, edits |-> tree[w].edits]}
  /\ manifest' = [manifest EXCEPT ![w].status = "submitted"]
  /\ worker' = [worker EXCEPT ![w].status = "queued"]
  /\ outcome' = [outcome EXCEPT ![c] = "submitted"]
  /\ UNCHANGED <<patching, action, tree, keys, asks, of, by, lapsed>>

SubmitEvidence(c) ==
  /\ of[c] \notin patching
  /\ ActiveClaim(c)
  /\ worker' = [worker EXCEPT ![of[c]].status = "evidence_submitted"]
  /\ outcome' = [outcome EXCEPT ![c] = "submitted"]
  /\ UNCHANGED <<patching, action, manifest, tree, queue, keys, asks, of, by, lapsed>>

Discard(w, s) ==
  /\ tree' = [tree EXCEPT ![w] = NoTree]
  /\ manifest' = [manifest EXCEPT ![w].status = s]

CancelHostAction(c) ==
  LET w == of[c] IN
  /\ ActiveClaim(c)
  /\ IF manifest[w].status = "none" THEN UNCHANGED <<tree, manifest>>
     ELSE Discard(w, "cancelled")
  /\ worker' = [worker EXCEPT ![w].status = "cancelled"]
  /\ outcome' = [outcome EXCEPT ![c] = "cancelled"]
  /\ UNCHANGED <<patching, action, queue, keys, asks, of, by, lapsed>>

----------------------------------------------------------------------------
(* Every command begins with recoverOrphanActionWorkspaces.                *)

\* Mistakes: the lease is not looked at; the wrong status is.
OrphanedOnceFinished(w) == ~Claimed(w)

OrphanedUnlessActive(w) == worker[w].status # "active" \/ Expired(w)

Orphaned(w) == ~Claimed(w) \/ Expired(w)

\* Under the lock but in no transaction: a kill between the two leaves the
\* directory removed and the manifest active.
RecoverWorkspace(w) ==
  /\ manifest[w].status = "active"
  /\ Orphaned(w)
  /\ \/ Discard(w, "failed")
     \/ tree' = [tree EXCEPT ![w] = NoTree] /\ UNCHANGED manifest
  /\ UNCHANGED <<patching, worker, action, queue, keys, asks, of, by, lapsed, outcome>>

----------------------------------------------------------------------------
(* The scheduler's agents.                                                 *)

\* A mistake: the agent does not see that a host has claimed the worker.
ClaimByAgentRegardless(w) ==
  /\ w \in patching
  /\ worker[w].status \in {"active", "claimed"}
  /\ worker' = [worker EXCEPT ![w].status = "running"]
  /\ UNCHANGED <<patching, action, manifest, tree, queue, keys, asks, of, by, lapsed, outcome>>

\* claimWorkerExecution looks at the status under the lock.
ClaimByAgent(w) ==
  /\ w \in patching
  /\ worker[w].status = "active"
  /\ worker' = [worker EXCEPT ![w].status = "running"]
  /\ UNCHANGED <<patching, action, manifest, tree, queue, keys, asks, of, by, lapsed, outcome>>

\* The claim is recovered, or the failed attempt retried; or it submits.
AgentEnds(w) ==
  /\ worker[w].status = "running"
  /\ \E s \in {"active", "queued"} : worker' = [worker EXCEPT ![w].status = s]
  /\ UNCHANGED <<patching, action, manifest, tree, queue, keys, asks, of, by, lapsed, outcome>>

----------------------------------------------------------------------------
Next ==
  \/ \E w \in Worker, h \in Host : AskClaim(w, h)
  \/ \E k \in asks : ReplayClaim(k) \/ ClaimHostAction(k) \/ RefuseClaim(k)
  \/ \E c \in Claim : LeaseLapses(c) \/ EditWorkspace(c) \/ SubmitPatch(c)
                      \/ SubmitEvidence(c) \/ CancelHostAction(c)
  \/ \E w \in Worker : RecoverWorkspace(w) \/ ClaimByAgent(w) \/ AgentEnds(w)

Spec == Init /\ [][Next]_vars

\* Time passes, and commands keep coming; a recovery is not killed for ever.
Fairness ==
  /\ WF_vars(\E c \in Claim : LeaseLapses(c))
  /\ WF_vars(\E w \in Worker : RecoverWorkspace(w) /\ manifest' # manifest)

----------------------------------------------------------------------------
(* Properties.                                                             *)

\* A claim that was issued, has a lease that runs, and has not ended.
Live(c) == by[c] # None /\ c \notin lapsed /\ outcome[c] = "none"

\* While the lease runs, the worker stays with the host that claimed it: no
\* other host, agent, retried command or recovery takes it.
ClaimIsHonoured ==
  \A c \in Claim : Live(c) => Claimed(of[c]) /\ worker[of[c]].token = c

\* While the lease runs, the workspace the host edits stays there.
WorkspaceIsKept ==
  \A c \in Claim : Live(c) /\ of[c] \in patching =>
    /\ manifest[of[c]] = [action |-> c, status |-> "active"]
    /\ tree[of[c]].there

\* Patches are written one at a time, whichever worker and host.
OnePatchAtATime ==
  \A c, d \in Claim : Live(c) /\ Live(d) /\ {of[c], of[d]} \subseteq patching => c = d

\* A worker is submitted or cancelled at most once, under one claim.
OneOutcome ==
  \A c, d \in Claim : outcome[c] # "none" /\ outcome[d] # "none" /\ of[c] = of[d] => c = d

\* A claim command that reads the worker now is never answered with a claim
\* of before: the host of a lapsed claim gets a new one or an error.
NoStaleAnswer ==
  \A w \in Worker, h \in Host :
    Committed([worker |-> w, host |-> h, fencing |-> worker[w].fencing + 1]) = {}

\* A patch holds nothing that was written under another claim, but for what a
\* host wrote after its lease had passed.
PatchIsOfItsClaim ==
  \A p \in queue : \A e \in p.edits : e.claim = p.claim \/ e.late

\* The workspace of a claim is given back or removed: none stays active for
\* ever because its host, or the recovery itself, died.
WorkspaceIsReclaimed ==
  \A c \in Claim :
    LET Active == \E w \in Worker : manifest[w] = [action |-> c, status |-> "active"]
    IN Active ~> ~Active
=============================================================================
