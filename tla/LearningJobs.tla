---------------------------- MODULE LearningJobs ----------------------------
(***************************************************************************)
(* What a run taught: a review's findings become proposals, a proposal is   *)
(* approved, its job appends it to knowledge/decisions.md, and a receipt    *)
(* is kept (apex-v2.mjs).  The tick proposes, approves and applies in       *)
(* transactions.  `learn propose`, the queueing of `learn apply` and        *)
(* `knowledge refresh` (commands/knowledge.mjs) read and rewrite the same   *)
(* files outside the project lock.                                          *)
(*                                                                         *)
(* A transaction reads what it needs and is backed up in one step, writes   *)
(* in one or two, and commits in the last; until then others see what it    *)
(* wrote, and a kill or an exception restores all files from the backup     *)
(* (ProjectTransaction).  The history variable lost names the proposals     *)
(* whose records a command overwrote although they had changed since it     *)
(* read them.                                                               *)
(***************************************************************************)
EXTENDS Naturals, SequencesExt

CONSTANTS
  Change,     \* texts that reviewers propose to learn
  Run,        \* integrated runs
  Findings,   \* [Run -> SUBSET Change]: the `learning:` findings of its review
  Ticker,     \* the process that ticks
  User,       \* processes of users: they run any command
  Limit,      \* --learning-limit
  Retries,    \* failures after which a job is left alone (3 in the code)
  MaxIssues,  \* bound on the proposals of one text
  MaxKills,   \* bound on the processes killed
  MaxCommands, \* bound on the commands of users
  None

Proc == {Ticker} \cup User

ASSUME LearningAssumption ==
  /\ IsFiniteSet(Change)
  /\ Findings \in [Run -> SUBSET Change]
  /\ Ticker \notin User /\ None \notin Proc
  /\ {Limit, Retries, MaxIssues} \subseteq Nat \ {0}
  /\ {MaxKills, MaxCommands} \subseteq Nat

VARIABLES
  files,   \* proposals.json, jobs.json, receipts, decisions.md, the learn nodes
  issued,  \* [Change -> Nat]: proposal ids given to it
  keys,    \* committed idempotency keys
  tx,      \* the transaction in progress, or left by a process that was killed
  proc,    \* [Proc -> what it does, with what it read]
  lost,    \* proposals a stale write may have damaged
  kills, commands  \* so far

vars == <<files, issued, keys, tx, proc, lost, kills, commands>>

\* A proposal: its text and how often that text had been proposed.
Id == Change \X (1..MaxIssues)

ProposalStatus == {"none", "proposed", "approved", "applied"}
JobStatus == {"waiting_approval", "queued", "running", "applied", "failed"}
Job == [id : Id, status : JobStatus, attempt : 0..Retries]

Files == [proposals : [Id -> ProposalStatus], jobs : Seq(Job),
          knowledge : SUBSET Id, receipts : [Id -> Nat], learned : SUBSET Run]

NewFiles == [proposals |-> [i \in Id |-> "none"], jobs |-> <<>>, knowledge |-> {},
             receipts |-> [i \in Id |-> 0], learned |-> {}]

\* The operations that run in a transaction, and what they are about.
Operation == ({"learn"} \X Run) \cup ({"approve", "auto", "apply", "failed"} \X Id)

NoTx == [by |-> None, op |-> <<>>, step |-> "none", backup |-> NewFiles, after |-> NewFiles]

Idle == [at |-> "idle", ids |-> <<>>, saw |-> NewFiles]

TypeOK ==
  /\ files \in Files
  /\ issued \in [Change -> 0..MaxIssues]
  /\ keys \subseteq Operation
  /\ \/ tx = NoTx
     \/ /\ tx.by \in Proc \cup {None} /\ tx.op \in Operation
        /\ tx.step \in {"begun", "appended", "written"}
        /\ tx.backup \in Files /\ tx.after \in Files
  /\ \A p \in Proc : /\ proc[p].ids \in Seq(Id)
                     /\ proc[p].saw \in Files
  /\ lost \subseteq Id
  /\ kills \in 0..MaxKills /\ commands \in 0..MaxCommands

Init ==
  /\ files = NewFiles
  /\ issued = [c \in Change |-> 0]
  /\ keys = {}
  /\ tx = NoTx
  /\ proc = [p \in Proc |-> Idle]
  /\ lost = {}
  /\ kills = 0 /\ commands = 0

-----------------------------------------------------------------------------
(* The records of the files.                                                *)

\* The records of a proposal's job: none or one.
JobsOf(f, i) == {f.jobs[k] : k \in {k \in DOMAIN f.jobs : f.jobs[k].id = i}}
HasJob(f, i) == JobsOf(f, i) # {}
JobIs(f, i, status) == \E j \in JobsOf(f, i) : j.status = status

\* The jobs with i's given a status, after so many more tries.
WithJob(jobs, i, status, tries) ==
  [k \in DOMAIN jobs |->
     IF jobs[k].id = i
     THEN [jobs[k] EXCEPT !.status = status, !.attempt = IF @ < Retries THEN @ + tries ELSE @]
     ELSE jobs[k]]

NewJob(i, status) == [id |-> i, status |-> status, attempt |-> 0]

\* processLearningJobs selects these, in the order of the file.
Eligible(j) == j.status = "queued" \/ (j.status = "failed" /\ j.attempt < Retries)

Selected(f, Wanted(_)) ==
  LET chosen == SelectSeq(f.jobs, LAMBDA j : Eligible(j) /\ Wanted(j))
      first == SubSeq(chosen, 1, IF Len(chosen) < Limit THEN Len(chosen) ELSE Limit)
  IN  [k \in DOMAIN first |-> first[k].id]

\* proposeLearningInternal: findings that no proposal has yet.
Fresh(f, r) == {c \in Findings[r] : \A i \in Id : i[1] = c => f.proposals[i] = "none"}
Created(f, r) == SetToSeq({<<c, issued[c] + 1>> : c \in Fresh(f, r)})
Issue(f, r) ==
  /\ \A c \in Fresh(f, r) : issued[c] < MaxIssues
  /\ issued' = [c \in Change |-> IF c \in Fresh(f, r) THEN issued[c] + 1 ELSE issued[c]]

Proposed(f, new) == [i \in Id |-> IF \E k \in DOMAIN new : new[k] = i THEN "proposed" ELSE f.proposals[i]]
JobsProposed(f, new) ==
  f.jobs \o [k \in DOMAIN new |-> NewJob(new[k], "waiting_approval")]

\* A mistake: only a job that failed is queued.
JobsRequeued(f, i) ==
  IF HasJob(f, i)
  THEN IF JobIs(f, i, "failed") THEN WithJob(f.jobs, i, "queued", 0) ELSE f.jobs
  ELSE Append(f.jobs, NewJob(i, "queued"))

\* queueApprovedLearningJob: an applied job stays, the attempts are kept.
JobsQueued(f, i) ==
  IF HasJob(f, i)
  THEN IF JobIs(f, i, "applied") THEN f.jobs ELSE WithJob(f.jobs, i, "queued", 0)
  ELSE Append(f.jobs, NewJob(i, "queued"))

\* Proposals whose records differ, and sections that a write would drop.
Differ(f, g) ==
  {i \in Id : f.proposals[i] # g.proposals[i] \/ JobsOf(f, i) # JobsOf(g, i)}

-----------------------------------------------------------------------------
(* Transactions.                                                            *)

\* The commands of users are counted.
Counted(p) ==
  IF p \in User THEN commands < MaxCommands /\ commands' = commands + 1
                ELSE UNCHANGED commands

Go(p, at, ids) == proc' = [proc EXCEPT ![p] = [Idle EXCEPT !.at = at, !.ids = ids]]

\* p takes the lock and backs the files up.
Begin(p, op) ==
  /\ tx = NoTx
  /\ op \notin keys
  /\ tx' = [by |-> p, op |-> op, step |-> "begun", backup |-> files, after |-> files]
  /\ UNCHANGED <<files, keys, lost, kills>>

\* The key was committed before: the action is not run again.
Replay(op) ==
  /\ tx = NoTx
  /\ op \in keys
  /\ UNCHANGED <<files, issued, keys, tx, lost, kills, commands>>

\* The transaction's writes: files it read, as the action changed them,
\* over whatever is there now.
Puts(step, new, harmed) ==
  /\ files' = new
  /\ tx' = [tx EXCEPT !.step = step, !.after = new]
  /\ lost' = lost \cup harmed
  /\ UNCHANGED <<issued, keys, proc, kills, commands>>

WriteLearn(p) ==
  /\ tx.by = p /\ tx.step = "begun" /\ tx.op[1] = "learn"
  /\ Puts("written",
          [files EXCEPT !.proposals = Proposed(tx.after, proc[p].ids),
                        !.jobs = JobsProposed(tx.after, proc[p].ids),
                        !.learned = @ \cup {tx.op[2]}],
          Differ(files, tx.after))

\* approveLearning looks at the status again, approveLearningForRuns does
\* not: what the tick read before it took the lock is taken to hold.
WriteApproval(p) ==
  LET i == tx.op[2] IN
  /\ tx.by = p /\ tx.step = "begun" /\ tx.op[1] \in {"approve", "auto"}
  /\ tx.op[1] = "approve" => tx.after.proposals[i] = "proposed"
  /\ Puts("written",
          [files EXCEPT !.proposals = [tx.after.proposals EXCEPT ![i] = "approved"],
                        !.jobs = JobsQueued(tx.after, i)],
          Differ(files, tx.after)
            \cup (IF tx.after.proposals[i] = "proposed" THEN {} ELSE {i}))

\* applyLearningJobTransaction needs a job and an approved proposal.
Appliable(f, i) ==
  HasJob(f, i) /\ ~JobIs(f, i, "applied") /\ f.proposals[i] = "approved"

\* Its first writes: the job runs, the section is in the file ...
AppendKnowledge(p) ==
  LET i == tx.op[2]
      sections == tx.after.knowledge \cup {i}
  IN
  /\ tx.by = p /\ tx.step = "begun" /\ tx.op[1] = "apply"
  /\ Appliable(tx.after, i)
  /\ Puts("appended",
          [files EXCEPT !.jobs = WithJob(tx.after.jobs, i, "running", 0),
                        !.knowledge = sections],
          Differ(files, tx.after) \cup (files.knowledge \ sections))

\* ... and its last: receipt, proposal and job.
WriteReceipt(p) ==
  LET i == tx.op[2] IN
  /\ tx.by = p /\ tx.step = "appended"
  /\ Puts("written",
          [files EXCEPT !.receipts[i] = @ + 1,
                        !.proposals = [tx.after.proposals EXCEPT ![i] = "applied"],
                        !.jobs = WithJob(tx.after.jobs, i, "applied", 1)],
          Differ(files, tx.after))

\* A job that was applied under another key is answered as it is.
AlreadyApplied(p) ==
  LET i == tx.op[2] IN
  /\ tx.by = p /\ tx.step = "begun" /\ tx.op[1] = "apply"
  /\ JobIs(tx.after, i, "applied")
  /\ Puts("written", files, {})

\* The transaction that follows a failed application.
WriteFailure(p) ==
  LET i == tx.op[2]
      stands == ~HasJob(tx.after, i) \/ JobIs(tx.after, i, "applied")
  IN
  /\ tx.by = p /\ tx.step = "begun" /\ tx.op[1] = "failed"
  /\ Puts("written",
          IF stands THEN files ELSE [files EXCEPT !.jobs = WithJob(tx.after.jobs, i, "failed", 1)],
          IF stands THEN {} ELSE Differ(files, tx.after))

\* The file is changed and the commit record written; the caller goes on.
Commit(p) ==
  /\ tx.by = p /\ tx.step = "written"
  /\ keys' = IF tx.op[1] = "failed" THEN keys ELSE keys \cup {tx.op}
  /\ tx' = NoTx
  /\ CASE proc[p].at = "learning" -> Go(p, "approving", proc[p].ids)
       [] proc[p].at = "approving" -> Go(p, "approving", Tail(proc[p].ids))
       [] proc[p].at \in {"applying", "failing"} -> Go(p, "applying", Tail(proc[p].ids))
       [] OTHER -> Go(p, "idle", <<>>)
  /\ UNCHANGED <<files, issued, lost, kills, commands>>

\* A mistake: the files that the action created are left behind.
RestoredButReceipts ==
  /\ files' = [tx.backup EXCEPT !.receipts = files.receipts]
  /\ lost' = lost \cup Differ(files, tx.after) \cup (files.knowledge \ tx.backup.knowledge)
  /\ tx' = NoTx

\* restoreTransaction: every file is as in the backup, whoever wrote it since.
Restored ==
  /\ files' = tx.backup
  /\ lost' = lost \cup Differ(files, tx.after) \cup (files.knowledge \ tx.backup.knowledge)
  /\ tx' = NoTx

\* An application fails: it may not apply, or a write of it throws.
ApplyThrows(p) ==
  /\ tx.by = p /\ tx.op[1] = "apply"
  /\ Restored
  /\ Go(p, "failing", proc[p].ids)
  /\ UNCHANGED <<issued, keys, kills, commands>>

\* `learn approve` of a proposal that is not proposed.
ApproveThrows(p) ==
  /\ tx.by = p /\ tx.op[1] = "approve"
  /\ tx.after.proposals[tx.op[2]] # "proposed" /\ tx.step = "begun"
  /\ Restored
  /\ Go(p, "idle", <<>>)
  /\ UNCHANGED <<issued, keys, kills, commands>>

\* Whoever opens the next transaction finds the record of a killed one.
Recover ==
  /\ tx # NoTx /\ tx.by = None
  /\ Restored
  /\ UNCHANGED <<issued, keys, proc, kills, commands>>

-----------------------------------------------------------------------------
(* The tick.                                                                *)

\* learnReadyRuns: one run of the tick.
BeginLearn(p, r) ==
  /\ proc[p].at = "idle"
  /\ r \notin files.learned
  /\ Begin(p, <<"learn", r>>)
  /\ Issue(files, r)
  /\ Counted(p)
  /\ Go(p, "learning", Created(files, r))

\* approveLearningForRuns skips what is approved by now ...
SkipApproved(p) ==
  /\ proc[p].at = "approving" /\ proc[p].ids # <<>> /\ tx.by # p
  /\ files.proposals[Head(proc[p].ids)] # "proposed"
  /\ Go(p, "approving", Tail(proc[p].ids))
  /\ UNCHANGED <<files, issued, keys, tx, lost, kills, commands>>

\* ... and waits for the lock with what it has read.  (No
\* other tick has the proposal on its list: the key is never a committed one.)
SeeProposed(p) ==
  /\ proc[p].at = "approving" /\ proc[p].ids # <<>> /\ tx.by # p
  /\ files.proposals[Head(proc[p].ids)] = "proposed"
  /\ Go(p, "waiting", proc[p].ids)
  /\ UNCHANGED <<files, issued, keys, tx, lost, kills, commands>>

BeginAutoApprove(p) ==
  /\ proc[p].at = "waiting"
  /\ Begin(p, <<"auto", Head(proc[p].ids)>>)
  /\ Go(p, "approving", proc[p].ids)
  /\ UNCHANGED <<issued, commands>>

\* processLearningJobs takes its snapshot: after the approvals, or in a tick
\* that learns or approves nothing.
SelectJobs(p) ==
  /\ proc[p].at \in {"idle", "approving"} /\ tx.by # p
  /\ proc[p].at = "approving" => proc[p].ids = <<>>
  /\ Go(p, "applying", Selected(files, LAMBDA j : TRUE))
  /\ IF proc[p].at = "idle" THEN Counted(p) ELSE UNCHANGED commands
  /\ UNCHANGED <<files, issued, keys, tx, lost, kills>>

BeginApply(p) ==
  /\ proc[p].at = "applying" /\ proc[p].ids # <<>> /\ tx.by # p
  /\ \/ /\ Begin(p, <<"apply", Head(proc[p].ids)>>)
        /\ UNCHANGED <<issued, proc, commands>>
     \/ /\ Replay(<<"apply", Head(proc[p].ids)>>)
        /\ Go(p, "applying", Tail(proc[p].ids))

BeginFailure(p) ==
  /\ proc[p].at = "failing" /\ tx.by # p
  /\ Begin(p, <<"failed", Head(proc[p].ids)>>)
  /\ UNCHANGED <<issued, proc, commands>>

Done(p) ==
  /\ proc[p].at = "applying" /\ proc[p].ids = <<>>
  /\ Go(p, "idle", <<>>)
  /\ UNCHANGED <<files, issued, keys, tx, lost, kills, commands>>

-----------------------------------------------------------------------------
(* The commands of users.                                                   *)

Reads(p, at, ids) ==
  /\ proc' = [proc EXCEPT ![p] = [at |-> at, ids |-> ids, saw |-> files]]
  /\ Counted(p)
  /\ UNCHANGED <<files, keys, tx, lost, kills>>

\* p writes over files it read earlier, without the lock.
Overwrites(p, new, harmed) ==
  /\ files' = new
  /\ lost' = lost \cup harmed
  /\ UNCHANGED <<issued, keys, tx, kills>>

\* learn propose: proposals and jobs are read, amended, and written in turn.
ProposeRead(p, r) ==
  /\ proc[p].at = "idle"
  /\ Issue(files, r)
  /\ Reads(p, "propose", Created(files, r))

ProposeWriteProposals(p) ==
  /\ proc[p].at = "propose"
  /\ Overwrites(p, [files EXCEPT !.proposals = Proposed(proc[p].saw, proc[p].ids)],
                Differ(files, proc[p].saw))
  /\ proc' = [proc EXCEPT ![p].at = "propose_jobs"]
  /\ UNCHANGED commands

ProposeWriteJobs(p) ==
  /\ proc[p].at = "propose_jobs"
  /\ Overwrites(p, [files EXCEPT !.jobs = JobsProposed(proc[p].saw, proc[p].ids)],
                {i \in Id : JobsOf(files, i) # JobsOf(proc[p].saw, i)})
  /\ Go(p, "idle", <<>>)
  /\ UNCHANGED commands

\* learn approve.
BeginApprove(p, i) ==
  /\ proc[p].at = "idle"
  /\ files.proposals[i] # "none"
  /\ Begin(p, <<"approve", i>>)
  /\ Counted(p)
  /\ UNCHANGED issued
  /\ Go(p, "approve", <<i>>)

\* learn apply: the proposal and the jobs are read, the job is queued in what
\* was read, and then processed.
ApplyRead(p, i) ==
  /\ proc[p].at = "idle"
  /\ files.proposals[i] = "approved"
  /\ Reads(p, "apply", <<i>>)
  /\ UNCHANGED issued

ApplyQueue(p) ==
  LET i == proc[p].ids[1] IN
  /\ proc[p].at = "apply"
  /\ Overwrites(p, [files EXCEPT !.jobs = JobsQueued(proc[p].saw, i)],
                Differ(files, proc[p].saw))
  /\ Go(p, "queued", <<i>>)
  /\ UNCHANGED commands

ApplySelect(p) ==
  /\ proc[p].at = "queued"
  /\ Go(p, "applying", Selected(files, LAMBDA j : j.id = proc[p].ids[1]))
  /\ UNCHANGED <<files, issued, keys, tx, lost, kills, commands>>

\* knowledge refresh: decisions.md is rendered anew, without what was learned ...
RefreshRender(p) ==
  /\ proc[p].at = "idle"
  /\ Overwrites(p, [files EXCEPT !.knowledge = {}],
                IF tx.step = "appended" THEN {tx.op[2]} ELSE {})
  /\ Counted(p)
  /\ Go(p, "rendered", <<>>)

\* A mistake: the sections of proposals that are approved are put back.
RefreshReadApproved(p) ==
  /\ proc[p].at = "rendered"
  /\ Go(p, "append", SetToSeq({i \in Id : files.proposals[i] = "approved"}))
  /\ UNCHANGED <<files, issued, keys, tx, lost, kills, commands>>

\* ... appendAppliedLearning reads the proposals that were applied ...
RefreshReadApplied(p) ==
  /\ proc[p].at = "rendered"
  /\ Go(p, "append", SetToSeq({i \in Id : files.proposals[i] = "applied"}))
  /\ UNCHANGED <<files, issued, keys, tx, lost, kills, commands>>

\* ... and puts them back, one read and write of the file at a time.
RefreshReadFile(p) ==
  /\ proc[p].at = "append" /\ proc[p].ids # <<>>
  /\ proc' = [proc EXCEPT ![p].at = "append_write", ![p].saw.knowledge = files.knowledge]
  /\ UNCHANGED <<files, issued, keys, tx, lost, kills, commands>>

RefreshWriteFile(p) ==
  LET sections == proc[p].saw.knowledge \cup {Head(proc[p].ids)} IN
  /\ proc[p].at = "append_write"
  /\ IF Head(proc[p].ids) \in proc[p].saw.knowledge
     THEN UNCHANGED <<files, issued, keys, tx, lost, kills, commands>>
     ELSE /\ Overwrites(p, [files EXCEPT !.knowledge = sections], files.knowledge \ sections)
          /\ UNCHANGED commands
  /\ Go(p, "append", Tail(proc[p].ids))

RefreshDone(p) ==
  /\ proc[p].at = "append" /\ proc[p].ids = <<>>
  /\ Go(p, "idle", <<>>)
  /\ UNCHANGED <<files, issued, keys, tx, lost, kills, commands>>

Refreshing(p) == proc[p].at \in {"rendered", "append", "append_write"}

\* p is killed.  Its transaction is left to be recovered; a refresh leaves
\* the file without the sections it had not put back.
Kill(p) ==
  /\ kills < MaxKills
  /\ proc[p].at # "idle"
  /\ kills' = kills + 1
  /\ proc' = [proc EXCEPT ![p] = Idle]
  /\ tx' = IF tx.by = p THEN [tx EXCEPT !.by = None] ELSE tx
  /\ lost' = IF Refreshing(p) THEN lost \cup {i \in Id : files.receipts[i] > 0} ELSE lost
  /\ UNCHANGED <<files, issued, keys, commands>>

-----------------------------------------------------------------------------
TransactionStep(p) ==
  \/ WriteLearn(p) \/ WriteApproval(p) \/ AppendKnowledge(p) \/ WriteReceipt(p)
  \/ AlreadyApplied(p) \/ WriteFailure(p) \/ Commit(p)
  \/ ApplyThrows(p) \/ ApproveThrows(p)

\* What a command does once it has begun, and without the lock.
CommandStep(p) ==
  \/ SkipApproved(p) \/ SeeProposed(p) \/ Done(p)
  \/ ProposeWriteProposals(p) \/ ProposeWriteJobs(p) \/ ApplyQueue(p) \/ ApplySelect(p)
  \/ RefreshReadApplied(p) \/ RefreshReadFile(p) \/ RefreshWriteFile(p) \/ RefreshDone(p)

LockStep(p) == BeginAutoApprove(p) \/ BeginApply(p) \/ BeginFailure(p)

Tick(p) == (\E r \in Run : BeginLearn(p, r)) \/ SelectJobs(p)

UserCommand(p) ==
  \/ \E r \in Run : ProposeRead(p, r)
  \/ \E i \in Id : BeginApprove(p, i) \/ ApplyRead(p, i)
  \/ RefreshRender(p)

Next ==
  \/ \E p \in Proc : TransactionStep(p) \/ CommandStep(p) \/ LockStep(p) \/ Tick(p) \/ Kill(p)
  \/ \E p \in User : UserCommand(p)
  \/ Recover

\* A transaction is carried through, or recovered after a kill; the heartbeat
\* ticks on, and gets a lock that is free again and again.  Users may stop
\* anywhere.
LockMoves == Recover \/ \E p \in Proc : TransactionStep(p)

Fairness ==
  /\ WF_vars(LockMoves)
  /\ WF_vars(CommandStep(Ticker) \/ SelectJobs(Ticker))
  /\ SF_vars(LockStep(Ticker))

Spec == Init /\ [][Next]_vars
FairSpec == Spec /\ Fairness

-----------------------------------------------------------------------------
(* Properties.                                                              *)

\* A proposal is applied once: whatever is queued again, retried, replayed,
\* rolled back or overwritten, its receipt is written once
\* (applyLearningJobTransaction under the job's idempotency key).
AppliedOnce == \A i \in Id : files.receipts[i] <= 1

\* Between transactions the proposal and its job tell the same story, an
\* applied one has a receipt, and its section is in decisions.md unless a
\* refresh is putting it back; only a command that wrote over records which had
\* changed since it read them can have brought them apart.
OnlyStaleWritesDisagree ==
  tx = NoTx =>
    \A i \in Id \ lost :
      LET applied == files.proposals[i] = "applied" IN
      /\ applied => files.receipts[i] > 0
      /\ applied <=> JobIs(files, i, "applied")
      /\ applied /\ (\A p \in Proc : ~Refreshing(p)) => i \in files.knowledge

\* The job of i has failed as often as it is tried.
GivenUp(i) ==
  \E j \in JobsOf(files, i) : j.status = "failed" /\ j.attempt = Retries

\* A proposal whose approval is committed is applied, or its job is given up,
\* unless a stale write has damaged the queue (processLearningApplyJobs on every
\* tick).
ApprovedIsApplied ==
  \A i \in Id :
    tx = NoTx /\ files.proposals[i] = "approved" ~>
      files.proposals[i] = "applied" \/ GivenUp(i) \/ lost # {}
=============================================================================
