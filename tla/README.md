# Apex Forge v2 in TLA+

Apex Forge v2 (`src/src/apex-v2.mjs` and the modules it imports) drives software
projects through governed runs: it plans a run, hands its work to coding agents,
queues their patches, verifies, reviews and merges them, and learns from the
result. All its state is a directory of JSON files, `.apex-v2`, next to the
project. There is no server: every command is a process of its own, and ticks of
a scheduler or of a heartbeat, users at the command line, host programs and the
child processes of agents read and write that directory side by side.
Correctness therefore rests on the locks, the transaction log, leases, fencing
tokens, idempotency keys and content digests with which these processes keep out
of each other's way, and survive being killed. That is what is modelled here.

Paths below are relative to `src/src/` unless they begin with `src/`.

## 1. Inventory

| Component | State | Operations | Talks to | Hard because | Correct when |
|---|---|---|---|---|---|
| Project transactions (`core/project-transaction.mjs`) | `.apex-v2/transactions/*.json`, `.apex-v2.transaction-backups/`, every file of the store and the declared project files | `withProjectTransaction`, `recoverProjectTransactions` | called by every writer that must be atomic; holds the project lock | kills between and inside file-system calls; throws; replays of a key | the store is whole or restorable; a key takes effect once; an acknowledged effect lasts |
| Project lock (`core/project-lock.mjs`) | `.apex-v2.lock/owner.json` | acquire, clear a dead owner, release | around transactions and claims | owners die at any point; several waiters judge and clear at once | one holder; nobody waits for the dead |
| Scheduler lock (`core/scheduler-lock.mjs`) | `.apex-v2.scheduler-lock/owner.json` | the same | around the scheduler loop | the same, with weaker checks | one scheduler |
| Checkout claim (`core/git-delivery.mjs`) | a claim directory per checkout | claim, release with a token | delivery branches | no recovery of a dead owner; release by path | one owner; a release frees only its own claim |
| Worker execution (`core/worker.mjs`, `core/worker-execution.mjs`, `commands/worker.mjs`, `apex-v2.mjs`) | `worker.json` (status, claim token, lease, fencing token, attempt, executor), adapter results | claim, execute, commit, record a failure, recover, retry, fall back; shell workers, patches, sandboxes | scheduler → child process → transaction; enqueues patches | late answers after a lease or a timeout, unlocked writers | one execution at a time, one result per attempt, no stale result |
| Worker supervisor (`core/worker-supervisor.mjs`) | the active children, in memory | start, output limits, time limit, terminate, kill, close | runs the agent children of a tick | exit, timeout, kill and signals of the parent race; helpers that ignore signals | each job ends once, with the status that is true, and its group ends with it |
| Planning and dispatch (`core/plan-graph.mjs`, `core/method-packs.mjs`, `core/capability-registry.mjs`, `core/worker.mjs`, `apex-v2.mjs`) | `plan.json`, bindings, workers per node | choose a method pack, build, validate, bind, dispatch, retry, halt | ticks and users create workers from the plan | plans from many inputs; dispatch next to unlocked users; barriers | valid plans, one worker per node, barriers kept, progress or a named dead end |
| Merge delivery (`commands/integration.mjs`, `core/candidate.mjs`, `core/governance.mjs`, `apex-v2.mjs`) | `merge-queue.json`, verification, review and integration reports, candidates, approvals, the project's source | enqueue, resolve, verify, review, rework, approve, apply | ticks and users; transactions around the commits only | long unlocked windows between reading and committing; replays; expiry | what is merged is what was verified, reviewed and approved; nothing queued is lost |
| Run lifecycle, event store, reconcile (`apex-v2.mjs`, `core/run-state.mjs`, `commands/run.mjs`, `core/store.mjs`, `core/reconcile.mjs`) | `run.json`, `project.json` with active runs, roadmap, `events.jsonl` | create, pass, carry forward, halt, close, tick, replay, reconcile | calls every other component in a fixed order | four copies of one truth, written one after the other, with kills in between | the copies agree, or a reconcile makes them agree, without reviving what is over |
| Host actions (`commands/host.mjs`, `core/action-workspace.mjs`) | action records, claims, workspaces | claim, heartbeat, submit, cancel, recover orphans | host programs take over worker execution | leases and fencing towards clients that may vanish | one active claim, no result of a lost claim, no leaked workspace |
| Learning jobs (`apex-v2.mjs`, `commands/knowledge.mjs`) | proposals, `learning-jobs`, knowledge files, receipts | propose, approve, queue, apply, retry | after integration, by ticks and users | several files per job, retries after a crash, unlocked writers | knowledge is applied once per proposal, and each approved proposal is applied |
| Heartbeat and notifications (`core/heartbeat*.mjs`, `core/adapter-observability.mjs`, `core/notifications.mjs`) | `daemon.json`, `outbox.json`, `delivered.jsonl`, the adapters' last trial | start, stop, beat, queue, dispatch, acknowledge | daemons and users, with no lock at all | whole-file writes from old readings; pids; kills | one daemon; each notification delivered once and its status true |
| Benchmark controller (`benchmark/controller-state.mjs`, `src/scripts/product-benchmark-controller.mjs`) | `controller.json`, result files | claim, heartbeat, record, retry, recover, reset | coordinators side by side | leases that lapse, kills, late coordinators | a result is of its claim; each lost attempt is counted; every run ends |
| Negative control, intake and roadmap, routing, executors, prompts | a record each | — | — | — | see section 7 |
| Benchmark analysis, release, contracts, audit, rendering | files | offline tools | — | — | see section 7 |

`plugins/*/*/runtime` are generated bundles of the same code and are left out. (The
two bundles are 26 000 lines each; of the lines written by hand the modules stand for
about a quarter.)

## 2. Plan

The order was: first what everything else rests on, then what a user would lose
work by. All of it is done.

1. `ProjectTransaction`, shown to implement `AtomicStore`; the ground on which
   the other modules may take a transaction as one step.
2. `DirectoryLock` with `ProjectLock`, `SchedulerLock` and `CheckoutClaim`, composed
   in `Locks`; the ground on which `ProjectTransaction` may have one program counter.
3. `WorkerExecution`: claims, leases, fencing; `WorkerSupervisor`: the processes.
4. `MergeDelivery`: the candidate chain from queue to source.
5. `HostAction`: claim, submit, cancel, expiry and workspace of host actions.
6. `RunLifecycle`: the copies of a run's state, and their repair.
7. `PlanGraph` and `PlanExecution`: what a run's plan is and how it is carried out.
8. `LearningJobs`, `Heartbeat`, `BenchmarkController`.

What is left: the hazards of section 8 that no property covers.

## 3. Modules

| Module | What it is |
|---|---|
| `AtomicStore` | What callers of a transaction are promised: an effect reaches every file at once, at most once per key, and is acknowledged only afterwards. |
| `ProjectTransaction` | The transaction protocol; a module about files, records and backups. |
| `DirectoryLock`, `ProjectLock`, `SchedulerLock`, `CheckoutClaim`, `Locks` | The steps that all locks share, what each adds, and all three in one specification. |
| `WorkerExecution` | One worker, its claims and its operators. |
| `WorkerSupervisor` | The children of a tick, their process groups and the parent. |
| `PlanGraph`, `PlanExecution` | The plan of an intake as a value; the workers that carry it out. |
| `MergeDelivery` | One run's patches, candidate, reports, approvals and source. |
| `RunLifecycle` | Runs, active runs, roadmap and event log under the commands that change them. |
| `HostAction` | Interactive workers, the hosts that claim them, and their workspaces. |
| `LearningJobs` | Findings, proposals, jobs, receipts and knowledge. |
| `Heartbeat` | Daemons, the trial of the adapters, and the outbox. |
| `BenchmarkController` | Benchmark runs and the coordinators that claim them. |
| `*Proofs` | Theorems. |
| `MC*` | Instances for TLC: a run's sets, key maps and symmetry. |

Definitions that begin with a comment "A mistake" are plausible bugs, one or two
beside the definition each would replace. No specification uses them; they are
there to show that a property would notice.

### ProjectTransaction

A file's content is the set of the attempts whose writes it carries, so that
"the store is whole" can say that every file carries exactly the committed
attempts. `rec` are the transaction records by status, `backups` and `snap` the
backup directories and what they hold, `pc` the place of the lock's holder:

    idle → scan → recover (→ rm → cp → extra → restored → cleanup → recover)*
         → lookup → backup → action → cleanup → idle
                      action throws → rm → cp → extra → restored → cleanup → idle

Each arrow is an action named after what the code does there. `rmSync` of
`.apex-v2` removes the transaction records with it, `cpSync` brings them back as
they were at the backup, and `CrashInRemove`, `CrashInCopy`, `CrashInExtras` cut
them after any subset of their files. `cut` remembers that a restore was cut after
its `started` record was gone; the guarantees are for behaviours before that, and
section 6 says why. A nested call (the re-entrant branch) adds writes to the outer
attempt and is folded into `WriteFile`. Left out: the check of paths, the JSON of
the records, errors of the file system itself.

### DirectoryLock, ProjectLock, SchedulerLock, CheckoutClaim

One step per file-system call: `mkdir`, write of `owner.json`, read of it, age of
the directory, `process.kill(pid, 0)`, rename to quarantine, second read,
existence check, rename back, and the release's read and removal. A process
stands for its pid and for its token; a directory is named by its maker, so that
the model can tell a lock from another one at the same path. Three times are
abstracted: the retry delay (`Wait`), the acquisition's time limit (`Timeout`),
and the second after which a lock without a readable owner counts as abandoned
(`Age`, allowed only where `OwnerlessLocks`). `misfired` remembers that a
clearing, or a release by path, hit the directory of a process that was alive.
A recursive removal is one step: what a kill inside it leaves, a directory
without `owner.json`, is what a kill between `mkdir` and the write leaves too.
Re-entrance in one process (`HELD_LOCKS`) is the holder's own business.

The claim of a checkout outlives the command that made it: a claimer's process ends
and its claim stays until somebody releases it with the token. Owners are taken as
distinct; the same owner's repeated claim is answered with the claim that stands and
changes nothing. A second release with the same token is what misfires. A claim that
is killed before `owner.json` is on disk stays corrupt, and every later command
throws. Failures of `fsync` are left out.

### WorkerExecution

`worker` is `worker.json` with the fields the protocol reads; `clock` gives
`updated_at` its order. A claim is taken under the project lock and is one step,
as is the commit in a transaction; a committed key answers a second call
(`ChildIsReplayed`). The child reads `worker.json` when it starts (`read`) and
commits if the status, `updated_at` and the token are still as read. The
supervisor may find a child dead whatever the child did before, its commit
included (`ChildDies` after success: output that is no JSON), and records the
failure only for a claim that still holds (`RecordFailure`).
`retryWorkerInternal` and `fallbackWorkerInternal` take no lock: `ReadBlocked`
is the read of their caller, `Retry` and `Fallback` the later write of what was
read. The failure kinds, the contents of results and the sandbox are not in the
model; which of retry, fallback and nothing is chosen is nondeterministic within
the limits. Every child here is started under a claim. `exec-agent` given by hand
without a token (`commands/worker.mjs:475`) executes an active worker without one
(`core/worker-execution.mjs:93`), and is not modelled: what the properties say, that of
`NoDuplicateExecution` above all, they say of claimed children.

### WorkerSupervisor

A step is one event of the parent's loop with the callbacks and promises that
follow from it at once, or something that happens in a process group. `job` holds
the fields of `startJob`'s closure (`timedOut`, `outputLimitExceeded`,
`terminationReason`, the SIGTERM that was sent, the kill timer) and the answer;
`leader` and `helper` are the processes of its group. A job is over at the event
`close`: its leader has ended and nobody holds its pipes, which a helper may.
How a command behaves (`kind`: can it be spawned, does it or its helper ignore
SIGTERM, does the helper hold a pipe) is chosen at the start. `Schedule` is
`schedule()` and `run`'s resolution; `Signal`, `DieOfSignal` and `Exit` are the
parent's handlers, installed while `registered`. Left out: the content of output,
stdin, the Windows path, a SIGKILL of the parent, helpers that leave the group,
more than one helper, and a second signal while the first is handled (ignored by the
code). `process-guard.mjs` keeps no state.

### PlanGraph and PlanExecution

`PlanGraph` has no variables: for an intake it gives the method pack that is chosen,
the nodes of the plan with their dependencies, write scopes and capability bindings,
what validation refuses, and which nodes are eligible next. Texts of an intake are
reduced to the booleans that the choice tests, scopes to a directory and a name;
wording, model tiers, delegation, policies and required evidence are left out.

In `PlanExecution` the plan is there from the start, and its workers are created by
a scheduler's tick (under the scheduler lock) and by a user (under none): dispatch
reads, counts and creates node by node, in the plan's order (`Place`), so that
others come in between. The other stages of a tick are one step each; a worker's own
protocol is coarse (active, claimed, blocked, finished), since `WorkerExecution` has
it. The outcome of a verification is nondeterministic. Everything that goes wrong
(failures, cancelled and blocked work, a user's verification, worker or edit) is
bounded per intake by `MaxTroubles`. The model ends at a passed review or a halt.
`RunAdvances` names the dead ends the code has, each shown necessary by TLC:
`Unplannable`, `LacksProvider`, `LostWork`, `FailedCandidate`, `RefusedForGood`.

### MergeDelivery

The state is the run's files; `log` is what the transactions committed, by their
idempotency key, and `pc`, `held` and `tick` are what each process holds between a
read and the write it makes from it. `log` also answers repeated calls, as the
transaction's replay does. A candidate's digest is the record of what it hashes:
the waiting patches, the resolutions and the source; the plan graph and the
policies are part of the source's `base`, and `EditSource` is any edit of them.
The queue's items are kept by patch (`status`) and order (`rank`); conflicts are
computed as in `recomputeMergeConflicts`, with a set of conflict keys per patch
(files, or texts of a file). A resolution queues the patch it keeps even if that was
merged (`commands/integration.mjs:120`): the patch waits again, is part of the next
candidate, and may be dropped by a rework or by a later resolution although the
source has it. `source.merged` therefore remembers what was merged apart from
`queue.status`.

Verification is four steps, as in `runVerificationInternal`: read
(`BeginVerification`), rewrite the queue and stage (`StagePatches`), build the
candidate from a second read (`BuildCandidate`), and the checks with the commit
(`CommitVerification`). `merge apply` is two: everything that is decided on an
unlocked read (`BeginMerge`, `RequestApproval`, `MergeNothing`), and the
transaction (`CommitMerge`). A tick adds the pass of the node as a write of its
own. `Stop` is a kill, a throw, or a command that ends there.

Abstractions: the outcome of the checks and of the review agents is
nondeterministic where the code does not force a failure; review BLOCKED and FAIL
are one; the negative-control gate, risks, artifacts and events are left out, as
are the records of rework requests and the status of workers after a merge; node
completion by hand is left out; the two BLOCKED integration reports are not
written because `ClearedIsMergeable` shows that their conditions cannot hold
there.

`disturbed` remembers that somebody changed the queue or the source inside one of
those unlocked windows, or merged what another had begun to merge. What the windows
can break is stated by `OnlyRacesBreakTheDelivery`, for undisturbed behaviours; the
other properties hold for all.

### RunLifecycle

A run stands for its roadmap node: the key of `run-create` allows one run per node.
`run` are the `run.json` files, `active` and `behind` what `project.json` says of
them, `roadmap` the nodes of `roadmap/graph.json`, and `replay` what the replay makes
of `events.jsonl`. A command reads, and then makes its writes one by one in the
code's order (`todo`, with what it read and decided in `cmd`), each of which a kill
may be the last of; an event and the `updateProject` that follows it are one step,
and a kill between them sets `behind`. What runs in a transaction (creation, the
learn node by a tick, a terminal halt) is one step. The four repairs of `reconcile`
read again what they fix (`Derive`, `FixRun`, `FixRoadmap`, `EndReconcile`); `cut`
remembers a kill until a reconcile has ended. The failed statuses of a node are one;
a partial pass has one item to carry forward. A tick passes the planning nodes freely,
execute after them, and each later node after the one before: verify, review and
integrate only if the verification, the review and the merge succeed, which is
nondeterministic here, and may be never (`MergeDelivery`, `RunAdvances`). A review that
asks for rework sends the run back to execute (`ReopenRun`). Open items of a node that
passed in part stay open over this, so that a run can have passed all its nodes and
still owe something (`Owing`); section 6 says what comes of it. Left out: the issues
that an inspection lists without a repair, the promotion of intakes, escalation, the
order of `last_event_id`, `knowledge_version`, and the transaction keys of learning
and halting.

With two operators `StateAgrees` can fail, since each writes what it read before the
other's write; the code expects its users to have one. So do the run and the theorems
(`OneOperator`).

### HostAction

`worker`, `action` and `manifest` are `worker.json`, `host-action.json` and
`action-workspace.json`; `tree` is the container directory, which every claim of a
worker finds at the same path. A claim stands for its action id and its token;
`of`, `by`, `lapsed` and `outcome` are its history, its lease among it. `queue` is
what was submitted as a patch, with the edits in it, each with the claim it was
written under and whether its lease had passed.

`claimHostAction` is two steps: `AskClaim` reads the fencing number for the key,
and the transaction replays a committed key (`ReplayClaim`), issues a claim or
answers with the one the host holds (`ClaimHostAction`), or throws
(`RefuseClaim`). Submission and cancellation read only what
their transaction checks again, and are one step. `RecoverWorkspace` is
`recoverOrphanActionWorkspaces`, which every command begins with, under the lock
but in no transaction, so that a kill may leave a workspace removed and its
manifest active. `ClaimByAgent` and `AgentEnds` are what `WorkerExecution` does to
`status`. The host (`EditWorkspace`) is outside the code: it writes at its path
whenever something is there, late or not. All workers belong to active runs, and
the policy allows interactive patches; evidence, heartbeats and gates are left
out.

### LearningJobs

`files` are the proposals, the jobs, the receipts, the knowledge's decisions and the
learn nodes; a proposal stands for its text and the number of its issue. `tx` is the
transaction in progress: it reads what it needs and is backed up in one step, writes
in one or two, and commits in the last (`BeginLearn`, `BeginAutoApprove`,
`BeginApply`, `BeginFailure`, then `WriteLearn` to `Commit`); a throw or a kill brings
back all files as they were at the backup, with what others wrote since under no lock.
`learn propose`, the queueing of `learn apply` and `knowledge refresh` read and
rewrite the same files outside the lock, step by step (`proc`). `lost` names the
proposals whose records such a command wrote over although they had changed since it
read them. Users' commands, kills and issues are bounded (`MaxCommands`, `MaxKills`,
`MaxIssues`); a job's attempts saturate at `Retries`. Left out: the manifest and the
version of the knowledge, `apply_job_id`, the contents of receipts, events, and a
run's nodes beyond "learned".

### Heartbeat

Nothing here holds a lock. A command reads `outbox.json` once and writes it whole,
time and again, from what it read (`mem`); `WriteBox` makes everybody else's reading
`outdated`, and a write from an outdated one sets `stale`. `pc` of a daemon is that
of the heartbeat it waits for. A start is three steps (look, spawn, record) and a stop
two (SIGTERM, which the daemon's synchronous loop never handles, and SIGKILL).
`raced` remembers that a start was cut off or was not alone. Bounds come as an
`Agenda`: how many commands of each kind are begun, notifications made and troubles
met. `sink` saturates at two. Left out: metrics, observations, the filters of the
notification policy, reused pids, and events that cannot be appended outside a
dispatch.

### BenchmarkController

`run` and `status` are `controller.json`, each mutation of which is made under the
controller's lock, after the recovery of lapsed runs, and is one step. A lease's id
is its fencing token: a number of the claim. `coord` is where each coordinator is
between its claim, the preparation of the workspace, the agent, the evaluation, the
hashes and the recording; its lease may lapse (`Lapse`) between any two. The workspace
and the result file are written without the lock; `strayed` remembers a result file
written by a coordinator that had lost its lease. Filters and the order of runs are
nondeterministic. Left out: the child's pid (never set by the script), sums of
sessions, logs and evidence, finalisation, initialisation, identity checks, disk
space, and the pool of `runParallel`.

## 4. Runs

| Run | Instance | Shows |
|---|---|---|
| `transaction` | 2 keys, 3 attempts, a store file and a source file, every kill | `Recoverable`: with no process inside, the store is whole or one started record points to a whole backup. `AcknowledgedIsDurable`. `ImplementsAtomicStore`: up to a first cut, each step is a step of `AtomicStore` or none. `InterruptedIsResolved`: once kills stop, no started record stays. |
| `locks` | 3 processes, one of the three locks, kills and stalls | `OnlyMisfiresBreakTheLock`; `EveryWaiterEnds`: whoever asks gets in or is told that it cannot. |
| `execution` | 3 claims, 2 executors, 2 attempts, the scheduler | `NoDuplicateExecution`, `OneResultPerAttempt`, `OnlyNewestClaimLands`, `RunningEnds`. |
| `delivery` | 2 patches of one file, a resolution, 2 processes; and runs with an approval, an edit, a second patch, a second verification, or evidence only (`Kinds`) | `OnlyRacesBreakTheDelivery` for undisturbed behaviours; `MergedWasCleared`, `ClearedIsMergeable` for all. |
| `delivery_stranded` | 1 patch, ticks only, kills | A kill after the merge leaves a run no tick can finish (violation of `MergedIsIntegrated`). |
| `host_action` | 2 workers, at least one of which writes a patch, 2 hosts, 3 claims, 2 claim commands under way, agents | `ClaimIsHonoured`, `WorkspaceIsKept`, `OnePatchAtATime`, `NoStaleAnswer`, `PatchIsOfItsClaim` at any interleaving; `WorkspaceIsReclaimed`: no workspace stays active for ever. |
| `run_lifecycle` | 1 run of 3 nodes (execute, review, learn), one operator, 2 kills | `StateAgrees`: between commands, list and roadmap say what the run files say. It says nothing between a kill and the end of the next reconcile, of which `ReconcileRepairs` and `NoRunIsForgotten` speak. `ReplayIsCautious`: the event log revives nothing and loses nothing early. `ReconcileRepairs`: after a whole reconcile everything agrees. `NoRunIsForgotten`: a run that is not over does not stay out of the list, or elsewhere in the roadmap, even if commands are killed half way. That it gets done is not claimed. |
| `learning_jobs` | 1 run, 2 texts, a ticker, a user with 2 commands, a kill, failures | `AppliedOnce`; `OnlyStaleWritesDisagree`: proposal, job, receipt and knowledge tell one story unless a stale write damaged it; `ApprovedIsApplied`. |
| `benchmark` | 1 run, 2 coordinators, 3 claims, a kill, a reset | `ResultIsOfItsClaim`, `RecoveryIsCounted`, `RunsEnd`. |
| `supervisor` | 2 jobs of 7 kinds, 1 at a time | `StatusIsTrue`, `GroupsEnd`, `RunIsAnswered`. |
| `planning` | 12 intakes over all method packs, 2 workers at a time, a scheduler and a user, 1 trouble each (2 for the smallest plan) | `PlansAreValid`, `CapabilitiesAreBound` of every plan; `BarriersHold`: no worker starts before what its barrier waits for; `OneWorkerPerNode`; `RunAdvances`: a run goes on to its review or halt, or is in a dead end that the property names. |
| `heartbeat` | 2 daemons, 2 users who may start one at the same time, 2 notifications, eight agendas | `OnlyRacesSpoilTheOutbox`, `OneDaemon`, `NotificationsEnd`. |

Every property of these runs has a mutant in `PROJECT.json`: a definition replaced by
its "mistake", with which TLC finds the property violated.

### Bounds, and why they are enough

- *Attempts* (`Tx`), *claims* (`Claim`): three. A transaction needs an earlier
  success, a failed or interrupted attempt, and a retry that meets both; a worker
  needs a lapsed claim, its successor and a retry; hosts one that lapses, its
  successor, and one of the other worker; a benchmark run a lost one, a late one and
  a last one. The theorems have no bound.
- *Processes of a lock*: three, an owner that dies and two that clear its lock; the
  violation of mutual exclusion needs a fourth, who takes the free path.
- *Patches*: two. A conflict, a loss and a mismatch each involve a pair.
- `maxEdits`, `maxReports`, `maxBusy` of a kind of run: edits of the project, reports
  of each kind, and commands under way. Two reports let a verified and reviewed
  candidate be overtaken by another.
- `MaxAttempts`, `MaxExecutor`, `TelemetryTries`, `Retries` are numbers of the code's
  policies; one or two each: a step within the limit and one at it.
- `MaxAsks`: two claim commands between their read and their transaction, so that
  one overtakes another.
- `LastNode`, `Execute`, `Review`: execute is also the node before the review here, and
  stands for verify, since what a reopening does to it is the same. With a verify
  of its own the instance is checked by hand (`MCRunLifecycleRework.cfg`).
- `MaxKills`, `MaxCommands`, `MaxResets`, `MaxTroubles`, `Agenda`: bound what comes
  from outside.
- Deadlock is not checked where the system may stop: in `delivery_stranded`; in
  `host_action`, where every worker ends or the claims are used up; and in
  `run_lifecycle`, `supervisor`, `planning` and `heartbeat`, which end with their
  work or with their bounds.

Larger instances were checked by hand, with the same results: two benchmark runs
(12.8 million states); three jobs, two at a time (27 million); two patches with an
edit and two reports (3.2 million); five of the intakes with two troubles each;
longer agendas of a heartbeat (14.3 million, `NotificationsEnd` left out);
`MCRunLifecycleRework.cfg`, a run with verify and review apart and no kill
(705,692 states; the only one in which a run comes to owe); the invariant of the run lifecycle's proof with two runs (14.7 million)
and with three kills.

### Fairness

- `ProjectTransaction!FairSpec`: the holder's code is synchronous, so recovery,
  restore, clean-up and the action itself go on if they can, and the store
  is opened again by somebody (`EnterRecovery`: every tick and heartbeat starts
  with a recovery). No fairness of calls, throws or kills.
- `Locks!LocksSpec`: a process that runs takes its next step, a finished command's
  process exits, a second passes. Nobody need ask, time out, die or give a claim back.
- `WorkerExecution!FairSpec`: leases run out, and every cycle of the scheduler
  starts with the recovery of expired claims. No child is fair.
- `WorkerSupervisor!SupervisorFairness`: the parent's loop delivers its events and timers, and a
  process that does not ignore a signal obeys it. No command need end by itself.
- `HostAction!Fairness`: leases run out, and workspaces are recovered, because every
  command begins with it; a recovery is not killed for ever. No host is fair.
- `MergeDelivery!FairSpec`: ticks go on with the work they can do.
- `RunLifecycle!Fairness`: a command that runs makes its writes (weak), being
  synchronous, and after a kill somebody gives the command to reconcile (strong). The
  second is an assumption about users. No tick need come, or pass a node.
- `LearningJobs!Fairness`: whoever holds the lock goes on, the ticker goes on with its
  commands (weak), and gets the lock although others take it in between (strong; the
  lock's waiters retry until their time limit). Users need not go on.
- `PlanExecution`: the scheduler's tick does what it can: dispatch, the stages, retry
  and halt; and agents answer what they claimed, which is an assumption about them
  (`WorkerExecution` shows what is done with one that does not). Users are not fair.
- `BenchmarkController!FairSpec`: a coordinator goes on. No time need pass.
- `Heartbeat!HeartbeatFairness`: a daemon beats, a command that was begun goes on, and the delay
  of a failed delivery passes. Nobody need begin a command, and an adapter may fail for
  ever.

## 5. Proofs

TLC's instances are small; these hold for every value of the constants. The order
is that of the argument: what is wanted, why it is not inductive, what is.

- `ProjectTransactionProofs`: `TypeCorrect`, `CrashSafe` (`Recoverable`),
  `AcknowledgedSurvives`, `ActionsStartClean`, and `TransactionsAreAtomic`, the
  refinement of `AtomicStore` (`ImplementsAtomicStore`). `Recoverable` says nothing of
  the states inside a transaction. The invariant is `Sound`: types, and, unless cut, a
  description of disk, records and backups for every value of `pc` (what has been
  removed, what is being restored from which backup, which records are started). One
  lemma per action. For the refinement, what lasts is the disk, or the backup of the
  attempt in flight; one lemma per action shows that nothing but `Commit` changes the
  keys it carries, and `Commit` adds its own to every file (`CommitApplies`).
- In the same module, of the locks: `LocksTypes`, and `LocksExclude`
  (`OnlyMisfiresBreakTheLock`) for the project lock, the scheduler lock and the checkout's claim. `LockInv`: unless a step
  misfired, whoever is in holds the directory it made, and a directory belongs to
  somebody who is between `mkdir` and release, or is dead; a claim also to somebody
  who left it there. The steps that the locks share are proved once.
- `WorkerExecutionProofs`: `NoDuplicates`, `OneResult`, `SuccessIsOfTheClaim`,
  `NewestLands`, `CountersGrow`, from the hypothesis `OneOperator` (one process at
  a time retries the worker, which the scheduler lock gives and a user beside it
  takes away). The invariant `WInv` says that a blocked worker is as its operator
  read it (`Fresh`), fencing tokens grow and the holder has the newest
  (`Fenced`), an executing child within its lease holds the worker (`Leased`), no
  attempt beyond the worker's own is recorded (`Counted`), and a holder's child
  read its present attempt (`Reading`), so its commit key is new. In the same module
  `StatusStaysTrue` (`StatusIsTrue`) of the supervisor, with no hypothesis: by
  `SupervisorInv` a job whose turn has not come is new, of an active one it is known who
  told it to end and why (`Running`), and an answered one is final (`Answered`). That
  jobs are started in order with no gap, a count of those ahead against the limit, is
  the lemma `StartedInOrder`.
- `HostActionProofs`: the safety properties of the run, `SingleOutcome` and
  `TypeCorrect`, with no hypothesis. The invariant is the books of the claims: a claim
  that was issued has a worker (`Issued`), a claimed worker names its claim (`Named`),
  and a worker whose claim has ended is finished by it (`EndedIsFinal`). From them
  follow `LeaseSafety`, `WorkspaceSafety`, `PatchExclusion` and `SingleOutcome`;
  `PatchSafety` needs `CleanTree` besides, and `AnswerSafety` needs `Recent`: a
  command whose number is still free asks for a worker its host does not hold. In the
  same module, of the heartbeat, `OneDaemonAtMost` (`OneDaemon`) and
  `NotificationsAreTold` (`OnlyRacesSpoilTheOutbox`). `HeartbeatInv`: what a process has
  in memory fits its place (`Fits`); there is room for what is about to be queued
  (`Room`); one start at a time is between its look and its write, and found that nothing
  runs (`OneStart`); and, until somebody writes from an old reading or an event is lost
  (`OutboxInv`), a reading that is not outdated is what the outbox says (`Truthful`), no
  two processes have one notification in hand, and the status of each says what became of
  it (`Told`).
- `MergeDeliveryProofs`: `DeliveryTypes`, `ClearedCanBeMerged`, `MergesAreCleared`,
  `DeliveryBreaksByRacesOnly`. Queues need not be sorted: a kept patch that was merged
  waits again before or behind others. What holds of every queue, in a file or in
  somebody's memory, is that merged items are in the source, what is kept was resolved,
  and items were enqueued (`QueueInv`); a verification about to stage holds a queue with
  nothing merged (`StageInv`). `ReviewInv` is the heart: the patches of a passed review
  are pairwise free of conflict, and, as long as its candidate has all the resolutions
  of the queue, one of them that waits shares nothing with a merged one that is queued
  before it. A merged patch comes to wait again only by a new resolution, of which no
  review made before knows.
  So what was cleared (`ClearInv`) can be merged, there is a way on (`HasWork`),
  and the first merge is the only one of its digest (`FirstMerge`). While undisturbed, what
  every actor holds is fresh (`Undisturbed`).
- `RunLifecycleProofs`: `RunTypes`, `StateStaysAgreed`, `ReplayStaysCautious` and the
  action property `ReconcilesRepair`, for one operator, any number of runs, nodes and
  kills. `StateAgrees` is about the states between commands. `RunInv` says of those
  inside: every run file is sound, killed or not (`FilesInv`); and the command under way
  still has in its list the writes that bring the copies to agreement, what it holds is
  what it read, and it writes `run.json` before any event (`OperatorInv`, with a part
  for each stage of a reconcile).
- `LearningJobsProofs`: `AppliesOnce` (`AppliedOnce`), from `ReceiptInv`: a receipt is
  there only with the committed key of its job or inside the transaction that will
  commit it, and a rollback takes the two away together. `RecordsAgree`
  (`OnlyStaleWritesDisagree`) from `LearnInv`, in two parts. `RecordsInv` says what
  there is at each place: a proposal or a job exists only of an id that was given out
  (`Store`), what a process has read is sound and an id it has just taken is of no
  proposal yet (`Sane`), a transaction is of an id with a job (`HeldTx`), and who holds it
  is at the place of its operation (`Busy`). `AgreeInv` says, of the proposals that no
  stale write has damaged, that the records agree in the files and in the backup
  alike, so that a rollback keeps them in agreement; that what was applied before the
  transaction is applied within it; and that an applied proposal has its section or
  a refresh is under way that puts it back (`WillRestore`).
- `BenchmarkControllerProofs`: `BenchmarkTypes`, `ResultsAreOfTheirClaims`,
  `RecoveriesAreCounted`, `StatusStaysHonest`, `CompletedStays`. `ControllerInv` says
  what the counters and the lease of a run are in each status, that a coordinator's
  claim is at most the run's and equal to it while it holds the lease, and whose
  result stands in the file.
- `PlanExecutionProofs`: `DispatchTypes`, `PlansStayValid` (`PlansAreValid`),
  `CapabilitiesStayBound` (`CapabilitiesAreBound`), `NodesHaveOneWorker`
  (`OneWorkerPerNode`) and `BarriersStand` (`BarriersHold`), for every intake, whatever
  its scopes and however many capabilities it has, and any number of processes, users and
  workers. The plan is a function of the intake (`Planned`). `BoundWell` is what holds
  after k capabilities: each is at a node that can carry it, no node has more than its
  limit, those to come are nowhere, and, while binding goes on, each of the others is at one
  node or with the kernel. That it holds after all of them takes an induction, for which
  the provers have no rule: `LeastIsIn`, the least-number principle for a set, takes
  its place (the least k that is not bound well cannot be). It also gives that the
  recursion of `Bindings` has a solution at all (`BindingsAre`). What else the validation
  asks for follows from what the nodes of a pack are (`NodesOfPlan`) and what each
  writes and waits for. `DispatchInv`: the generations of a node are numbered from 1 without a
  gap (`Numbered`); a process that has seen all workers goes through nodes none of whose
  workers counts (`Chosen`); and one that counted the newest generation after such a look
  is still at such a node (`Counted`), so that the key of its transaction is new only if
  nobody was quicker. For the barriers, `WaitInv`: what a dispatching process is about
  to create, or has created, waits for nothing, and no step undoes work that was waited
  for; and `PlanInv`: the nodes of the plan are those of a pack. In every pack the
  dependencies of a node lead, from node to node, to every node of an earlier barrier,
  so that the work of those was done before.

Assumptions used: those stated beside the constants of each module
(`TransactionAssumption`, `LockAssumption`, `ExecutionAssumption`, `HostAssumption`,
`DeliveryAssumption`, `RunAssumption`, `LearningAssumption`, `BenchmarkAssumption`,
`SupervisorAssumption`, `HeartbeatAssumption`, `PlanExecutionAssumption`),
and `OneOperator` where a theorem says so. Of an intake `PlanExecutionAssumption` says
that the pack it names is registered, that there is always somewhere to put tests
(`core/plan-graph.mjs:1171`), and that a capability is routed to it once.

Model-checked only: all liveness (`InterruptedIsResolved`, `EveryWaiterEnds`,
`RunningEnds`, `WorkspaceIsReclaimed`, `NoRunIsForgotten`, `ApprovedIsApplied`, `RunsEnd`,
`GroupsEnd`, `RunIsAnswered`, `RunAdvances`, `NotificationsEnd`): it rests on fairness,
which the provers at hand do not treat. Every safety property of a passing run is proved.

## 6. What the code does that its documents do not say

One run of `PROJECT.json` ends in a violation, `delivery_stranded`: a kill between the
merge and the pass of its node (`apex-v2.mjs:1557`) strands the run, though
`src/README.md:79` calls state transitions crash-safe. More such
counterexamples are kept as configurations to be run by hand; each module beside it
is the one that its run uses:

| Configuration | Violated | The code | The words |
|---|---|---|---|
| `MCProjectTransactionCut.cfg` | `RecoverableAlways` | A kill inside a restore leaves no started record, and the next recovery sweeps the backup as an orphan (`core/project-transaction.mjs:203`). | `src/README.md:79`, `:134` |
| `MCProjectLock.cfg` | `MutualExclusion` | The clearing of a dead owner renames whatever is at the path before it compares the token (`core/project-lock.mjs:84`). The scheduler lock has the same weakness without the second look (`core/scheduler-lock.mjs:61`). A quarantined live lock may also be renamed back after its owner released it (`core/project-lock.mjs:93`), and then blocks everybody until that owner exits. | `src/README.md:133` |
| `MCWorkerExecutionRetryRace.cfg` | `NoDuplicateExecution` | A retry by hand writes the worker it read, next to the scheduler's claim (`commands/worker.mjs:688`). | `src/README.md:114` |
| `MCMergeDeliveryStaged.cfg` | `StagedMatchesDigest` | The staging reads the queue once, the digest reads it again (`commands/integration.mjs:376`). | `src/README.md:78`, `:128` |
| `MCMergeDeliveryLost.cfg` | `QueuedStaysQueued` | The staging's own write can drop a patch queued meanwhile (`commands/integration.mjs:497`). | `src/README.md:128` |
| `MCMergeDeliveryTwice.cfg` | `MergedIsTheCandidate` | `merge apply` applies every patch of the queue, merged ones too: a candidate that was verified across another's merge is merged with a patch that its digest does not name (`commands/integration.mjs:306`). Found by the attempt to prove the opposite. | `src/README.md:78` |
| `MCRunLifecycleReplay.cfg` | `ReplayKeepsPartialRuns` | The replay drops a run once its learn node has passed, open items or not (`core/reconcile.mjs:156`, `:199`). | `src/tests/event-replay.test.mjs:41` |
| `MCRunLifecycleWip.cfg` | `OpenRunsWithinLimit` | The limit counts `active_runs`, which a reconcile, or the closing of a run, writes as it derived it before another run was created (`core/reconcile.mjs:235`, `core/run-state.mjs:104`). | `src/tests/apex-v2.test.mjs:1837` |

Beside them:

- The check that freezes a verification after the integration is made only where it
  begins (`commands/integration.mjs:370`), so one that is in progress during the merge
  may still commit its report. The model has it; `MergedWasCleared` holds all the same.
- `src/planning/plugin-upgrade-plan.md:302` asks for a scratch directory per patch
  action, and `:181` calls it exclusive; the code has one path per worker
  (`core/action-workspace.mjs:48`), emptied at each claim. A host that writes on
  after its lease has passed therefore writes into the next claim's patch.
  `PatchIsOfItsClaim` excepts just this.
- `src/tests/worker-supervisor.test.mjs:227` says that the parent's exit cleans up the
  active groups. A helper that ignores SIGTERM and holds no pipe survives, since
  `finish` clears the kill timer (`core/worker-supervisor.mjs:231`): for instance when
  the parent dies of a signal.
- A heartbeat that is killed between its report of a failed trial and the notification
  of it loses the alarm: the trial is fresh. One whose refresh keeps throwing never
  reaches its dispatch. A notification left "delivering" by a kill is never tried
  again. The daemon's handler of SIGTERM never runs, since its loop is synchronous;
  a stop always ends in SIGKILL.
- Dead ends of a run's plan, each in `RunAdvances`: an intake for which the plan that
  is built does not validate, by one of two ways (see below); a required provider that nobody offers; work that was
  cancelled or dropped and is not dispatched again; a candidate that failed once and
  is answered with that failure for ever (`commands/integration.mjs:445`); a review's
  rework that was refused for good.
- A merged patch that a resolution keeps is set to waiting (`commands/integration.mjs:120`).
  It is verified, reviewed and merged once more, or dropped by a rework
  while its change stays in the project.
- A node that passed in part, was sent back by a review and passed in full leaves its
  item open: `closeRunIfComplete` keeps the run paused and active
  (`core/run-state.mjs:71`), a reconcile takes it for done (`core/reconcile.mjs:337`).
  `StateAgrees` excepts these runs (`Owing`).
- A plan that does not validate: the two judgements of overlap differ for a file named
  like a directory (`core/plan-graph.mjs:813`, `:1265`); and an intake of the old pack
  `governed-v1`, in a project without sources, schemas and `package.json`, that names
  no file to implement gets an implementation with nothing to write, as its tests go
  elsewhere (`core/plan-graph.mjs:1166`), which the validation refuses (`:876`). The
  second was found by the attempt to prove that there is only the first.

## 7. Not modelled, and why

- Negative control: a check of the tests' strength in copies of the project; its
  verdict is part of the nondeterministic outcome of a verification.
- Intake and roadmap: sequential record keeping by one user's command.
- Routing, executors, prompts, schemas, contracts and rendering: pure functions of data
  that no property here distinguishes.
- Benchmark analysis and release tooling: statistics and files, offline.
- Risks and decision notes: records without a protocol. Git delivery beyond the claim
  of a checkout: reads of git.
- Shell workers and submission by hand: transactions of one step each.
- The generated plugin bundles: copies of the same code.
- Out of reach of TLC and of the provers: the contents of files and the behaviour of
  agents, which are nondeterministic here; file systems that reorder writes, or lose
  them on power failure.

## 8. Hazards without a property

`PROJECT.json` lists every hazard at its line, with the properties that watch it. None
watches these:

- `core/git-delivery.mjs:94`: a claim killed before its `owner.json` blocks its checkout
  until somebody removes it. The code means it so; whoever asks is told.
- `apex-v2.mjs:2389`: the limit of open workers is counted outside the lock, and a
  user's `worker create` asks for none, so that no bound can be stated.
- `commands/worker.mjs:355`: `submitWorkerPatch` reads the worker outside its
  transaction; submission by hand is not modelled.
- `core/worker-supervisor.mjs:231`: the helper of section 6, which `GroupsEnd` excepts.

Three others do go wrong, and have a property that excepts them: a lock cleared on a
stale judgement (`core/project-lock.mjs:84`), a claim released twice
(`core/git-delivery.mjs:136`), and two daemons started at the same time
(`core/heartbeat-daemon-control.mjs:13`). `OnlyMisfiresBreakTheLock` and `OneDaemon`
do not catch them; they show that these are the only ways. Likewise the
retry by hand beside the scheduler (`commands/worker.mjs:688`) is met only in
`MCWorkerExecutionRetryRace.cfg`, since the run has one operator.

Known and not listed there: `cleanupBackup` throwing after the commit record sends a
committed transaction through the restore (`core/project-transaction.mjs:82`); a second
conflict of a kept patch is answered from the key of its first resolution
(`commands/integration.mjs:105`); a halt may be asked for because of a blocked worker
that another has superseded (`apex-v2.mjs:1714`).
