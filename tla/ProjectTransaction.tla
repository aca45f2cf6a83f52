------------------------ MODULE ProjectTransaction ------------------------
(***************************************************************************)
(* src/src/core/project-transaction.mjs: the backup, the "started" record,  *)
(* the action, the commit record, the rollback and the recovery of one      *)
(* project directory, with a crash possible between any two file-system     *)
(* effects.  withProjectLock lets one process in at a time (ProjectLock     *)
(* models it), so there is one program counter: the lock holder's.          *)
(*                                                                         *)
(* A transaction attempt is a member of Tx (shortId: fresh per attempt); a  *)
(* file's content is the set of the attempts whose effect it carries.  A    *)
(* nested call runs inside the action of the outer one: its writes are the  *)
(* outer attempt's (WriteFile).                                             *)
(***************************************************************************)
EXTENDS FiniteSets

CONSTANTS
  Key,        \* idempotency keys
  Tx,         \* transaction ids; finite in a model: it bounds the attempts
  RootFile,   \* files under .apex-v2 (transaction records apart)
  ExtraFile,  \* project files the transaction declares in extraPaths
  NoKey, NoTx

ASSUME TransactionAssumption ==
  /\ NoKey \notin Key
  /\ NoTx \notin Tx
  /\ RootFile \cap ExtraFile = {}

VARIABLES
  disk,     \* [File -> SUBSET Tx]: content of the file when it is there
  missing,  \* files that are not there
  rec,      \* .apex-v2/transactions/<t>.json, by its status
  backups,  \* .apex-v2.transaction-backups/<t> directories
  snap,     \* what the backup of t holds
  pc,       \* where the holder of the project lock is ("idle": no holder)
  key,      \* idempotency key of the call in progress; NoKey: recovery alone
  cur,      \* transaction being run, restored or cleaned up
  ending,   \* record status the restore in progress ends with
  todo,     \* started records the recovery still has to restore
  live,     \* backups the recovery must not treat as orphans
  txKey,    \* idempotency key of each attempt; NoKey: id not used yet
  acked,    \* keys whose caller was told of success
  cut       \* a crash struck a restore once the started record was gone

diskVars == <<disk, missing, rec, backups, snap>>
procVars == <<pc, key, cur, ending, todo, live>>
histVars == <<txKey, acked, cut>>
vars == <<diskVars, procVars, histVars>>

File == RootFile \cup ExtraFile

Status == {"none", "started", "committed", "failed", "recovered"}

Step == {"idle", "scan", "recover", "lookup", "backup", "action", "rm", "cp",
         "extra", "restored", "cleanup"}

Snapshot == [disk : [File -> SUBSET Tx], missing : SUBSET File,
             rec : [Tx -> Status]]

NoSnapshot == [disk |-> [f \in File |-> {}], missing |-> {},
               rec |-> [t \in Tx |-> "none"]]

Started(r) == {t \in Tx : r[t] = "started"}
Committed(r) == {t \in Tx : r[t] = "committed"}
CommittedKeys(r) == {txKey[t] : t \in Committed(r)}

TypeOK ==
  /\ disk \in [File -> SUBSET Tx]
  /\ missing \in SUBSET File
  /\ rec \in [Tx -> Status]
  /\ backups \in SUBSET Tx
  /\ snap \in [Tx -> Snapshot]
  /\ pc \in Step
  /\ key \in Key \cup {NoKey}
  /\ cur \in Tx \cup {NoTx}
  /\ ending \in {"failed", "recovered"}
  /\ todo \in SUBSET Tx
  /\ live \in SUBSET Tx
  /\ txKey \in [Tx -> Key \cup {NoKey}]
  /\ acked \in SUBSET Key
  /\ cut \in BOOLEAN

Init ==
  /\ disk = [f \in File |-> {}]
  /\ missing = {}
  /\ rec = [t \in Tx |-> "none"]
  /\ backups = {}
  /\ snap = [t \in Tx |-> NoSnapshot]
  /\ pc = "idle"
  /\ key = NoKey
  /\ cur = NoTx
  /\ ending = "failed"
  /\ todo = {}
  /\ live = {}
  /\ txKey = [t \in Tx |-> NoKey]
  /\ acked = {}
  /\ cut = FALSE

Unused == {t \in Tx : txKey[t] = NoKey}

\* The lock is released: by a return, by a throw, or as a dead owner's.
Leave ==
  /\ pc' = "idle"
  /\ key' = NoKey
  /\ cur' = NoTx
  /\ ending' = "failed"
  /\ todo' = {}
  /\ live' = {}

\* A backup directory is removed as a whole: nothing restores from a part.
DropBackups(S) ==
  /\ backups' = backups \ S
  /\ snap' = [t \in Tx |-> IF t \in S THEN NoSnapshot ELSE snap[t]]

----------------------------------------------------------------------------
(* Entry and recovery.                                                     *)

\* withProjectTransaction takes the project lock for idempotency key k.
Enter(k) ==
  /\ pc = "idle"
  /\ Unused # {}
  /\ pc' = "scan"
  /\ key' = k
  /\ UNCHANGED <<diskVars, histVars, cur, ending, todo, live>>

\* recoverProjectTransactions (startup): the recovery alone.
EnterRecovery ==
  /\ pc = "idle"
  /\ pc' = "scan"
  /\ UNCHANGED <<diskVars, histVars, key, cur, ending, todo, live>>

\* The started records and their backups are read once, before any restore.
ScanStarted ==
  /\ pc = "scan"
  /\ todo' = Started(rec)
  /\ live' = Started(rec)
  /\ pc' = "recover"
  /\ UNCHANGED <<diskVars, histVars, key, cur, ending>>

\* A started record is restored from its backup, which must be there.
RestoreStarted(t) ==
  /\ pc = "recover"
  /\ t \in todo
  /\ t \in backups
  /\ cur' = t
  /\ ending' = "recovered"
  /\ pc' = "rm"
  /\ UNCHANGED <<diskVars, histVars, key, todo, live>>

\* Backups that belonged to no started record at the scan are deleted.
SweepOrphans ==
  /\ pc = "recover"
  /\ todo = {}
  /\ DropBackups(backups \ live)
  /\ \/ key # NoKey /\ pc' = "lookup" /\ UNCHANGED <<key, cur, ending, todo, live>>
     \/ key = NoKey /\ Leave
  /\ UNCHANGED <<disk, missing, rec, histVars>>

----------------------------------------------------------------------------
(* The transaction.                                                        *)

AlreadyCommitted == key \in CommittedKeys(rec)

\* A committed record with the same key: its result is returned again.
Replay ==
  /\ pc = "lookup"
  /\ AlreadyCommitted
  /\ acked' = acked \cup {key}
  /\ Leave
  /\ UNCHANGED <<diskVars, txKey, cut>>

\* A fresh id; .apex-v2 and the declared extra paths are copied aside.
TakeBackup(t) ==
  /\ pc = "lookup"
  /\ ~AlreadyCommitted
  /\ t \in Unused
  /\ txKey' = [txKey EXCEPT ![t] = key]
  /\ backups' = backups \cup {t}
  /\ snap' = [snap EXCEPT ![t] = [disk |-> disk, missing |-> missing, rec |-> rec]]
  /\ cur' = t
  /\ pc' = "backup"
  /\ UNCHANGED <<disk, missing, rec, key, ending, todo, live, acked, cut>>

\* The started record is written only when the backup is complete.
WriteStarted ==
  /\ pc = "backup"
  /\ rec' = [rec EXCEPT ![cur] = "started"]
  /\ pc' = "action"
  /\ UNCHANGED <<disk, missing, backups, snap, key, cur, ending, todo, live, histVars>>

\* The action (or a call nested in it) writes one of the files it changes.
WriteFile(f) ==
  /\ pc = "action"
  /\ f \notin missing
  /\ cur \notin disk[f]
  /\ disk' = [disk EXCEPT ![f] = @ \cup {cur}]
  /\ UNCHANGED <<missing, rec, backups, snap, procVars, histVars>>

\* The action returned: the record becomes "committed".
Commit ==
  /\ pc = "action"
  /\ \A f \in File : cur \in disk[f]
  /\ rec' = [rec EXCEPT ![cur] = "committed"]
  /\ pc' = "cleanup"
  /\ UNCHANGED <<disk, missing, backups, snap, key, cur, ending, todo, live, histVars>>

\* A mistake: a throw records the failure without restoring the files.
ThrowKeepsWrites ==
  /\ pc = "action"
  /\ ending' = "failed"
  /\ pc' = "restored"
  /\ UNCHANGED <<diskVars, key, cur, todo, live, histVars>>

\* The action, or the commit record's write, throws at any point of its work.
Throw ==
  /\ pc = "action"
  /\ ending' = "failed"
  /\ pc' = "rm"
  /\ UNCHANGED <<diskVars, key, cur, todo, live, histVars>>

----------------------------------------------------------------------------
(* restoreTransaction: remove .apex-v2, copy the backup back, then remove   *)
(* and copy back the extra paths.  Three steps; a crash cuts any of them.   *)

RemoveRoot ==
  /\ pc = "rm"
  /\ missing' = missing \cup RootFile
  /\ rec' = [t \in Tx |-> "none"]
  /\ pc' = "cp"
  /\ UNCHANGED <<disk, backups, snap, key, cur, ending, todo, live, histVars>>

\* What is on disk once the members F of RootFile have been copied back.
RootCopied(F) ==
  /\ disk' = [f \in File |-> IF f \in F THEN snap[cur].disk[f] ELSE disk[f]]
  /\ missing' = (missing \ F) \cup (snap[cur].missing \cap F)

\* A mistake: the backup does not hold the transaction records.
CopyWithoutRecords ==
  /\ pc = "cp"
  /\ RootCopied(RootFile)
  /\ rec' = [t \in Tx |-> "none"]
  /\ pc' = "extra"
  /\ UNCHANGED <<backups, snap, key, cur, ending, todo, live, histVars>>

CopyRoot ==
  /\ pc = "cp"
  /\ RootCopied(RootFile)
  /\ rec' = snap[cur].rec
  /\ pc' = "extra"
  /\ UNCHANGED <<backups, snap, key, cur, ending, todo, live, histVars>>

\* A mistake: the extra paths are not restored.
ExtrasForgotten ==
  /\ pc = "extra"
  /\ pc' = "restored"
  /\ UNCHANGED <<disk, missing, rec, backups, snap, key, cur, ending, todo, live, histVars>>

RestoreExtras ==
  /\ pc = "extra"
  /\ RootCopied(ExtraFile)
  /\ pc' = "restored"
  /\ UNCHANGED <<rec, backups, snap, key, cur, ending, todo, live, histVars>>

\* A mistake: the record is put back as it was before the restore.
WriteEndingUnresolved ==
  /\ pc = "restored"
  /\ rec' = [rec EXCEPT ![cur] = "started"]
  /\ pc' = "cleanup"
  /\ UNCHANGED <<disk, missing, backups, snap, key, cur, ending, todo, live, histVars>>

\* The record is written again, as "failed" (throw) or "recovered".
WriteEnding ==
  /\ pc = "restored"
  /\ rec' = [rec EXCEPT ![cur] = ending]
  /\ pc' = "cleanup"
  /\ UNCHANGED <<disk, missing, backups, snap, key, cur, ending, todo, live, histVars>>

----------------------------------------------------------------------------
(* cleanupBackup, and how the call ends.                                   *)

ReturnCommitted ==
  /\ pc = "cleanup"
  /\ rec[cur] = "committed"
  /\ DropBackups({cur})
  /\ acked' = acked \cup {key}
  /\ Leave
  /\ UNCHANGED <<disk, missing, rec, txKey, cut>>

RethrowFailed ==
  /\ pc = "cleanup"
  /\ rec[cur] = "failed"
  /\ DropBackups({cur})
  /\ Leave
  /\ UNCHANGED <<disk, missing, rec, histVars>>

EndRecovered ==
  /\ pc = "cleanup"
  /\ rec[cur] = "recovered"
  /\ DropBackups({cur})
  /\ todo' = todo \ {cur}
  /\ cur' = NoTx
  /\ ending' = "failed"
  /\ pc' = "recover"
  /\ UNCHANGED <<disk, missing, rec, key, live, histVars>>

----------------------------------------------------------------------------
(* The process is killed.  Its memory is lost, its lock is a dead owner's.  *)

CrashBetweenSteps ==
  /\ pc \in Step \ {"idle", "rm", "cp", "extra"}
  /\ Leave
  /\ UNCHANGED <<diskVars, histVars>>

\* rmSync had removed some files and some records.
CrashInRemove ==
  /\ pc = "rm"
  /\ \E F \in SUBSET RootFile, R \in SUBSET Tx :
       /\ missing' = missing \cup F
       /\ rec' = [t \in Tx |-> IF t \in R THEN "none" ELSE rec[t]]
       /\ cut' = (cut \/ cur \in R)
  /\ Leave
  /\ UNCHANGED <<disk, backups, snap, txKey, acked>>

\* cpSync had copied some files and some records back.
CrashInCopy ==
  /\ pc = "cp"
  /\ \E F \in SUBSET RootFile, R \in SUBSET Tx :
       /\ RootCopied(F)
       /\ rec' = [t \in Tx |-> IF t \in R THEN snap[cur].rec[t] ELSE "none"]
  /\ cut' = TRUE
  /\ Leave
  /\ UNCHANGED <<backups, snap, txKey, acked>>

\* Some extra paths were copied back, and one removed but not yet copied.
CrashInExtras ==
  /\ pc = "extra"
  /\ \E X \in SUBSET ExtraFile, x \in ExtraFile :
       /\ disk' = [f \in File |-> IF f \in X THEN snap[cur].disk[f] ELSE disk[f]]
       /\ missing' \in {(missing \ X) \cup (snap[cur].missing \cap X),
                        ((missing \ X) \cup (snap[cur].missing \cap X)) \cup ({x} \ X)}
  /\ cut' = TRUE
  /\ Leave
  /\ UNCHANGED <<rec, backups, snap, txKey, acked>>

Crash == CrashBetweenSteps \/ CrashInRemove \/ CrashInCopy \/ CrashInExtras

----------------------------------------------------------------------------
Recover == \/ ScanStarted
           \/ \E t \in Tx : RestoreStarted(t)
           \/ SweepOrphans

Transact == \/ Replay
            \/ \E t \in Tx : TakeBackup(t)
            \/ WriteStarted
            \/ \E f \in File : WriteFile(f)
            \/ Commit
            \/ Throw

Restore == RemoveRoot \/ CopyRoot \/ RestoreExtras \/ WriteEnding

Cleanup == ReturnCommitted \/ RethrowFailed \/ EndRecovered

Call == EnterRecovery \/ \E k \in Key : Enter(k)

Next == Call \/ Recover \/ Transact \/ Restore \/ Cleanup \/ Crash

Spec == Init /\ [][Next]_vars

----------------------------------------------------------------------------
(* Properties.                                                             *)

\* The store d, m, r is whole: no file is missing, and every file carries
\* exactly the committed attempts, at most one per key.
Whole(d, m, r) ==
  /\ m = {}
  /\ \A f \in File : d[f] = Committed(r)
  /\ \A t, u \in Committed(r) : txKey[t] = txKey[u] => t = u
  /\ Started(r) = {}

WholeNow == Whole(disk, missing, rec)

\* The backup of t is there and holds a whole store without t.
WholeBackup(t) ==
  /\ t \in backups
  /\ Whole(snap[t].disk, snap[t].missing, snap[t].rec)
  /\ snap[t].rec[t] = "none"

\* With no process inside, the store is whole or one started record points
\* to a whole backup: SIGKILL anywhere (but inside a restore) is recoverable.
Recoverable ==
  pc = "idle" /\ ~cut =>
    \/ WholeNow
    \/ \E t \in Tx : Started(rec) = {t} /\ WholeBackup(t)

\* A key whose caller was told of success stays committed, whatever rolls
\* back or crashes later: on disk, or in the backup a recovery restores.
AcknowledgedIsDurable ==
  ~cut => \/ acked \subseteq CommittedKeys(rec)
          \/ \E t \in backups : acked \subseteq CommittedKeys(snap[t].rec)

\* An action starts on a whole store that has not taken its key's effect: no
\* attempt builds on what an earlier one left half done.
ActionStartsClean ==
  pc = "action" /\ ~cut =>
    /\ Started(rec) = {cur}
    /\ WholeBackup(cur)
    /\ key \notin CommittedKeys(rec)

\* What recovery would bring back: the backup of the attempt in flight (a
\* started record, or a restore that has removed it), else the disk.
InFlight == {t \in Tx : rec[t] = "started" \/ (pc \in {"cp", "extra"} /\ t = cur)}

Lasting == IF InFlight = {} THEN disk ELSE snap[CHOOSE t \in InFlight : TRUE].disk

\* To its callers the transaction is atomic and applied once per key, with
\* crashes and rollbacks invisible: every step up to the first cut is a step
\* of AtomicStore or none.
Store == INSTANCE AtomicStore
           WITH content <- [f \in File |-> {txKey[t] : t \in Lasting[f]}]

ImplementsAtomicStore ==
  Store!StoreInit /\ [][~cut' => [Store!StoreNext]_(Store!storeVars)]_vars

\* Crash safety as the project's README states it, with no exception for a
\* crash inside a restore.
RecoverableAlways ==
  pc = "idle" =>
    \/ WholeNow
    \/ \E t \in Tx : Started(rec) = {t} /\ WholeBackup(t)

\* Every step of the holder is taken if it stays possible (the code is
\* synchronous), and some command keeps opening the store (heartbeat, tick).
FairSpec ==
  /\ Spec
  /\ WF_vars(Recover)
  /\ WF_vars(Restore)
  /\ WF_vars(Cleanup)
  /\ WF_vars(Transact)
  /\ WF_vars(EnterRecovery)

\* Once crashes stop, an interrupted transaction gets resolved for good: the
\* recovery never loops on it nor waits for a backup that is gone.
InterruptedIsResolved ==
  <>[][~Crash]_vars => \A t \in Tx : rec[t] = "started" ~> rec[t] # "started"
=============================================================================
