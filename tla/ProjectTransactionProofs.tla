--------------------- MODULE ProjectTransactionProofs ---------------------
(***************************************************************************)
(* TypeOK, Recoverable, AcknowledgedIsDurable and ActionStartsClean of      *)
(* ProjectTransaction, and its refinement of AtomicStore, for all sets of   *)
(* keys, attempts and files.                                                *)
(*                                                                         *)
(* Argument: until a crash cuts a restore short, there is always a place    *)
(* that holds a whole store: the disk, or the backup of the one started     *)
(* transaction.  PcInv says which of the two for each program counter, and  *)
(* what the holder of the lock relies on there.                             *)
(*                                                                         *)
(* And OnlyMisfiresBreakTheLock of the three locks of module Locks, for all *)
(* sets of processes.                                                       *)
(***************************************************************************)
EXTENDS ProjectTransaction, Locks, TLAPS

(* The inductive invariant.                                                *)

Acked(r) == acked \subseteq CommittedKeys(r)

\* The disk is a whole store with every acknowledged key.
SafeNow == WholeNow /\ Acked(rec)

\* So is the backup of attempt t.
SafeBackup(t) == WholeBackup(t) /\ Acked(snap[t].rec)

\* Nothing was ever recorded under an id that is not used yet.
FreshIds ==
  \A t \in Unused : rec[t] = "none" /\ \A u \in backups : snap[u].rec[t] = "none"

\* What the restart of any process finds.
Restartable == SafeNow \/ \E t \in Tx : Started(rec) = {t} /\ SafeBackup(t)

AtRest == pc \in {"idle", "scan"} => Restartable

Recovering ==
  pc = "recover" => \/ SafeNow /\ todo = {}
                    \/ \E t \in Tx : Started(rec) = {t} /\ SafeBackup(t) /\ todo = {t}

Looking == pc = "lookup" => SafeNow /\ key \in Key

\* The key of the attempt in progress, which no committed attempt of r has.
NewKey(r) == key \in Key /\ txKey[cur] = key /\ key \notin CommittedKeys(r)

BackedUp ==
  pc = "backup" => /\ cur \in Tx
                   /\ SafeNow
                   /\ SafeBackup(cur)
                   /\ snap[cur].rec = rec
                   /\ \A f \in File : disk[f] = snap[cur].disk[f]
                   /\ NewKey(rec)

Acting ==
  pc = "action" => /\ cur \in Tx
                   /\ SafeBackup(cur)
                   /\ rec = [snap[cur].rec EXCEPT ![cur] = "started"]
                   /\ missing = {}
                   /\ \A f \in File : disk[f] \ {cur} = snap[cur].disk[f]
                   /\ NewKey(snap[cur].rec)

Restoring ==
  pc \in {"rm", "cp", "extra", "restored"} =>
    /\ cur \in Tx \ Unused
    /\ SafeBackup(cur)
    /\ ending = "recovered" => todo = {cur}

Removing == pc = "rm" => Started(rec) = {cur}

RootIsBack ==
  pc \in {"extra", "restored"} =>
    /\ rec = snap[cur].rec
    /\ \A f \in RootFile : f \notin missing /\ disk[f] = snap[cur].disk[f]

AllIsBack ==
  pc = "restored" => missing = {} /\ \A f \in File : disk[f] = snap[cur].disk[f]

Cleaning ==
  pc = "cleanup" => /\ cur \in Tx
                    /\ SafeNow
                    /\ rec[cur] = "committed" => txKey[cur] = key
                    /\ rec[cur] = "recovered" => todo = {cur}

PcInv == /\ FreshIds /\ AtRest /\ Recovering /\ Looking /\ BackedUp /\ Acting
         /\ Restoring /\ Removing /\ RootIsBack /\ AllIsBack /\ Cleaning

----------------------------------------------------------------------------
(* Type correctness.                                                       *)

USE DEF Started, Committed

LEMMA NoSnapshotType == NoSnapshot \in Snapshot
  BY DEF NoSnapshot, Snapshot, Status

LEMMA RestoredType ==
  ASSUME TypeOK, cur \in Tx, NEW F \in SUBSET File, RootCopied(F)
  PROVE  disk' \in [File -> SUBSET Tx] /\ missing' \in SUBSET File
<1>1. snap[cur] \in Snapshot
  BY DEF TypeOK
<1>2. snap[cur].disk \in [File -> SUBSET Tx] /\ snap[cur].missing \in SUBSET File
  BY <1>1 DEF Snapshot
<1>3. QED
  BY <1>2 DEF RootCopied, TypeOK

\* Whoever works on an attempt or restores one has one, and only a call with a
\* key commits.
HolderIsSound ==
  /\ pc \in {"backup", "action", "rm", "cp", "extra", "restored", "cleanup"} => cur \in Tx
  /\ pc \in {"lookup", "backup", "action"} => key \in Key
  /\ pc = "cleanup" /\ rec[cur] = "committed" => key \in Key

TInv == TypeOK /\ HolderIsSound

LEMMA LeaveType ==
  ASSUME TypeOK, Leave
  PROVE  /\ pc' \in Step /\ key' \in Key \cup {NoKey} /\ cur' \in Tx \cup {NoTx}
         /\ ending' \in {"failed", "recovered"} /\ todo' \in SUBSET Tx
         /\ live' \in SUBSET Tx /\ HolderIsSound'
  BY DEF Leave, Step, HolderIsSound

LEMMA DropType ==
  ASSUME TypeOK, NEW S \in SUBSET Tx, DropBackups(S)
  PROVE  backups' \in SUBSET Tx /\ snap' \in [Tx -> Snapshot]
  BY NoSnapshotType DEF DropBackups, TypeOK

LEMMA TypeStep == TInv /\ [Next]_vars => TInv'
<1> SUFFICES ASSUME TInv, [Next]_vars
             PROVE  TInv'
  OBVIOUS
<1> USE DEF TInv
<1>1. CASE Call \/ Replay \/ WriteStarted \/ Commit \/ Throw \/ WriteEnding
           \/ ScanStarted \/ RemoveRoot \/ \E t \in Tx : RestoreStarted(t)
  <2>1. CASE Call
    BY <2>1 DEF Call, EnterRecovery, Enter, TypeOK, HolderIsSound, Step, diskVars, histVars
  <2>2. CASE Replay
    <3>1. acked' \in SUBSET Key
      BY <2>2 DEF Replay, HolderIsSound, TypeOK
    <3>2. QED
      BY <2>2, <3>1, LeaveType DEF Replay, TypeOK, diskVars
  <2>3. CASE WriteStarted \/ Commit \/ WriteEnding
    <3>1. cur \in Tx /\ rec' \in [Tx -> Status]
      BY <2>3 DEF WriteStarted, Commit, WriteEnding, TypeOK, HolderIsSound, Status
    <3>2. WriteEnding => rec'[cur] # "committed"
      BY <3>1 DEF WriteEnding, TypeOK
    <3>3. QED
      BY <2>3, <3>1, <3>2 DEF WriteStarted, Commit, WriteEnding, TypeOK, HolderIsSound, Step, histVars
  <2>4. CASE Throw \/ ScanStarted \/ \E t \in Tx : RestoreStarted(t)
    BY <2>4 DEF Throw, ScanStarted, RestoreStarted, TypeOK, HolderIsSound, Step, diskVars, histVars
  <2>5. CASE RemoveRoot
    BY <2>5 DEF RemoveRoot, TypeOK, HolderIsSound, Step, Status, File, histVars
  <2>6. QED
    BY <1>1, <2>1, <2>2, <2>3, <2>4, <2>5
<1>2. CASE SweepOrphans
  <2>1. backups' \in SUBSET Tx /\ snap' \in [Tx -> Snapshot]
    BY <1>2, DropType DEF SweepOrphans, TypeOK
  <2>2. CASE key # NoKey /\ pc' = "lookup" /\ UNCHANGED <<key, cur, ending, todo, live>>
    BY <1>2, <2>1, <2>2 DEF SweepOrphans, TypeOK, HolderIsSound, Step, histVars
  <2>3. CASE key = NoKey /\ Leave
    BY <1>2, <2>1, <2>3, LeaveType DEF SweepOrphans, TypeOK, histVars
  <2>4. QED
    BY <1>2, <2>2, <2>3 DEF SweepOrphans
<1>3. ASSUME NEW t \in Tx, TakeBackup(t)
      PROVE  TInv'
  <2>1. [disk |-> disk, missing |-> missing, rec |-> rec] \in Snapshot
    BY DEF Snapshot, TypeOK
  <2>2. QED
    BY <1>3, <2>1 DEF TakeBackup, TypeOK, HolderIsSound, Step, Unused
<1>4. ASSUME NEW f \in File, WriteFile(f)
      PROVE  TInv'
  BY <1>4 DEF WriteFile, TypeOK, HolderIsSound, procVars, histVars
<1>5. CASE CopyRoot
  <2>1. snap[cur].rec \in [Tx -> Status]
    BY <1>5 DEF CopyRoot, TypeOK, HolderIsSound, Snapshot
  <2>2. disk' \in [File -> SUBSET Tx] /\ missing' \in SUBSET File
    BY <1>5, RestoredType DEF CopyRoot, HolderIsSound, File
  <2>3. QED
    BY <1>5, <2>1, <2>2 DEF CopyRoot, TypeOK, HolderIsSound, Step, histVars
<1>6. CASE RestoreExtras
  <2>1. disk' \in [File -> SUBSET Tx] /\ missing' \in SUBSET File
    BY <1>6, RestoredType DEF RestoreExtras, HolderIsSound, File
  <2>2. QED
    BY <1>6, <2>1 DEF RestoreExtras, TypeOK, HolderIsSound, Step, histVars
<1>7. CASE Cleanup
  <2>1. backups' \in SUBSET Tx /\ snap' \in [Tx -> Snapshot]
    BY <1>7, DropType DEF Cleanup, ReturnCommitted, RethrowFailed, EndRecovered, HolderIsSound
  <2>2. CASE ReturnCommitted \/ RethrowFailed
    <3>1. acked' \in SUBSET Key
      BY <2>2 DEF ReturnCommitted, RethrowFailed, HolderIsSound, TypeOK, histVars
    <3>2. QED
      BY <2>1, <2>2, <3>1, LeaveType DEF ReturnCommitted, RethrowFailed, TypeOK, histVars
  <2>3. CASE EndRecovered
    BY <2>1, <2>3 DEF EndRecovered, TypeOK, HolderIsSound, Step, histVars
  <2>4. QED
    BY <1>7, <2>2, <2>3 DEF Cleanup
<1>8. CASE CrashBetweenSteps \/ CrashInRemove
  BY <1>8, LeaveType DEF CrashBetweenSteps, CrashInRemove, TypeOK, File, Status, diskVars, histVars
<1>9. CASE CrashInCopy
  <2>1. PICK F \in SUBSET RootFile, R \in SUBSET Tx :
          /\ RootCopied(F)
          /\ rec' = [t \in Tx |-> IF t \in R THEN snap[cur].rec[t] ELSE "none"]
    BY <1>9 DEF CrashInCopy
  <2>2. cur \in Tx
    BY <1>9 DEF CrashInCopy, HolderIsSound
  <2>3. snap[cur].rec \in [Tx -> Status]
    BY <2>2 DEF TypeOK, Snapshot
  <2>4. disk' \in [File -> SUBSET Tx] /\ missing' \in SUBSET File
    BY <2>1, <2>2, RestoredType DEF File
  <2>5. QED
    BY <1>9, <2>1, <2>3, <2>4, LeaveType DEF CrashInCopy, TypeOK, Status
<1>10. CASE CrashInExtras
  <2>1. cur \in Tx
    BY <1>10 DEF CrashInExtras, HolderIsSound
  <2>2. snap[cur].disk \in [File -> SUBSET Tx] /\ snap[cur].missing \in SUBSET File
    BY <2>1 DEF TypeOK, Snapshot
  <2>3. disk' \in [File -> SUBSET Tx] /\ missing' \in SUBSET File
    BY <1>10, <2>2 DEF CrashInExtras, TypeOK, File
  <2>4. QED
    BY <1>10, <2>3, LeaveType DEF CrashInExtras, TypeOK
<1>11. CASE UNCHANGED vars
  BY <1>11 DEF vars, diskVars, procVars, histVars, TypeOK, HolderIsSound
<1>12. QED
  BY <1>1, <1>2, <1>3, <1>4, <1>5, <1>6, <1>7, <1>8, <1>9, <1>10, <1>11
     DEF Next, Recover, Transact, Restore, Crash

\* Every variable keeps its type, whatever crashes: in particular no step
\* restores from, or cleans up after, an attempt that does not exist.
THEOREM TypeCorrect == Spec => []TypeOK
<1>1. Init => TInv
  BY NoSnapshotType DEF Init, TInv, TypeOK, HolderIsSound, Step, Status
<1>2. TInv => TypeOK
  BY DEF TInv
<1>3. QED
  BY <1>1, <1>2, TypeStep, PTL DEF Spec

----------------------------------------------------------------------------
(* What the parts of the invariant rest on.                                *)

LEMMA NowStays ==
  ASSUME SafeNow, UNCHANGED <<disk, missing, rec, txKey, acked>>
  PROVE  SafeNow'
  BY DEF SafeNow, WholeNow, Whole, Acked, CommittedKeys

LEMMA BackupStays ==
  ASSUME NEW t \in Tx, SafeBackup(t), t \in backups', snap'[t] = snap[t],
         UNCHANGED <<txKey, acked>>
  PROVE  SafeBackup(t)'
  BY DEF SafeBackup, WholeBackup, Whole, Acked, CommittedKeys

LEMMA RestartableStays ==
  ASSUME Restartable, UNCHANGED <<diskVars, txKey, acked>>
  PROVE  Restartable'
<1>1. CASE SafeNow
  BY <1>1, NowStays DEF Restartable, diskVars
<1>2. ASSUME NEW t \in Tx, Started(rec) = {t}, SafeBackup(t)
      PROVE  Restartable'
  <2>1. t \in backups' /\ snap'[t] = snap[t]
    BY <1>2 DEF SafeBackup, WholeBackup, diskVars
  <2>2. SafeBackup(t)' /\ Started(rec)' = {t}
    BY <1>2, <2>1, BackupStays DEF diskVars
  <2>3. QED
    BY <2>2 DEF Restartable
<1>3. QED
  BY <1>1, <1>2 DEF Restartable

\* A whole store has no started record.
LEMMA WholeIsSettled == SafeNow => Started(rec) = {}
  BY DEF SafeNow, WholeNow, Whole

\* The record that an action works under.
LEMMA ActingRecord ==
  ASSUME TypeOK, Acting, pc = "action"
  PROVE  /\ Started(rec) = {cur}
         /\ Committed(rec) = Committed(snap[cur].rec)
         /\ snap[cur].rec \in [Tx -> Status]
         /\ snap[cur].rec[cur] = "none"
<1>1. cur \in Tx /\ snap[cur].rec[cur] = "none" /\ Started(snap[cur].rec) = {}
  BY DEF Acting, SafeBackup, WholeBackup, Whole
<1>2. snap[cur].rec \in [Tx -> Status]
  BY <1>1 DEF TypeOK, Snapshot
<1>3. rec = [snap[cur].rec EXCEPT ![cur] = "started"]
  BY DEF Acting
<1>4. QED
  BY <1>1, <1>2, <1>3

LEMMA ActingIsRestartable == TypeOK /\ Acting /\ pc = "action" => Restartable
  BY ActingRecord DEF Acting, Restartable

\* Once everything is copied back the disk is the backup.
LEMMA RestoredIsSafe ==
  ASSUME Restoring, RootIsBack, AllIsBack, pc = "restored"
  PROVE  SafeNow
  BY DEF Restoring, RootIsBack, AllIsBack, SafeBackup, WholeBackup, Whole,
         SafeNow, WholeNow, Acked, CommittedKeys

\* The holder's steps that leave the store as it is.
LEMMA FreshStays ==
  ASSUME FreshIds, UNCHANGED txKey,
         \A t \in Unused : rec[t] = "none" => rec'[t] = "none",
         \A u \in backups' : u \in backups /\ snap'[u] = snap[u]
  PROVE  FreshIds'
  BY DEF FreshIds, Unused

LEMMA DropKeeps ==
  ASSUME TypeOK, NEW S \in SUBSET Tx, DropBackups(S)
  PROVE  \A u \in backups' : u \in backups /\ snap'[u] = snap[u]
  BY DEF DropBackups, TypeOK

----------------------------------------------------------------------------
(* The steps, by part of the protocol.                                     *)

\* What PcInv says when the program counter is s.
PcInvAt(s) ==
  CASE s \in {"idle", "scan"} -> Restartable
    [] s = "recover" -> Recovering
    [] s = "lookup" -> Looking
    [] s = "backup" -> BackedUp
    [] s = "action" -> Acting
    [] s \in {"rm", "cp", "extra", "restored"} ->
         Restoring /\ Removing /\ RootIsBack /\ AllIsBack
    [] s = "cleanup" -> Cleaning

LEMMA PcInvByStep ==
  /\ pc \in Step => (PcInv <=> FreshIds /\ PcInvAt(pc))
  /\ pc' \in Step => (PcInv' <=> FreshIds' /\ PcInvAt(pc)')
  BY DEF PcInv, PcInvAt, Step, AtRest, Recovering, Looking, BackedUp, Acting,
         Restoring, Removing, RootIsBack, AllIsBack, Cleaning

LEMMA CallStep ==
  ASSUME TypeOK, PcInv, Call
  PROVE  PcInv'
<1>1. Restartable' /\ FreshIds'
  BY RestartableStays, FreshStays
     DEF Call, EnterRecovery, Enter, PcInv, AtRest, diskVars, histVars
<1>2. pc' = "scan"
  BY DEF Call, EnterRecovery, Enter
<1>3. QED
  BY <1>1, <1>2, PcInvByStep DEF PcInvAt, Step

LEMMA RecoverStep ==
  ASSUME TypeOK, PcInv, Recover
  PROVE  PcInv'
<1>1. CASE ScanStarted
  <2>1. Restartable' /\ FreshIds'
    BY <1>1, RestartableStays, FreshStays DEF ScanStarted, PcInv, AtRest, diskVars, histVars
  <2>2. SafeNow' => Started(rec)' = {}
    BY DEF SafeNow, WholeNow, Whole
  <2>3. pc' = "recover" /\ todo' = Started(rec)'
    BY <1>1 DEF ScanStarted, diskVars
  <2>4. Recovering'
    BY <2>1, <2>2, <2>3 DEF Restartable, Recovering
  <2>5. QED
    BY <2>1, <2>3, <2>4, PcInvByStep DEF PcInvAt, Step
<1>2. ASSUME NEW t \in Tx, RestoreStarted(t)
      PROVE  PcInv'
  <2>1. SafeBackup(t) /\ Started(rec) = {t} /\ todo = {t}
    BY <1>2 DEF RestoreStarted, PcInv, Recovering
  <2>2. SafeBackup(t)' /\ FreshIds'
    BY <1>2, <2>1, BackupStays, FreshStays
       DEF RestoreStarted, PcInv, SafeBackup, WholeBackup, diskVars, histVars
  <2>3. pc' = "rm" /\ cur' = t /\ todo' = {t} /\ Started(rec)' = {t}
    BY <1>2, <2>1 DEF RestoreStarted, diskVars
  <2>4. t \notin Unused'
    BY <1>2, <2>1 DEF RestoreStarted, PcInv, FreshIds, Unused, histVars
  <2>5. Restoring' /\ Removing' /\ RootIsBack' /\ AllIsBack'
    BY <2>2, <2>3, <2>4 DEF Restoring, Removing, RootIsBack, AllIsBack
  <2>6. QED
    BY <2>2, <2>3, <2>5, PcInvByStep DEF PcInvAt, Step
<1>3. CASE SweepOrphans
  <2>1. SafeNow
    BY <1>3 DEF SweepOrphans, PcInv, Recovering
  <2>2. SafeNow' /\ FreshIds'
    BY <1>3, <2>1, NowStays, FreshStays, DropKeeps DEF SweepOrphans, PcInv, TypeOK, histVars
  <2>3. \/ pc' = "lookup" /\ key' \in Key
        \/ pc' = "idle"
    BY <1>3 DEF SweepOrphans, Leave, TypeOK
  <2>4. QED
    BY <2>2, <2>3, PcInvByStep DEF PcInvAt, Step, Looking, Restartable
<1>4. QED
  BY <1>1, <1>2, <1>3 DEF Recover

\* A backup of a whole store is a safe backup, and the fresh id is unused.
LEMMA TakeBackupStep ==
  ASSUME TypeOK, PcInv, NEW t \in Tx, TakeBackup(t)
  PROVE  PcInv'
<1>1. SafeNow /\ key \in Key /\ FreshIds
  BY DEF TakeBackup, PcInv, Looking
<1>2. t \in Unused /\ rec[t] = "none"
  BY <1>1 DEF TakeBackup, FreshIds
<1>3. /\ pc' = "backup" /\ cur' = t /\ key' = key /\ acked' = acked
      /\ disk' = disk /\ missing' = missing /\ rec' = rec
      /\ txKey' = [txKey EXCEPT ![t] = key] /\ backups' = backups \cup {t}
      /\ snap' = [snap EXCEPT ![t] = [disk |-> disk, missing |-> missing, rec |-> rec]]
  BY DEF TakeBackup
<1>4. snap'[t] = [disk |-> disk, missing |-> missing, rec |-> rec]
  BY <1>3 DEF TypeOK
<1>5. \A u \in Committed(rec) : txKey'[u] = txKey[u]
  BY <1>2, <1>3 DEF TypeOK
<1>6. CommittedKeys(rec)' = CommittedKeys(rec) /\ Whole(disk, missing, rec)'
  BY <1>1, <1>3, <1>5 DEF CommittedKeys, SafeNow, WholeNow, Whole
<1>7. SafeNow'
  BY <1>1, <1>3, <1>6 DEF SafeNow, WholeNow, Acked
<1>8. SafeBackup(t)'
  BY <1>2, <1>3, <1>4, <1>6, <1>7 DEF SafeBackup, WholeBackup, SafeNow, WholeNow, Whole, Acked,
                                       CommittedKeys
<1>9. NewKey(rec)'
  <2>1. key \notin CommittedKeys(rec)
    BY DEF TakeBackup, AlreadyCommitted
  <2>2. QED
    BY <1>1, <1>3, <1>6, <2>1 DEF NewKey, TypeOK
<1>10. FreshIds'
  <2>1. key # NoKey
    BY <1>1, TransactionAssumption DEF TransactionAssumption
  <2>2. Unused' = Unused \ {t}
    BY <1>3, <2>1 DEF Unused, TypeOK
  <2>3. ASSUME NEW u \in Unused'
        PROVE  rec'[u] = "none" /\ \A b \in backups' : snap'[b].rec[u] = "none"
    BY <1>1, <1>3, <1>4, <2>2, <2>3 DEF FreshIds, TypeOK
  <2>4. QED
    BY <2>3 DEF FreshIds
<1>11. BackedUp'
  BY <1>3, <1>4, <1>7, <1>8, <1>9 DEF BackedUp
<1>12. QED
  BY <1>3, <1>10, <1>11, PcInvByStep DEF PcInvAt, Step

\* Every file carries the attempt: with its record committed the store is whole.
LEMMA CommitStep ==
  ASSUME TypeOK, PcInv, Commit
  PROVE  PcInv'
<1>1. Acting /\ FreshIds /\ pc = "action"
  BY DEF Commit, PcInv
<1>2. /\ cur \in Tx /\ missing = {} /\ key \in Key /\ txKey[cur] = key
      /\ key \notin CommittedKeys(snap[cur].rec) /\ SafeBackup(cur)
  BY <1>1 DEF Acting, NewKey
<1>3. /\ Started(rec) = {cur} /\ Committed(rec) = Committed(snap[cur].rec)
      /\ snap[cur].rec[cur] = "none"
  BY <1>1, ActingRecord
<1>4. /\ pc' = "cleanup" /\ cur' = cur /\ key' = key /\ disk' = disk /\ missing' = missing
      /\ acked' = acked /\ txKey' = txKey /\ snap' = snap /\ backups' = backups
      /\ rec' = [rec EXCEPT ![cur] = "committed"]
  BY DEF Commit, histVars
<1>5. Committed(rec)' = Committed(rec) \cup {cur} /\ Started(rec)' = {}
  BY <1>2, <1>3, <1>4 DEF TypeOK
<1>6. \A f \in File : disk[f] = Committed(rec)'
  <2>1. ASSUME NEW f \in File
        PROVE  disk[f] = Committed(rec)'
    <3>1. disk[f] \ {cur} = snap[cur].disk[f] /\ cur \in disk[f]
      BY <1>1, <2>1 DEF Acting, Commit
    <3>2. snap[cur].disk[f] = Committed(snap[cur].rec)
      BY <1>2, <2>1 DEF SafeBackup, WholeBackup, Whole
    <3>3. QED
      BY <1>3, <1>5, <3>1, <3>2
  <2>2. QED
    BY <2>1
<1>7. \A t, u \in Committed(rec)' : txKey[t] = txKey[u] => t = u
  BY <1>2, <1>3, <1>5 DEF SafeBackup, WholeBackup, Whole, CommittedKeys
<1>8. SafeNow'
  <2>1. Whole(disk, missing, rec)'
    BY <1>2, <1>4, <1>5, <1>6, <1>7 DEF Whole
  <2>2. Acked(rec)'
    BY <1>2, <1>3, <1>4, <1>5 DEF SafeBackup, Acked, CommittedKeys
  <2>3. QED
    BY <2>1, <2>2 DEF SafeNow, WholeNow
<1>9. FreshIds'
  <2>1. cur \notin Unused
    BY <1>2, TransactionAssumption DEF Unused, TransactionAssumption
  <2>2. QED
    BY <1>1, <1>4, <2>1, FreshStays DEF TypeOK
<1>10. Cleaning'
  BY <1>2, <1>4, <1>8 DEF Cleaning, TypeOK
<1>11. QED
  BY <1>4, <1>9, <1>10, PcInvByStep DEF PcInvAt, Step

LEMMA TransactStep ==
  ASSUME TypeOK, PcInv, Transact
  PROVE  PcInv'
<1>1. CASE Replay
  <2>1. SafeNow /\ FreshIds
    BY <1>1 DEF Replay, PcInv, Looking
  <2>2. WholeNow' /\ Acked(rec)'
    BY <1>1, <2>1 DEF Replay, AlreadyCommitted, SafeNow, WholeNow, Whole, Acked,
                      CommittedKeys, diskVars
  <2>3. FreshIds'
    BY <1>1, <2>1, FreshStays DEF Replay, diskVars
  <2>4. pc' = "idle"
    BY <1>1 DEF Replay, Leave
  <2>5. QED
    BY <2>2, <2>3, <2>4, PcInvByStep DEF PcInvAt, Step, Restartable, SafeNow
<1>2. ASSUME NEW t \in Tx, TakeBackup(t)
      PROVE  PcInv'
  BY <1>2, TakeBackupStep
<1>3. CASE WriteStarted
  <2>1. BackedUp /\ FreshIds /\ pc = "backup"
    BY <1>3 DEF WriteStarted, PcInv
  <2>2. /\ pc' = "action" /\ cur' = cur /\ key' = key /\ disk' = disk /\ missing' = missing
        /\ acked' = acked /\ txKey' = txKey /\ snap' = snap /\ backups' = backups
        /\ rec' = [rec EXCEPT ![cur] = "started"]
    BY <1>3 DEF WriteStarted, histVars
  <2>3. cur \in Tx /\ NewKey(rec) /\ SafeNow /\ SafeBackup(cur) /\ snap[cur].rec = rec
    BY <2>1 DEF BackedUp
  <2>4. SafeBackup(cur)'
    BY <2>2, <2>3, BackupStays DEF SafeBackup, WholeBackup
  <2>5. \A f \in File : disk[f] \ {cur} = snap[cur].disk[f]
    <3>1. cur \notin Committed(snap[cur].rec)
      BY <2>3 DEF SafeBackup, WholeBackup
    <3>2. \A f \in File : snap[cur].disk[f] = Committed(snap[cur].rec)
      BY <2>3 DEF SafeBackup, WholeBackup, Whole
    <3>3. \A f \in File : disk[f] = snap[cur].disk[f]
      BY <2>1 DEF BackedUp
    <3>4. QED
      BY <3>1, <3>2, <3>3
  <2>6. missing = {}
    BY <2>3 DEF SafeNow, WholeNow, Whole
  <2>7. NewKey(snap[cur].rec)'
    BY <2>2, <2>3 DEF NewKey, CommittedKeys
  <2>8. Acting'
    BY <2>2, <2>3, <2>4, <2>5, <2>6, <2>7 DEF Acting
  <2>9. FreshIds'
    <3>1. cur \notin Unused
      BY <2>3, TransactionAssumption DEF Unused, TransactionAssumption, NewKey
    <3>2. QED
      BY <2>1, <2>2, <3>1, FreshStays DEF TypeOK
  <2>10. QED
    BY <2>2, <2>8, <2>9, PcInvByStep DEF PcInvAt, Step
<1>4. ASSUME NEW f \in File, WriteFile(f)
      PROVE  PcInv'
  <2>1. Acting /\ FreshIds /\ pc = "action"
    BY <1>4 DEF WriteFile, PcInv
  <2>2. /\ pc' = "action" /\ cur' = cur /\ key' = key /\ missing' = missing /\ rec' = rec
        /\ acked' = acked /\ txKey' = txKey /\ snap' = snap /\ backups' = backups
        /\ disk' = [disk EXCEPT ![f] = @ \cup {cur}]
    BY <1>4, <2>1 DEF WriteFile, procVars, histVars
  <2>3. SafeBackup(cur)'
    BY <2>1, <2>2, BackupStays DEF Acting, SafeBackup, WholeBackup
  <2>4. \A g \in File : disk'[g] \ {cur} = snap[cur].disk[g]
    BY <2>1, <2>2 DEF Acting, TypeOK
  <2>5. Acting'
    BY <2>1, <2>2, <2>3, <2>4 DEF Acting, NewKey, CommittedKeys
  <2>6. FreshIds'
    BY <2>1, <2>2, FreshStays
  <2>7. QED
    BY <2>2, <2>5, <2>6, PcInvByStep DEF PcInvAt, Step
<1>5. CASE Commit
  BY <1>5, CommitStep
<1>6. CASE Throw
  <2>1. Acting /\ FreshIds /\ Started(rec) = {cur} /\ pc = "action"
    BY <1>6, ActingRecord DEF Throw, PcInv
  <2>2. pc' = "rm" /\ cur' = cur /\ ending' = "failed" /\ UNCHANGED <<diskVars, histVars>>
    BY <1>6 DEF Throw
  <2>3. SafeBackup(cur)' /\ FreshIds'
    BY <2>1, <2>2, BackupStays, FreshStays
       DEF Acting, SafeBackup, WholeBackup, diskVars, histVars
  <2>4. cur \notin Unused'
    BY <2>1, <2>2, TransactionAssumption
       DEF Acting, NewKey, Unused, TransactionAssumption, histVars
  <2>5. Restoring' /\ Removing' /\ RootIsBack' /\ AllIsBack'
    BY <2>1, <2>2, <2>3, <2>4 DEF Acting, Restoring, Removing, RootIsBack, AllIsBack, diskVars
  <2>6. QED
    BY <2>2, <2>3, <2>5, PcInvByStep DEF PcInvAt, Step
<1>7. QED
  BY <1>1, <1>2, <1>3, <1>4, <1>5, <1>6 DEF Transact

LEMMA RestoreStep ==
  ASSUME TypeOK, PcInv, Restore
  PROVE  PcInv'
<1>1. pc \in {"rm", "cp", "extra", "restored"} /\ Restoring /\ FreshIds
  BY DEF Restore, RemoveRoot, CopyRoot, RestoreExtras, WriteEnding, PcInv
<1>2. /\ cur' = cur /\ snap' = snap /\ backups' = backups /\ todo' = todo
      /\ ending' = ending /\ txKey' = txKey /\ acked' = acked
  BY DEF Restore, RemoveRoot, CopyRoot, RestoreExtras, WriteEnding, histVars
<1>3. cur \in Tx /\ cur \notin Unused /\ SafeBackup(cur) /\ cur \in backups
  BY <1>1 DEF Restoring, SafeBackup, WholeBackup
<1>4. SafeBackup(cur)' /\ cur \notin Unused'
  BY <1>2, <1>3, BackupStays DEF Unused
<1>5. \A t \in Unused : snap[cur].rec[t] = "none"
  BY <1>1, <1>3 DEF FreshIds
<1>6. CASE RemoveRoot
  <2>1. pc' = "cp" /\ FreshIds'
    BY <1>1, <1>2, <1>6, FreshStays DEF RemoveRoot, Unused
  <2>2. Restoring' /\ Removing' /\ RootIsBack' /\ AllIsBack'
    BY <1>1, <1>2, <1>4, <2>1 DEF Restoring, Removing, RootIsBack, AllIsBack
  <2>3. QED
    BY <2>1, <2>2, PcInvByStep DEF PcInvAt, Step
<1>7. CASE CopyRoot
  <2>1. pc' = "extra" /\ rec' = snap[cur].rec /\ FreshIds'
    BY <1>1, <1>2, <1>5, <1>7, FreshStays DEF CopyRoot
  <2>2. snap[cur].missing = {}
    BY <1>3 DEF SafeBackup, WholeBackup, Whole
  <2>3. \A f \in RootFile : f \notin missing' /\ disk'[f] = snap[cur].disk[f]
    BY <1>7, <2>2 DEF CopyRoot, RootCopied, File
  <2>4. Restoring' /\ Removing' /\ RootIsBack' /\ AllIsBack'
    BY <1>1, <1>2, <1>4, <2>1, <2>3 DEF Restoring, Removing, RootIsBack, AllIsBack
  <2>5. QED
    BY <2>1, <2>4, PcInvByStep DEF PcInvAt, Step
<1>8. CASE RestoreExtras
  <2>1. pc' = "restored" /\ rec' = rec /\ rec = snap[cur].rec /\ FreshIds'
    BY <1>1, <1>2, <1>8, FreshStays DEF RestoreExtras, PcInv, RootIsBack
  <2>2. snap[cur].missing = {}
    BY <1>3 DEF SafeBackup, WholeBackup, Whole
  <2>3. \A f \in RootFile : f \notin missing /\ disk[f] = snap[cur].disk[f]
    BY <1>8 DEF RestoreExtras, PcInv, RootIsBack
  <2>4. missing' = {} /\ \A f \in File : disk'[f] = snap[cur].disk[f]
    BY <1>8, <2>2, <2>3 DEF RestoreExtras, RootCopied, File, TypeOK
  <2>5. Restoring' /\ Removing' /\ RootIsBack' /\ AllIsBack'
    BY <1>1, <1>2, <1>4, <2>1, <2>4 DEF Restoring, Removing, RootIsBack, AllIsBack, File
  <2>6. QED
    BY <2>1, <2>5, PcInvByStep DEF PcInvAt, Step
<1>9. CASE WriteEnding
  <2>1. SafeNow /\ rec = snap[cur].rec
    BY <1>1, <1>9, RestoredIsSafe DEF WriteEnding, PcInv, RootIsBack
  <2>2. rec[cur] = "none"
    BY <1>3, <2>1 DEF SafeBackup, WholeBackup
  <2>3. pc' = "cleanup" /\ rec' = [rec EXCEPT ![cur] = ending] /\ disk' = disk
        /\ missing' = missing
    BY <1>9 DEF WriteEnding
  <2>4. Committed(rec)' = Committed(rec) /\ Started(rec)' = Started(rec)
    BY <1>3, <2>2, <2>3 DEF TypeOK
  <2>5. SafeNow'
    BY <1>2, <2>1, <2>3, <2>4 DEF SafeNow, WholeNow, Whole, Acked, CommittedKeys
  <2>6. Cleaning'
    BY <1>1, <1>2, <1>3, <2>3, <2>5 DEF Cleaning, Restoring, TypeOK
  <2>7. FreshIds'
    BY <1>1, <1>2, <1>3, <2>3, FreshStays DEF TypeOK
  <2>8. QED
    BY <2>3, <2>6, <2>7, PcInvByStep DEF PcInvAt, Step
<1>10. QED
  BY <1>6, <1>7, <1>8, <1>9 DEF Restore

LEMMA CleanupStep ==
  ASSUME TypeOK, PcInv, Cleanup
  PROVE  PcInv'
<1>1. Cleaning /\ FreshIds /\ pc = "cleanup" /\ cur \in Tx /\ SafeNow
  BY DEF Cleanup, ReturnCommitted, RethrowFailed, EndRecovered, PcInv, Cleaning
<1>2. /\ disk' = disk /\ missing' = missing /\ rec' = rec /\ txKey' = txKey
      /\ DropBackups({cur})
  BY DEF Cleanup, ReturnCommitted, RethrowFailed, EndRecovered, histVars
<1>3. FreshIds'
  BY <1>1, <1>2, FreshStays, DropKeeps
<1>4. CASE ReturnCommitted
  <2>1. key \in CommittedKeys(rec)
    BY <1>1, <1>4 DEF ReturnCommitted, Cleaning, CommittedKeys
  <2>2. SafeNow' /\ pc' = "idle"
    BY <1>1, <1>2, <1>4, <2>1 DEF ReturnCommitted, Leave, SafeNow, WholeNow, Whole, Acked,
                                   CommittedKeys
  <2>3. QED
    BY <1>3, <2>2, PcInvByStep DEF PcInvAt, Step, Restartable
<1>5. CASE RethrowFailed
  <2>1. SafeNow' /\ pc' = "idle"
    BY <1>1, <1>2, <1>5, NowStays DEF RethrowFailed, Leave, histVars
  <2>2. QED
    BY <1>3, <2>1, PcInvByStep DEF PcInvAt, Step, Restartable
<1>6. CASE EndRecovered
  <2>1. SafeNow' /\ pc' = "recover" /\ todo' = {}
    BY <1>1, <1>2, <1>6, NowStays DEF EndRecovered, Cleaning, histVars
  <2>2. QED
    BY <1>3, <2>1, PcInvByStep DEF PcInvAt, Step, Recovering
<1>7. QED
  BY <1>4, <1>5, <1>6 DEF Cleanup

\* A crash that does not cut a restore leaves what a restart can use.
LEMMA CrashStep ==
  ASSUME TypeOK, PcInv, Crash, ~cut'
  PROVE  PcInv'
<1>1. FreshIds
  BY DEF PcInv
<1>2. CASE CrashBetweenSteps
  <2>1. Restartable
    <3>1. CASE pc \in {"scan", "recover", "lookup", "backup", "cleanup"}
      BY <3>1 DEF PcInv, AtRest, Recovering, Looking, BackedUp, Cleaning, Restartable
    <3>2. CASE pc = "action"
      BY <3>2, ActingIsRestartable DEF PcInv
    <3>3. CASE pc = "restored"
      BY <3>3, RestoredIsSafe DEF PcInv, Restartable
    <3>4. QED
      BY <1>2, <3>1, <3>2, <3>3 DEF CrashBetweenSteps, Step
  <2>2. pc' = "idle" /\ Restartable' /\ FreshIds'
    BY <1>1, <1>2, <2>1, RestartableStays, FreshStays
       DEF CrashBetweenSteps, Leave, diskVars, histVars
  <2>3. QED
    BY <2>2, PcInvByStep DEF PcInvAt, Step
<1>3. CASE CrashInRemove
  <2>1. PICK t \in Tx : t = cur /\ SafeBackup(t) /\ Started(rec) = {t}
    BY <1>3 DEF CrashInRemove, PcInv, Restoring, Removing
  <2>2. PICK R \in SUBSET Tx :
          /\ rec' = [u \in Tx |-> IF u \in R THEN "none" ELSE rec[u]]
          /\ cut' = (cut \/ cur \in R)
    BY <1>3 DEF CrashInRemove
  <2>3. Started(rec)' = {t}
    BY <2>1, <2>2
  <2>4. SafeBackup(t)'
    BY <1>3, <2>1, BackupStays DEF CrashInRemove, SafeBackup, WholeBackup
  <2>5. FreshIds'
    <3>1. UNCHANGED <<txKey, snap, backups>>
      BY <1>3 DEF CrashInRemove
    <3>2. \A u \in Unused : rec[u] = "none" => rec'[u] = "none"
      BY <2>2 DEF Unused
    <3>3. QED
      BY <1>1, <3>1, <3>2, FreshStays
  <2>6. pc' = "idle"
    BY <1>3 DEF CrashInRemove, Leave
  <2>7. QED
    BY <2>1, <2>3, <2>4, <2>5, <2>6, PcInvByStep DEF PcInvAt, Step, Restartable
<1>4. CASE CrashInCopy \/ CrashInExtras
  BY <1>4 DEF CrashInCopy, CrashInExtras
<1>5. QED
  BY <1>2, <1>3, <1>4 DEF Crash

----------------------------------------------------------------------------
(* The theorems.                                                           *)

Sound == TInv /\ (cut \/ PcInv)

LEMMA SoundInit == Init => Sound
<1> SUFFICES ASSUME Init
             PROVE  Sound
  OBVIOUS
<1>1. TInv
  BY NoSnapshotType DEF Init, TInv, TypeOK, HolderIsSound, Step, Status
<1>2. SafeNow /\ FreshIds /\ pc = "idle"
  BY DEF Init, SafeNow, WholeNow, Whole, Acked, FreshIds, Unused
<1>3. QED
  BY <1>1, <1>2, PcInvByStep DEF Sound, PcInvAt, Step, Restartable

LEMMA CutLasts == [Next]_vars /\ cut => cut'
  BY DEF Next, Call, EnterRecovery, Enter, Recover, ScanStarted, RestoreStarted, SweepOrphans,
         Transact, Replay, TakeBackup, WriteStarted, WriteFile, Commit, Throw,
         Restore, RemoveRoot, CopyRoot, RestoreExtras, WriteEnding,
         Cleanup, ReturnCommitted, RethrowFailed, EndRecovered,
         Crash, CrashBetweenSteps, CrashInRemove, CrashInCopy, CrashInExtras,
         vars, histVars

LEMMA SoundStep == Sound /\ [Next]_vars => Sound'
<1> SUFFICES ASSUME Sound, [Next]_vars
             PROVE  Sound'
  OBVIOUS
<1>1. TInv' /\ TypeOK /\ TypeOK'
  BY TypeStep DEF Sound, TInv
<1>2. cut => cut'
  BY CutLasts
<1>3. ASSUME ~cut'
      PROVE  PcInv'
  <2>1. PcInv
    BY <1>2, <1>3 DEF Sound
  <2>2. CASE Next
    BY <1>1, <1>3, <2>1, <2>2, CallStep, RecoverStep, TransactStep, RestoreStep,
       CleanupStep, CrashStep DEF Next
  <2>3. CASE UNCHANGED vars
    BY <2>1, <2>3 DEF vars, diskVars, procVars, histVars, PcInv, FreshIds, Unused, AtRest,
       Restartable, Recovering, Looking, BackedUp, Acting, Restoring, Removing, RootIsBack,
       AllIsBack, Cleaning, SafeNow, SafeBackup, WholeNow, WholeBackup, Whole, NewKey, Acked,
       CommittedKeys
  <2>4. QED
    BY <2>2, <2>3
<1>4. QED
  BY <1>1, <1>3 DEF Sound

\* Until a crash cuts a restore short, the project store survives a crash
\* anywhere: with no process inside, the disk is whole or a started record
\* points to a whole backup.
THEOREM CrashSafe == Spec => []Recoverable
<1>1. Sound => Recoverable
  BY DEF Sound, PcInv, AtRest, Restartable, Recoverable, SafeNow, SafeBackup
<1>2. QED
  BY <1>1, SoundInit, SoundStep, PTL DEF Spec

\* No success that was reported to a caller is undone.
THEOREM AcknowledgedSurvives == Spec => []AcknowledgedIsDurable
<1>1. Sound => AcknowledgedIsDurable
  <2> SUFFICES ASSUME Sound, ~cut
               PROVE  \/ Acked(rec)
                      \/ \E t \in backups : Acked(snap[t].rec)
    BY DEF AcknowledgedIsDurable, Acked
  <2>1. PcInv /\ pc \in Step
    BY DEF Sound, TInv, TypeOK
  <2>2. SafeNow \/ \E t \in Tx : SafeBackup(t)
    BY <2>1 DEF PcInv, Step, AtRest, Restartable, Recovering, Looking, BackedUp, Acting,
                Restoring, Cleaning
  <2>3. QED
    BY <2>2 DEF SafeNow, SafeBackup, WholeBackup
<1>2. QED
  BY <1>1, SoundInit, SoundStep, PTL DEF Spec

\* An action runs on a whole store that has not taken its key's effect.
THEOREM ActionsStartClean == Spec => []ActionStartsClean
<1>1. Sound => ActionStartsClean
  <2> SUFFICES ASSUME Sound, pc = "action", ~cut
               PROVE  Started(rec) = {cur} /\ WholeBackup(cur) /\ key \notin CommittedKeys(rec)
    BY DEF ActionStartsClean
  <2>1. Acting /\ TypeOK
    BY DEF Sound, PcInv, TInv
  <2>2. Started(rec) = {cur} /\ Committed(rec) = Committed(snap[cur].rec)
    BY <2>1, ActingRecord
  <2>3. QED
    BY <2>1, <2>2 DEF Acting, NewKey, SafeBackup, CommittedKeys
<1>2. QED
  BY <1>1, SoundInit, SoundStep, PTL DEF Spec

----------------------------------------------------------------------------
(* The refinement of AtomicStore.                                          *)

\* The store as the callers see it: the keys each file's lasting copy carries.
Content == [f \in File |-> {txKey[t] : t \in Lasting[f]}]

LEMMA DiskLasts ==
  ASSUME InFlight = {}
  PROVE  Lasting = disk
  BY DEF Lasting

LEMMA BackupLasts ==
  ASSUME NEW t, InFlight = {t}
  PROVE  Lasting = snap[t].disk
  BY DEF Lasting

\* Where the restore in progress stands decides with the records what lasts.
LEMMA SettledInFlight ==
  ASSUME pc \notin {"cp", "extra"}
  PROVE  InFlight = Started(rec)
  BY DEF InFlight

LEMMA RestoringInFlight ==
  ASSUME pc \in {"cp", "extra"}, cur \in Tx, Started(rec) = {}
  PROVE  InFlight = {cur}
  BY DEF InFlight

\* Between the removal and the copy no record is there.
Cleared == pc = "cp" => Started(rec) = {}

LEMMA ClearedStep == Cleared /\ [Next]_vars => Cleared'
<1> SUFFICES ASSUME Cleared, [Next]_vars, pc' = "cp"
             PROVE  Started(rec)' = {}
  BY DEF Cleared
<1>1. RemoveRoot \/ UNCHANGED vars
  BY DEF Next, Call, EnterRecovery, Enter, Recover, ScanStarted, RestoreStarted, SweepOrphans,
         Transact, Replay, TakeBackup, WriteStarted, WriteFile, Commit, Throw,
         Restore, CopyRoot, RestoreExtras, WriteEnding, Leave, procVars,
         Cleanup, ReturnCommitted, RethrowFailed, EndRecovered,
         Crash, CrashBetweenSteps, CrashInRemove, CrashInCopy, CrashInExtras
<1>2. QED
  BY <1>1 DEF RemoveRoot, vars, diskVars, procVars, Cleared

LEMMA ContentStays ==
  ASSUME \A f \in File : Lasting'[f] = Lasting[f], UNCHANGED txKey
  PROVE  Content' = Content
  BY DEF Content

\* Nothing that the restart would look at has changed.
LEMMA SameFiles ==
  ASSUME UNCHANGED <<disk, rec, snap, txKey>>,
         pc \notin {"cp", "extra"}, pc' \notin {"cp", "extra"}
  PROVE  Content' = Content
<1>1. InFlight' = InFlight
  BY SettledInFlight DEF InFlight
<1>2. Lasting' = Lasting
  BY <1>1 DEF Lasting
<1>3. QED
  BY <1>2, ContentStays

\* The disk is whole before and after.
LEMMA SameDisk ==
  ASSUME InFlight = {}, InFlight' = {}, UNCHANGED <<disk, txKey>>
  PROVE  Content' = Content
<1>1. Lasting = disk
  BY DiskLasts
<1>2. Lasting' = disk'
  BY DEF Lasting
<1>3. QED
  BY <1>1, <1>2, ContentStays

\* The attempt in flight still has its backup.
LEMMA SameBackup ==
  ASSUME NEW t \in Tx, InFlight = {t}, InFlight' = {t}, snap'[t] = snap[t], UNCHANGED txKey
  PROVE  Content' = Content
<1>1. Lasting = snap[t].disk
  BY BackupLasts
<1>2. Lasting' = snap'[t].disk
  BY DEF Lasting
<1>3. QED
  BY <1>1, <1>2, ContentStays

LEMMA RecoverIsStutter ==
  ASSUME TypeOK, PcInv, Call \/ Recover
  PROVE  Content' = Content /\ acked' = acked
<1>1. acked' = acked /\ txKey' = txKey
  BY DEF Call, EnterRecovery, Enter, Recover, ScanStarted, RestoreStarted, SweepOrphans, histVars
<1>2. CASE SweepOrphans
  <2>1. SafeNow /\ Started(rec) = {}
    BY <1>2, WholeIsSettled DEF SweepOrphans, PcInv, Recovering
  <2>2. pc \notin {"cp", "extra"} /\ pc' \notin {"cp", "extra"} /\ rec' = rec /\ disk' = disk
    BY <1>2 DEF SweepOrphans, Leave
  <2>3. InFlight = {} /\ InFlight' = {}
    BY <2>1, <2>2 DEF InFlight
  <2>4. QED
    BY <1>1, <2>2, <2>3, SameDisk
<1>3. CASE Call \/ ScanStarted \/ \E t \in Tx : RestoreStarted(t)
  <2>1. UNCHANGED <<disk, rec, snap>> /\ pc \notin {"cp", "extra"} /\ pc' \notin {"cp", "extra"}
    BY <1>3 DEF Call, EnterRecovery, Enter, ScanStarted, RestoreStarted, diskVars
  <2>2. QED
    BY <1>1, <2>1, SameFiles
<1>4. QED
  BY <1>2, <1>3 DEF Recover

LEMMA BackupIsStutter ==
  ASSUME TypeOK, PcInv, NEW t \in Tx, TakeBackup(t)
  PROVE  Content' = Content /\ acked' = acked
<1>1. SafeNow /\ Started(rec) = {} /\ rec[t] = "none"
  BY WholeIsSettled DEF TakeBackup, PcInv, Looking, FreshIds
<1>2. /\ pc = "lookup" /\ pc' = "backup" /\ disk' = disk /\ rec' = rec /\ acked' = acked
      /\ txKey' = [txKey EXCEPT ![t] = key]
  BY DEF TakeBackup
<1>3. InFlight = {} /\ InFlight' = {}
  BY <1>1, <1>2 DEF InFlight
<1>4. Lasting = disk /\ Lasting' = disk
  BY <1>2, <1>3 DEF Lasting
<1>5. \A f \in File : t \notin disk[f]
  BY <1>1 DEF SafeNow, WholeNow, Whole
<1>6. \A f \in File : disk[f] \subseteq Tx
  BY DEF TypeOK
<1>7. \A f \in File : {txKey'[u] : u \in disk[f]} = {txKey[u] : u \in disk[f]}
  BY <1>2, <1>5, <1>6 DEF TypeOK
<1>8. QED
  BY <1>2, <1>4, <1>7 DEF Content

LEMMA StartedIsStutter ==
  ASSUME TypeOK, PcInv, WriteStarted
  PROVE  Content' = Content /\ acked' = acked
<1>1. /\ cur \in Tx /\ SafeNow /\ Started(rec) = {}
      /\ \A f \in File : disk[f] = snap[cur].disk[f]
  BY WholeIsSettled DEF WriteStarted, PcInv, BackedUp
<1>2. /\ pc = "backup" /\ pc' = "action" /\ UNCHANGED <<disk, snap, txKey, acked>>
      /\ rec' = [rec EXCEPT ![cur] = "started"]
  BY DEF WriteStarted, histVars
<1>3. InFlight = {} /\ InFlight' = {cur}
  BY <1>1, <1>2 DEF InFlight, TypeOK
<1>4. Lasting = disk /\ Lasting' = snap[cur].disk
  BY <1>2, <1>3 DEF Lasting
<1>5. QED
  BY <1>1, <1>2, <1>4, ContentStays

\* The commit record is what applies the effect, to every file at once.
LEMMA CommitApplies ==
  ASSUME TypeOK, PcInv, Commit
  PROVE  Store!StoreNext
<1>1. /\ pc = "action" /\ pc' = "cleanup" /\ UNCHANGED <<disk, snap, txKey, acked>>
      /\ rec' = [rec EXCEPT ![cur] = "committed"]
      /\ \A f \in File : cur \in disk[f]
  BY DEF Commit, histVars
<1>2. /\ cur \in Tx /\ SafeBackup(cur) /\ key \in Key /\ txKey[cur] = key
      /\ key \notin CommittedKeys(snap[cur].rec)
      /\ \A f \in File : disk[f] \ {cur} = snap[cur].disk[f]
  BY <1>1 DEF PcInv, Acting, NewKey
<1>3. Started(rec) = {cur}
  BY <1>1, ActingRecord DEF PcInv
<1>4. InFlight = {cur} /\ InFlight' = {}
  BY <1>1, <1>3 DEF InFlight, TypeOK
<1>5. Lasting = snap[cur].disk /\ Lasting' = disk
  BY <1>1, <1>4 DEF Lasting
<1>6. \A f \in File : snap[cur].disk[f] = Committed(snap[cur].rec)
  BY <1>2 DEF SafeBackup, WholeBackup, Whole
<1>7. \A f \in File : key \notin {txKey[t] : t \in snap[cur].disk[f]}
  BY <1>2, <1>6 DEF CommittedKeys
<1>8. \A f \in File : disk[f] = snap[cur].disk[f] \cup {cur}
  BY <1>1, <1>2
<1>9. \A f \in File : {txKey[t] : t \in disk[f]} = {txKey[t] : t \in snap[cur].disk[f]} \cup {key}
  BY <1>2, <1>8
<1>10. Store!Apply(key)
  BY <1>1, <1>5, <1>7, <1>9 DEF Store!Apply
<1>11. QED
  BY <1>2, <1>10 DEF Store!StoreNext, Store!Apply, Store!Acknowledge

LEMMA ActionIsStutter ==
  ASSUME TypeOK, PcInv, Throw \/ \E f \in File : WriteFile(f)
  PROVE  Content' = Content /\ acked' = acked
<1>1. /\ pc = "action" /\ pc' \notin {"cp", "extra"} /\ UNCHANGED <<rec, snap, txKey, acked>>
  BY DEF Throw, WriteFile, diskVars, procVars, histVars
<1>2. cur \in Tx /\ Started(rec) = {cur}
  BY <1>1, ActingRecord DEF PcInv, Acting
<1>3. InFlight = {cur} /\ InFlight' = {cur}
  BY <1>1, <1>2 DEF InFlight
<1>4. QED
  BY <1>1, <1>2, <1>3, SameBackup

LEMMA RestoreIsStutter ==
  ASSUME TypeOK, PcInv, Cleared, Restore
  PROVE  Content' = Content /\ acked' = acked
<1>1. UNCHANGED <<snap, cur, txKey, acked>>
  BY DEF Restore, RemoveRoot, CopyRoot, RestoreExtras, WriteEnding, histVars
<1>2. /\ cur \in Tx /\ SafeBackup(cur) /\ Started(snap[cur].rec) = {}
  BY DEF Restore, RemoveRoot, CopyRoot, RestoreExtras, WriteEnding, PcInv, Restoring,
         SafeBackup, WholeBackup, Whole
<1>3. CASE RemoveRoot
  <2>1. Started(rec) = {cur} /\ pc = "rm" /\ pc' = "cp" /\ rec' = [t \in Tx |-> "none"]
    BY <1>3 DEF RemoveRoot, PcInv, Removing
  <2>2. InFlight = {cur} /\ InFlight' = {cur}
    BY <1>1, <1>2, <2>1 DEF InFlight
  <2>3. QED
    BY <1>1, <1>2, <2>2, SameBackup
<1>4. CASE CopyRoot
  <2>1. Started(rec) = {}
    BY <1>4 DEF CopyRoot, Cleared
  <2>2. InFlight = {cur} /\ InFlight' = {cur}
    BY <1>1, <1>2, <1>4, <2>1 DEF CopyRoot, InFlight
  <2>3. QED
    BY <1>1, <1>2, <2>2, SameBackup
<1>5. CASE RestoreExtras
  <2>1. /\ pc = "extra" /\ pc' = "restored" /\ rec' = rec /\ rec = snap[cur].rec
        /\ \A f \in RootFile : disk[f] = snap[cur].disk[f]
        /\ disk' = [f \in File |-> IF f \in ExtraFile THEN snap[cur].disk[f] ELSE disk[f]]
    BY <1>5 DEF RestoreExtras, RootCopied, PcInv, RootIsBack
  <2>2. InFlight = {cur} /\ InFlight' = {}
    BY <1>1, <1>2, <2>1 DEF InFlight
  <2>3. Lasting = snap[cur].disk /\ Lasting' = disk'
    BY <2>2 DEF Lasting
  <2>4. \A f \in File : disk'[f] = snap[cur].disk[f]
    BY <2>1 DEF File
  <2>5. QED
    BY <1>1, <2>3, <2>4, ContentStays
<1>6. CASE WriteEnding
  <2>1. /\ pc = "restored" /\ pc' = "cleanup" /\ disk' = disk
        /\ rec' = [rec EXCEPT ![cur] = ending] /\ rec = snap[cur].rec
    BY <1>6 DEF WriteEnding, PcInv, RootIsBack
  <2>2. InFlight = {} /\ InFlight' = {}
    BY <1>2, <2>1 DEF InFlight, TypeOK
  <2>3. QED
    BY <1>1, <2>1, <2>2, SameDisk
<1>7. QED
  BY <1>3, <1>4, <1>5, <1>6 DEF Restore

\* Success is told only to callers whose key the disk carries.
LEMMA AcknowledgeIsSound ==
  ASSUME TypeOK, SafeNow, InFlight = {}, InFlight' = {}, NEW t \in Tx, rec[t] = "committed",
         key = txKey[t], key \in Key, acked' = acked \cup {key}, UNCHANGED <<disk, txKey>>
  PROVE  Store!StoreNext
<1>1. Content' = Content
  BY SameDisk
<1>2. Lasting = disk
  BY DiskLasts
<1>3. \A f \in File : t \in disk[f]
  BY DEF SafeNow, WholeNow, Whole
<1>4. \A f \in File : key \in {txKey[u] : u \in Lasting[f]}
  BY <1>2, <1>3
<1>5. Store!Acknowledge(key)
  BY <1>1, <1>4 DEF Store!Acknowledge, Content
<1>6. QED
  BY <1>5 DEF Store!StoreNext, Store!Apply, Store!Acknowledge

LEMMA ReplayAcknowledges ==
  ASSUME TypeOK, PcInv, Replay
  PROVE  Store!StoreNext
<1>1. /\ pc = "lookup" /\ pc' = "idle" /\ UNCHANGED <<disk, rec, txKey>>
      /\ acked' = acked \cup {key} /\ key \in CommittedKeys(rec)
  BY DEF Replay, Leave, AlreadyCommitted, diskVars
<1>2. SafeNow /\ key \in Key /\ Started(rec) = {}
  BY <1>1, WholeIsSettled DEF PcInv, Looking
<1>3. PICK t \in Tx : rec[t] = "committed" /\ key = txKey[t]
  BY <1>1 DEF CommittedKeys
<1>4. InFlight = {} /\ InFlight' = {}
  BY <1>1, <1>2 DEF InFlight
<1>5. QED
  BY <1>1, <1>2, <1>3, <1>4, AcknowledgeIsSound

LEMMA CleanupAcknowledges ==
  ASSUME TInv, PcInv, Cleanup
  PROVE  Store!StoreNext \/ (Content' = Content /\ acked' = acked)
<1>1. /\ pc = "cleanup" /\ pc' \in {"idle", "recover"} /\ UNCHANGED <<disk, rec, txKey>>
  BY DEF Cleanup, ReturnCommitted, RethrowFailed, EndRecovered, Leave, histVars
<1>2. SafeNow /\ cur \in Tx /\ Started(rec) = {} /\ TypeOK
  BY <1>1, WholeIsSettled DEF PcInv, Cleaning, TInv
<1>3. InFlight = {} /\ InFlight' = {}
  BY <1>1, <1>2 DEF InFlight
<1>4. CASE ReturnCommitted
  <2>1. rec[cur] = "committed" /\ acked' = acked \cup {key} /\ txKey[cur] = key /\ key \in Key
    BY <1>1, <1>4 DEF ReturnCommitted, PcInv, Cleaning, TInv, HolderIsSound
  <2>2. QED
    BY <1>1, <1>2, <1>3, <2>1, AcknowledgeIsSound
<1>5. CASE RethrowFailed \/ EndRecovered
  <2>1. acked' = acked
    BY <1>5 DEF RethrowFailed, EndRecovered, histVars
  <2>2. QED
    BY <1>1, <1>3, <2>1, SameDisk
<1>6. QED
  BY <1>4, <1>5 DEF Cleanup

\* A kill that cuts no restore takes nothing from what lasts: the disk it
\* leaves may be torn, but then the record that points to the backup stands.
LEMMA CrashIsStutter ==
  ASSUME TInv, PcInv, Crash, ~cut'
  PROVE  Content' = Content /\ acked' = acked
<1>1. CASE CrashBetweenSteps
  <2>1. /\ UNCHANGED <<disk, rec, snap, txKey, acked>>
        /\ pc \notin {"cp", "extra"} /\ pc' \notin {"cp", "extra"}
    BY <1>1 DEF CrashBetweenSteps, Leave, diskVars, histVars, Step
  <2>2. QED
    BY <2>1, SameFiles
<1>2. CASE CrashInRemove
  <2>1. PICK F \in SUBSET RootFile, R \in SUBSET Tx :
          /\ rec' = [t \in Tx |-> IF t \in R THEN "none" ELSE rec[t]]
          /\ cut' = (cut \/ cur \in R)
    BY <1>2 DEF CrashInRemove
  <2>2. pc = "rm" /\ pc' = "idle" /\ UNCHANGED <<snap, txKey, acked>> /\ cur \notin R
    BY <1>2, <2>1 DEF CrashInRemove, Leave
  <2>3. Started(rec) = {cur} /\ cur \in Tx
    BY <2>2 DEF PcInv, Removing, Restoring
  <2>4. InFlight = {cur} /\ InFlight' = {cur}
    BY <2>1, <2>2, <2>3 DEF InFlight
  <2>5. QED
    BY <2>2, <2>3, <2>4, SameBackup
<1>3. CASE CrashInCopy \/ CrashInExtras
  BY <1>3 DEF CrashInCopy, CrashInExtras
<1>4. QED
  BY <1>1, <1>2, <1>3 DEF Crash

LEMMA StepsImplement ==
  ASSUME TInv, PcInv, Cleared, [Next]_vars, ~cut'
  PROVE  [Store!StoreNext]_(Store!storeVars)
<1> SUFFICES Store!StoreNext \/ (Content' = Content /\ acked' = acked)
  BY DEF Store!storeVars, Content
<1>1. TypeOK
  BY DEF TInv
<1>2. CASE Call \/ Recover
  BY <1>1, <1>2, RecoverIsStutter
<1>3. CASE Transact
  <2>1. CASE Replay
    BY <1>1, <2>1, ReplayAcknowledges
  <2>2. CASE \E t \in Tx : TakeBackup(t)
    BY <1>1, <2>2, BackupIsStutter
  <2>3. CASE WriteStarted
    BY <1>1, <2>3, StartedIsStutter
  <2>4. CASE Commit
    BY <1>1, <2>4, CommitApplies
  <2>5. CASE Throw \/ \E f \in File : WriteFile(f)
    BY <1>1, <2>5, ActionIsStutter
  <2>6. QED
    BY <1>3, <2>1, <2>2, <2>3, <2>4, <2>5 DEF Transact
<1>4. CASE Restore
  BY <1>1, <1>4, RestoreIsStutter
<1>5. CASE Cleanup
  BY <1>5, CleanupAcknowledges
<1>6. CASE Crash
  BY <1>6, CrashIsStutter
<1>7. CASE UNCHANGED vars
  BY <1>7 DEF vars, diskVars, procVars, histVars, Content, Lasting, InFlight
<1>8. QED
  BY <1>2, <1>3, <1>4, <1>5, <1>6, <1>7 DEF Next

\* The first store is empty.
LEMMA InitImplements == Init => Store!StoreInit /\ Cleared
  BY DEF Init, Store!StoreInit, Lasting, InFlight, Cleared

\* To its callers a transaction is atomic and applied once per key, crashes and
\* rollbacks unseen: up to the first cut, every step is AtomicStore's or none.
THEOREM TransactionsAreAtomic == Spec => ImplementsAtomicStore
<1>1. Sound /\ Cleared /\ [Next]_vars => [~cut' => [Store!StoreNext]_(Store!storeVars)]_vars
  <2> SUFFICES ASSUME Sound, Cleared, [Next]_vars, ~cut'
               PROVE  [Store!StoreNext]_(Store!storeVars)
    OBVIOUS
  <2>1. cut => cut'
    BY CutLasts
  <2>2. TInv /\ PcInv
    BY <2>1 DEF Sound
  <2>3. QED
    BY <2>2, StepsImplement
<1>2. QED
  BY <1>1, SoundInit, SoundStep, InitImplements, ClearedStep, PTL DEF Spec, ImplementsAtomicStore

-----------------------------------------------------------------------------
(* The locks that a transaction relies on: each fails only when a clearing  *)
(* hits a live process.  LockInv: until then whoever made the directory,    *)
(* and goes on to release it, is the one whose directory is at the lock     *)
(* path.  First the steps that the locks share, then those of each lock.    *)

OwnsPath(p) ==
  /\ at[p] = "made" => lock = [maker |-> p, owner |-> None]
  /\ at[p] \in {"in", "release"} => lock = [maker |-> p, owner |-> p]

LockInv == LockTypeOK /\ (misfired \/ \A p \in Proc : OwnsPath(p))

LEMMA LockInitInv == LockInit => LockInv
<1> SUFFICES ASSUME LockInit
             PROVE  LockInv
  OBVIOUS
<1>1. LockTypeOK
  BY DEF LockInit, LockTypeOK, Dir, NoDir, LockStep
<1>2. \A p \in Proc : OwnsPath(p)
  BY DEF LockInit, OwnsPath
<1>3. QED
  BY <1>1, <1>2 DEF LockInv

\* Two processes never own the path.
LEMMA LockIsExclusive == LockInv => OnlyMisfiresBreakTheLock
  BY LockAssumption
     DEF LockInv, OwnsPath, OnlyMisfiresBreakTheLock, MutualExclusion, LockAssumption

\* A live process with a stake in the path keeps it.
LEMMA DisturbedOwner ==
  ASSUME LockInv, NEW q \in Proc, Disturbs(lock), ~misfired',
         at[q] \in {"made", "in", "release"}
  PROVE  FALSE
<1>0. ~misfired
  BY DEF Disturbs
<1>1. lock.maker = q
  BY <1>0 DEF LockInv, OwnsPath
<1>2. Alive(q) /\ q # None
  BY LockAssumption DEF Alive, LockAssumption
<1>3. QED
  BY <1>1, <1>2 DEF Disturbs

LEMMA SharedType ==
  ASSUME LockTypeOK, NEW p \in Proc, SharedStep(p) \/ Environment(p) \/ Age
  PROVE  LockTypeOK'
<1>1. CASE Mkdir(p)
  <2>1. at' \in [Proc -> LockStep]
    BY <1>1 DEF Mkdir, Goto, LockTypeOK, LockStep
  <2>2. lock' \in Dir /\ aged' \in BOOLEAN
    <3>1. \/ lock' = [maker |-> p, owner |-> None] /\ aged' = FALSE
          \/ lock' = lock /\ aged' = aged
      BY <1>1 DEF Mkdir
    <3>2. [maker |-> p, owner |-> None] \in Dir
      BY DEF Dir
    <3>3. QED
      BY <3>1, <3>2 DEF LockTypeOK
  <2>3. QED
    BY <1>1, <2>1, <2>2 DEF Mkdir, LockTypeOK
<1>2. CASE WriteOwner(p)
  BY <1>2 DEF WriteOwner, Goto, LockTypeOK, Dir, LockStep
<1>3. CASE ReadOwner(p)
  <2>1. lock.owner \in Proc \cup {None}
    BY DEF LockTypeOK, Dir
  <2>2. QED
    BY <1>3, <2>1 DEF ReadOwner, Goto, LockTypeOK, LockStep
<1>4. CASE CheckAge(p) \/ CheckOwner(p) \/ Wait(p) \/ BeginRelease(p)
  BY <1>4 DEF CheckAge, CheckOwner, Wait, BeginRelease, Goto, LockTypeOK, LockStep
<1>5. CASE Release(p)
  BY <1>5 DEF Release, Goto, LockTypeOK, Dir, NoDir, LockStep
<1>6. CASE Environment(p)
  BY <1>6 DEF Environment, Start, Timeout, Exit, Kill, Vanish, Goto, LockTypeOK, Dir, NoDir,
              LockStep
<1>7. CASE Age
  BY <1>7 DEF Age, LockTypeOK
<1>8. QED
  BY <1>1, <1>2, <1>3, <1>4, <1>5, <1>6, <1>7 DEF SharedStep

LEMMA SharedOwns ==
  ASSUME LockTypeOK, \A q \in Proc : OwnsPath(q), ~misfired,
         NEW p \in Proc, SharedStep(p) \/ Environment(p) \/ Age,
         NEW q \in Proc
  PROVE  OwnsPath(q)'
<1>0. p # None /\ q # None
  BY LockAssumption DEF LockAssumption
<1>1. CASE Mkdir(p)
  <2>1. CASE Exists
    BY <1>1, <2>1 DEF Mkdir, Goto, LockTypeOK, OwnsPath
  <2>2. CASE ~Exists
    <3>1. at[q] \notin {"made", "in", "release"}
      BY <1>0, <2>2 DEF Exists, NoDir, OwnsPath
    <3>2. QED
      BY <1>1, <2>2, <3>1 DEF Mkdir, Goto, LockTypeOK, OwnsPath
  <2>3. QED
    BY <2>1, <2>2
<1>2. CASE WriteOwner(p)
  <2>1. lock = [maker |-> p, owner |-> None] /\ Exists
    BY <1>0, <1>2 DEF WriteOwner, OwnsPath, Exists, NoDir
  <2>2. lock' = [maker |-> p, owner |-> p] /\ at' = [at EXCEPT ![p] = "in"]
    BY <1>2, <2>1 DEF WriteOwner, Goto
  <2>3. q # p => at[q] \notin {"made", "in", "release"}
    BY <2>1 DEF OwnsPath
  <2>4. QED
    BY <2>2, <2>3 DEF LockTypeOK, OwnsPath
<1>3. CASE ReadOwner(p) \/ CheckAge(p) \/ CheckOwner(p) \/ Wait(p) \/ BeginRelease(p)
  BY <1>3 DEF ReadOwner, CheckAge, CheckOwner, Wait, BeginRelease, Goto, LockTypeOK, OwnsPath
<1>4. CASE Release(p)
  <2>1. lock = [maker |-> p, owner |-> p]
    BY <1>4 DEF Release, OwnsPath
  <2>2. q # p => at[q] \notin {"made", "in", "release"}
    BY <1>0, <2>1 DEF OwnsPath
  <2>3. QED
    BY <1>4, <2>2 DEF Release, Goto, LockTypeOK, OwnsPath
<1>5. CASE Environment(p)
  BY <1>5 DEF Environment, Start, Timeout, Exit, Kill, Vanish, Goto, LockTypeOK, OwnsPath
<1>6. CASE Age
  BY <1>6 DEF Age, OwnsPath
<1>7. QED
  BY <1>1, <1>2, <1>3, <1>4, <1>5, <1>6 DEF SharedStep

LEMMA SharedInv ==
  ASSUME LockInv, NEW p \in Proc, SharedStep(p) \/ Environment(p) \/ Age
  PROVE  LockInv'
<1>1. LockTypeOK'
  BY SharedType DEF LockInv
<1>2. misfired => misfired'
  BY DEF SharedStep, Mkdir, WriteOwner, ReadOwner, CheckAge, CheckOwner, Wait, BeginRelease,
         Release, Environment, Start, Timeout, Exit, Kill, Vanish, Age
<1>3. ~misfired => \A q \in Proc : OwnsPath(q)'
  BY SharedOwns DEF LockInv
<1>4. QED
  BY <1>1, <1>2, <1>3 DEF LockInv

LEMMA StutterInv == LockInv /\ UNCHANGED lockVars => LockInv'
  BY DEF LockInv, LockTypeOK, OwnsPath, lockVars

----------------------------------------------------------------------------
(* The project lock: a quarantine that is verified and renamed back.       *)

LEMMA ClearType ==
  ASSUME LockTypeOK, NEW p \in Proc, Project!ClearDeadOwner(p)
  PROVE  LockTypeOK'
<1>1. NoDir \in Dir /\ quarantine[p] \in Dir
  BY DEF NoDir, Dir, LockTypeOK
<1>2. at' \in [Proc -> LockStep] /\ quarantine' \in [Proc -> Dir]
  BY <1>1 DEF Project!ClearDeadOwner, Project!Quarantine, Project!VerifyQuarantine, Project!CheckPathFree,
              Project!RenameBack, Project!Goto, Project!NoDir, NoDir, LockTypeOK, LockStep
<1>3. lock' \in Dir /\ aged' \in BOOLEAN /\ seen' = seen
  BY <1>1 DEF Project!ClearDeadOwner, Project!Quarantine, Project!VerifyQuarantine, Project!CheckPathFree,
              Project!RenameBack, Project!NoDir, NoDir, LockTypeOK
<1>4. misfired' \in BOOLEAN
  BY DEF Project!ClearDeadOwner, Project!Quarantine, Project!VerifyQuarantine, Project!CheckPathFree, Project!RenameBack,
         Project!Disturbs, LockTypeOK
<1>5. QED
  BY <1>2, <1>3, <1>4 DEF LockTypeOK

\* The path changes hands only if nobody alive has a stake in it.
LEMMA ClearOwns ==
  ASSUME LockInv, NEW p \in Proc, Project!ClearDeadOwner(p), ~misfired', NEW q \in Proc
  PROVE  OwnsPath(q)'
<1>1. at' = [at EXCEPT ![p] = at'[p]] /\ at'[p] \notin {"made", "in", "release"}
  BY DEF Project!ClearDeadOwner, Project!Quarantine, Project!VerifyQuarantine, Project!CheckPathFree, Project!RenameBack,
         Project!Goto, LockInv, LockTypeOK
<1>2. CASE Disturbs(lock)
  BY <1>1, <1>2, DisturbedOwner DEF OwnsPath, LockInv, LockTypeOK
<1>3. CASE ~Disturbs(lock)
  <2>1. lock' = lock /\ misfired' = misfired
    BY <1>3 DEF Project!ClearDeadOwner, Project!Quarantine, Project!VerifyQuarantine, Project!CheckPathFree,
                Project!RenameBack, Project!Disturbs, Disturbs, Project!Alive, Alive
  <2>2. QED
    BY <1>1, <2>1 DEF OwnsPath, LockInv, LockTypeOK
<1>4. QED
  BY <1>2, <1>3

----------------------------------------------------------------------------
(* The scheduler lock: what is at the path is removed unseen.              *)

LEMMA ClearSchedulerInv ==
  ASSUME LockInv, NEW p \in Proc, Scheduler!ClearDeadScheduler(p)
  PROVE  LockInv'
<1>0. Disturbs(lock) /\ at' = [at EXCEPT ![p] = "wait"] /\ lock' = NoDir /\ aged' = FALSE
  BY DEF Scheduler!ClearDeadScheduler, Scheduler!Disturbs, Scheduler!Alive, Scheduler!Goto, Scheduler!NoDir, NoDir, Disturbs, Alive
<1>1. LockTypeOK'
  <2>1. UNCHANGED <<seen, quarantine>>
    BY DEF Scheduler!ClearDeadScheduler
  <2>2. QED
    BY <1>0, <2>1 DEF Disturbs, LockInv, LockTypeOK, Dir, NoDir, LockStep
<1>2. ASSUME ~misfired', NEW q \in Proc
      PROVE  OwnsPath(q)'
  BY <1>0, <1>2, DisturbedOwner DEF OwnsPath, LockInv, LockTypeOK
<1>3. QED
  BY <1>1, <1>2 DEF LockInv

----------------------------------------------------------------------------
(* The claim of a checkout: given back by whoever shows its token.         *)

\* Nobody is at the release of the other two locks.
NoRelease == \A p \in Proc : at[p] # "release"

LEMMA ClaimType ==
  ASSUME LockTypeOK, NEW p \in Proc, Checkout!Claims(p) \/ Checkout!Environs(p)
  PROVE  LockTypeOK'
<1>1. NoDir \in Dir /\ quarantine[p] \in Dir /\ [maker |-> p, owner |-> None] \in Dir
      /\ [lock EXCEPT !.owner = p] \in Dir /\ lock.owner \in Proc \cup {None}
  BY DEF NoDir, Dir, LockTypeOK
<1>2. at' \in [Proc -> LockStep]
  <2>1. CASE Checkout!MoveClaim(p)
    BY <2>1 DEF Checkout!MoveClaim, Checkout!Goto, LockTypeOK, LockStep
  <2>2. CASE ~Checkout!MoveClaim(p)
    BY <2>2 DEF Checkout!Claims, Checkout!Mkdir, Checkout!WriteClaim, Checkout!ReadClaim, Checkout!VerifyMoved, Checkout!CheckFree,
                Checkout!MoveBack, Checkout!Environs, Checkout!Start, Checkout!GiveBack, Checkout!Exit, Checkout!Kill, Checkout!Vanish, Checkout!Goto,
                LockTypeOK, LockStep
  <2>3. QED
    BY <2>1, <2>2
<1>3. quarantine' \in [Proc -> Dir]
  <2>1. \/ quarantine' = quarantine
        \/ quarantine' = [quarantine EXCEPT ![p] = lock]
        \/ quarantine' = [quarantine EXCEPT ![p] = NoDir]
    BY DEF Checkout!Claims, Checkout!Mkdir, Checkout!WriteClaim, Checkout!ReadClaim, Checkout!MoveClaim, Checkout!VerifyMoved, Checkout!CheckFree,
           Checkout!MoveBack, Checkout!Environs, Checkout!Start, Checkout!GiveBack, Checkout!Exit, Checkout!Kill, Checkout!Vanish, Checkout!NoDir, NoDir
  <2>2. QED
    BY <1>1, <2>1 DEF LockTypeOK
<1>4. lock' \in Dir
  <2>1. lock' \in {lock, NoDir, quarantine[p], [maker |-> p, owner |-> None],
                  [lock EXCEPT !.owner = p]}
    BY DEF Checkout!Claims, Checkout!Mkdir, Checkout!WriteClaim, Checkout!ReadClaim, Checkout!MoveClaim, Checkout!VerifyMoved, Checkout!CheckFree,
           Checkout!MoveBack, Checkout!Environs, Checkout!Start, Checkout!GiveBack, Checkout!Exit, Checkout!Kill, Checkout!Vanish, Checkout!NoDir, NoDir
  <2>2. QED
    BY <1>1, <2>1 DEF LockTypeOK
<1>5. seen' \in [Proc -> Proc \cup {None}]
  <2>1. \E t \in Proc \cup {None} : seen' \in {seen, [seen EXCEPT ![p] = t]}
    BY <1>1 DEF Checkout!Claims, Checkout!Mkdir, Checkout!WriteClaim, Checkout!ReadClaim, Checkout!MoveClaim, Checkout!VerifyMoved,
                Checkout!CheckFree, Checkout!MoveBack, Checkout!Environs, Checkout!Start, Checkout!GiveBack, Checkout!Exit, Checkout!Kill, Checkout!Vanish
  <2>2. QED
    BY <2>1 DEF LockTypeOK
<1>6. aged' \in BOOLEAN /\ misfired' \in BOOLEAN
  BY DEF Checkout!Claims, Checkout!Mkdir, Checkout!WriteClaim, Checkout!ReadClaim, Checkout!MoveClaim, Checkout!VerifyMoved, Checkout!CheckFree,
         Checkout!MoveBack, Checkout!Environs, Checkout!Start, Checkout!GiveBack, Checkout!Exit, Checkout!Kill, Checkout!Vanish, Checkout!Disturbs,
         LockTypeOK
<1>7. QED
  BY <1>2, <1>3, <1>4, <1>5, <1>6 DEF LockTypeOK

LEMMA ClaimNoRelease ==
  ASSUME LockTypeOK, NoRelease, NEW p \in Proc, Checkout!Claims(p) \/ Checkout!Environs(p)
  PROVE  NoRelease'
<1>1. CASE Checkout!MoveClaim(p)
  BY <1>1 DEF Checkout!MoveClaim, Checkout!Goto, LockTypeOK, NoRelease
<1>2. CASE ~Checkout!MoveClaim(p)
  BY <1>2 DEF Checkout!Claims, Checkout!Mkdir, Checkout!WriteClaim, Checkout!ReadClaim, Checkout!VerifyMoved, Checkout!CheckFree,
              Checkout!MoveBack, Checkout!Environs, Checkout!Start, Checkout!GiveBack, Checkout!Exit, Checkout!Kill, Checkout!Vanish, Checkout!Goto,
              LockTypeOK, NoRelease
<1>3. QED
  BY <1>1, <1>2

\* Whoever holds the claim when it is moved away has shown its token, or had
\* it shown: it holds the claim no more.
LEMMA MoveOwns ==
  ASSUME LockInv, NoRelease, NEW p \in Proc, Checkout!MoveClaim(p), ~misfired', NEW q \in Proc
  PROVE  OwnsPath(q)'
<1>1. at'[q] \in {at[q], "verify", "threw", "done"}
  BY DEF Checkout!MoveClaim, Checkout!Goto, LockInv, LockTypeOK
<1>2. CASE ~Exists
  BY <1>2 DEF Checkout!MoveClaim, Checkout!Exists, Checkout!NoDir, Checkout!Goto, Exists, NoDir, OwnsPath, LockInv, LockTypeOK
<1>3. CASE Exists /\ Disturbs(lock)
  <2>1. at[q] \notin {"made", "in", "release"}
    BY <1>3, DisturbedOwner
  <2>2. QED
    BY <1>1, <2>1 DEF OwnsPath
<1>4. CASE Exists /\ ~Disturbs(lock)
  <2>1. /\ lock = [maker |-> seen[p], owner |-> seen[p]] /\ ~misfired
        /\ at'[q] = IF q = p THEN "verify"
                    ELSE IF q = lock.owner /\ q = seen[p] /\ at[q] = "in" THEN "done" ELSE at[q]
    BY <1>4 DEF Checkout!MoveClaim, Checkout!Exists, Checkout!NoDir, Checkout!Disturbs, Checkout!Alive, Exists, NoDir, Disturbs,
                Alive, LockInv, LockTypeOK
  <2>2. q # None
    BY LockAssumption DEF LockAssumption
  <2>3. at[q] = "in" => q = seen[p]
    BY <2>1 DEF OwnsPath, LockInv
  <2>4. at[q] \notin {"made", "release"}
    BY <2>1, <2>2 DEF OwnsPath, LockInv, NoRelease
  <2>5. QED
    BY <2>1, <2>3, <2>4 DEF OwnsPath
<1>5. QED
  BY <1>2, <1>3, <1>4

LEMMA ClaimOwns ==
  ASSUME LockInv, NoRelease, NEW p \in Proc, Checkout!Claims(p) \/ Checkout!Environs(p), ~misfired',
         NEW q \in Proc
  PROVE  OwnsPath(q)'
<1>a. p # None /\ q # None
  BY LockAssumption DEF LockAssumption
<1>b. ~misfired
  <2>1. CASE Checkout!Claims(p)
    BY <2>1 DEF Checkout!Claims, Checkout!Mkdir, Checkout!WriteClaim, Checkout!ReadClaim, Checkout!MoveClaim, Checkout!VerifyMoved,
                Checkout!CheckFree, Checkout!MoveBack, Checkout!Disturbs
  <2>2. CASE Checkout!Environs(p)
    BY <2>2 DEF Checkout!Environs, Checkout!Start, Checkout!GiveBack, Checkout!Exit, Checkout!Kill, Checkout!Vanish
  <2>3. QED
    BY <2>1, <2>2
<1>0. ~misfired /\ p # None /\ q # None
  BY <1>a, <1>b
<1>1. CASE Checkout!Mkdir(p)
  <2>1. Mkdir(p)
    BY <1>1 DEF Checkout!Mkdir, Mkdir, Checkout!Exists, Checkout!NoDir, Exists, NoDir, Checkout!Goto, Goto
  <2>2. QED
    BY <1>0, <2>1, SharedOwns DEF SharedStep, LockInv
<1>2. CASE Checkout!WriteClaim(p)
  <2>1. lock = [maker |-> p, owner |-> None] /\ Checkout!Exists
    BY <1>0, <1>2 DEF Checkout!WriteClaim, OwnsPath, LockInv, Checkout!Exists, Checkout!NoDir
  <2>2. lock' = [maker |-> p, owner |-> p] /\ at' = [at EXCEPT ![p] = "in"]
    BY <1>2, <2>1 DEF Checkout!WriteClaim, Checkout!Goto
  <2>3. q # p => at[q] \notin {"made", "in", "release"}
    BY <1>0, <2>1 DEF OwnsPath, LockInv
  <2>4. QED
    BY <2>2, <2>3 DEF LockInv, LockTypeOK, OwnsPath
<1>3. CASE Checkout!MoveClaim(p)
  BY <1>3, MoveOwns
<1>4. CASE Checkout!MoveBack(p)
  <2>1. CASE lock.owner = None
    <3>1. Disturbs(lock) /\ at' = [at EXCEPT ![p] = "threw"]
      BY <1>4, <2>1 DEF Checkout!MoveBack, Checkout!Goto, Checkout!Disturbs, Checkout!Alive, Disturbs, Alive
    <3>2. QED
      BY <3>1, DisturbedOwner DEF OwnsPath, LockInv, LockTypeOK
  <2>2. CASE lock.owner # None
    BY <1>4, <2>2 DEF Checkout!MoveBack, Checkout!Goto, OwnsPath, LockInv, LockTypeOK
  <2>3. QED
    BY <2>1, <2>2
<1>5. CASE Checkout!ReadClaim(p) \/ Checkout!VerifyMoved(p) \/ Checkout!CheckFree(p) \/ Checkout!Environs(p)
  <2>1. lock' = lock /\ at' = [at EXCEPT ![p] = at'[p]] /\ at'[p] \notin {"made", "in", "release"}
    BY <1>5 DEF Checkout!ReadClaim, Checkout!VerifyMoved, Checkout!CheckFree, Checkout!Environs, Checkout!Start, Checkout!GiveBack, Checkout!Exit,
                Checkout!Kill, Checkout!Vanish, Checkout!Goto, LockInv, LockTypeOK
  <2>2. QED
    BY <1>0, <2>1 DEF OwnsPath, LockInv, LockTypeOK
<1>6. QED
  BY <1>1, <1>2, <1>3, <1>4, <1>5 DEF Checkout!Claims

----------------------------------------------------------------------------
(* All three.                                                              *)

LocksInv ==
  /\ LockInv
  /\ which \in {"project", "scheduler", "checkout"}
  /\ which = "checkout" => NoRelease

LEMMA LocksInitInv == LocksInit => LocksInv
  BY LockInitInv DEF LocksInit, LocksInv, LockInit, NoRelease

LEMMA RunsInv ==
  ASSUME LocksInv, NEW p \in Proc, Runs(p)
  PROVE  LocksInv'
<1>1. CASE which # "checkout" /\ SharedStep(p)
  BY <1>1, SharedInv DEF Runs, LocksInv
<1>2. CASE which = "project" /\ Project!ClearDeadOwner(p)
  BY <1>2, ClearType, ClearOwns DEF Runs, LocksInv, LockInv
<1>3. CASE which = "scheduler" /\ Scheduler!ClearDeadScheduler(p)
  BY <1>3, ClearSchedulerInv DEF Runs, LocksInv
<1>4. CASE which = "checkout" /\ Checkout!Claims(p)
  BY <1>4, ClaimType, ClaimNoRelease, ClaimOwns DEF Runs, LocksInv, LockInv
<1>5. QED
  BY <1>1, <1>2, <1>3, <1>4 DEF Runs

LEMMA MeetsInv ==
  ASSUME LocksInv, NEW p \in Proc, Meets(p)
  PROVE  LocksInv'
<1>1. CASE which # "checkout" /\ Environment(p)
  BY <1>1, SharedInv DEF Meets, LocksInv
<1>2. CASE which = "checkout" /\ Checkout!Environs(p)
  BY <1>2, ClaimType, ClaimNoRelease, ClaimOwns DEF Meets, LocksInv, LockInv
<1>3. QED
  BY <1>1, <1>2 DEF Meets

LEMMA LocksInvStep == LocksInv /\ [LocksNext]_locksVars => LocksInv'
<1> SUFFICES ASSUME LocksInv, [LocksNext]_locksVars
             PROVE  LocksInv'
  OBVIOUS
<1>1. CASE Age /\ UNCHANGED which
  <2>1. \E p \in Proc : TRUE
    BY <1>1, LockAssumption
       DEF LockAssumption, Age, Exists, LocksInv, LockInv, LockTypeOK, Dir, NoDir
  <2>2. LockInv'
    BY <1>1, <2>1, SharedInv DEF LocksInv
  <2>3. QED
    BY <1>1, <2>2 DEF LocksInv, NoRelease, Age
<1>2. CASE UNCHANGED locksVars
  BY <1>2, StutterInv DEF locksVars, lockVars, LocksInv, NoRelease
<1>3. Project!AllFinished /\ UNCHANGED which => UNCHANGED locksVars
  BY DEF Project!AllFinished, Project!lockVars, lockVars, locksVars
<1>4. QED
  BY <1>1, <1>2, <1>3, RunsInv, MeetsInv DEF LocksNext

\* With any number of processes, killed at any point: two processes run under
\* one of the locks, or one loses the lock it holds, only after somebody
\* cleared, moved or overwrote the directory of a live one.
THEOREM LocksExclude == LocksSpec => []OnlyMisfiresBreakTheLock
<1>1. LocksInv => OnlyMisfiresBreakTheLock
  BY LockIsExclusive DEF LocksInv
<1>2. QED
  BY <1>1, LocksInitInv, LocksInvStep, PTL DEF LocksSpec

\* The types of what is at the lock path, of what was moved away from it and
\* of what every process is at.
THEOREM LocksTypes == LocksSpec => []LockTypeOK
<1>1. LocksInv => LockTypeOK
  BY DEF LocksInv, LockInv
<1>2. QED
  BY <1>1, LocksInitInv, LocksInvStep, PTL DEF LocksSpec
=============================================================================
