---------------------------- MODULE ProjectLock ----------------------------
(***************************************************************************)
(* src/src/core/project-lock.mjs: the lock around every write of .apex-v2.  *)
(* A stale lock is renamed to a quarantine, its token is read again, and it *)
(* is renamed back if it is not the one that was judged.                    *)
(***************************************************************************)
EXTENDS DirectoryLock

\* existsSync and renameSync to the quarantine; ENOENT: nothing to clear.
Quarantine(p) ==
  /\ at[p] = "seize"
  /\ \/ /\ Exists
        /\ quarantine' = [quarantine EXCEPT ![p] = lock]
        /\ lock' = NoDir
        /\ aged' = FALSE
        /\ Disturbs(lock)
        /\ Goto(p, "verify")
     \/ /\ ~Exists
        /\ Goto(p, "wait")
        /\ UNCHANGED <<lock, aged, quarantine, misfired>>
  /\ UNCHANGED seen

\* With an expected token the quarantined one must match; the quarantine of
\* an unreadable lock is removed unseen.
VerifyQuarantine(p) ==
  /\ at[p] = "verify"
  /\ \/ /\ seen[p] \in {None, quarantine[p].owner}
        /\ quarantine' = [quarantine EXCEPT ![p] = NoDir]
        /\ Goto(p, "wait")
     \/ /\ seen[p] \notin {None, quarantine[p].owner}
        /\ Goto(p, "back")
        /\ UNCHANGED quarantine
  /\ UNCHANGED <<lock, aged, seen, misfired>>

\* A lock taken meanwhile keeps the path; the quarantine is then left behind.
CheckPathFree(p) ==
  /\ at[p] = "back"
  /\ \/ /\ Exists
        /\ quarantine' = [quarantine EXCEPT ![p] = NoDir]
        /\ Goto(p, "wait")
     \/ /\ ~Exists
        /\ Goto(p, "renameback")
        /\ UNCHANGED quarantine
  /\ UNCHANGED <<lock, aged, seen, misfired>>

\* rename over a missing or an empty directory succeeds; over one that has
\* its owner.json it fails, and throws out of the catch when the quarantine
\* was unreadable.
RenameBack(p) ==
  /\ at[p] = "renameback"
  /\ quarantine' = [quarantine EXCEPT ![p] = NoDir]
  /\ \/ /\ lock.owner = None
        /\ lock' = quarantine[p]
        /\ aged' = FALSE
        /\ Disturbs(lock)
        /\ Goto(p, "wait")
     \/ /\ lock.owner # None
        /\ Goto(p, IF quarantine[p].owner = None THEN "threw" ELSE "wait")
        /\ UNCHANGED <<lock, aged, misfired>>
  /\ UNCHANGED seen

ClearDeadOwner(p) ==
  Quarantine(p) \/ VerifyQuarantine(p) \/ CheckPathFree(p) \/ RenameBack(p)

\* The release of a finished system: every process has come and gone.
AllFinished == (\A p \in Proc : at[p] = "dead") /\ UNCHANGED lockVars

Next == \/ \E p \in Proc : SharedStep(p) \/ ClearDeadOwner(p) \/ Environment(p)
        \/ Age
        \/ AllFinished

Spec == LockInit /\ [][Next]_lockVars
=============================================================================
