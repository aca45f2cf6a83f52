--------------------------- MODULE DirectoryLock ---------------------------
(***************************************************************************)
(* What project-lock.mjs and scheduler-lock.mjs share: a lock that is a     *)
(* directory, taken by mkdir, owned by the token and pid in its owner.json, *)
(* and released by whoever finds its own token there.  Every file-system    *)
(* call is a step.  ProjectLock and SchedulerLock add how each clears the   *)
(* lock of a dead owner.                                                    *)
(*                                                                         *)
(* A member of Proc is one process (one pid) making one acquisition (one    *)
(* token), so a process stands for its token and a directory is named by    *)
(* the process whose mkdir made it.                                         *)
(***************************************************************************)
CONSTANTS
  Proc,
  None,
  OwnerlessLocks  \* may a lock stay a second without owner.json?

ASSUME LockAssumption == None \notin Proc /\ OwnerlessLocks \in BOOLEAN

VARIABLES
  lock,        \* the directory at the lock path
  aged,        \* it has had no readable owner for the grace period
  at,          \* per process
  seen,        \* token a process read and judges (None: unreadable)
  quarantine,  \* directory a process renamed away
  misfired     \* a step took or replaced the directory of a live process

lockVars == <<lock, aged, at, seen, quarantine, misfired>>

Dir == [maker : Proc \cup {None}, owner : Proc \cup {None}]

NoDir == [maker |-> None, owner |-> None]

LockStep == {"out", "try", "made", "in", "release", "done", "read", "old",
             "check", "seize", "verify", "back", "renameback", "wait",
             "threw", "dead"}

LockTypeOK ==
  /\ lock \in Dir
  /\ aged \in BOOLEAN
  /\ at \in [Proc -> LockStep]
  /\ seen \in [Proc -> Proc \cup {None}]
  /\ quarantine \in [Proc -> Dir]
  /\ misfired \in BOOLEAN

LockInit ==
  /\ lock = NoDir
  /\ aged = FALSE
  /\ at = [p \in Proc |-> "out"]
  /\ seen = [p \in Proc |-> None]
  /\ quarantine = [p \in Proc |-> NoDir]
  /\ misfired = FALSE

Exists == lock # NoDir

Alive(p) == at[p] # "dead"

Goto(p, s) == at' = [at EXCEPT ![p] = s]

\* Process p takes the directory d away from the lock path, or replaces it.
Disturbs(d) == misfired' = (misfired \/ (d.maker # None /\ Alive(d.maker)))

----------------------------------------------------------------------------
Start(p) ==
  /\ at[p] = "out"
  /\ Goto(p, "try")
  /\ UNCHANGED <<lock, aged, seen, quarantine, misfired>>

\* mkdir succeeds, or fails with EEXIST and the owner is examined.
Mkdir(p) ==
  /\ at[p] = "try"
  /\ \/ /\ ~Exists
        /\ lock' = [maker |-> p, owner |-> None]
        /\ aged' = FALSE
        /\ Goto(p, "made")
     \/ /\ Exists
        /\ Goto(p, "read")
        /\ UNCHANGED <<lock, aged>>
  /\ UNCHANGED <<seen, quarantine, misfired>>

\* A mistake: the lock is used without an owner.json.
OwnerNotWritten(p) ==
  /\ at[p] = "made"
  /\ Goto(p, "in")
  /\ UNCHANGED <<lock, aged, seen, quarantine, misfired>>

\* owner.json is written by path, whichever directory is there by now; with
\* no directory there the write fails and the acquisition throws.
WriteOwner(p) ==
  /\ at[p] = "made"
  /\ \/ /\ Exists
        /\ lock' = [lock EXCEPT !.owner = p]
        /\ aged' = FALSE
        /\ Goto(p, "in")
     \/ /\ ~Exists
        /\ Goto(p, "threw")
        /\ UNCHANGED <<lock, aged>>
  /\ UNCHANGED <<seen, quarantine, misfired>>

\* The waiter reads owner.json; a lock that is gone is unreadable as well.
ReadOwner(p) ==
  /\ at[p] = "read"
  /\ seen' = [seen EXCEPT ![p] = lock.owner]
  /\ Goto(p, IF lock.owner = None THEN "old" ELSE "check")
  /\ UNCHANGED <<lock, aged, quarantine, misfired>>

\* A mistake: a lock without a readable owner is never cleared.
NeverOld(p) ==
  /\ at[p] = "old"
  /\ Goto(p, "wait")
  /\ UNCHANGED <<lock, aged, seen, quarantine, misfired>>

\* Has the unreadable lock been there for the grace period?
CheckAge(p) ==
  /\ at[p] = "old"
  /\ Goto(p, IF Exists /\ aged THEN "seize" ELSE "wait")
  /\ UNCHANGED <<lock, aged, seen, quarantine, misfired>>

\* processAlive: by now the owner may have released its lock and exited.
CheckOwner(p) ==
  /\ at[p] = "check"
  /\ Goto(p, IF Alive(seen[p]) THEN "wait" ELSE "seize")
  /\ UNCHANGED <<lock, aged, seen, quarantine, misfired>>

Wait(p) ==
  /\ at[p] = "wait"
  /\ seen' = [seen EXCEPT ![p] = None]
  /\ Goto(p, "try")
  /\ UNCHANGED <<lock, aged, quarantine, misfired>>

\* timeoutMs has passed and the lock is still there.
Timeout(p) ==
  /\ at[p] = "wait"
  /\ Exists
  /\ Goto(p, "threw")
  /\ UNCHANGED <<lock, aged, seen, quarantine, misfired>>

\* The release reads owner.json and does nothing unless the token is its own.
BeginRelease(p) ==
  /\ at[p] = "in"
  /\ Goto(p, IF lock.owner = p THEN "release" ELSE "done")
  /\ UNCHANGED <<lock, aged, seen, quarantine, misfired>>

\* rmSync by path.
Release(p) ==
  /\ at[p] = "release"
  /\ lock' = NoDir
  /\ aged' = FALSE
  /\ Goto(p, "done")
  /\ misfired' = (misfired \/ (lock.maker # None /\ lock.maker # p /\ Alive(lock.maker)))
  /\ UNCHANGED <<seen, quarantine>>

\* What the death of p leaves: its memory is gone, its directories are not.
Vanish(p) ==
  /\ Goto(p, "dead")
  /\ seen' = [seen EXCEPT ![p] = None]
  /\ quarantine' = [quarantine EXCEPT ![p] = NoDir]
  /\ UNCHANGED <<lock, aged, misfired>>

\* The command is over and the process exits; a long-lived one may not.
Exit(p) == at[p] \in {"done", "threw"} /\ Vanish(p)

\* SIGKILL at any point.
Kill(p) ==
  /\ at[p] \notin {"out", "done", "threw", "dead"}
  /\ OwnerlessLocks \/ at[p] # "made"
  /\ Vanish(p)

\* A second passes while the lock has no owner.json: its maker was killed
\* before writing it, or is stalled.
Age ==
  /\ OwnerlessLocks
  /\ Exists
  /\ lock.owner = None
  /\ aged' = TRUE
  /\ UNCHANGED <<lock, at, seen, quarantine, misfired>>

SharedStep(p) ==
  \/ Mkdir(p) \/ WriteOwner(p) \/ ReadOwner(p) \/ CheckAge(p) \/ CheckOwner(p)
  \/ Wait(p) \/ BeginRelease(p) \/ Release(p)

\* What the environment does to a process, under no fairness.
Environment(p) == Start(p) \/ Timeout(p) \/ Exit(p) \/ Kill(p)

Finished == {"done", "threw", "dead"}

----------------------------------------------------------------------------
\* Two processes never run under the lock at once.
MutualExclusion == \A p, q \in Proc : at[p] = "in" /\ at[q] = "in" => p = q

\* The only way to break mutual exclusion, or to lose the lock one holds, is
\* a clearing that hits the directory of a live process.
OnlyMisfiresBreakTheLock ==
  ~misfired => /\ MutualExclusion
               /\ \A p \in Proc : at[p] = "in" => lock = [maker |-> p, owner |-> p]
=============================================================================
