--------------------------- MODULE CheckoutClaim ---------------------------
(***************************************************************************)
(* The claim of a checkout (src/src/core/git-delivery.mjs): a directory     *)
(* with an owner.json again, but one that outlives the command that made    *)
(* it, is never cleared, and is given back by whoever shows its token: its  *)
(* holder, or a second command with the same token.  A process is one       *)
(* owner's claim, or such a second command.                                 *)
(***************************************************************************)
EXTENDS DirectoryLock

\* writeExclusiveJson by path. If it fails, the directory at the path is
\* removed, whoever made it.
WriteClaim(p) ==
  /\ at[p] = "made"
  /\ aged' = FALSE
  /\ \/ /\ Exists /\ lock.owner = None
        /\ lock' = [lock EXCEPT !.owner = p]
        /\ Goto(p, "in")
        /\ UNCHANGED misfired
     \/ /\ Exists => lock.owner # None
        /\ lock' = NoDir
        /\ Disturbs(lock)
        /\ Goto(p, "threw")
  /\ UNCHANGED <<seen, quarantine>>

\* A claim of another owner, one that cannot be read, and one that is gone by
\* now all make the command throw.
ReadClaim(p) ==
  /\ at[p] = "read"
  /\ Goto(p, "threw")
  /\ UNCHANGED <<lock, aged, seen, quarantine, misfired>>

\* releaseCheckout by the holder, or again with its token: the claim is read
\* and must have the token ...
GiveBack(p) ==
  /\ \/ at[p] = "in" /\ seen' = [seen EXCEPT ![p] = p]
     \/ /\ at[p] = "out" /\ lock.owner # None
        /\ seen' = [seen EXCEPT ![p] = lock.owner]
  /\ Goto(p, IF lock.owner = seen'[p] THEN "seize" ELSE "done")
  /\ UNCHANGED <<lock, aged, quarantine, misfired>>

\* ... is renamed, whatever it is by now; its holder holds it no more ...
MoveClaim(p) ==
  /\ at[p] = "seize"
  /\ \/ /\ Exists
        /\ quarantine' = [quarantine EXCEPT ![p] = lock]
        /\ lock' = NoDir
        /\ aged' = FALSE
        /\ IF lock = [maker |-> seen[p], owner |-> seen[p]]
           THEN UNCHANGED misfired ELSE Disturbs(lock)
        /\ at' = [q \in Proc |-> IF q = p THEN "verify"
                                 ELSE IF q = lock.owner /\ q = seen[p] /\ at[q] = "in"
                                      THEN "done" ELSE at[q]]
     \/ /\ ~Exists
        /\ Goto(p, "threw")
        /\ UNCHANGED <<lock, aged, quarantine, misfired>>
  /\ UNCHANGED seen

\* ... and is removed if it has the token still.
VerifyMoved(p) ==
  /\ at[p] = "verify"
  /\ \/ /\ quarantine[p].owner = seen[p]
        /\ quarantine' = [quarantine EXCEPT ![p] = NoDir]
        /\ Goto(p, "done")
     \/ /\ quarantine[p].owner # seen[p]
        /\ Goto(p, "back")
        /\ UNCHANGED quarantine
  /\ UNCHANGED <<lock, aged, seen, misfired>>

\* If not, it is renamed back, unless there is another claim by now.
CheckFree(p) ==
  /\ at[p] = "back"
  /\ Goto(p, IF Exists THEN "threw" ELSE "renameback")
  /\ UNCHANGED <<lock, aged, seen, quarantine, misfired>>

MoveBack(p) ==
  /\ at[p] = "renameback"
  /\ Goto(p, "threw")
  /\ IF lock.owner = None
     THEN lock' = quarantine[p] /\ aged' = FALSE /\ Disturbs(lock)
     ELSE UNCHANGED <<lock, aged, misfired>>
  /\ UNCHANGED <<seen, quarantine>>

Claims(p) ==
  \/ Mkdir(p) \/ WriteClaim(p) \/ ReadClaim(p)
  \/ MoveClaim(p) \/ VerifyMoved(p) \/ CheckFree(p) \/ MoveBack(p)

\* A claim is not lost with the command that made it.
Environs(p) == Start(p) \/ GiveBack(p) \/ Exit(p) \/ (at[p] # "in" /\ Kill(p))
=============================================================================
