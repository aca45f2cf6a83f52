------------------------------- MODULE Locks -------------------------------
(***************************************************************************)
(* The three locks: .apex-v2.lock (ProjectLock) around every write,         *)
(* .apex-v2.scheduler-lock (SchedulerLock) around a scheduler, and the      *)
(* claim of a checkout (CheckoutClaim): a behaviour is of one of them, with  *)
(* processes that ask for it, die and go on.                                *)
(***************************************************************************)
EXTENDS DirectoryLock

VARIABLE which

locksVars == <<lockVars, which>>

Project == INSTANCE ProjectLock
Scheduler == INSTANCE SchedulerLock
Checkout == INSTANCE CheckoutClaim

LocksInit == LockInit /\ which \in {"project", "scheduler", "checkout"}

\* A process at work on the lock.
Runs(p) == /\ \/ which # "checkout" /\ SharedStep(p)
              \/ which = "project" /\ Project!ClearDeadOwner(p)
              \/ which = "scheduler" /\ Scheduler!ClearDeadScheduler(p)
              \/ which = "checkout" /\ Checkout!Claims(p)
           /\ UNCHANGED which

\* What may happen to it.
Meets(p) == /\ \/ which # "checkout" /\ Environment(p)
               \/ which = "checkout" /\ Checkout!Environs(p)
            /\ UNCHANGED which

LocksNext ==
  \/ \E p \in Proc : Runs(p)
  \/ \E p \in Proc : Meets(p)
  \/ Age /\ UNCHANGED which
  \/ Project!AllFinished /\ UNCHANGED which

\* A process that runs takes its next step, a command that is over exits, a
\* second eventually passes.
LocksSpec ==
  /\ LocksInit /\ [][LocksNext]_locksVars
  /\ \A p \in Proc : WF_locksVars(Runs(p))
  /\ \A p \in Proc : WF_locksVars(Exit(p) /\ UNCHANGED which)
  /\ WF_locksVars(Age /\ UNCHANGED which)

\* A process that asks for a lock gets it or is told it cannot: no dead owner,
\* whatever point it died at, keeps the others waiting.
EveryWaiterEnds ==
  \A p \in Proc : at[p] = "try" ~> at[p] \in Finished \cup {"in"}
=============================================================================
