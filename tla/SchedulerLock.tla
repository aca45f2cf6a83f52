--------------------------- MODULE SchedulerLock ---------------------------
(***************************************************************************)
(* src/src/core/scheduler-lock.mjs: the lock that keeps one scheduler per   *)
(* project.  A stale lock is renamed away and removed without reading its   *)
(* token again; an unreadable one is removed in place.                      *)
(***************************************************************************)
EXTENDS DirectoryLock

\* rename and rmSync, or rmSync alone: the directory at the path goes, if any.
ClearDeadScheduler(p) ==
  /\ at[p] = "seize"
  /\ lock' = NoDir
  /\ aged' = FALSE
  /\ Disturbs(lock)
  /\ Goto(p, "wait")
  /\ UNCHANGED <<seen, quarantine>>
=============================================================================
