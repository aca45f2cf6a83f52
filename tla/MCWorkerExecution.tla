------------------------- MODULE MCWorkerExecution -------------------------
(* Three claims of a worker with two executors and one or two operators. *)
EXTENDS WorkerExecution
=============================================================================
