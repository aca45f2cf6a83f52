----------------------- MODULE MCBenchmarkController -----------------------
(* One run and two coordinators, one of which may be killed.                *)
EXTENDS BenchmarkController
=============================================================================
