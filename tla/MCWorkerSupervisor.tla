------------------------- MODULE MCWorkerSupervisor -------------------------
(* Commands that behave, that ignore SIGTERM, that cannot be started, and   *)
(* that leave a helper behind.                                              *)
EXTENDS WorkerSupervisor, TLC

Command == [spawn |-> "starts", stubborn |-> FALSE, helper |-> "absent", helperStubborn |-> FALSE]

Kinds == {Command,
          [Command EXCEPT !.stubborn = TRUE],
          [Command EXCEPT !.spawn = "throws"],
          [Command EXCEPT !.spawn = "fails"],
          [Command EXCEPT !.helper = "piped", !.helperStubborn = TRUE],
          [Command EXCEPT !.helper = "quiet"],
          [Command EXCEPT !.helper = "quiet", !.helperStubborn = TRUE]}
=============================================================================
