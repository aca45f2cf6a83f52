----------------------- MODULE MCProjectTransaction -----------------------
(* Two keys and up to three attempts on a store file and a source file. *)
EXTENDS ProjectTransaction
=============================================================================
