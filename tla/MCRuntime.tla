----------------------------- MODULE MCRuntime -----------------------------
(* The admin server, the controller's lock and the end of the program. *)
EXTENDS Runtime, TLC

CONSTANTS c1, b
=============================================================================
