------------------------------ MODULE MCYoutube ------------------------------
(* Two workers serve two downloads and a resolve. *)
EXTENDS Youtube, TLC

CONSTANTS d1, d2, r1, r2, w1, w2
=============================================================================
