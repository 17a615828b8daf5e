------------------------------ MODULE MCPlayer ------------------------------
(* The player alone, on small bounds. *)
EXTENDS Player

CONSTANTS MaxEvents,    \* events waiting for the controller
          MaxSources    \* sources in the sink

Bounded == Len(pevents) <= MaxEvents /\ Len(sink) <= MaxSources

MCNext == PNext /\ Bounded'
MCSpec == PInit /\ [][MCNext]_pvars
=============================================================================
