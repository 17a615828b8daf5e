--------------------------- MODULE MCTrackManager ---------------------------
(* The track manager with callers that send any requests, on small bounds. *)
EXTENDS TrackManager, TLC

CONSTANTS MaxRequests,  \* requests waiting for the worker task
          MaxReports,   \* events waiting for the controller
          MaxClaims,    \* claims of one track
          MaxTasks      \* download tasks alive at once

Bounded ==
    /\ Len(mreqs) <= MaxRequests
    /\ Len(mevents) <= MaxReports
    /\ \A i \in DOMAIN mreqs : \A t \in DOMAIN mtracks :
          mreqs[i] = Claim(t) => mtracks[t].claims < MaxClaims
    /\ Cardinality(Running) + Len(mqueue) <= MaxTasks

MCNext == MNext /\ Bounded'
MCSpec == MInit /\ [][MCNext]_mvars

Symmetry == Permutations(TrackIds)
=============================================================================
