---------------------------- MODULE MCController ----------------------------
(* The whole core on small bounds. *)
EXTENDS Controller, TLC

CONSTANTS MaxBacklog,   \* messages in the channels and downloads under way
          MaxSources,   \* sources in the sink
          Repeats       \* clients add tracks that are in the queue already

(* Clients hold back while the program has more work left than this; its   *)
(* own steps are never held back, and without clients come to an end.      *)
Bounded ==
    /\ Len(pevents) + Len(mevents) + Len(mreqs) + Cardinality(Running) <= MaxBacklog
    /\ Len(sink) <= MaxSources

RepeatsAllowed == Repeats \/ \A t \in TrackIds : Cardinality(EntriesOf(t)) <= 1

MCNext == ctl = "running" /\ (SystemStep \/ (Bounded /\ ClientStep /\ RepeatsAllowed'))
MCSpec == Init /\ [][MCNext]_vars

(* Weak fairness of everything that the program schedules itself: threads  *)
(* and tasks that have work are run, the downloader answers (it has a      *)
(* timeout), and a sink that is not paused plays.  Clients owe nothing.    *)
Alive == ctl = "running"
FairSpec ==
    /\ MCSpec
    /\ WF_vars(Alive /\ HandlePlayerEvent)
    /\ WF_vars(Alive /\ HandleManagerEvent)
    /\ WF_vars(Alive /\ AnswerCall)
    /\ WF_vars(Alive /\ PlayerProgress)
    /\ WF_vars(Alive /\ WorkerProgress)
    /\ \A t \in TrackIds : WF_vars(Alive /\ ManagerProgress(t))

CONSTANTS t1, t2, t3
JustOne == {<<t1>>}
Singles == {<<t1>>, <<t2>>}
Pair == {<<t1, t2>>}
MoreLists == {<<>>, <<t1>>, <<t2, t3>>}
SomeLists == {<<>>, <<t1>>, <<t2, t1>>}
=============================================================================
