----------------------------- MODULE Broadcast -----------------------------
(***************************************************************************)
(* The broadcast channel of src/src/controller.rs: a ring that keeps the   *)
(* newest events, numbered from 1, and receivers that each read at their   *)
(* own pace.  The stream wrapped around a receiver answers a lag with      *)
(* Poll::Pending although nothing will wake the task (controller.rs:232):  *)
(* it is asleep then, until something else makes the task poll again.      *)
(***************************************************************************)
EXTENDS Naturals

CONSTANTS Receivers, RingSize

ASSUME BroadcastAssumption == RingSize \in Nat \ {0}

VARIABLES tail,    \* the number of the newest event
          cursor,  \* the last event a receiver has taken or skipped
          rx       \* off, waiting, holding an event taken, or asleep

bvars == <<tail, cursor, rx>>

BInit(subscribed) ==
    /\ tail = 0
    /\ cursor = [r \in Receivers |-> 0]
    /\ rx = [r \in Receivers |-> IF r \in subscribed THEN "waiting" ELSE "off"]

(* Everything up to here has been overwritten. *)
Overwritten == IF tail > RingSize THEN tail - RingSize ELSE 0

(* Variant: a receiver starts with what the ring still keeps. *)
SubscribeAtOldest(r) ==
    /\ rx' = [rx EXCEPT ![r] = "waiting"]
    /\ cursor' = [cursor EXCEPT ![r] = Overwritten]

(* Controller::subscribe: only events sent from now on. *)
Subscribe(r) ==
    /\ rx' = [rx EXCEPT ![r] = "waiting"]
    /\ cursor' = [cursor EXCEPT ![r] = tail]

(* Without a receiver the event is refused. *)
Listening == \E r \in Receivers : rx[r] # "off"
Publish == Listening /\ tail' = tail + 1

TakeEvent(r) ==
    /\ rx[r] = "waiting" /\ Overwritten <= cursor[r] /\ cursor[r] < tail
    /\ cursor' = [cursor EXCEPT ![r] = @ + 1]
    /\ rx' = [rx EXCEPT ![r] = "holding"]

(* RecvError::Lagged moves on to the oldest event kept. *)
FallAsleep(r) ==
    /\ rx[r] = "waiting" /\ cursor[r] < Overwritten
    /\ cursor' = [cursor EXCEPT ![r] = Overwritten]
    /\ rx' = [rx EXCEPT ![r] = "asleep"]

PollAgain(r) == rx' = [rx EXCEPT ![r] = "waiting"]
Drop(r) == rx' = [rx EXCEPT ![r] = "off"]

(* The state has its types; no receiver is ahead of the channel. *)
BTypeOK ==
    /\ tail \in Nat
    /\ cursor \in [Receivers -> 0..tail]
    /\ rx \in [Receivers -> {"off", "waiting", "holding", "asleep"}]
=============================================================================
