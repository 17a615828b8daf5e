--------------------------- MODULE RequestService ---------------------------
(***************************************************************************)
(* What the download service promises its callers, with everything about   *)
(* threads, processes and pipes left out: requests are answered one after  *)
(* the other, each once and in the order in which they were accepted; if   *)
(* the service breaks, everything accepted is reported as lost, and so is  *)
(* whatever is asked later.                                                *)
(***************************************************************************)
EXTENDS Sequences

CONSTANTS Requests, Verdicts

VARIABLES pending,   \* requests accepted and not answered, oldest first
          verdict,   \* the answer each request has had, or "none"
          open       \* the service has not broken

svars == <<pending, verdict, open>>

Accepted(r) == \E i \in DOMAIN pending : pending[i] = r

SInit ==
    /\ pending = <<>>
    /\ verdict = [r \in Requests |-> "none"]
    /\ open = TRUE

Accept(r) ==
    /\ open /\ verdict[r] = "none" /\ ~Accepted(r)
    /\ pending' = Append(pending, r)
    /\ UNCHANGED <<verdict, open>>

(* Answered without ever being accepted: not a video's address, or broken. *)
Refuse(r) ==
    /\ verdict[r] = "none" /\ ~Accepted(r)
    /\ \E v \in {"invalid", "lost"} :
          /\ v = "lost" => ~open
          /\ verdict' = [verdict EXCEPT ![r] = v]
    /\ UNCHANGED <<pending, open>>

AnswerFirst(v) ==
    /\ open /\ pending # <<>>
    /\ verdict' = [verdict EXCEPT ![Head(pending)] = v]
    /\ pending' = Tail(pending)
    /\ UNCHANGED open

Break ==
    /\ open /\ open' = FALSE
    /\ verdict' = [r \in Requests |-> IF Accepted(r) THEN "lost" ELSE verdict[r]]
    /\ pending' = <<>>

SNext ==
    \/ \E r \in Requests : Accept(r) \/ Refuse(r)
    \/ \E v \in Verdicts : AnswerFirst(v)
    \/ Break

ServiceSpec == SInit /\ [][SNext]_svars
=============================================================================
