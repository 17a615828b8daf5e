----------------------------- MODULE EventFeed -----------------------------
(***************************************************************************)
(* What the broadcast promises a reader, however many tasks and buffers    *)
(* lie between: after joining it sees the events sent since then one by    *)
(* one and none is left out between two it sees; it may see no more at all *)
(* from some point on.                                                     *)
(***************************************************************************)
EXTENDS Naturals, Sequences

CONSTANT Readers

VARIABLES published,  \* how many events have been sent
          seen        \* the events a reader has seen, behind the last one it was
                      \* too late for; empty before it joins

fvars == <<published, seen>>

FInit ==
    /\ published = 0
    /\ seen = [r \in Readers |-> <<>>]

Emit == published' = published + 1 /\ UNCHANGED seen

Join(r) ==
    /\ seen[r] = <<>>
    /\ seen' = [seen EXCEPT ![r] = <<published>>]
    /\ UNCHANGED published

See(r) ==
    /\ seen[r] # <<>> /\ seen[r][Len(seen[r])] < published
    /\ seen' = [seen EXCEPT ![r] = Append(@, @[Len(@)] + 1)]
    /\ UNCHANGED published

FNext == Emit \/ \E r \in Readers : Join(r) \/ See(r)

FeedSpec == FInit /\ [][FNext]_fvars
=============================================================================
