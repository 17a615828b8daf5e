----------------------------- MODULE TrackLists -----------------------------
(***************************************************************************)
(* What the bot does with a list of tracks: filter_tracks of               *)
(* src/src/telegram/dispatch.rs, and the splitting of a list into messages *)
(* (dispatch.rs, state.rs), of which only headline and tracks are kept.    *)
(***************************************************************************)
EXTENDS Naturals, SequencesExt

CONSTANTS Tracks, Duration, Music,  \* tracks, their lengths, those that are music
          OnlyMusic, MaxDuration,   \* telegram::Settings
          TracksInMessage

ASSUME TrackListsAssumption ==
    /\ Duration \in [Tracks -> Nat] /\ Music \subseteq Tracks
    /\ OnlyMusic \in BOOLEAN /\ MaxDuration \in Nat
    /\ TracksInMessage \in Nat \ {0}

Admissible(list) ==
    LET kept[i \in 0..Len(list)] ==
            IF i = 0 THEN <<>>
            ELSE IF OnlyMusic /\ list[i] \notin Music THEN kept[i - 1]
            ELSE Append(kept[i - 1], list[i])
    IN  kept[Len(list)]

(* One step of take_while: the length is added before it is compared.      *)
Taking(acc, t) ==
    LET total == acc.total + Duration[t]
        goes  == acc.goes /\ total <= MaxDuration
    IN  [total |-> total, goes |-> goes, kept |-> IF goes THEN Append(acc.kept, t) ELSE acc.kept]

(* Variant: a track that is too long is skipped and the rest still tried. *)
TakingLater(acc, t) ==
    LET total == acc.total + Duration[t]
    IN  IF total <= MaxDuration
        THEN [acc EXCEPT !.total = total, !.kept = Append(@, t)]
        ELSE acc

TakeWhile(step(_, _), list) ==
    FoldLeft(step, [total |-> 0, goes |-> TRUE, kept |-> <<>>], list).kept

FilterTracksLater(list) == TakeWhile(TakingLater, Admissible(list))
FilterTracks(list) == TakeWhile(Taking, Admissible(list))

(* A text under construction; one that is full is put away.                *)
Text(header, list) == [header |-> header, tracks |-> list]
HasText(t) == t.header \/ t.tracks # <<>>

Writing(acc, t) ==
    LET text == [acc.text EXCEPT !.tracks = Append(@, t)]
        full == (acc.count + 1) % TracksInMessage = 0
    IN  [count |-> acc.count + 1,
         texts |-> IF full THEN Append(acc.texts, text) ELSE acc.texts,
         text  |-> IF full THEN Text(FALSE, <<>>) ELSE text]

Written(header, list) ==
    FoldLeft(Writing, [count |-> 0, texts |-> <<>>, text |-> Text(header, <<>>)], list)

(* Variant: the last text is put away whether or not it holds anything. *)
MessagesOfAll(header, list) ==
    LET end == Written(header, list) IN Append(end.texts, end.text)

Messages(header, list) ==
    LET end == Written(header, list)
    IN  IF HasText(end.text) THEN Append(end.texts, end.text) ELSE end.texts

-----------------------------------------------------------------------------
(* The same without loops, to compare with. *)

TotalOf(list) == FoldLeft(LAMBDA sum, t : sum + Duration[t], 0, list)
LongestWithin(list) ==
    CHOOSE p \in Prefixes(list) :
        /\ TotalOf(p) <= MaxDuration
        /\ \A q \in Prefixes(list) : TotalOf(q) <= MaxDuration => Len(q) <= Len(p)

SplitsWell(texts, header, list) ==
    /\ FlattenSeq([i \in DOMAIN texts |-> texts[i].tracks]) = list
    /\ \A i \in DOMAIN texts :
          /\ HasText(texts[i])
          /\ texts[i].header = (header /\ i = 1)
          /\ Len(texts[i].tracks) <= TracksInMessage
          /\ i < Len(texts) => Len(texts[i].tracks) = TracksInMessage
=============================================================================
