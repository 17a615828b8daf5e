--------------------------- MODULE MCTelegramBot ---------------------------
(* Two chats, one with a /queue and one with a request to the player. *)
EXTENDS TelegramBot, TLC

CONSTANTS ca, cb, q1, p1, s1, s2, t1, t2, t3, b

MCShardOf == [c \in Chats |-> IF c = ca THEN s1 ELSE s2]
MCChatOf == [m \in Requests |-> IF m = q1 THEN ca ELSE cb]
MCDuration == [t \in Tracks |-> IF t = t3 THEN 3 ELSE 1]

(* Nothing left of it; a track that does not fit before one that would; a  *)
(* track that fits exactly.                                                *)
MCLists == {<<t2>>, <<t1, t2, t1, t3, t1>>, <<t3, t1>>}
=============================================================================
