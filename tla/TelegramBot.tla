---------------------------- MODULE TelegramBot ----------------------------
(***************************************************************************)
(* The Telegram bot of src/src/telegram: the commands of the chats         *)
(* (dispatch.rs), the handler task that passes the controller's events on  *)
(* (state.rs), the set of subscribed chats and the store of requests that  *)
(* they share.                                                             *)
(*                                                                         *)
(* A request is a message, and its origin id is named after it.  The set   *)
(* of chats is a DashSet: the handler walks it shard by shard and keeps    *)
(* the guard of a shard while it sends, and a command that changes the set *)
(* meanwhile blocks the thread it runs on.                                 *)
(***************************************************************************)
EXTENDS Broadcast, TrackLists, FiniteSets

CONSTANTS Chats, Shards, ShardOf,   \* where the set keeps a chat
          Requests, Queues,         \* messages, and those that are /queue
          ChatOf,
          Lists,                    \* what a search may find
          StoreCapacity,
          Threads,                  \* worker threads of the runtime
          Bot, Nobody,
          MaxEvents,                \* bound: events broadcast
          SendsFail                 \* Telegram may refuse a message

ASSUME BotAssumption ==
    /\ Receivers = {Bot}
    /\ ShardOf \in [Chats -> Shards] /\ IsFiniteSet(Shards) /\ IsFiniteSet(Chats)
    /\ ChatOf \in [Requests -> Chats] /\ Queues \subseteq Requests
    /\ Lists \subseteq Seq(Tracks)
    /\ StoreCapacity \in Nat \ {0} /\ Threads \in Nat \ {0}
    /\ Nobody \notin Requests \cup Chats \cup Shards
    /\ MaxEvents \in Nat /\ SendsFail \in BOOLEAN

VARIABLES dialogue,   \* DialogueData of a chat: Start or Run
          chats,      \* State.chats
          update,     \* the command a chat is at: none, start, stop or a request
          step,       \* how far the handling of a request is
          found,      \* the tracks a search has found,
          accepted,   \* and those that it adds, until they are announced
          log,        \* the events that the ring holds
          regs,       \* the channel of RequestEntry
          store,      \* Handler.requests, the entry used last at the end
          handler,    \* idle, sending, done or failed
          event,      \* the event being passed on
          reply,      \* the request it is a reply to, or Nobody
          shardsLeft, guard, chatsLeft,  \* how far the walk over the set is
          due,        \* chats subscribed since the event was taken, still to be served
          replies     \* how many replies a request has had

dialogueVars == <<dialogue, chats, update>>
requestVars == <<step, found, accepted>>
walkVars == <<shardsLeft, guard, chatsLeft>>
handlerVars == <<store, handler, event, reply, walkVars, replies>>
vars == <<bvars, dialogueVars, requestVars, log, regs, handlerVars, due>>

NoEvent == [type |-> "None", origin |-> Nobody]
EventOf(type, m) == [type |-> type, origin |-> m]
EventTypes == {"TracksQueued", "DownloadError", "Other"}

Init ==
    /\ BInit({Bot})
    /\ dialogue = [c \in Chats |-> "Start"] /\ chats = {}
    /\ update = [c \in Chats |-> "none"]
    /\ step = [m \in Requests |-> "new"]
    /\ found = [m \in Requests |-> <<>>] /\ accepted = [m \in Requests |-> <<>>]
    /\ log = <<>> /\ regs = <<>> /\ store = <<>>
    /\ handler = "idle" /\ event = NoEvent /\ reply = Nobody
    /\ shardsLeft = {} /\ guard = Nobody /\ chatsLeft = {} /\ due = {}
    /\ replies = [m \in Requests |-> 0]

-----------------------------------------------------------------------------
(* Threads: a command that wants to change a guarded shard holds one.      *)

Guarded(c) == guard = ShardOf[c]
Blocked == {c \in Chats : update[c] \in {"subscribing", "unsubscribing"}}
ThreadFree == Cardinality(Blocked) < Threads

Broadcasts(e) ==
    /\ Publish
    /\ log' = IF Len(log) = RingSize THEN Append(Tail(log), e) ELSE Append(log, e)

-----------------------------------------------------------------------------
(* The updates of a chat are handled one after the other. *)

GotoUpdate(c, u) == update' = [update EXCEPT ![c] = u]
GotoStep(m, s) == step' = [step EXCEPT ![m] = s]

(* Which command is meant depends on the dialogue; the others are answered *)
(* with an error and change nothing.                                       *)
ReceiveStart(c) ==
    /\ ThreadFree /\ update[c] = "none" /\ dialogue[c] = "Start"
    /\ GotoUpdate(c, "subscribing")
    /\ UNCHANGED <<bvars, dialogue, chats, requestVars, log, regs, handlerVars, due>>

ReceiveStop(c) ==
    /\ ThreadFree /\ update[c] = "none" /\ dialogue[c] = "Run"
    /\ GotoUpdate(c, "unsubscribing")
    /\ UNCHANGED <<bvars, dialogue, chats, requestVars, log, regs, handlerVars, due>>

SubscribeChat(c) ==
    /\ update[c] = "subscribing" /\ ~Guarded(c)
    /\ chats' = chats \cup {c} /\ GotoUpdate(c, "started")
    /\ UNCHANGED <<bvars, dialogue, requestVars, log, regs, handlerVars, due>>

(* Variant: the chat leaves the dialogue and stays in the set. *)
UnsubscribeForgotten(c) ==
    /\ update[c] = "unsubscribing" /\ ~Guarded(c)
    /\ GotoUpdate(c, "stopped")
    /\ UNCHANGED <<bvars, dialogue, chats, requestVars, log, regs, handlerVars, due>>

UnsubscribeChat(c) ==
    /\ update[c] = "unsubscribing" /\ ~Guarded(c)
    /\ chats' = chats \ {c} /\ due' = due \ {c} /\ GotoUpdate(c, "stopped")
    /\ UNCHANGED <<bvars, dialogue, requestVars, log, regs, handlerVars>>

UpdateDialogue(c) ==
    /\ ThreadFree /\ update[c] \in {"started", "stopped"}
    /\ dialogue' = [dialogue EXCEPT ![c] = IF update[c] = "started" THEN "Run" ELSE "Start"]
    /\ GotoUpdate(c, "none")
    /\ UNCHANGED <<bvars, chats, requestVars, log, regs, handlerVars, due>>

(* A /queue is handled by a task of its own, the chat goes on meanwhile.   *)
ReceiveRequest(m) ==
    /\ ThreadFree /\ update[ChatOf[m]] = "none" /\ dialogue[ChatOf[m]] = "Run"
    /\ step[m] = "new"
    /\ IF m \in Queues
       THEN GotoStep(m, "resolve") /\ UNCHANGED update
       ELSE GotoStep(m, "ask") /\ GotoUpdate(ChatOf[m], "request")
    /\ UNCHANGED <<bvars, dialogue, chats, found, accepted, log, regs, handlerVars, due>>

(* The player's answer to a request; its events follow in their own time.  *)
AskPlayer(m) ==
    /\ ThreadFree /\ step[m] = "ask"
    /\ \/ GotoStep(m, "register") /\ UNCHANGED update
       \/ GotoStep(m, "refused") /\ GotoUpdate(ChatOf[m], "none")
    /\ UNCHANGED <<bvars, dialogue, chats, found, accepted, log, regs, handlerVars, due>>

(* What is found is filtered; what is left is added to the play queue, and *)
(* nothing left is an answer of its own.  What keeps a search from starting *)
(* looks the same as a search that fails.                                  *)
Resolve(m) ==
    /\ ThreadFree /\ step[m] = "resolve"
    /\ \/ \E list \in Lists :
             /\ FilterTracks(list) # <<>> /\ GotoStep(m, "tell")
             /\ found' = [found EXCEPT ![m] = list]
             /\ accepted' = [accepted EXCEPT ![m] = FilterTracks(list)]
       \/ GotoStep(m, "refused") /\ UNCHANGED <<found, accepted>>
    /\ UNCHANGED <<bvars, dialogueVars, log, regs, handlerVars, due>>

(* Sender::queue, the lock released: without a receiver it fails.          *)
TellQueued(m) ==
    /\ ThreadFree /\ step[m] = "tell"
    /\ found' = [found EXCEPT ![m] = <<>>] /\ accepted' = [accepted EXCEPT ![m] = <<>>]
    /\ \/ Broadcasts(EventOf("TracksQueued", m)) /\ GotoStep(m, "register")
       \/ ~Listening /\ GotoStep(m, "done") /\ UNCHANGED <<tail, log>>
    /\ UNCHANGED <<cursor, rx, dialogueVars, regs, handlerVars, due>>

(* State::request: only now, with the origin id known, is it registered.   *)
Register(m) ==
    /\ ThreadFree /\ step[m] = "register" /\ GotoStep(m, "done")
    /\ regs' = IF handler \in {"idle", "sending"} THEN Append(regs, m) ELSE regs
    /\ IF m \in Queues THEN UNCHANGED update ELSE GotoUpdate(ChatOf[m], "none")
    /\ UNCHANGED <<bvars, dialogue, chats, found, accepted, log, handlerVars, due>>

-----------------------------------------------------------------------------
(* Events of the controller that a request of a chat has caused; those of  *)
(* anybody else are like those of a request that is not stored.            *)

Made(m) == step[m] \in {"tell", "register", "done"}

(* Announcements still to come need room below the bound.                  *)
ToTell == {m \in Queues : step[m] \in {"new", "resolve", "tell"}}
ControllerEvent ==
    /\ tail + Cardinality(ToTell) < MaxEvents
    /\ \/ \E m \in Requests : Made(m) /\ Broadcasts(EventOf("Other", m))
       \/ \E m \in Queues : Made(m) /\ Broadcasts(EventOf("DownloadError", m))
    /\ UNCHANGED <<cursor, rx, dialogueVars, requestVars, regs, handlerVars, due>>

-----------------------------------------------------------------------------
(* The handler task. *)

Without(s, m) == RemoveFirst(s, m)
Stored(m) == Contains(store, m)

(* Variant: insertion forgets the capacity. *)
InsertedUnbounded(m) == Append(Without(store, m), m)

(* LruCache::insert, into a full cache: the entry used first goes.          *)
Inserted(m) ==
    LET s == Append(Without(store, m), m)
    IN  IF Len(s) > StoreCapacity THEN Tail(s) ELSE s

(* A request wakes the task also when its receiver sleeps; the select then *)
(* polls that again.                                                       *)
TakeRequest ==
    /\ ThreadFree /\ handler = "idle" /\ regs # <<>>
    /\ store' = Inserted(Head(regs)) /\ regs' = Tail(regs)
    /\ IF rx[Bot] = "asleep" THEN PollAgain(Bot) ELSE UNCHANGED rx
    /\ UNCHANGED <<tail, cursor, dialogueVars, requestVars, log, handler, event, reply,
                   walkVars, replies, due>>

(* Variant: a lag ends the stream, and with it the task. *)
LagEnds ==
    /\ ThreadFree /\ handler = "idle"
    /\ FallAsleep(Bot)
    /\ handler' = "done"
    /\ UNCHANGED <<tail, dialogueVars, requestVars, log, regs, store, event, reply,
                   walkVars, replies, due>>

Lag ==
    /\ ThreadFree /\ handler = "idle"
    /\ FallAsleep(Bot)
    /\ UNCHANGED <<tail, dialogueVars, requestVars, log, regs, handlerVars, due>>

(* Variant: whatever comes from a request is told to its chat alone. *)
AnswersAny(e) == Stored(e.origin)

(* Any event takes the entry of its origin out of the store, only an error *)
(* is then answered to that request; the others go to all chats.           *)
Answers(e) == e.type = "DownloadError" /\ Stored(e.origin)

(* Variant: the entry is looked up and stays. *)
TakenFromKept(e) == store
TakenFrom(e) == Without(store, e.origin)

TakeBroadcast ==
    /\ ThreadFree /\ handler = "idle" /\ TakeEvent(Bot)
    /\ LET e == log[cursor[Bot] + 1 - Overwritten]
       IN  /\ event' = e /\ store' = TakenFrom(e)
           /\ reply' = IF Answers(e) THEN e.origin ELSE Nobody
           /\ shardsLeft' = IF Answers(e) THEN {} ELSE Shards
    /\ handler' = "sending" /\ due' = chats
    /\ UNCHANGED <<tail, dialogueVars, requestVars, log, regs, guard, chatsLeft, replies>>

(* Variant: the walk is over a copy of the set. *)
EnterCopy ==
    /\ ThreadFree /\ handler = "sending" /\ shardsLeft = Shards /\ chatsLeft = {}
    /\ shardsLeft' = {} /\ chatsLeft' = chats
    /\ UNCHANGED <<bvars, dialogueVars, requestVars, log, regs, store, handler, event, reply,
                   guard, replies, due>>

(* The iterator gives back the guard of a shard when it goes on.           *)
EnterShard ==
    /\ ThreadFree /\ handler = "sending" /\ chatsLeft = {}
    /\ \E s \in shardsLeft :
          /\ guard' = s /\ shardsLeft' = shardsLeft \ {s}
          /\ chatsLeft' = {c \in chats : ShardOf[c] = s}
    /\ UNCHANGED <<bvars, dialogueVars, requestVars, log, regs, store, handler, event, reply,
                   replies, due>>

(* All texts of the event, to one chat.                                     *)
SendTo(c) ==
    /\ ThreadFree /\ handler = "sending" /\ c \in chatsLeft
    /\ chatsLeft' = chatsLeft \ {c} /\ due' = due \ {c}
    /\ UNCHANGED <<bvars, dialogueVars, requestVars, log, regs, store, handler, event, reply,
                   shardsLeft, guard, replies>>

(* A failed download answered to its request serves all: it is meant for   *)
(* that chat alone.                                                        *)
SendReply ==
    /\ ThreadFree /\ handler = "sending" /\ reply # Nobody
    /\ replies' = [replies EXCEPT ![reply] = @ + 1] /\ reply' = Nobody
    /\ due' = IF event.type = "DownloadError" THEN {} ELSE due \ {ChatOf[reply]}
    /\ UNCHANGED <<bvars, dialogueVars, requestVars, log, regs, store, handler, event, walkVars>>

Delivered == reply = Nobody /\ shardsLeft = {} /\ chatsLeft = {}

(* Variant: the guard of the last shard is not given back. *)
FinishKeepingGuard ==
    /\ ThreadFree /\ handler = "sending" /\ Delivered
    /\ handler' = "idle" /\ event' = NoEvent /\ due' = {}
    /\ PollAgain(Bot)
    /\ UNCHANGED <<tail, cursor, dialogueVars, requestVars, log, regs, store, reply, walkVars,
                   replies>>

Finish ==
    /\ ThreadFree /\ handler = "sending" /\ Delivered
    /\ handler' = "idle" /\ event' = NoEvent /\ due' = {} /\ guard' = Nobody
    /\ PollAgain(Bot)
    /\ UNCHANGED <<tail, cursor, dialogueVars, requestVars, log, regs, store, reply,
                   shardsLeft, chatsLeft, replies>>

(* The end of the task: both channels are closed, and the guard goes.      *)
HandlerEnds(how) ==
    /\ handler' = how /\ Drop(Bot)
    /\ event' = NoEvent /\ reply' = Nobody /\ due' = {} /\ regs' = <<>>
    /\ shardsLeft' = {} /\ guard' = Nobody /\ chatsLeft' = {}
    /\ UNCHANGED <<tail, cursor, dialogueVars, requestVars, log, store, replies>>

(* A message that Telegram refuses ends it.                                *)
SendFails ==
    /\ SendsFail /\ ThreadFree /\ handler = "sending" /\ (reply # Nobody \/ chatsLeft # {})
    /\ HandlerEnds("failed")

(* The program shuts down; commands can still come in.                     *)
Cancel == ThreadFree /\ handler = "idle" /\ HandlerEnds("done")

-----------------------------------------------------------------------------
Command(c) ==
    \/ ReceiveStart(c) \/ ReceiveStop(c)
    \/ SubscribeChat(c) \/ UnsubscribeChat(c) \/ UpdateDialogue(c)
RequestTask(m) ==
    AskPlayer(m) \/ Resolve(m) \/ TellQueued(m) \/ Register(m)
HandlerTask ==
    \/ TakeRequest \/ Lag \/ TakeBroadcast
    \/ EnterShard \/ (\E c \in Chats : SendTo(c)) \/ SendReply \/ Finish

Work == HandlerTask \/ \E m \in Requests : RequestTask(m)

Next ==
    \/ \E c \in Chats : Command(c)
    \/ \E m \in Requests : ReceiveRequest(m) \/ RequestTask(m)
    \/ ControllerEvent
    \/ HandlerTask \/ SendFails \/ Cancel

Spec == Init /\ [][Next]_vars

(* As long as tasks can run one of them does, and a thread that waits for  *)
(* a shard gets it when it stays free; nobody has to send commands or to   *)
(* cause events.  Requests and events are finitely many, so a task cannot  *)
(* be starved by the others and weak fairness is enough.                   *)
FairSpec ==
    /\ Spec
    /\ \A c \in Chats :
          WF_vars(SubscribeChat(c) \/ UnsubscribeChat(c) \/ UpdateDialogue(c))
    /\ WF_vars(Work)

-----------------------------------------------------------------------------
(* The state has its types, and the store its capacity.                    *)
BotTypeOK ==
    /\ BTypeOK
    /\ dialogue \in [Chats -> {"Start", "Run"}]
    /\ chats \subseteq Chats
    /\ update \in [Chats -> {"none", "subscribing", "started", "unsubscribing", "stopped", "request"}]
    /\ step \in [Requests -> {"new", "ask", "resolve", "tell", "register", "done", "refused"}]
    /\ found \in [Requests -> Lists \cup {<<>>}] /\ accepted \in [Requests -> Seq(Tracks)]
    /\ log \in Seq([type: EventTypes, origin: Requests \cup {Nobody}]) /\ Len(log) = tail - Overwritten
    /\ regs \in Seq(Requests)
    /\ store \in Seq(Requests) /\ Len(store) <= StoreCapacity
    /\ handler \in {"idle", "sending", "done", "failed"}
    /\ reply \in Requests \cup {Nobody}
    /\ shardsLeft \subseteq Shards /\ guard \in Shards \cup {Nobody}
    /\ chatsLeft \subseteq Chats /\ due \subseteq Chats

(* What a /queue adds is the longest beginning of the tracks allowed that  *)
(* keeps within the duration, and never nothing (dispatch.rs:357-368).     *)
AcceptsLongestPrefix ==
    \A m \in Queues :
        step[m] = "tell" =>
            /\ accepted[m] = LongestWithin(Admissible(found[m]))
            /\ accepted[m] # <<>>

(* The messages about a list, the announcement with its headline and the   *)
(* listing of /show without, hold all its tracks once, in order, and no    *)
(* text is empty or too long, also at multiples of the limit               *)
(* (state.rs:257, 289; dispatch.rs:296).                                  *)
AnnouncesAllTracks ==
    \A m \in Queues :
        step[m] = "tell" =>
            \A headline \in BOOLEAN : \A list \in {found[m], accepted[m]} :
                SplitsWell(Messages(headline, list), headline, list)

(* Between two commands a chat is subscribed exactly if its dialogue runs, *)
(* although the two are changed one after the other.                       *)
DialogueMatches ==
    \A c \in Chats :
        update[c] \in {"none", "request"} => (c \in chats <=> dialogue[c] = "Run")

(* A request is answered with one reply at most, however many of its       *)
(* downloads fail (state.rs:201).                                          *)
OneReply == \A m \in Requests : replies[m] <= 1

(* What is sent to all goes to no chat that has left the set, not even one *)
(* that leaves while the handler walks over it (state.rs:218).  The only   *)
(* message that can still reach such a chat is the reply to its own        *)
(* request when a download of that has failed (state.rs:201-216).          *)
NothingAfterStop ==
    [][/\ \A c \in Chats : SendTo(c) => c \in chats
       /\ SendReply => \/ ChatOf[reply] \in chats
                       \/ event.type = "DownloadError" /\ event.origin = reply]_vars

(* When the handler is through with an event, every chat that was          *)
(* subscribed all the time has been served, whoever came or went           *)
(* meanwhile.  Only an error that has been answered to its request is      *)
(* withheld from the other chats; one that has no stored request goes to   *)
(* all, like every other event (state.rs:201-226).                         *)
NoChatLeftOut == [][Finish => due = {}]_vars

(* Every command is finished, given more threads than chats; with fewer,   *)
(* chats that wait for the guarded shard can hold all the threads the      *)
(* handler needs to give it back.                                          *)
CommandsFinish == \A c \in Chats : []<>(update[c] = "none")

(* Every request is refused or registered, and registered requests reach   *)
(* the store even when the receiver sleeps after a lag, unless the task    *)
(* has ended.                                                              *)
RequestsTaken ==
    []<>(/\ \A m \in Requests : step[m] \in {"new", "refused", "done"}
         /\ regs = <<>> \/ handler = "failed")
=============================================================================
