---------------------------- MODULE AdminServer ----------------------------
(***************************************************************************)
(* The connections of src/src/server.rs with the lock and the broadcast of *)
(* the controller that they share.  A connection is three tasks: one reads *)
(* requests, one passes notifications on, and the writer owns the socket   *)
(* and takes what the other two send through a bounded channel.            *)
(*                                                                         *)
(* The controller is only what a connection meets of it: it takes the      *)
(* write lock, or not, and broadcasts.  Commands are told apart by what    *)
(* they do to the connection.  A client may stop reading: then its socket  *)
(* takes nothing (the kernel's buffer counts as full).                     *)
(***************************************************************************)
EXTENDS Broadcast, Sequences, FiniteSets

CONSTANTS Conns,            \* the connections, each opened at most once
          Bot,              \* the receiver of the bot
          WriterCapacity,
          MaxEvents,        \* bound: events broadcast
          Commands          \* what clients ask for

ASSUME AdminAssumption ==
    /\ Receivers = Conns \cup {Bot} /\ Bot \notin Conns /\ "controller" \notin Conns
    /\ WriterCapacity \in Nat \ {0} /\ MaxEvents \in Nat
    /\ Commands \subseteq {"exit", "player", "info", "list", "queue"}

VARIABLES req,       \* what the request task is about to do
          chan,      \* the writer's channel
          open,      \* the writer has not closed it
          prompt,    \* WriterWorker.prompt
          client,    \* absent, reading, stalled or left
          term,      \* what the line of the terminal holds: nothing or the prompt
          prompted,  \* the client has been asked for a request
          shown,     \* the events on the terminal, behind the last one before it
          lockq,     \* who waits for the lock, in order: connections and the controller
          readers,   \* who holds it for reading
          ctl,       \* the controller task
          token      \* the cancellation token

connVars == <<req, chan, open, prompt, client, term, prompted, shown>>
lockVars == <<lockq, readers, ctl>>
avars == <<bvars, connVars, lockVars, token>>

Controller == "controller"

AInit(subscribed) ==
    /\ BInit(subscribed)
    /\ req = [c \in Conns |-> "off"]
    /\ chan = [c \in Conns |-> <<>>]
    /\ open = [c \in Conns |-> FALSE]
    /\ prompt = [c \in Conns |-> FALSE]
    /\ client = [c \in Conns |-> "absent"]
    /\ term = [c \in Conns |-> "empty"]
    /\ prompted = [c \in Conns |-> FALSE]
    /\ shown = [c \in Conns |-> <<>>]
    /\ lockq = <<>> /\ readers = {} /\ ctl = "idle"
    /\ token = FALSE

-----------------------------------------------------------------------------
(* The writer's channel. *)

Message(kind, n) == [kind |-> kind, event |-> n]
HasRoom(c) == open[c] /\ Len(chan[c]) < WriterCapacity
Put(c, m) == chan' = [chan EXCEPT ![c] = Append(@, m)]

-----------------------------------------------------------------------------
(* The request task. *)

Goto(c, step) == req' = [req EXCEPT ![c] = step]

(* The steps that send: what, and what follows. *)
Sends == [hello |-> "Lines", prompt |-> "SetPrompt", clear |-> "ClearPrompt",
          reply |-> "Lines", list |-> "Lines", bye |-> "Lines", close |-> "Exit"]

(* Variant: the prompt counts as answered before the request has come. *)
ThenClearEarly == [hello |-> "prompt", prompt |-> "clear", clear |-> "read",
                   reply |-> "prompt", list |-> "prompt", bye |-> "close", close |-> "ended"]
Then == [hello |-> "prompt", prompt |-> "read", clear |-> "handle",
         reply |-> "prompt", list |-> "prompt", bye |-> "close", close |-> "ended"]

(* A closed channel ends the loop; the farewell is not checked.            *)
AfterClosed(step) ==
    IF step = "bye" THEN "close" ELSE IF step = "close" THEN "ended" ELSE "bye"

(* Variant: the guard lives as long as the connection. *)
ReleaseNever(step, c) == UNCHANGED readers

(* The listing is sent with the read guard alive (server.rs:376-397).      *)
ReleaseAfter(step, c) == readers' = IF step = "list" THEN readers \ {c} ELSE readers

SendStep(c) ==
    /\ req[c] \in DOMAIN Sends
    /\ \/ HasRoom(c) /\ Put(c, Message(Sends[req[c]], 0)) /\ Goto(c, Then[req[c]])
       \/ ~open[c] /\ Goto(c, AfterClosed(req[c])) /\ UNCHANGED chan
    /\ ReleaseAfter(req[c], c)
    /\ UNCHANGED <<bvars, open, prompt, client, term, prompted, shown, lockq, ctl, token>>

(* The user's return key moves the terminal to a new line.                 *)
Enter(c) ==
    /\ req[c] = "read" /\ client[c] \in {"reading", "stalled"} /\ prompted[c]
    /\ Goto(c, "clear")
    /\ prompted' = [prompted EXCEPT ![c] = FALSE]
    /\ term' = [term EXCEPT ![c] = "empty"]
    /\ UNCHANGED <<bvars, chan, open, prompt, client, shown, lockVars, token>>

(* The other outcomes of the select: end of file and cancellation.         *)
ReadEnds(c) ==
    /\ req[c] = "read" /\ (client[c] = "left" \/ token)
    /\ Goto(c, "bye")
    /\ UNCHANGED <<bvars, chan, open, prompt, client, term, prompted, shown, lockVars, token>>

Wait(who) == lockq' = Append(lockq, who)

(* Broadcasts that are already certain to be tried count as made. *)
Underway ==
    Cardinality({c \in Conns : req[c] \in {"add", "tell"}})
        + (IF ctl \in {"waiting", "viewing"} THEN 1 ELSE 0)
EventsLeft == tail + Underway < MaxEvents

(* A request that succeeds says nothing, one that fails says why; a closed *)
(* channel of the player ends the connection.                              *)
HandleRequest(c) ==
    /\ req[c] = "handle"
    /\ \/ "exit" \in Commands /\ Goto(c, "bye") /\ UNCHANGED lockq
       \/ "player" \in Commands /\ UNCHANGED lockq
          /\ \E step \in {"prompt", "reply"} : Goto(c, step)
       \/ "info" \in Commands /\ Goto(c, "status") /\ Wait(c)
       \/ "list" \in Commands /\ Goto(c, "view") /\ Wait(c)
       \/ "queue" \in Commands /\ EventsLeft /\ Goto(c, "add") /\ Wait(c)
    /\ UNCHANGED <<bvars, chan, open, prompt, client, term, prompted, shown, readers, ctl, token>>

First(who) == lockq # <<>> /\ Head(lockq) = who

(* Only a listing keeps the guard; the status is copied and answered       *)
(* without it.                                                             *)
ReadLock(c) ==
    /\ First(c) /\ lockq' = Tail(lockq)
    /\ \/ req[c] = "view" /\ Goto(c, "list") /\ readers' = readers \cup {c}
       \/ req[c] = "status" /\ Goto(c, "reply") /\ UNCHANGED readers
    /\ UNCHANGED <<bvars, chan, open, prompt, client, term, prompted, shown, ctl, token>>

WriteLock(c) ==
    /\ req[c] = "add" /\ First(c) /\ readers = {}
    /\ lockq' = Tail(lockq)
    /\ Goto(c, "tell")
    /\ UNCHANGED <<bvars, chan, open, prompt, client, term, prompted, shown, readers, ctl, token>>

(* The added tracks are announced without the lock; if nobody listens that *)
(* is a channel error, which ends the connection.                          *)
TellQueued(c) ==
    /\ req[c] = "tell"
    /\ \/ Publish /\ Goto(c, "prompt")
       \/ ~Listening /\ Goto(c, "bye") /\ UNCHANGED tail
    /\ UNCHANGED <<cursor, rx, chan, open, prompt, client, term, prompted, shown,
                   lockVars, token>>

-----------------------------------------------------------------------------
(* The notification task. *)

Poll(c) ==
    /\ TakeEvent(c) \/ FallAsleep(c)
    /\ UNCHANGED <<tail, connVars, lockVars, token>>

(* Variant: an event that finds the channel full is dropped. *)
NotifyOrDrop(c) ==
    /\ rx[c] = "holding"
    /\ IF HasRoom(c) THEN Put(c, Message("Lines", cursor[c])) ELSE UNCHANGED chan
    /\ IF open[c] THEN PollAgain(c) ELSE Drop(c)
    /\ UNCHANGED <<tail, cursor, req, open, prompt, client, term, prompted, shown,
                   lockVars, token>>

Notify(c) ==
    /\ rx[c] = "holding"
    /\ \/ HasRoom(c) /\ Put(c, Message("Lines", cursor[c])) /\ PollAgain(c)
       \/ ~open[c] /\ Drop(c) /\ UNCHANGED chan
    /\ UNCHANGED <<tail, cursor, req, open, prompt, client, term, prompted, shown,
                   lockVars, token>>

-----------------------------------------------------------------------------
(* The writer task. *)

Next1(c) == Head(chan[c])
Received(c) == open[c] /\ chan[c] # <<>>

(* Variant: the task ends, the channel stays. *)
CloseSocketOnly(c) ==
    /\ prompt' = [prompt EXCEPT ![c] = FALSE]
    /\ UNCHANGED <<open, chan>>

(* The socket is shut down and the channel closed with what is in it.      *)
CloseWriter(c) ==
    /\ open' = [open EXCEPT ![c] = FALSE]
    /\ chan' = [chan EXCEPT ![c] = <<>>]
    /\ UNCHANGED prompt

HandleExit(c) ==
    /\ Received(c) /\ Next1(c).kind = "Exit"
    /\ CloseWriter(c)
    /\ UNCHANGED <<bvars, req, client, term, prompted, shown, lockVars, token>>

HandleClear(c) ==
    /\ Received(c) /\ Next1(c).kind = "ClearPrompt"
    /\ prompt' = [prompt EXCEPT ![c] = FALSE]
    /\ chan' = [chan EXCEPT ![c] = Tail(@)]
    /\ UNCHANGED <<bvars, req, open, client, term, prompted, shown, lockVars, token>>

WriteFails(c) ==
    /\ Received(c) /\ Next1(c).kind \in {"Lines", "SetPrompt"} /\ client[c] = "left"
    /\ CloseWriter(c)
    /\ UNCHANGED <<bvars, req, client, term, prompted, shown, lockVars, token>>

(* handle_prompt and handle_message, to a client that reads.               *)
WritePrompt(c) ==
    /\ prompt' = [prompt EXCEPT ![c] = TRUE]
    /\ term' = [term EXCEPT ![c] = "prompt"]
    /\ prompted' = [prompted EXCEPT ![c] = TRUE]
    /\ UNCHANGED shown

WriteLines(c) ==
    /\ prompt' = [prompt EXCEPT ![c] = FALSE]
    /\ term' = [term EXCEPT ![c] = "empty"]
    /\ shown' = [shown EXCEPT ![c] = IF Next1(c).event > 0 THEN Append(@, Next1(c).event) ELSE @]
    /\ UNCHANGED prompted

Write(c) ==
    /\ Received(c) /\ client[c] = "reading"
    /\ \/ Next1(c).kind = "SetPrompt" /\ WritePrompt(c)
       \/ Next1(c).kind = "Lines" /\ WriteLines(c)
    /\ chan' = [chan EXCEPT ![c] = Tail(@)]
    /\ UNCHANGED <<bvars, req, open, client, lockVars, token>>

-----------------------------------------------------------------------------
(* Clients. *)

(* Connection::spawn: subscribe, and start the three tasks. *)
Connect(c) ==
    /\ client[c] = "absent"
    /\ client' = [client EXCEPT ![c] = "reading"]
    /\ Subscribe(c)
    /\ open' = [open EXCEPT ![c] = TRUE]
    /\ Goto(c, "hello")
    /\ shown' = [shown EXCEPT ![c] = <<tail>>]
    /\ UNCHANGED <<tail, chan, prompt, term, prompted, lockVars, token>>

Stall(c) == client[c] = "reading" /\ client' = [client EXCEPT ![c] = "stalled"]
Resume(c) == client[c] = "stalled" /\ client' = [client EXCEPT ![c] = "reading"]
HangUp(c) == client[c] \in {"reading", "stalled"} /\ client' = [client EXCEPT ![c] = "left"]
ClientStep(c) ==
    /\ Stall(c) \/ Resume(c) \/ HangUp(c)
    /\ UNCHANGED <<bvars, req, chan, open, prompt, term, prompted, shown, lockVars, token>>

-----------------------------------------------------------------------------
(* The controller task. *)

(* An event handled under the lock: for writing, or, TrackStarted, for     *)
(* reading.                                                                *)
WantLock ==
    /\ ctl = "idle" /\ EventsLeft
    /\ ctl' \in {"waiting", "viewing"} /\ Wait(Controller)
    /\ UNCHANGED <<bvars, connVars, readers, token>>

Emit == Publish \/ UNCHANGED tail
Announce ==
    \/ Emit /\ ctl' = "idle"
    \/ ~Listening /\ ctl' = "failed" /\ UNCHANGED tail

HandleLocked ==
    /\ ctl \in {"waiting", "viewing"} /\ First(Controller)
    /\ ctl = "waiting" => readers = {}
    /\ lockq' = Tail(lockq)
    /\ Announce
    /\ UNCHANGED <<cursor, rx, connVars, readers, token>>

(* An event that is only passed on.                                         *)
HandleSignal ==
    /\ ctl = "idle" /\ EventsLeft
    /\ Announce
    /\ UNCHANGED <<cursor, rx, connVars, lockq, readers, token>>

(* The token is looked at between two events only.                         *)
ControllerStops ==
    /\ ctl = "idle" /\ token
    /\ ctl' = "stopped"
    /\ UNCHANGED <<bvars, connVars, lockq, readers, token>>

ConnStep(c) ==
    \/ SendStep(c) \/ Enter(c) \/ ReadEnds(c) \/ HandleRequest(c)
    \/ ReadLock(c) \/ WriteLock(c) \/ TellQueued(c)
    \/ Poll(c) \/ Notify(c)
    \/ HandleExit(c) \/ HandleClear(c) \/ WriteFails(c) \/ Write(c)
    \/ ClientStep(c)

ControllerStep == WantLock \/ HandleLocked \/ HandleSignal \/ ControllerStops

-----------------------------------------------------------------------------
(* The state has its types, the writer's channel its bound, and a read     *)
(* lock and a place in the queue for it belong to a task that is at the    *)
(* point where it has them.                                                *)
ATypeOK ==
    /\ BTypeOK
    /\ req \in [Conns -> DOMAIN Sends \cup {"off", "read", "handle", "view", "status",
                       "add", "tell", "ended"}]
    /\ \A c \in Conns : Len(chan[c]) <= WriterCapacity
    /\ open \in [Conns -> BOOLEAN] /\ prompt \in [Conns -> BOOLEAN]
    /\ client \in [Conns -> {"absent", "reading", "stalled", "left"}]
    /\ term \in [Conns -> {"empty", "prompt"}] /\ prompted \in [Conns -> BOOLEAN]
    /\ \A c \in Conns : shown[c] \in Seq(0..tail)
    /\ readers = {c \in Conns : req[c] = "list"}
    /\ {lockq[i] : i \in DOMAIN lockq} =
           {c \in Conns : req[c] \in {"view", "status", "add"}}
               \cup {who \in {Controller} : ctl \in {"waiting", "viewing"}}
    /\ ctl \in {"idle", "waiting", "viewing", "stopped", "failed"}
    /\ token \in BOOLEAN

(* Three tasks write to one terminal, yet no line is put behind a prompt   *)
(* that is still open: whenever the terminal stands behind one, the writer *)
(* knows and starts a new line first (server.rs:553), provided the client  *)
(* types only when it has been asked.                                      *)
PromptKnown == \A c \in Conns : term[c] = "prompt" => prompt[c] \/ ~open[c]

(* What a client sees of the broadcast is a feed: nothing from before it   *)
(* connected, nothing twice, nothing out of order, and no gap: a client    *)
(* that has missed an event, because its receiver lagged, is shown nothing *)
(* more.                                                                   *)
Feed == INSTANCE EventFeed WITH
    Readers <- Conns,
    published <- tail,
    seen <- shown
ShowsFeed == Feed!FeedSpec
=============================================================================
