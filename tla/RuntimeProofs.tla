---------------------------- MODULE RuntimeProofs ----------------------------
(* Invariants of the admin server and of the program around it, and the    *)
(* proof that what a client sees is a feed: for any number of connections, *)
(* any sizes of ring and writer, and with or without the bot.              *)
EXTENDS Runtime, Integers, TLAPS

(* The types, with what the channels hold; the lock is left to its own part. *)
Kinds == {"Lines", "SetPrompt", "ClearPrompt", "Exit"}
Messages == [kind: Kinds, event: Nat]
Steps == DOMAIN Sends \cup {"off", "read", "handle", "view", "status", "add", "tell", "ended"}

ConnTypes ==
    /\ req \in [Conns -> Steps]
    /\ chan \in [Conns -> Seq(Messages)] /\ \A c \in Conns : Len(chan[c]) <= WriterCapacity
    /\ open \in [Conns -> BOOLEAN] /\ prompt \in [Conns -> BOOLEAN]
    /\ client \in [Conns -> {"absent", "reading", "stalled", "left"}]
    /\ term \in [Conns -> {"empty", "prompt"}] /\ prompted \in [Conns -> BOOLEAN]
    /\ shown \in [Conns -> Seq(Nat)]
TaskTypes ==
    /\ ctl \in {"idle", "waiting", "viewing", "stopped", "failed"} /\ token \in BOOLEAN
    /\ bot \in {"off", "running", "stopped", "failed"}
    /\ server \in {"running", "stopped", "failed"} /\ socket \in BOOLEAN
    /\ unjoined \subseteq Tasks
    /\ outcome \in {"ok", "error"} /\ main \in {"running", "exited"}
Types == BTypeOK /\ ConnTypes /\ TaskTypes

(* The lock: a connection holds it for reading exactly while it sends its  *)
(* listing, and everybody who wants it stands in the queue once.           *)
InLockq(who) == \E i \in DOMAIN lockq : lockq[i] = who
Wants(who) ==
    IF who = Controller THEN ctl \in {"waiting", "viewing"}
    ELSE req[who] \in {"view", "status", "add"}
LockAgrees ==
    /\ lockq \in Seq(Conns \cup {Controller})
    /\ \A who \in Conns \cup {Controller} : InLockq(who) <=> Wants(who)
    /\ \A i, j \in DOMAIN lockq : lockq[i] = lockq[j] => i = j
    /\ readers = {c \in Conns : req[c] = "list"}

(* Nothing of a connection is there before it is opened. *)
Fresh(c) ==
    client[c] = "absent" =>
        /\ req[c] = "off" /\ ~open[c] /\ chan[c] = <<>> /\ shown[c] = <<>>
        /\ term[c] = "empty" /\ ~prompted[c]

(* The prompt: one is under way at most, and only while the request task   *)
(* waits for what is typed behind it, or has given up; the message that    *)
(* closes it finds the terminal on a new line, before the next one.        *)
Holds(c, kind) == \E i \in DOMAIN chan[c] : chan[c][i].kind = kind
PastReading(c) == req[c] \in {"read", "bye", "close", "ended"}
PromptOrder(c) ==
    /\ ~PastReading(c) => ~prompted[c] /\ ~Holds(c, "SetPrompt")
    /\ prompted[c] => ~Holds(c, "SetPrompt")
    /\ \A i, j \in DOMAIN chan[c] :
          chan[c][i].kind = "SetPrompt" /\ chan[c][j].kind = "SetPrompt" => i = j
    /\ \A i, j \in DOMAIN chan[c] :
          chan[c][i].kind = "SetPrompt" /\ chan[c][j].kind = "ClearPrompt" => j < i
    /\ req[c] = "clear" \/ Holds(c, "ClearPrompt") => term[c] = "empty"
PromptsAgree == PromptKnown /\ \A c \in Conns : PromptOrder(c)

(* The feed: what is on the terminal, in the writer's channel and still to *)
(* be read are events in their order.                                      *)
LastShown(c) == shown[c][Len(shown[c])]
PassedOn(c) == IF rx[c] = "holding" THEN cursor[c] - 1 ELSE cursor[c]
FeedOrder(c) ==
    /\ client[c] # "absent" => shown[c] # <<>> /\ LastShown(c) <= PassedOn(c)
    /\ \A i \in DOMAIN chan[c] :
          chan[c][i].event > 0 =>
              LastShown(c) < chan[c][i].event /\ chan[c][i].event <= PassedOn(c)
    /\ \A i, j \in DOMAIN chan[c] :
          i < j /\ chan[c][i].event > 0 /\ chan[c][j].event > 0 =>
              chan[c][i].event < chan[c][j].event
    /\ \A i \in DOMAIN shown[c] : shown[c][i] <= tail
FeedsAgree == \A c \in Conns : Fresh(c) /\ FeedOrder(c)

(* Nothing is left out: whatever lies between the last event shown and one *)
(* in the channel, or the last one passed on, is in the channel, too.  A   *)
(* receiver that has lagged passes nothing on any more.                    *)
InWriter(c, n) == \E i \in DOMAIN chan[c] : chan[c][i].event = n
Passing(c) == open[c] /\ rx[c] \in {"waiting", "holding"}
NoGap(c) ==
    /\ \A i \in DOMAIN chan[c] :
          /\ chan[c][i].event > 0 => chan[c][i].kind = "Lines"
          /\ \A n \in LastShown(c) + 1..chan[c][i].event : InWriter(c, n)
    /\ Passing(c) => \A n \in LastShown(c) + 1..PassedOn(c) : InWriter(c, n)
NothingMissing == \A c \in Conns : NoGap(c)

(* The end: the outcome is that of the tasks joined so far, which stay as  *)
(* they ended, and the socket's file goes with the accept loop.            *)
Ended(t) == TaskState(t) \in {"stopped", "failed"}
Joined == Tasks \ unjoined
JoinsAgree ==
    /\ \A t \in Joined : Ended(t)
    /\ outcome = (IF \E t \in Joined : TaskState(t) = "failed" THEN "error" ELSE "ok")
    /\ server # "running" => ~socket
    /\ main = "exited" => unjoined = {}
Inductive ==
    Types /\ LockAgrees /\ PromptsAgree /\ FeedsAgree /\ NothingMissing /\ JoinsAgree

-----------------------------------------------------------------------------
(* The writer's channel takes a message at its end and gives one away at   *)
(* its head.                                                               *)
LEMMA ChanAfterPut ==
    ASSUME ConnTypes, NEW c \in Conns, NEW m \in Messages, HasRoom(c), Put(c, m)
    PROVE  /\ chan' \in [Conns -> Seq(Messages)] /\ \A d \in Conns : Len(chan'[d]) <= WriterCapacity
           /\ \A d \in Conns \ {c} : chan'[d] = chan[d]
           /\ Len(chan[c]) \in Nat
           /\ DOMAIN chan[c] = 1..Len(chan[c]) /\ DOMAIN chan'[c] = 1..Len(chan[c]) + 1
           /\ \A i \in DOMAIN chan[c] : i \in DOMAIN chan'[c] /\ chan'[c][i] = chan[c][i]
           /\ Len(chan[c]) + 1 \in DOMAIN chan'[c] /\ chan'[c][Len(chan[c]) + 1] = m
           /\ \A i \in DOMAIN chan'[c] : i \in DOMAIN chan[c] \/ i = Len(chan[c]) + 1
<1>1. chan[c] \in Seq(Messages) /\ chan' = [chan EXCEPT ![c] = Append(chan[c], m)]
      /\ chan \in [Conns -> Seq(Messages)]
  BY DEF ConnTypes, Put
<1>2. Append(chan[c], m) \in Seq(Messages) /\ Len(chan[c]) \in Nat
      /\ Len(Append(chan[c], m)) = Len(chan[c]) + 1
  BY <1>1
<1>3. Len(Append(chan[c], m)) <= WriterCapacity
  BY <1>2, AdminAssumption DEF HasRoom
<1>4. chan'[c] = Append(chan[c], m) /\ \A d \in Conns \ {c} : chan'[d] = chan[d]
  BY <1>1
<1>5. DOMAIN chan[c] = 1..Len(chan[c]) /\ DOMAIN chan'[c] = 1..Len(chan[c]) + 1
  BY <1>1, <1>2, <1>4
<1>6. \A i \in DOMAIN chan[c] : chan'[c][i] = chan[c][i]
  BY <1>1, <1>4
<1>7. chan'[c][Len(chan[c]) + 1] = m
  BY <1>1, <1>4
<1>8. \A d \in Conns : Len(chan'[d]) <= WriterCapacity
  BY <1>3, <1>4 DEF ConnTypes
<1>9. chan' \in [Conns -> Seq(Messages)]
  BY <1>1, <1>2
<1> QED BY <1>2, <1>4, <1>5, <1>6, <1>7, <1>8, <1>9

LEMMA ChanAfterTail ==
    ASSUME ConnTypes, NEW c \in Conns, chan[c] # <<>>, chan' = [chan EXCEPT ![c] = Tail(@)]
    PROVE  /\ chan' \in [Conns -> Seq(Messages)] /\ \A d \in Conns : Len(chan'[d]) <= WriterCapacity
           /\ \A d \in Conns \ {c} : chan'[d] = chan[d]
           /\ Next1(c) \in Messages /\ Next1(c) = chan[c][1] /\ 1 \in DOMAIN chan[c]
           /\ \A i \in DOMAIN chan'[c] :
                 i \in Nat \ {0} /\ i + 1 \in DOMAIN chan[c] /\ chan'[c][i] = chan[c][i + 1]
<1>1. chan[c] \in Seq(Messages) /\ chan' = [chan EXCEPT ![c] = Tail(chan[c])]
      /\ chan \in [Conns -> Seq(Messages)]
  BY DEF ConnTypes
<1>2. /\ Tail(chan[c]) \in Seq(Messages) /\ Len(chan[c]) \in Nat /\ Len(chan[c]) > 0
      /\ Len(Tail(chan[c])) = Len(chan[c]) - 1
  BY <1>1
<1>3. Len(Tail(chan[c])) <= WriterCapacity
  BY <1>2, AdminAssumption DEF ConnTypes
<1>4. chan'[c] = Tail(chan[c]) /\ \A d \in Conns \ {c} : chan'[d] = chan[d]
  BY <1>1
<1>5. Next1(c) \in Messages /\ Next1(c) = chan[c][1] /\ 1 \in DOMAIN chan[c]
  BY <1>1, <1>2 DEF Next1
<1>6. \A i \in DOMAIN chan'[c] :
         i \in Nat \ {0} /\ i + 1 \in DOMAIN chan[c] /\ chan'[c][i] = chan[c][i + 1]
  BY <1>1, <1>2, <1>4
<1>7. \A d \in Conns : Len(chan'[d]) <= WriterCapacity
  BY <1>3, <1>4 DEF ConnTypes
<1>8. chan' \in [Conns -> Seq(Messages)]
  BY <1>1, <1>2
<1> QED BY <1>4, <1>5, <1>6, <1>7, <1>8

LEMMA SendsMessages ==
    /\ DOMAIN Sends = {"hello", "prompt", "clear", "reply", "list", "bye", "close"}
    /\ \A step \in DOMAIN Sends : Message(Sends[step], 0) \in Messages /\ Then[step] \in Steps
    /\ \A step \in DOMAIN Sends : AfterClosed(step) \in Steps
BY DEF Sends, Then, AfterClosed, Steps, Messages, Kinds, Message

(* Publishing, and moving a receiver's cursor, stay within the channel. *)
LEMMA BroadcastTypes ==
    ASSUME BTypeOK
    PROVE  /\ Overwritten \in 0..tail
           /\ tail' \in {tail, tail + 1} /\ UNCHANGED <<cursor, rx>> => BTypeOK'
           /\ \A r \in Receivers :
                 (TakeEvent(r) \/ FallAsleep(r) \/ Subscribe(r)) /\ UNCHANGED tail => BTypeOK'
           /\ \A r \in Receivers :
                 (PollAgain(r) \/ Drop(r)) /\ UNCHANGED <<tail, cursor>> => BTypeOK'
<1>1. tail \in Nat /\ Overwritten \in 0..tail
  BY BroadcastAssumption DEF BTypeOK, Overwritten
<1>2. ASSUME tail' \in {tail, tail + 1}, UNCHANGED <<cursor, rx>> PROVE BTypeOK'
  BY <1>1, <1>2 DEF BTypeOK
<1>3. ASSUME NEW r \in Receivers, TakeEvent(r), UNCHANGED tail PROVE BTypeOK'
  <2>1. cursor[r] + 1 \in 0..tail
    BY <1>1, <1>3 DEF TakeEvent, BTypeOK
  <2> QED BY <1>3, <2>1 DEF TakeEvent, BTypeOK
<1>4. ASSUME NEW r \in Receivers, FallAsleep(r), UNCHANGED tail PROVE BTypeOK'
  BY <1>1, <1>4 DEF FallAsleep, BTypeOK
<1>5. ASSUME NEW r \in Receivers, Subscribe(r), UNCHANGED tail PROVE BTypeOK'
  BY <1>1, <1>5 DEF Subscribe, BTypeOK
<1>6. ASSUME NEW r \in Receivers, PollAgain(r) \/ Drop(r), UNCHANGED <<tail, cursor>>
      PROVE  BTypeOK'
  BY <1>6 DEF PollAgain, Drop, BTypeOK
<1> QED BY <1>1, <1>2, <1>3, <1>4, <1>5, <1>6

-----------------------------------------------------------------------------
LEMMA ConnReceivers == \A c \in Conns : c \in Receivers /\ c # Bot /\ c # Controller
BY AdminAssumption DEF Controller

(* Every step keeps the types. *)
LEMMA ConnectionTypes ==
    ASSUME Types, NEW c \in Conns, ConnStep(c) \/ Connect(c), UNCHANGED rvars
    PROVE  Types'
<1>1. BTypeOK /\ ConnTypes /\ TaskTypes
  BY DEF Types
<1>2. TaskTypes' <=> ctl' \in {"idle", "waiting", "viewing", "stopped", "failed"} /\ token' \in BOOLEAN
  BY <1>1 DEF TaskTypes, rvars
<1>3. UNCHANGED bvars => BTypeOK'
  BY <1>1, BroadcastTypes DEF bvars
<1>4. UNCHANGED <<ctl, token>> => TaskTypes'
  BY <1>1, <1>2 DEF TaskTypes
<1> USE DEF lockVars
<1>5. CASE SendStep(c)
  <2>1. chan' \in [Conns -> Seq(Messages)] /\ \A d \in Conns : Len(chan'[d]) <= WriterCapacity
    BY <1>1, <1>5, ChanAfterPut, SendsMessages DEF SendStep, ConnTypes
  <2>2. PICK step \in Steps : req' = [req EXCEPT ![c] = step]
    BY <1>5, SendsMessages DEF SendStep, Goto
  <2>3. req' \in [Conns -> Steps]
    BY <1>1, <2>2 DEF ConnTypes
  <2> QED BY <1>1, <1>3, <1>4, <1>5, <2>1, <2>3 DEF SendStep, ConnTypes, Types
<1>6. CASE Enter(c) \/ ReadEnds(c) \/ HandleRequest(c) \/ ReadLock(c) \/ WriteLock(c)
  <2>1. /\ \E step \in Steps : Goto(c, step)
        /\ UNCHANGED <<bvars, chan, open, prompt, client, shown, ctl, token>>
        /\ UNCHANGED <<prompted, term>>
              \/ (/\ prompted' = [prompted EXCEPT ![c] = FALSE]
                 /\ term' = [term EXCEPT ![c] = "empty"])
    BY <1>6, SendsMessages
    DEF Enter, ReadEnds, HandleRequest, ReadLock, WriteLock, Steps
  <2>2. req' \in [Conns -> Steps]
    BY <1>1, <2>1 DEF ConnTypes, Goto
  <2>3. prompted' \in [Conns -> BOOLEAN] /\ term' \in [Conns -> {"empty", "prompt"}]
    BY <1>1, <2>1 DEF ConnTypes
  <2>4. ConnTypes'
    BY <1>1, <2>1, <2>2, <2>3 DEF ConnTypes
  <2> QED BY <1>3, <1>4, <2>1, <2>4 DEF Types
<1>7. CASE TellQueued(c)
  <2>1. /\ \E step \in Steps : Goto(c, step)
        /\ tail' \in {tail, tail + 1}
        /\ UNCHANGED <<cursor, rx, chan, open, prompt, client, term, prompted, shown, ctl, token>>
    BY <1>7, SendsMessages DEF TellQueued, Publish, Steps
  <2>2. ConnTypes'
    BY <1>1, <2>1 DEF ConnTypes, Goto
  <2> QED BY <1>1, <1>4, <2>1, <2>2, BroadcastTypes DEF Types
<1>8. CASE Poll(c)
  BY <1>1, <1>4, <1>8, BroadcastTypes, ConnReceivers DEF Poll, connVars, ConnTypes, Types
<1>9. CASE Notify(c)
  <2>1. cursor[c] \in Nat /\ Message("Lines", cursor[c]) \in Messages
    BY <1>1, ConnReceivers DEF BTypeOK, Message, Messages, Kinds
  <2>2. chan' \in [Conns -> Seq(Messages)] /\ \A d \in Conns : Len(chan'[d]) <= WriterCapacity
    BY <1>1, <1>9, <2>1, ChanAfterPut DEF Notify, ConnTypes
  <2>3. BTypeOK'
    BY <1>1, <1>9, BroadcastTypes, ConnReceivers DEF Notify
  <2> QED BY <1>1, <1>4, <1>9, <2>2, <2>3 DEF Notify, ConnTypes, Types
<1>10. CASE HandleExit(c) \/ WriteFails(c)
  <2>1. CloseWriter(c) /\ UNCHANGED <<bvars, req, client, term, prompted, shown, ctl, token>>
    BY <1>10 DEF HandleExit, WriteFails
  <2>2. 0 <= WriterCapacity /\ <<>> \in Seq(Messages) /\ Len(<<>>) = 0
    BY AdminAssumption
  <2>3. ConnTypes'
    BY <1>1, <2>1, <2>2 DEF CloseWriter, ConnTypes
  <2> QED BY <1>3, <1>4, <2>1, <2>3 DEF Types
<1>11. CASE HandleClear(c)
  <2>1. chan' \in [Conns -> Seq(Messages)] /\ \A d \in Conns : Len(chan'[d]) <= WriterCapacity
    BY <1>1, <1>11, ChanAfterTail DEF HandleClear, Received
  <2> QED BY <1>1, <1>3, <1>4, <1>11, <2>1 DEF HandleClear, ConnTypes, Types
<1>12. CASE Write(c)
  <2>1. chan' \in [Conns -> Seq(Messages)] /\ \A d \in Conns : Len(chan'[d]) <= WriterCapacity
        /\ Next1(c) \in Messages
    BY <1>1, <1>12, ChanAfterTail DEF Write, Received
  <2>2. shown' \in [Conns -> Seq(Nat)]
    <3>1. Next1(c).event \in Nat
      BY <2>1 DEF Messages
    <3>2. shown \in [Conns -> Seq(Nat)] /\ Append(shown[c], Next1(c).event) \in Seq(Nat)
      BY <1>1, <3>1 DEF ConnTypes
    <3>3. \/ shown' = shown
          \/ shown' = [shown EXCEPT ![c] = shown[c]]
          \/ shown' = [shown EXCEPT ![c] = Append(shown[c], Next1(c).event)]
      BY <1>12, Zenon DEF Write, WritePrompt, WriteLines
    <3> QED BY <3>2, <3>3
  <2> QED
    BY <1>1, <1>3, <1>4, <1>12, <2>1, <2>2 DEF Write, WritePrompt, WriteLines, ConnTypes, Types
<1>13. CASE ClientStep(c)
  BY <1>1, <1>3, <1>4, <1>13 DEF ClientStep, Stall, Resume, HangUp, ConnTypes, Types
<1>14. CASE Connect(c)
  <2>1. tail \in Nat /\ <<tail>> \in Seq(Nat)
    BY <1>1 DEF BTypeOK
  <2>2. BTypeOK'
    BY <1>1, <1>14, BroadcastTypes, ConnReceivers DEF Connect
  <2>3. ConnTypes'
    BY <1>1, <1>14, <2>1 DEF Connect, Goto, ConnTypes, Steps, Sends
  <2> QED BY <1>4, <1>14, <2>2, <2>3 DEF Connect, Types
<1> QED
  BY <1>5, <1>6, <1>7, <1>8, <1>9, <1>10, <1>11, <1>12, <1>13, <1>14 DEF ConnStep

LEMMA TypesStep ==
    ASSUME Types, [Next]_vars
    PROVE  Types'
<1>1. BTypeOK /\ ConnTypes /\ TaskTypes
  BY DEF Types
<1>2. UNCHANGED bvars => BTypeOK'
  BY <1>1, BroadcastTypes DEF bvars
<1>3. UNCHANGED connVars => ConnTypes'
  BY <1>1 DEF connVars, ConnTypes
<1>4. ASSUME NEW c \in Conns, Accept(c) \/ Connections(c) PROVE Types'
  BY <1>4, ConnectionTypes DEF Accept, Connections
<1>5. CASE ControllerTask \/ ControllerFails
  <2>1. /\ tail' \in {tail, tail + 1} /\ UNCHANGED <<cursor, rx, connVars, token, rvars>>
        /\ ctl' \in {"idle", "waiting", "viewing", "stopped", "failed"}
    BY <1>1, <1>5
    DEF ControllerTask, ControllerStep, ControllerFails, WantLock, HandleLocked, HandleSignal,
        ControllerStops, Announce, Emit, Publish, bvars, TaskTypes
  <2>2. TaskTypes'
    BY <1>1, <2>1 DEF TaskTypes, rvars
  <2> QED BY <1>1, <1>3, <2>1, <2>2, BroadcastTypes DEF Types
<1>6. CASE EndBot
  <2>1. BTypeOK'
    BY <1>1, <1>6, BroadcastTypes, AdminAssumption DEF EndBot
  <2> QED BY <1>1, <1>3, <1>6, <2>1 DEF EndBot, Endings, TaskTypes, lockVars, Types
<1>7. CASE EndServer \/ CtrlC \/ Exit
  BY <1>1, <1>2, <1>3, <1>7
  DEF EndServer, CtrlC, Exit, Endings, TaskTypes, avars, lockVars, rvars, Types
<1>8. ASSUME NEW t \in Tasks, Join(t) PROVE Types'
  BY <1>1, <1>2, <1>3, <1>8 DEF Join, TaskTypes, lockVars, Types
<1>9. CASE UNCHANGED vars
  BY <1>1, <1>2, <1>3, <1>9 DEF vars, avars, lockVars, rvars, TaskTypes, Types
<1> QED
  BY <1>4, <1>5, <1>6, <1>7, <1>8, <1>9 DEF Next
-----------------------------------------------------------------------------
(* The queue for the lock, when somebody joins it and when its head goes. *)
Lockers == Conns \cup {Controller}

LEMMA LockAfterWait ==
    ASSUME LockAgrees, NEW who \in Lockers, ~Wants(who), lockq' = Append(lockq, who)
    PROVE  /\ lockq' \in Seq(Lockers)
           /\ \A w \in Lockers : InLockq(w)' <=> InLockq(w) \/ w = who
           /\ \A i, j \in DOMAIN lockq' : lockq'[i] = lockq'[j] => i = j
<1>1. lockq \in Seq(Lockers) /\ ~InLockq(who) /\ Len(lockq) \in Nat
      /\ \A i, j \in DOMAIN lockq : lockq[i] = lockq[j] => i = j
  BY DEF LockAgrees, Lockers
<1>2. lockq' \in Seq(Lockers) /\ Len(lockq') = Len(lockq) + 1
  BY <1>1
<1>3. DOMAIN lockq = 1..Len(lockq) /\ DOMAIN lockq' = 1..Len(lockq) + 1
  BY <1>1, <1>2
<1>4. lockq'[Len(lockq) + 1] = who /\ \A i \in DOMAIN lockq : lockq'[i] = lockq[i]
  BY <1>1, <1>3
<1>5. \A w \in Lockers : InLockq(w)' <=> InLockq(w) \/ w = who
  BY <1>1, <1>3, <1>4 DEF InLockq
<1>6. \A i, j \in DOMAIN lockq' : lockq'[i] = lockq'[j] => i = j
  BY <1>1, <1>3, <1>4 DEF InLockq
<1> QED BY <1>2, <1>5, <1>6

LEMMA LockAfterTail ==
    ASSUME LockAgrees, NEW who \in Lockers, First(who), lockq' = Tail(lockq)
    PROVE  /\ lockq' \in Seq(Lockers) /\ Wants(who)
           /\ \A w \in Lockers : InLockq(w)' <=> InLockq(w) /\ w # who
           /\ \A i, j \in DOMAIN lockq' : lockq'[i] = lockq'[j] => i = j
<1>1. lockq \in Seq(Lockers) /\ Len(lockq) \in Nat /\ lockq # <<>>
      /\ \A i, j \in DOMAIN lockq : lockq[i] = lockq[j] => i = j
  BY DEF LockAgrees, Lockers, First
<1>2. lockq' \in Seq(Lockers) /\ Len(lockq') = Len(lockq) - 1 /\ Len(lockq) > 0
  BY <1>1
<1>3. DOMAIN lockq = 1..Len(lockq) /\ DOMAIN lockq' = 1..Len(lockq) - 1
  BY <1>1, <1>2
<1>4. lockq[1] = who /\ \A i \in DOMAIN lockq' : lockq'[i] = lockq[i + 1]
  BY <1>1, <1>3 DEF First
<1>5. InLockq(who)
  BY <1>2, <1>3, <1>4 DEF InLockq
<1>6. \A i \in DOMAIN lockq : i # 1 => i - 1 \in DOMAIN lockq' /\ lockq'[i - 1] = lockq[i]
  BY <1>1, <1>3, <1>4
<1>7. \A i \in DOMAIN lockq' : i + 1 \in DOMAIN lockq /\ i + 1 # 1 /\ i \in Nat
  BY <1>1, <1>3
<1>8. ASSUME NEW w \in Lockers PROVE InLockq(w)' <=> InLockq(w) /\ w # who
  <2>1. ASSUME InLockq(w)' PROVE InLockq(w) /\ w # who
    <3>1. PICK i \in DOMAIN lockq' : lockq'[i] = w
      BY <2>1 DEF InLockq
    <3>2. lockq[i + 1] = w /\ i + 1 \in DOMAIN lockq /\ i + 1 # 1
      BY <1>4, <1>7, <3>1
    <3>3. 1 \in DOMAIN lockq
      BY <1>2, <1>3
    <3> QED BY <1>1, <1>4, <3>2, <3>3 DEF InLockq
  <2>2. ASSUME InLockq(w), w # who PROVE InLockq(w)'
    BY <1>4, <1>6, <2>2 DEF InLockq
  <2> QED BY <2>1, <2>2
<1>9. ASSUME NEW i \in DOMAIN lockq', NEW j \in DOMAIN lockq', lockq'[i] = lockq'[j] PROVE i = j
  <2>1. lockq[i + 1] = lockq[j + 1]
    BY <1>4, <1>9
  <2>2. i + 1 = j + 1 /\ i \in Nat /\ j \in Nat
    BY <1>1, <1>7, <2>1
  <2> QED BY <2>2
<1>10. Wants(who)
  BY <1>5 DEF LockAgrees, Lockers
<1> QED BY <1>2, <1>8, <1>9, <1>10

(* The readers and those who want the lock, when a request task moves. *)
LEMMA AfterMove ==
    ASSUME ConnTypes, LockAgrees, NEW c \in Conns, NEW step, Goto(c, step), UNCHANGED ctl
    PROVE  /\ req'[c] = step /\ \A d \in Conns \ {c} : req'[d] = req[d]
           /\ {d \in Conns : req'[d] = "list"} =
                 IF step = "list" THEN readers \cup {c} ELSE readers \ {c}
           /\ Wants(c)' <=> step \in {"view", "status", "add"}
           /\ \A who \in Lockers : who # c => (Wants(who)' <=> Wants(who))
<1>1. req'[c] = step /\ \A d \in Conns \ {c} : req'[d] = req[d]
  BY DEF Goto, ConnTypes
<1>2. {d \in Conns : req'[d] = "list"} = IF step = "list" THEN readers \cup {c} ELSE readers \ {c}
  BY <1>1 DEF LockAgrees
<1>3. Wants(c)' <=> step \in {"view", "status", "add"}
  BY <1>1, ConnReceivers DEF Wants
<1>4. \A who \in Lockers : who # c => (Wants(who)' <=> Wants(who))
  BY <1>1 DEF Wants, Lockers
<1> QED BY <1>1, <1>2, <1>3, <1>4

LEMMA ConnectionLock ==
    ASSUME ConnTypes, LockAgrees, NEW c \in Conns, Fresh(c), ConnStep(c) \/ Connect(c)
    PROVE  LockAgrees'
<1> USE DEF lockVars
<1>1. c \in Lockers /\ (Wants(c) <=> req[c] \in {"view", "status", "add"})
      /\ (c \in readers <=> req[c] = "list")
  BY ConnReceivers DEF Lockers, Wants, LockAgrees
<1>2. ASSUME UNCHANGED <<req, lockq, readers, ctl>> PROVE LockAgrees'
  BY <1>2 DEF LockAgrees, InLockq, Wants
<1>3. ASSUME NEW step, Goto(c, step), UNCHANGED <<lockq, ctl>>, ~Wants(c),
             step \notin {"view", "status", "add", "list"},
             readers' = readers \ {c}
      PROVE  LockAgrees'
  <2>1. \A who \in Lockers : Wants(who)' <=> Wants(who)
    BY <1>1, <1>3, AfterMove
  <2>2. readers' = {d \in Conns : req'[d] = "list"}
    BY <1>3, AfterMove
  <2> QED BY <1>3, <2>1, <2>2 DEF LockAgrees, InLockq, Lockers
<1>4. CASE SendStep(c)
  <2>1. PICK step \in {"prompt", "read", "handle", "close", "ended", "bye"} : Goto(c, step)
    BY <1>4, SendsMessages DEF SendStep, Then, AfterClosed
  <2>2. req[c] \notin {"view", "status", "add"} /\ UNCHANGED <<lockq, ctl>>
    BY <1>4, SendsMessages DEF SendStep
  <2>3. readers' = readers \ {c}
    BY <1>1, <1>4 DEF SendStep, ReleaseAfter
  <2> QED BY <1>1, <1>3, <2>1, <2>2, <2>3
<1>5. CASE Enter(c) \/ ReadEnds(c) \/ TellQueued(c) \/ Connect(c)
  <2>1. PICK step \in {"clear", "bye", "prompt", "hello"} : Goto(c, step)
    BY <1>5 DEF Enter, ReadEnds, TellQueued, Connect
  <2>2. UNCHANGED <<lockq, readers, ctl>> /\ req[c] \in {"read", "tell", "off"}
    BY <1>5 DEF Enter, ReadEnds, TellQueued, Connect, Fresh
  <2>3. readers \ {c} = readers
    BY <1>1, <2>2
  <2> QED BY <1>1, <1>3, <2>1, <2>2, <2>3
<1>6. CASE HandleRequest(c)
  <2>1. req[c] = "handle" /\ UNCHANGED <<readers, ctl>> /\ readers \ {c} = readers
    BY <1>1, <1>6 DEF HandleRequest
  <2>2. \/ UNCHANGED lockq /\ \E step \in {"bye", "prompt", "reply"} : Goto(c, step)
        \/ Wait(c) /\ \E step \in {"view", "status", "add"} : Goto(c, step)
    BY <1>6 DEF HandleRequest
  <2>3. ASSUME Wait(c), NEW step \in {"view", "status", "add"}, Goto(c, step) PROVE LockAgrees'
    <3>1. /\ lockq' \in Seq(Lockers)
          /\ \A w \in Lockers : InLockq(w)' <=> InLockq(w) \/ w = c
          /\ \A i, j \in DOMAIN lockq' : lockq'[i] = lockq'[j] => i = j
      BY <1>1, <2>1, <2>3, LockAfterWait DEF Wait
    <3>2. \A w \in Lockers : Wants(w)' <=> Wants(w) \/ w = c
      BY <2>1, <2>3, AfterMove
    <3>3. readers' = {d \in Conns : req'[d] = "list"}
      BY <2>1, <2>3, AfterMove
    <3> QED BY <3>1, <3>2, <3>3 DEF LockAgrees, Lockers
  <2> QED BY <1>1, <1>3, <2>1, <2>2, <2>3
<1>7. CASE ReadLock(c) \/ WriteLock(c)
  <2>1. First(c) /\ lockq' = Tail(lockq) /\ UNCHANGED ctl
    BY <1>7 DEF ReadLock, WriteLock
  <2>2. PICK step \in {"list", "reply", "tell"} :
           /\ Goto(c, step)
           /\ readers' = IF step = "list" THEN readers \cup {c} ELSE readers \ {c}
    <3>1. CASE ReadLock(c) /\ req[c] = "view"
      BY <3>1 DEF ReadLock
    <3>2. CASE ReadLock(c) /\ req[c] = "status"
      BY <1>1, <3>2 DEF ReadLock
    <3>3. CASE WriteLock(c)
      BY <1>1, <3>3 DEF WriteLock
    <3> QED BY <1>7, <3>1, <3>2, <3>3 DEF ReadLock
  <2>3. /\ lockq' \in Seq(Lockers)
        /\ \A w \in Lockers : InLockq(w)' <=> InLockq(w) /\ w # c
        /\ \A i, j \in DOMAIN lockq' : lockq'[i] = lockq'[j] => i = j
    BY <1>1, <2>1, LockAfterTail
  <2>4. \A w \in Lockers : Wants(w)' <=> Wants(w) /\ w # c
    BY <2>1, <2>2, AfterMove
  <2>5. readers' = {d \in Conns : req'[d] = "list"}
    BY <2>1, <2>2, AfterMove
  <2> QED BY <2>3, <2>4, <2>5 DEF LockAgrees, Lockers
<1>8. CASE Poll(c) \/ Notify(c) \/ HandleExit(c) \/ HandleClear(c) \/ WriteFails(c) \/ Write(c)
           \/ ClientStep(c)
  BY <1>2, <1>8
  DEF Poll, Notify, HandleExit, HandleClear, WriteFails, Write, ClientStep, connVars
<1> QED BY <1>4, <1>5, <1>6, <1>7, <1>8 DEF ConnStep

LEMMA ControllerLock ==
    ASSUME TaskTypes, LockAgrees, ControllerStep \/ ControllerFails
    PROVE  LockAgrees'
<1>1. Controller \in Lockers /\ \A c \in Conns : c \in Lockers /\ c # Controller
  BY ConnReceivers DEF Lockers
<1>2. UNCHANGED <<req, readers>>
  BY DEF ControllerStep, ControllerFails, WantLock, HandleLocked, HandleSignal, ControllerStops,
         connVars
<1>3. readers' = {c \in Conns : req'[c] = "list"}
  BY <1>2 DEF LockAgrees
<1>4. \A w \in Lockers : w # Controller => (Wants(w)' <=> Wants(w))
  BY <1>2 DEF Wants
<1>5. CASE WantLock
  <2>1. ~Wants(Controller) /\ Wants(Controller)' /\ lockq' = Append(lockq, Controller)
    BY <1>5 DEF WantLock, Wants, Wait
  <2> QED BY <1>1, <1>3, <1>4, <2>1, LockAfterWait DEF LockAgrees, Lockers
<1>6. CASE HandleLocked
  <2>1. ~Wants(Controller)' /\ lockq' = Tail(lockq) /\ First(Controller)
    BY <1>6 DEF HandleLocked, Wants, Announce
  <2> QED BY <1>1, <1>3, <1>4, <2>1, LockAfterTail DEF LockAgrees, Lockers
<1>7. CASE HandleSignal \/ ControllerStops \/ ControllerFails
  <2>1. ~Wants(Controller) /\ ~Wants(Controller)' /\ UNCHANGED lockq
    BY <1>7 DEF HandleSignal, ControllerStops, ControllerFails, Wants, Announce
  <2> QED BY <1>1, <1>3, <1>4, <2>1 DEF LockAgrees, Lockers, InLockq
<1> QED BY <1>5, <1>6, <1>7 DEF ControllerStep

LEMMA LockStep ==
    ASSUME Types, LockAgrees, FeedsAgree, [Next]_vars
    PROVE  LockAgrees'
<1>1. CASE \E c \in Conns : ConnStep(c) \/ Connect(c)
  BY <1>1, ConnectionLock DEF Types, FeedsAgree
<1>2. CASE ControllerStep \/ ControllerFails
  BY <1>2, ControllerLock DEF Types
<1>3. CASE UNCHANGED <<req, lockVars>>
  BY <1>3 DEF LockAgrees, InLockq, Wants, lockVars
<1> QED
  BY <1>1, <1>2, <1>3
  DEF Next, Accept, Connections, ControllerTask, EndBot, EndServer, CtrlC, Join, Exit,
      vars, avars, connVars
-----------------------------------------------------------------------------
(* The prompt of one connection, with what the writer knows of it. *)
PromptAt(c) == (term[c] = "prompt" => prompt[c] \/ ~open[c]) /\ PromptOrder(c)

LEMMA PromptsOfAll == PromptsAgree <=> \A c \in Conns : PromptAt(c)
BY DEF PromptsAgree, PromptKnown, PromptAt

(* A message may be put behind the others if it is no prompt, or the only  *)
(* one, and no clearing that would come behind a prompt.                   *)
LEMMA OrderAfterPut ==
    ASSUME ConnTypes, NEW c \in Conns, NEW m \in Messages, HasRoom(c), Put(c, m), PromptOrder(c),
           m.kind \in {"SetPrompt", "ClearPrompt"} => ~Holds(c, "SetPrompt")
    PROVE  /\ \A kind : Holds(c, kind)' <=> Holds(c, kind) \/ m.kind = kind
           /\ \A i, j \in DOMAIN chan'[c] :
                 chan'[c][i].kind = "SetPrompt" /\ chan'[c][j].kind = "SetPrompt" => i = j
           /\ \A i, j \in DOMAIN chan'[c] :
                 chan'[c][i].kind = "SetPrompt" /\ chan'[c][j].kind = "ClearPrompt" => j < i
<1> DEFINE n == Len(chan[c])
<1>1. /\ n \in Nat /\ DOMAIN chan[c] = 1..n
      /\ \A i \in DOMAIN chan[c] : i \in DOMAIN chan'[c] /\ chan'[c][i] = chan[c][i]
      /\ n + 1 \in DOMAIN chan'[c] /\ chan'[c][n + 1] = m
      /\ \A i \in DOMAIN chan'[c] : i \in DOMAIN chan[c] \/ i = n + 1
  BY ChanAfterPut
<1> HIDE DEF n
<1>2. \A kind : Holds(c, kind)' <=> Holds(c, kind) \/ m.kind = kind
  BY <1>1 DEF Holds
<1>3. \A i, j \in DOMAIN chan'[c] :
         chan'[c][i].kind = "SetPrompt" /\ chan'[c][j].kind = "SetPrompt" => i = j
  BY <1>1 DEF Holds, PromptOrder
<1>4. \A i, j \in DOMAIN chan'[c] :
         chan'[c][i].kind = "SetPrompt" /\ chan'[c][j].kind = "ClearPrompt" => j < i
  BY <1>1 DEF Holds, PromptOrder
<1> QED BY <1>2, <1>3, <1>4

LEMMA OrderAfterTail ==
    ASSUME ConnTypes, NEW c \in Conns, chan[c] # <<>>, chan' = [chan EXCEPT ![c] = Tail(@)],
           PromptOrder(c)
    PROVE  /\ \A kind : Holds(c, kind)' => Holds(c, kind)
           /\ Holds(c, Next1(c).kind)
           /\ Next1(c).kind = "SetPrompt" => ~Holds(c, "SetPrompt")' /\ ~Holds(c, "ClearPrompt")'
           /\ \A i, j \in DOMAIN chan'[c] :
                 chan'[c][i].kind = "SetPrompt" /\ chan'[c][j].kind = "SetPrompt" => i = j
           /\ \A i, j \in DOMAIN chan'[c] :
                 chan'[c][i].kind = "SetPrompt" /\ chan'[c][j].kind = "ClearPrompt" => j < i
<1>1. /\ Next1(c) = chan[c][1] /\ 1 \in DOMAIN chan[c]
      /\ \A i \in DOMAIN chan'[c] :
            i \in Nat \ {0} /\ i + 1 \in DOMAIN chan[c] /\ chan'[c][i] = chan[c][i + 1]
  BY ChanAfterTail
<1>2. \A kind : Holds(c, kind)' => Holds(c, kind)
  BY <1>1 DEF Holds
<1>3. Holds(c, Next1(c).kind)
  BY <1>1 DEF Holds
<1>4. ASSUME Next1(c).kind = "SetPrompt" PROVE ~Holds(c, "SetPrompt")' /\ ~Holds(c, "ClearPrompt")'
  <2>1. \A i \in DOMAIN chan'[c] : chan'[c][i].kind # "SetPrompt"
    BY <1>1, <1>4 DEF PromptOrder
  <2>2. \A i \in DOMAIN chan'[c] : chan'[c][i].kind # "ClearPrompt"
    BY <1>1, <1>4 DEF PromptOrder
  <2> QED BY <2>1, <2>2 DEF Holds
<1>5. ASSUME NEW i \in DOMAIN chan'[c], NEW j \in DOMAIN chan'[c],
             chan'[c][i].kind = "SetPrompt", chan'[c][j].kind = "SetPrompt"
      PROVE  i = j
  <2>1. i + 1 = j + 1
    BY <1>1, <1>5 DEF PromptOrder
  <2> QED BY <1>1, <2>1
<1>6. ASSUME NEW i \in DOMAIN chan'[c], NEW j \in DOMAIN chan'[c],
             chan'[c][i].kind = "SetPrompt", chan'[c][j].kind = "ClearPrompt"
      PROVE  j < i
  <2>1. j + 1 < i + 1
    BY <1>1, <1>6 DEF PromptOrder
  <2> QED BY <1>1, <2>1
<1> QED BY <1>2, <1>3, <1>4, <1>5, <1>6

(* A connection whose request task, terminal and channel stay. *)
LEMMA PromptStays ==
    ASSUME NEW c, PromptAt(c), req'[c] = req[c], chan'[c] = chan[c], open'[c] = open[c],
           prompt'[c] = prompt[c], term'[c] = term[c], prompted'[c] = prompted[c]
    PROVE  PromptAt(c)'
BY DEF PromptAt, PromptOrder, Holds, PastReading

LEMMA OthersPrompts ==
    ASSUME ConnTypes, NEW c \in Conns, ConnStep(c) \/ Connect(c), NEW d \in Conns \ {c}, PromptAt(d)
    PROVE  PromptAt(d)'
<1>1. /\ req'[d] = req[d] /\ open'[d] = open[d] /\ prompt'[d] = prompt[d]
      /\ term'[d] = term[d] /\ prompted'[d] = prompted[d]
  BY DEF ConnStep, Connect, SendStep, Enter, ReadEnds, HandleRequest, ReadLock, WriteLock, TellQueued,
         Poll, Notify, HandleExit, HandleClear, WriteFails, CloseWriter, Write, WritePrompt,
         WriteLines, ClientStep, Goto, connVars, ConnTypes
<1>2. chan'[d] = chan[d]
  BY DEF ConnStep, Connect, SendStep, Enter, ReadEnds, HandleRequest, ReadLock, WriteLock, TellQueued,
         Poll, Notify, HandleExit, HandleClear, WriteFails, CloseWriter, Write, ClientStep, Put,
         connVars, ConnTypes
<1> QED BY <1>1, <1>2, PromptStays

LEMMA ConnectionPrompt ==
    ASSUME ConnTypes, BTypeOK, NEW c \in Conns, Fresh(c), PromptAt(c), ConnStep(c) \/ Connect(c)
    PROVE  PromptAt(c)'
<1>1. PromptOrder(c)
  BY DEF PromptAt
<1>2. CASE SendStep(c) /\ HasRoom(c) /\ Put(c, Message(Sends[req[c]], 0)) /\ Goto(c, Then[req[c]])
  <2> DEFINE m == Message(Sends[req[c]], 0)
  <2>1. m \in Messages /\ m.kind = Sends[req[c]] /\ req[c] \in DOMAIN Sends
    BY <1>2, SendsMessages DEF SendStep, Message
  <2>2. m.kind \in {"SetPrompt", "ClearPrompt"} => req[c] \in {"prompt", "clear"}
    BY <2>1, SendsMessages DEF Sends
  <2>3. m.kind \in {"SetPrompt", "ClearPrompt"} => ~Holds(c, "SetPrompt")
    BY <1>1, <2>2 DEF PromptOrder, PastReading
  <2>4. /\ \A kind : Holds(c, kind)' <=> Holds(c, kind) \/ m.kind = kind
        /\ \A i, j \in DOMAIN chan'[c] :
              chan'[c][i].kind = "SetPrompt" /\ chan'[c][j].kind = "SetPrompt" => i = j
        /\ \A i, j \in DOMAIN chan'[c] :
              chan'[c][i].kind = "SetPrompt" /\ chan'[c][j].kind = "ClearPrompt" => j < i
    BY <1>1, <1>2, <2>1, <2>3, OrderAfterPut
  <2>5. req'[c] = Then[req[c]]
    BY <1>2 DEF Goto, ConnTypes
  <2>6. UNCHANGED <<open, prompt, term, prompted>>
    BY <1>2 DEF SendStep
  <2> HIDE DEF m
  <2>7. CASE req[c] = "prompt"
    <3>1. m.kind = "SetPrompt" /\ req'[c] = "read" /\ ~prompted[c]
      BY <1>1, <2>1, <2>5, <2>7 DEF Sends, Then, PromptOrder, PastReading
    <3> QED BY <1>1, <2>4, <2>6, <3>1 DEF PromptAt, PromptOrder, PastReading
  <2>8. CASE req[c] = "clear"
    <3>1. m.kind = "ClearPrompt" /\ req'[c] = "handle" /\ ~prompted[c] /\ ~Holds(c, "SetPrompt")
          /\ term[c] = "empty"
      BY <1>1, <2>1, <2>5, <2>8 DEF Sends, Then, PromptOrder, PastReading
    <3> QED BY <2>4, <2>6, <3>1 DEF PromptAt, PromptOrder, PastReading
  <2>9. CASE req[c] \notin {"prompt", "clear"}
    <3>1. /\ m.kind \notin {"SetPrompt", "ClearPrompt"} /\ req'[c] # "clear"
          /\ PastReading(c) => PastReading(c)'
      BY <2>1, <2>5, <2>9, SendsMessages DEF Sends, Then, PastReading
    <3> QED BY <1>1, <2>4, <2>6, <3>1 DEF PromptAt, PromptOrder
  <2> QED BY <2>7, <2>8, <2>9
<1>3. ASSUME NEW step, Goto(c, step), UNCHANGED <<chan, open, prompt, term, prompted>>,
             step # "clear", ~PastReading(c) \/ step \in {"bye", "close", "ended"}
      PROVE  PromptAt(c)'
  <2>1. req'[c] = step
    BY <1>3 DEF Goto, ConnTypes
  <2> QED BY <1>3, <2>1 DEF PromptAt, PromptOrder, PastReading, Holds
<1>4. CASE SendStep(c) /\ ~open[c] /\ Goto(c, AfterClosed(req[c])) /\ UNCHANGED chan
  <2>1. AfterClosed(req[c]) \in {"bye", "close", "ended"}
    BY DEF AfterClosed
  <2>2. UNCHANGED <<chan, open, prompt, term, prompted>>
    BY <1>4 DEF SendStep
  <2> QED BY <1>3, <1>4, <2>1, <2>2
<1>5. CASE Enter(c)
  <2>1. req'[c] = "clear" /\ prompted'[c] = FALSE /\ term'[c] = "empty" /\ chan' = chan
        /\ prompted[c]
    BY <1>5 DEF Enter, Goto, ConnTypes
  <2> QED BY <1>1, <2>1 DEF PromptAt, PromptOrder, PastReading, Holds
<1>6. CASE ReadEnds(c) \/ HandleRequest(c) \/ ReadLock(c) \/ WriteLock(c) \/ TellQueued(c)
  <2>1. /\ UNCHANGED <<chan, open, prompt, term, prompted>>
        /\ \E step \in {"bye", "prompt", "reply", "status", "view", "add", "list", "tell"} :
              Goto(c, step) /\ (~PastReading(c) \/ step = "bye")
    BY <1>6 DEF ReadEnds, HandleRequest, ReadLock, WriteLock, TellQueued, PastReading
  <2> QED BY <1>3, <2>1
<1>7. CASE Poll(c) \/ ClientStep(c)
  BY <1>7, PromptStays DEF Poll, ClientStep, connVars
<1>8. CASE Notify(c)
  <2>1. CASE HasRoom(c) /\ Put(c, Message("Lines", cursor[c]))
    <3>1. Message("Lines", cursor[c]) \in Messages /\ Message("Lines", cursor[c]).kind = "Lines"
      BY ConnReceivers DEF BTypeOK, Message, Messages, Kinds
    <3>2. UNCHANGED <<req, open, prompt, term, prompted>>
      BY <1>8 DEF Notify
    <3> QED BY <1>1, <2>1, <3>1, <3>2, OrderAfterPut DEF PromptAt, PromptOrder, PastReading
  <2>2. CASE UNCHANGED chan
    BY <1>8, <2>2, PromptStays DEF Notify
  <2> QED BY <1>8, <2>1, <2>2 DEF Notify
<1>9. CASE HandleExit(c) \/ WriteFails(c)
  <2>1. chan'[c] = <<>> /\ open'[c] = FALSE /\ UNCHANGED <<req, term, prompted>>
    BY <1>9 DEF HandleExit, WriteFails, CloseWriter, ConnTypes
  <2> QED BY <1>1, <2>1 DEF PromptAt, PromptOrder, PastReading, Holds
<1>10. CASE HandleClear(c)
  <2>1. /\ Next1(c).kind = "ClearPrompt" /\ chan[c] # <<>> /\ chan' = [chan EXCEPT ![c] = Tail(@)]
        /\ UNCHANGED <<req, open, term, prompted>>
    BY <1>10 DEF HandleClear, Received
  <2>2. term[c] = "empty"
    BY <1>1, <2>1, OrderAfterTail DEF PromptOrder
  <2> QED BY <1>1, <2>1, <2>2, OrderAfterTail DEF PromptAt, PromptOrder, PastReading
<1>11. CASE Write(c)
  <2>1. chan[c] # <<>> /\ chan' = [chan EXCEPT ![c] = Tail(@)] /\ UNCHANGED <<req, open>>
    BY <1>11 DEF Write, Received
  <2>2. CASE Next1(c).kind = "SetPrompt" /\ WritePrompt(c)
    <3>1. prompt'[c] = TRUE /\ prompted'[c] = TRUE
      BY <2>2 DEF WritePrompt, ConnTypes
    <3>2. PastReading(c) /\ req[c] # "clear" /\ ~Holds(c, "SetPrompt")' /\ ~Holds(c, "ClearPrompt")'
      BY <1>1, <2>1, <2>2, OrderAfterTail DEF PromptOrder, PastReading
    <3> QED BY <1>1, <2>1, <3>1, <3>2, OrderAfterTail DEF PromptAt, PromptOrder, PastReading
  <2>3. CASE WriteLines(c)
    <3>1. term'[c] = "empty" /\ prompted' = prompted
      BY <2>3 DEF WriteLines, ConnTypes
    <3> QED BY <1>1, <2>1, <3>1, OrderAfterTail DEF PromptAt, PromptOrder, PastReading
  <2> QED BY <1>11, <2>2, <2>3 DEF Write
<1>12. CASE Connect(c)
  <2>1. chan'[c] = <<>> /\ ~prompted'[c] /\ term'[c] = "empty"
    BY <1>12 DEF Connect, Fresh
  <2> QED BY <2>1 DEF PromptAt, PromptOrder, Holds
<1> QED
  BY <1>2, <1>4, <1>5, <1>6, <1>7, <1>8, <1>9, <1>10, <1>11, <1>12 DEF ConnStep, SendStep

LEMMA PromptStep ==
    ASSUME Types, PromptsAgree, FeedsAgree, [Next]_vars
    PROVE  PromptsAgree'
<1>1. CASE \E c \in Conns : ConnStep(c) \/ Connect(c)
  <2>1. PICK c \in Conns : ConnStep(c) \/ Connect(c)
    BY <1>1
  <2>2. PromptAt(c)'
    BY <2>1, ConnectionPrompt, PromptsOfAll DEF Types, FeedsAgree
  <2>3. \A d \in Conns \ {c} : PromptAt(d)'
    BY <2>1, OthersPrompts, PromptsOfAll DEF Types
  <2>4. \A d \in Conns : PromptAt(d)'
    BY <2>2, <2>3
  <2> QED BY <2>4 DEF PromptsAgree, PromptKnown, PromptAt
<1>2. CASE UNCHANGED connVars
  <2>1. \A d \in Conns : PromptAt(d)'
    BY <1>2, PromptStays, PromptsOfAll DEF connVars
  <2> QED BY <2>1 DEF PromptsAgree, PromptKnown, PromptAt
<1> QED
  BY <1>1, <1>2
  DEF Next, Accept, Connections, ControllerTask, ControllerStep, WantLock, HandleLocked, HandleSignal,
      ControllerStops, ControllerFails, EndBot, EndServer, CtrlC, Join, Exit, vars, avars

-----------------------------------------------------------------------------
(* The feed of one connection. *)
FeedAt(c) == Fresh(c) /\ FeedOrder(c)

LEMMA ChanEvents ==
    ASSUME ConnTypes, NEW c \in Conns
    PROVE  \A i \in DOMAIN chan[c] : chan[c][i] \in Messages /\ chan[c][i].event \in Nat
<1>1. \A i \in DOMAIN chan[c] : chan[c][i] \in Messages
  BY DEF ConnTypes
<1> QED BY <1>1 DEF Messages

(* A connection whose cursor, channel and terminal stay. *)
LEMMA FeedStays ==
    ASSUME BTypeOK, ConnTypes, NEW c \in Conns, FeedAt(c), tail' \in {tail, tail + 1},
           cursor'[c] = cursor[c], rx'[c] = rx[c], chan'[c] = chan[c], shown'[c] = shown[c],
           client'[c] = client[c], open'[c] = open[c], term'[c] = term[c],
           prompted'[c] = prompted[c], req'[c] = req[c]
    PROVE  FeedAt(c)'
<1>1. Fresh(c)' /\ PassedOn(c)' = PassedOn(c) /\ LastShown(c)' = LastShown(c)
  BY DEF FeedAt, Fresh, PassedOn, LastShown
<1>2. \A i \in DOMAIN shown[c] : shown[c][i] \in Nat /\ shown[c][i] <= tail
  BY DEF FeedAt, FeedOrder, ConnTypes
<1>3. tail \in Nat
  BY DEF BTypeOK
<1>4. \A i \in DOMAIN shown'[c] : shown'[c][i] <= tail'
  BY <1>2, <1>3
<1> QED BY <1>1, <1>4 DEF FeedAt, FeedOrder

LEMMA OthersFeeds ==
    ASSUME BTypeOK, ConnTypes, NEW c \in Conns, ConnStep(c) \/ Connect(c), NEW d \in Conns \ {c}, FeedAt(d)
    PROVE  FeedAt(d)'
<1>1. /\ req'[d] = req[d] /\ open'[d] = open[d] /\ client'[d] = client[d]
      /\ term'[d] = term[d] /\ prompted'[d] = prompted[d]
  BY DEF ConnStep, Connect, SendStep, Enter, ReadEnds, HandleRequest, ReadLock, WriteLock, TellQueued,
         Poll, Notify, HandleExit, HandleClear, WriteFails, CloseWriter, Write, WritePrompt,
         WriteLines, ClientStep, Stall, Resume, HangUp, Goto, connVars, ConnTypes
<1>2. chan'[d] = chan[d]
  BY DEF ConnStep, Connect, SendStep, Enter, ReadEnds, HandleRequest, ReadLock, WriteLock, TellQueued,
         Poll, Notify, HandleExit, HandleClear, WriteFails, CloseWriter, Write, ClientStep, Put,
         connVars, ConnTypes
<1>3. shown'[d] = shown[d]
  BY DEF ConnStep, Connect, SendStep, Enter, ReadEnds, HandleRequest, ReadLock, WriteLock, TellQueued,
         Poll, Notify, HandleExit, HandleClear, WriteFails, Write, WritePrompt, WriteLines,
         ClientStep, connVars, ConnTypes
<1>4. cursor'[d] = cursor[d] /\ rx'[d] = rx[d] /\ tail' \in {tail, tail + 1}
  BY ConnReceivers
  DEF ConnStep, Connect, SendStep, Enter, ReadEnds, HandleRequest, ReadLock, WriteLock, TellQueued,
      Poll, Notify, HandleExit, HandleClear, WriteFails, Write, ClientStep, bvars, Publish,
      TakeEvent, FallAsleep, Subscribe, PollAgain, Drop, BTypeOK
<1> QED BY <1>1, <1>2, <1>3, <1>4, FeedStays

(* What is put into the channel is no event, or a later one than all that  *)
(* have been passed on.                                                    *)
LEMMA FeedAfterPut ==
    ASSUME BTypeOK, ConnTypes, NEW c \in Conns, FeedAt(c), NEW m \in Messages, HasRoom(c), Put(c, m),
           UNCHANGED <<tail, shown, client>>, NEW p \in Nat, PassedOn(c) <= p, PassedOn(c)' = p,
           m.event > 0 => PassedOn(c) < m.event /\ m.event <= p
    PROVE  FeedAt(c)'
<1>1. client[c] # "absent" /\ open[c]
  BY DEF FeedAt, Fresh, HasRoom
<1>2. /\ shown[c] # <<>> /\ LastShown(c) <= PassedOn(c) /\ LastShown(c)' = LastShown(c)
      /\ \A i \in DOMAIN chan[c] : chan[c][i].event > 0 =>
            LastShown(c) < chan[c][i].event /\ chan[c][i].event <= PassedOn(c)
      /\ \A i, j \in DOMAIN chan[c] : i < j /\ chan[c][i].event > 0 /\ chan[c][j].event > 0 =>
            chan[c][i].event < chan[c][j].event
  BY <1>1 DEF FeedAt, FeedOrder, LastShown
<1>3. LastShown(c) \in Nat /\ PassedOn(c) \in Int /\ m.event \in Nat
      /\ \A i \in DOMAIN chan[c] : chan[c][i].event \in Nat
  <2>1. shown[c] \in Seq(Nat) /\ Len(shown[c]) \in DOMAIN shown[c]
    BY <1>2 DEF ConnTypes
  <2>2. cursor[c] \in Nat
    BY ConnReceivers DEF BTypeOK
  <2> QED BY <2>1, <2>2, ChanEvents DEF LastShown, PassedOn, Messages
<1> DEFINE n == Len(chan[c])
<1>4. /\ n \in Nat /\ DOMAIN chan[c] = 1..n
      /\ \A i \in DOMAIN chan[c] : i \in DOMAIN chan'[c] /\ chan'[c][i] = chan[c][i]
      /\ n + 1 \in DOMAIN chan'[c] /\ chan'[c][n + 1] = m
      /\ \A i \in DOMAIN chan'[c] : i \in DOMAIN chan[c] \/ i = n + 1
  BY ChanAfterPut
<1> HIDE DEF n
<1>5. \A i \in DOMAIN chan'[c] : chan'[c][i].event > 0 =>
         LastShown(c) < chan'[c][i].event /\ chan'[c][i].event <= p
  BY <1>2, <1>3, <1>4
<1>6. ASSUME NEW i \in DOMAIN chan'[c], NEW j \in DOMAIN chan'[c],
             i < j, chan'[c][i].event > 0, chan'[c][j].event > 0
      PROVE  chan'[c][i].event < chan'[c][j].event
  <2>1. i \in DOMAIN chan[c]
    BY <1>4, <1>6
  <2>2. CASE j \in DOMAIN chan[c]
    BY <1>2, <1>4, <1>6, <2>1, <2>2
  <2>3. CASE j = n + 1
    BY <1>2, <1>3, <1>4, <1>6, <2>1, <2>3
  <2> QED BY <1>4, <2>2, <2>3
<1>7. LastShown(c) <= p
  BY <1>2, <1>3
<1>8. \A i \in DOMAIN shown'[c] : shown'[c][i] <= tail'
  BY DEF FeedAt, FeedOrder
<1> QED BY <1>1, <1>2, <1>5, <1>6, <1>7, <1>8 DEF FeedAt, FeedOrder, Fresh

(* What is taken from the channel was the first of it; an event shown is   *)
(* later than those before it.                                             *)
LEMMA FeedAfterTail ==
    ASSUME BTypeOK, ConnTypes, NEW c \in Conns, FeedAt(c), open[c], chan[c] # <<>>,
           chan' = [chan EXCEPT ![c] = Tail(@)], UNCHANGED <<tail, client, cursor, rx>>,
           \/ shown'[c] = shown[c]
           \/ Next1(c).event > 0 /\ shown'[c] = Append(shown[c], Next1(c).event)
    PROVE  /\ FeedAt(c)'
           /\ Next1(c).event > 0 => Next1(c).event \in LastShown(c) + 1..tail
           /\ shown[c] # <<>>
<1>1. client[c] # "absent" /\ PassedOn(c)' = PassedOn(c)
  BY DEF FeedAt, Fresh, PassedOn
<1>2. /\ shown[c] # <<>> /\ LastShown(c) <= PassedOn(c)
      /\ \A i \in DOMAIN chan[c] : chan[c][i].event > 0 =>
            LastShown(c) < chan[c][i].event /\ chan[c][i].event <= PassedOn(c)
      /\ \A i, j \in DOMAIN chan[c] : i < j /\ chan[c][i].event > 0 /\ chan[c][j].event > 0 =>
            chan[c][i].event < chan[c][j].event
      /\ \A i \in DOMAIN shown[c] : shown[c][i] <= tail
  BY <1>1 DEF FeedAt, FeedOrder
<1>3. /\ Next1(c) = chan[c][1] /\ 1 \in DOMAIN chan[c] /\ Next1(c).event \in Nat
      /\ \A i \in DOMAIN chan'[c] :
            i \in Nat \ {0} /\ i + 1 \in DOMAIN chan[c] /\ chan'[c][i] = chan[c][i + 1]
      /\ \A i \in DOMAIN chan[c] : chan[c][i].event \in Nat
  BY ChanAfterTail, ChanEvents
<1>4. shown[c] \in Seq(Nat) /\ LastShown(c) \in Nat
  BY <1>2 DEF ConnTypes, LastShown
<1>5. tail \in Nat /\ PassedOn(c) \in Int /\ PassedOn(c) <= tail
  <2>1. tail \in Nat /\ cursor[c] \in 0..tail
    BY ConnReceivers DEF BTypeOK
  <2> QED BY <2>1 DEF PassedOn
<1>6. Next1(c).event > 0 => /\ Next1(c).event \in LastShown(c) + 1..tail
                           /\ Next1(c).event <= PassedOn(c)
  BY <1>2, <1>3, <1>4, <1>5
<1>7. ASSUME NEW i \in DOMAIN chan'[c], NEW j \in DOMAIN chan'[c],
             i < j, chan'[c][i].event > 0, chan'[c][j].event > 0
      PROVE  chan'[c][i].event < chan'[c][j].event
  <2>1. i + 1 < j + 1 /\ i + 1 \in DOMAIN chan[c] /\ j + 1 \in DOMAIN chan[c]
    BY <1>3, <1>7
  <2> QED BY <1>2, <1>3, <1>7, <2>1
<1>8. /\ shown'[c] # <<>> /\ LastShown(c)' <= PassedOn(c)
      /\ \A i \in DOMAIN chan'[c] : chan'[c][i].event > 0 =>
            LastShown(c)' < chan'[c][i].event /\ chan'[c][i].event <= PassedOn(c)
      /\ \A i \in DOMAIN shown'[c] : shown'[c][i] <= tail
  <2>1. CASE shown'[c] = shown[c]
    <3>1. LastShown(c)' = LastShown(c)
      BY <2>1 DEF LastShown
    <3> QED BY <1>2, <1>3, <2>1, <3>1
  <2>2. CASE Next1(c).event > 0 /\ shown'[c] = Append(shown[c], Next1(c).event)
    <3> DEFINE n == Len(shown[c])
    <3>1. n \in Nat /\ DOMAIN shown[c] = 1..n /\ Len(shown'[c]) = n + 1 /\ DOMAIN shown'[c] = 1..n + 1
          /\ shown'[c][n + 1] = Next1(c).event
          /\ \A i \in 1..n : shown'[c][i] = shown[c][i]
      BY <1>3, <1>4, <2>2
    <3> HIDE DEF n
    <3>2. LastShown(c)' = Next1(c).event
      BY <3>1 DEF LastShown
    <3>3. shown'[c] # <<>>
      BY <1>3, <1>4, <2>2
    <3>4. \A i \in DOMAIN shown'[c] : shown'[c][i] <= tail
      BY <1>2, <1>4, <1>5, <1>6, <2>2, <3>1
    <3>5. \A i \in DOMAIN chan'[c] : chan'[c][i].event > 0 => Next1(c).event < chan'[c][i].event
      <4>1. \A i \in DOMAIN chan'[c] : 1 < i + 1
        BY <1>3
      <4> QED BY <1>2, <1>3, <2>2, <4>1
    <3> QED BY <1>2, <1>3, <1>6, <2>2, <3>2, <3>3, <3>4, <3>5
  <2> QED BY <2>1, <2>2
<1> QED BY <1>1, <1>2, <1>6, <1>7, <1>8 DEF FeedAt, FeedOrder, Fresh

LEMMA ConnectionFeed ==
    ASSUME BTypeOK, ConnTypes, NEW c \in Conns, FeedAt(c), ConnStep(c) \/ Connect(c)
    PROVE  FeedAt(c)'
<1>1. c \in Receivers /\ tail \in Nat /\ cursor[c] \in 0..tail /\ Overwritten \in 0..tail
  BY ConnReceivers, BroadcastTypes DEF BTypeOK
<1>2. PassedOn(c) \in Int /\ PassedOn(c) <= cursor[c]
  BY <1>1 DEF PassedOn
<1>3. req[c] # "off" => client[c] # "absent"
  BY DEF FeedAt, Fresh
<1>4. ASSUME tail' \in {tail, tail + 1}, UNCHANGED <<cursor, rx, chan, shown, client>>,
             client[c] # "absent"
      PROVE  FeedAt(c)'
  <2>1. PassedOn(c)' = PassedOn(c) /\ LastShown(c)' = LastShown(c)
    BY <1>4 DEF PassedOn, LastShown
  <2>2. \A i \in DOMAIN shown[c] : shown[c][i] \in Nat /\ shown[c][i] <= tail
    BY DEF FeedAt, FeedOrder, ConnTypes
  <2>3. \A i \in DOMAIN shown'[c] : shown'[c][i] <= tail'
    BY <1>1, <1>4, <2>2
  <2> QED BY <1>4, <2>1, <2>3 DEF FeedAt, FeedOrder, Fresh
<1>5. CASE SendStep(c)
  <2>1. CASE HasRoom(c) /\ Put(c, Message(Sends[req[c]], 0))
    <3>1. Message(Sends[req[c]], 0) \in Messages /\ Message(Sends[req[c]], 0).event = 0
      BY <1>5, SendsMessages DEF SendStep, Message
    <3>2. UNCHANGED <<tail, shown, client>> /\ PassedOn(c)' = PassedOn(c) /\ PassedOn(c) \in Nat
      <4>1. UNCHANGED <<tail, shown, client, cursor, rx>>
        BY <1>5 DEF SendStep, bvars
      <4>2. client[c] # "absent"
        BY <2>1 DEF HasRoom, FeedAt, Fresh
      <4>3. shown[c] \in Seq(Nat) /\ shown[c] # <<>> /\ LastShown(c) <= PassedOn(c)
        BY <4>2 DEF FeedAt, FeedOrder, ConnTypes
      <4>4. LastShown(c) \in Nat
        BY <4>3 DEF LastShown
      <4> QED BY <1>2, <4>1, <4>3, <4>4 DEF PassedOn
    <3> QED BY <2>1, <3>1, <3>2, FeedAfterPut
  <2>2. CASE UNCHANGED chan
    BY <1>3, <1>4, <1>5, <2>2, SendsMessages DEF SendStep, bvars
  <2> QED BY <1>5, <2>1, <2>2 DEF SendStep
<1>6. CASE Enter(c) \/ ReadEnds(c) \/ HandleRequest(c) \/ ReadLock(c) \/ WriteLock(c) \/ TellQueued(c)
  <2>1. tail' \in {tail, tail + 1} /\ UNCHANGED <<cursor, rx, chan, shown, client>> /\ req[c] # "off"
    BY <1>6 DEF Enter, ReadEnds, HandleRequest, ReadLock, WriteLock, TellQueued, Publish, bvars
  <2> QED BY <1>3, <1>4, <2>1
<1>7. CASE Poll(c)
  <2>1. UNCHANGED <<tail, chan, shown, client, open, term, prompted, req>>
    BY <1>7 DEF Poll, connVars
  <2>2. rx[c] = "waiting" /\ PassedOn(c) = cursor[c]
    BY <1>7 DEF Poll, TakeEvent, FallAsleep, PassedOn
  <2>3. PassedOn(c)' \in Int /\ PassedOn(c) <= PassedOn(c)'
    <3>1. CASE TakeEvent(c)
      <4>1. cursor'[c] = cursor[c] + 1 /\ rx'[c] = "holding"
        BY <1>1, <3>1 DEF TakeEvent, BTypeOK
      <4> QED BY <1>1, <2>2, <4>1 DEF PassedOn
    <3>2. CASE FallAsleep(c)
      <4>1. cursor'[c] = Overwritten /\ rx'[c] = "asleep" /\ cursor[c] < Overwritten
        BY <1>1, <3>2 DEF FallAsleep, BTypeOK
      <4> QED BY <1>1, <2>2, <4>1 DEF PassedOn
    <3> QED BY <1>7, <3>1, <3>2 DEF Poll
  <2>4. Fresh(c)' /\ LastShown(c)' = LastShown(c)
    BY <2>1 DEF FeedAt, Fresh, LastShown
  <2>5. client[c] # "absent" => LastShown(c) \in Nat /\ shown[c] # <<>> /\ LastShown(c) <= PassedOn(c)'
    <3>1. client[c] # "absent" => shown[c] # <<>> /\ LastShown(c) <= PassedOn(c)
      BY DEF FeedAt, FeedOrder
    <3>2. shown[c] # <<>> => LastShown(c) \in Nat
      BY DEF LastShown, ConnTypes
    <3> QED BY <1>2, <2>3, <3>1, <3>2
  <2>6. \A i \in DOMAIN chan[c] : chan[c][i].event > 0 =>
           LastShown(c) < chan[c][i].event /\ chan[c][i].event <= PassedOn(c)'
    BY <1>2, <2>3, ChanEvents DEF FeedAt, FeedOrder
  <2> QED BY <2>1, <2>4, <2>5, <2>6 DEF FeedAt, FeedOrder
<1>8. CASE Notify(c)
  <2>1. PassedOn(c) = cursor[c] - 1 /\ UNCHANGED <<tail, cursor, shown, client>>
    BY <1>8 DEF Notify, PassedOn
  <2>2. rx'[c] # "holding" /\ PassedOn(c)' = cursor[c]
    BY <1>1, <1>8, <2>1 DEF Notify, PollAgain, Drop, PassedOn, BTypeOK
  <2>3. CASE HasRoom(c) /\ Put(c, Message("Lines", cursor[c]))
    <3>1. /\ Message("Lines", cursor[c]) \in Messages
          /\ Message("Lines", cursor[c]).event = cursor[c]
      BY <1>1 DEF Message, Messages, Kinds
    <3> QED BY <1>1, <2>1, <2>2, <2>3, <3>1, FeedAfterPut
  <2>4. CASE ~open[c] /\ UNCHANGED chan
    <3>1. LastShown(c)' = LastShown(c) /\ Fresh(c)'
      BY <1>8, <2>1, <2>4 DEF LastShown, FeedAt, Fresh, Notify
    <3>2. client[c] # "absent" => shown[c] # <<>> /\ LastShown(c) <= PassedOn(c)'
      <4>1. shown[c] # <<>> => LastShown(c) \in Nat
        BY DEF LastShown, ConnTypes
      <4> QED BY <1>1, <2>1, <2>2, <4>1 DEF FeedAt, FeedOrder
    <3>3. \A i \in DOMAIN chan[c] : chan[c][i].event > 0 =>
             LastShown(c) < chan[c][i].event /\ chan[c][i].event <= PassedOn(c)'
      BY <1>1, <2>1, <2>2, ChanEvents DEF FeedAt, FeedOrder
    <3> QED BY <2>1, <2>4, <3>1, <3>2, <3>3 DEF FeedAt, FeedOrder
  <2> QED BY <1>8, <2>3, <2>4 DEF Notify
<1>9. CASE HandleExit(c) \/ WriteFails(c)
  <2>1. chan'[c] = <<>> /\ ~open'[c] /\ UNCHANGED <<bvars, shown, client, term, prompted, req>>
    BY <1>9 DEF HandleExit, WriteFails, CloseWriter, ConnTypes
  <2> QED BY <2>1 DEF FeedAt, FeedOrder, Fresh, PassedOn, LastShown, bvars
<1>10. CASE HandleClear(c)
  BY <1>10, FeedAfterTail DEF HandleClear, Received, bvars
<1>11. CASE Write(c)
  <2>1. \/ shown'[c] = shown[c]
        \/ Next1(c).event > 0 /\ shown'[c] = Append(shown[c], Next1(c).event)
    BY <1>11 DEF Write, WritePrompt, WriteLines, ConnTypes
  <2> QED BY <1>11, <2>1, FeedAfterTail DEF Write, Received, bvars
<1>12. CASE ClientStep(c)
  <2>1. client[c] # "absent" /\ client'[c] # "absent"
        /\ UNCHANGED <<bvars, chan, shown>>
    BY <1>12 DEF ClientStep, Stall, Resume, HangUp, ConnTypes
  <2> QED BY <2>1 DEF FeedAt, FeedOrder, Fresh, PassedOn, LastShown, bvars
<1>13. CASE Connect(c)
  <2>1. client'[c] = "reading" /\ shown'[c] = <<tail>> /\ chan'[c] = <<>> /\ tail' = tail
    BY <1>13 DEF Connect, FeedAt, Fresh, ConnTypes
  <2>2. cursor'[c] = tail /\ rx'[c] = "waiting"
    BY <1>1, <1>13 DEF Connect, Subscribe, BTypeOK
  <2>3. LastShown(c)' = tail /\ PassedOn(c)' = tail
    BY <2>1, <2>2 DEF LastShown, PassedOn
  <2>4. \A i \in DOMAIN shown'[c] : shown'[c][i] <= tail'
    BY <1>1, <2>1
  <2> QED BY <1>1, <2>1, <2>3, <2>4 DEF FeedAt, FeedOrder, Fresh
<1> QED
  BY <1>5, <1>6, <1>7, <1>8, <1>9, <1>10, <1>11, <1>12, <1>13 DEF ConnStep

LEMMA FeedStep ==
    ASSUME Types, FeedsAgree, [Next]_vars
    PROVE  FeedsAgree'
<1>1. \A c \in Conns : FeedAt(c)
  BY DEF FeedsAgree, FeedAt
<1>2. SUFFICES ASSUME NEW d \in Conns PROVE FeedAt(d)'
  BY DEF FeedsAgree, FeedAt
<1>3. ASSUME NEW c \in Conns, ConnStep(c) \/ Connect(c) PROVE FeedAt(d)'
  BY <1>1, <1>3, ConnectionFeed, OthersFeeds DEF Types
<1>4. ASSUME UNCHANGED <<cursor, rx, connVars>>, tail' \in {tail, tail + 1} PROVE FeedAt(d)'
  BY <1>1, <1>4, FeedStays DEF Types, connVars
<1>5. CASE ControllerTask \/ ControllerFails
  <2>1. UNCHANGED <<cursor, rx, connVars>> /\ tail' \in {tail, tail + 1}
    BY <1>5
    DEF ControllerTask, ControllerStep, ControllerFails, WantLock, HandleLocked, HandleSignal,
        ControllerStops, Announce, Emit, Publish, bvars
  <2> QED BY <1>4, <2>1
<1>6. CASE EndBot
  <2>1. cursor' = cursor /\ UNCHANGED connVars /\ tail' = tail
    BY <1>6 DEF EndBot
  <2>2. rx'[d] = rx[d]
    BY <1>6, AdminAssumption DEF EndBot, Drop, Types, BTypeOK
  <2> QED BY <1>1, <2>1, <2>2, FeedStays DEF Types, connVars
<1>7. CASE UNCHANGED <<bvars, connVars>>
  BY <1>4, <1>7 DEF bvars
<1> QED
  BY <1>3, <1>5, <1>6, <1>7
  DEF Next, Accept, Connections, EndServer, CtrlC, Join, Exit, vars, avars

-----------------------------------------------------------------------------
(* What is left out: nothing, at every step of one connection. *)
LEMMA GapStays ==
    ASSUME NEW c \in Conns, NoGap(c), chan'[c] = chan[c], shown'[c] = shown[c],
           Passing(c)' => Passing(c) /\ PassedOn(c)' = PassedOn(c)
    PROVE  NoGap(c)'
<1>1. LastShown(c)' = LastShown(c)
  BY DEF LastShown
<1>2. ASSUME NEW n PROVE InWriter(c, n)' <=> InWriter(c, n)
  BY DEF InWriter
<1> QED BY <1>1, <1>2 DEF NoGap

LEMMA FeedNumbers ==
    ASSUME BTypeOK, ConnTypes, NEW c \in Conns
    PROVE  PassedOn(c) \in Int /\ (shown[c] # <<>> => LastShown(c) \in Nat)
<1>1. cursor[c] \in Nat
  BY ConnReceivers DEF BTypeOK
<1>2. shown[c] \in Seq(Nat)
  BY DEF ConnTypes
<1>3. shown[c] # <<>> => Len(shown[c]) \in DOMAIN shown[c]
  BY <1>2
<1> QED BY <1>1, <1>2, <1>3 DEF PassedOn, LastShown

(* An event that is put into the channel follows the one put before it.    *)
LEMMA GapAfterPut ==
    ASSUME BTypeOK, ConnTypes, NEW c \in Conns, FeedAt(c), NoGap(c), NEW m \in Messages,
           HasRoom(c), Put(c, m), shown' = shown,
           m.event > 0 => m.kind = "Lines" /\ Passing(c) /\ m.event = PassedOn(c) + 1,
           Passing(c)' =>
               Passing(c) /\ PassedOn(c)' = IF m.event > 0 THEN m.event ELSE PassedOn(c)
    PROVE  NoGap(c)'
<1>1. shown[c] # <<>> /\ LastShown(c)' = LastShown(c)
  BY DEF FeedAt, Fresh, FeedOrder, HasRoom, LastShown
<1>2. LastShown(c) \in Nat /\ PassedOn(c) \in Int /\ m.event \in Nat
      /\ \A i \in DOMAIN chan[c] : chan[c][i].event \in Nat
  BY <1>1, FeedNumbers, ChanEvents DEF Messages
<1> DEFINE k == Len(chan[c]) + 1
<1>3. /\ \A i \in DOMAIN chan[c] : i \in DOMAIN chan'[c] /\ chan'[c][i] = chan[c][i]
      /\ k \in DOMAIN chan'[c] /\ chan'[c][k] = m
      /\ \A i \in DOMAIN chan'[c] : i \in DOMAIN chan[c] \/ i = k
  BY ChanAfterPut
<1> HIDE DEF k
<1>4. ASSUME NEW n, InWriter(c, n) PROVE InWriter(c, n)'
  BY <1>3, <1>4 DEF InWriter
<1>5. ASSUME m.event > 0, NEW n \in LastShown(c) + 1..m.event PROVE InWriter(c, n)'
  <2>1. CASE n = m.event
    BY <1>3, <2>1 DEF InWriter
  <2>2. CASE n # m.event
    <3>1. n \in LastShown(c) + 1..PassedOn(c)
      BY <1>2, <1>5, <2>2
    <3> QED BY <1>4, <1>5, <3>1 DEF NoGap
  <2> QED BY <2>1, <2>2
<1>6. ASSUME NEW i \in DOMAIN chan'[c]
      PROVE  /\ chan'[c][i].event > 0 => chan'[c][i].kind = "Lines"
             /\ \A n \in LastShown(c) + 1..chan'[c][i].event : InWriter(c, n)'
  <2>1. CASE i \in DOMAIN chan[c]
    BY <1>3, <1>4, <2>1 DEF NoGap
  <2>2. CASE i = k /\ m.event > 0
    BY <1>3, <1>5, <2>2
  <2>3. CASE i = k /\ m.event = 0
    <3>1. LastShown(c) + 1..m.event = {}
      BY <1>2, <2>3
    <3> QED BY <1>3, <2>3, <3>1
  <2> QED BY <1>2, <1>3, <2>1, <2>2, <2>3
<1>7. ASSUME Passing(c)', NEW n \in LastShown(c) + 1..PassedOn(c)' PROVE InWriter(c, n)'
  BY <1>4, <1>5, <1>7 DEF NoGap
<1> QED BY <1>1, <1>6, <1>7 DEF NoGap

(* The event at the head of the channel follows the last one shown.        *)
LEMMA NextIsNext ==
    ASSUME BTypeOK, ConnTypes, NEW c \in Conns, FeedAt(c), NoGap(c), open[c], chan[c] # <<>>,
           Next1(c).event > 0
    PROVE  Next1(c).event = LastShown(c) + 1
<1>1. shown[c] # <<>>
  BY DEF FeedAt, Fresh, FeedOrder
<1>2. LastShown(c) \in Nat /\ \A i \in DOMAIN chan[c] : chan[c][i].event \in Nat
  BY <1>1, FeedNumbers, ChanEvents
<1>3. chan[c] \in Seq(Messages) /\ Next1(c) = chan[c][1] /\ 1 \in DOMAIN chan[c]
  BY DEF ConnTypes, Next1
<1>4. LastShown(c) < Next1(c).event
  BY <1>3 DEF FeedAt, FeedOrder
<1>5. LastShown(c) + 1 \in LastShown(c) + 1..Next1(c).event
  BY <1>2, <1>3, <1>4
<1>6. PICK i \in DOMAIN chan[c] : chan[c][i].event = LastShown(c) + 1
  BY <1>3, <1>5 DEF NoGap, InWriter
<1>7. CASE i = 1
  BY <1>3, <1>6, <1>7
<1>8. CASE i # 1
  <2>1. 1 < i
    BY <1>3, <1>8
  <2>2. Next1(c).event < chan[c][i].event
    BY <1>2, <1>3, <1>6, <2>1 DEF FeedAt, FeedOrder
  <2> QED BY <1>2, <1>3, <1>4, <1>6, <2>2
<1> QED BY <1>7, <1>8

LEMMA TailKeepsRest ==
    ASSUME NEW S, NEW q \in Seq(S), q # <<>>
    PROVE  \A i \in DOMAIN q : i # 1 => i - 1 \in DOMAIN Tail(q) /\ Tail(q)[i - 1] = q[i]
<1>1. Len(q) \in Nat \ {0} /\ DOMAIN q = 1..Len(q) /\ DOMAIN Tail(q) = 1..Len(q) - 1
  OBVIOUS
<1>2. \A j \in 1..Len(q) - 1 : Tail(q)[j] = q[j + 1]
  OBVIOUS
<1>3. ASSUME NEW i \in 1..Len(q), i # 1
      PROVE  i - 1 \in 1..Len(q) - 1 /\ Tail(q)[i - 1] = q[i]
  <2>1. i - 1 \in 1..Len(q) - 1 /\ (i - 1) + 1 = i
    BY <1>1, <1>3
  <2> QED BY <1>2, <2>1
<1> QED BY <1>1, <1>3

LEMMA GapAfterTail ==
    ASSUME BTypeOK, ConnTypes, NEW c \in Conns, FeedAt(c), NoGap(c), open[c], chan[c] # <<>>,
           chan' = [chan EXCEPT ![c] = Tail(@)], UNCHANGED <<cursor, rx, open>>,
           \/ Next1(c).event = 0 /\ shown'[c] = shown[c]
           \/ Next1(c).event > 0 /\ shown'[c] = Append(shown[c], Next1(c).event)
    PROVE  NoGap(c)'
<1>1. shown[c] # <<>> /\ (Passing(c)' <=> Passing(c)) /\ PassedOn(c)' = PassedOn(c)
  BY DEF FeedAt, Fresh, FeedOrder, Passing, PassedOn
<1>2. LastShown(c) \in Nat /\ PassedOn(c) \in Int
      /\ \A i \in DOMAIN chan[c] : chan[c][i].event \in Nat
  BY <1>1, FeedNumbers, ChanEvents
<1>3. chan[c] \in Seq(Messages) /\ chan'[c] = Tail(chan[c])
      /\ Next1(c) = chan[c][1] /\ Next1(c).event \in Nat
  BY ChanAfterTail DEF ConnTypes, Next1, Messages
<1>4. \A i \in DOMAIN chan'[c] : i + 1 \in DOMAIN chan[c] /\ chan'[c][i] = chan[c][i + 1]
  BY ChanAfterTail
<1>5. \A i \in DOMAIN chan[c] : i # 1 => i - 1 \in DOMAIN chan'[c] /\ chan'[c][i - 1] = chan[c][i]
  BY <1>3, TailKeepsRest
<1>6. ASSUME NEW n, InWriter(c, n), n # Next1(c).event PROVE InWriter(c, n)'
  <2>1. PICK i \in DOMAIN chan[c] : chan[c][i].event = n
    BY <1>6 DEF InWriter
  <2>2. i # 1
    BY <1>3, <1>6, <2>1
  <2> QED BY <1>5, <2>1, <2>2 DEF InWriter
<1>7. /\ LastShown(c)' \in Nat /\ LastShown(c) <= LastShown(c)'
      /\ \/ LastShown(c)' = LastShown(c) /\ Next1(c).event = 0
         \/ LastShown(c)' = Next1(c).event
  <2>1. CASE Next1(c).event = 0 /\ shown'[c] = shown[c]
    BY <1>2, <2>1 DEF LastShown
  <2>2. CASE Next1(c).event > 0 /\ shown'[c] = Append(shown[c], Next1(c).event)
    <3>1. shown[c] \in Seq(Nat) /\ Next1(c).event \in Nat
      BY <1>2, <1>3 DEF ConnTypes
    <3>2. LastShown(c)' = Next1(c).event
      BY <2>2, <3>1 DEF LastShown
    <3>3. Next1(c).event = LastShown(c) + 1
      BY <2>2, NextIsNext
    <3> QED BY <1>2, <3>1, <3>2, <3>3
  <2> QED BY <2>1, <2>2
<1>8. ASSUME NEW u \in Int, NEW n \in LastShown(c)' + 1..u
      PROVE  n \in LastShown(c) + 1..u /\ n # Next1(c).event
  BY <1>2, <1>7, <1>8
<1>9. ASSUME NEW i \in DOMAIN chan'[c]
      PROVE  /\ chan'[c][i].event > 0 => chan'[c][i].kind = "Lines"
             /\ \A n \in LastShown(c)' + 1..chan'[c][i].event : InWriter(c, n)'
  <2>1. /\ chan'[c][i] = chan[c][i + 1] /\ i + 1 \in DOMAIN chan[c]
        /\ chan'[c][i].event \in Int
    BY <1>2, <1>4
  <2>2. ASSUME NEW n \in LastShown(c)' + 1..chan'[c][i].event PROVE InWriter(c, n)'
    <3>1. n \in LastShown(c) + 1..chan[c][i + 1].event /\ n # Next1(c).event
      BY <1>8, <2>1, <2>2
    <3> QED BY <1>6, <2>1, <3>1 DEF NoGap
  <2> QED BY <2>1, <2>2 DEF NoGap
<1>10. ASSUME Passing(c)', NEW n \in LastShown(c)' + 1..PassedOn(c)' PROVE InWriter(c, n)'
  <2>1. n \in LastShown(c) + 1..PassedOn(c) /\ n # Next1(c).event
    BY <1>1, <1>2, <1>8, <1>10
  <2> QED BY <1>1, <1>6, <1>10, <2>1 DEF NoGap
<1> QED BY <1>9, <1>10 DEF NoGap

LEMMA ConnectionGap ==
    ASSUME BTypeOK, ConnTypes, NEW c \in Conns, FeedAt(c), NoGap(c), ConnStep(c) \/ Connect(c)
    PROVE  NoGap(c)'
<1>1. c \in Receivers /\ tail \in Nat /\ cursor[c] \in 0..tail
  BY ConnReceivers DEF BTypeOK
<1>2. ASSUME UNCHANGED <<chan, shown, open, cursor, rx>> PROVE NoGap(c)'
  BY <1>2, GapStays DEF Passing, PassedOn
<1>3. CASE SendStep(c)
  <2>1. UNCHANGED <<shown, open, cursor, rx>>
    BY <1>3 DEF SendStep, bvars
  <2>2. CASE HasRoom(c) /\ Put(c, Message(Sends[req[c]], 0))
    <3>1. Message(Sends[req[c]], 0) \in Messages /\ Message(Sends[req[c]], 0).event = 0
      BY <1>3, SendsMessages DEF SendStep, Message
    <3>2. (Passing(c)' <=> Passing(c)) /\ PassedOn(c)' = PassedOn(c)
      BY <2>1 DEF Passing, PassedOn
    <3> QED BY <2>1, <2>2, <3>1, <3>2, GapAfterPut
  <2>3. CASE UNCHANGED chan
    BY <1>2, <2>1, <2>3
  <2> QED BY <1>3, <2>2, <2>3 DEF SendStep
<1>4. CASE Enter(c) \/ ReadEnds(c) \/ HandleRequest(c) \/ ReadLock(c) \/ WriteLock(c) \/ TellQueued(c)
  BY <1>2, <1>4
  DEF Enter, ReadEnds, HandleRequest, ReadLock, WriteLock, TellQueued, Publish, bvars
<1>5. CASE Poll(c)
  <2>1. UNCHANGED <<chan, shown, open>> /\ rx[c] = "waiting"
    BY <1>5 DEF Poll, connVars, TakeEvent, FallAsleep
  <2>2. CASE TakeEvent(c)
    <3>1. cursor'[c] = cursor[c] + 1 /\ rx'[c] = "holding"
      BY <1>1, <2>2 DEF TakeEvent, BTypeOK
    <3>2. PassedOn(c)' = PassedOn(c) /\ (Passing(c)' => Passing(c))
      BY <1>1, <2>1, <3>1 DEF PassedOn, Passing
    <3> QED BY <2>1, <3>2, GapStays
  <2>3. CASE FallAsleep(c)
    <3>1. ~Passing(c)'
      BY <1>1, <2>3 DEF FallAsleep, Passing, BTypeOK
    <3> QED BY <2>1, <3>1, GapStays
  <2> QED BY <1>5, <2>2, <2>3 DEF Poll
<1>6. CASE Notify(c)
  <2>1. rx[c] = "holding" /\ PassedOn(c) = cursor[c] - 1 /\ UNCHANGED <<cursor, shown, open>>
    BY <1>6 DEF Notify, PassedOn
  <2>2. rx'[c] # "holding" /\ PassedOn(c)' = cursor[c]
    BY <1>1, <1>6, <2>1 DEF Notify, PollAgain, Drop, PassedOn, BTypeOK
  <2>3. CASE HasRoom(c) /\ Put(c, Message("Lines", cursor[c]))
    <3>1. /\ Message("Lines", cursor[c]) \in Messages
          /\ Message("Lines", cursor[c]).kind = "Lines"
          /\ Message("Lines", cursor[c]).event = cursor[c]
      BY <1>1 DEF Message, Messages, Kinds
    <3>2. Passing(c) /\ cursor[c] = PassedOn(c) + 1
      BY <1>1, <2>1, <2>3 DEF Passing, HasRoom
    <3>3. cursor[c] > 0
      <4>1. shown[c] # <<>> /\ LastShown(c) <= PassedOn(c)
        BY <2>3 DEF HasRoom, FeedAt, Fresh, FeedOrder
      <4>2. PassedOn(c) \in Int /\ LastShown(c) \in Nat
        BY <4>1, FeedNumbers
      <4> QED BY <3>2, <4>1, <4>2
    <3> QED BY <2>1, <2>2, <2>3, <3>1, <3>2, <3>3, GapAfterPut
  <2>4. CASE ~open[c] /\ UNCHANGED chan
    BY <2>1, <2>4, GapStays DEF Passing
  <2> QED BY <1>6, <2>3, <2>4 DEF Notify
<1>7. CASE HandleExit(c) \/ WriteFails(c)
  <2>1. chan'[c] = <<>> /\ ~open'[c]
    BY <1>7 DEF HandleExit, WriteFails, CloseWriter, ConnTypes
  <2> QED BY <2>1 DEF NoGap, Passing
<1>8. CASE HandleClear(c) \/ Write(c)
  <2>1. /\ open[c] /\ chan[c] # <<>> /\ chan' = [chan EXCEPT ![c] = Tail(@)]
        /\ UNCHANGED <<cursor, rx, open>>
    <3>1. CASE HandleClear(c)
      BY <3>1 DEF HandleClear, Received, bvars
    <3>2. CASE Write(c)
      BY <3>2 DEF Write, Received, bvars
    <3> QED BY <1>8, <3>1, <3>2
  <2>2. Next1(c).event \in Nat /\ (Next1(c).event > 0 => Next1(c).kind = "Lines")
    <3>1. Next1(c) \in Messages /\ Next1(c) = chan[c][1] /\ 1 \in DOMAIN chan[c]
      BY <2>1, ChanAfterTail
    <3> QED BY <3>1 DEF NoGap, Messages
  <2>3. \/ Next1(c).event = 0 /\ shown'[c] = shown[c]
        \/ Next1(c).event > 0 /\ shown'[c] = Append(shown[c], Next1(c).event)
    <3>1. CASE HandleClear(c)
      BY <2>2, <3>1 DEF HandleClear
    <3>2. CASE Write(c)
      BY <2>2, <3>2 DEF Write, WritePrompt, WriteLines, ConnTypes
    <3> QED BY <1>8, <3>1, <3>2
  <2> QED BY <2>1, <2>3, GapAfterTail
<1>9. CASE ClientStep(c)
  BY <1>2, <1>9 DEF ClientStep, bvars
<1>10. CASE Connect(c)
  <2>1. shown'[c] = <<tail>> /\ chan'[c] = <<>>
    BY <1>10 DEF Connect, FeedAt, Fresh, ConnTypes
  <2>2. cursor'[c] = tail /\ rx'[c] = "waiting"
    BY <1>1, <1>10 DEF Connect, Subscribe, BTypeOK
  <2>3. LastShown(c)' = tail /\ PassedOn(c)' = tail
    BY <2>1, <2>2 DEF LastShown, PassedOn
  <2>4. LastShown(c)' + 1..PassedOn(c)' = {}
    BY <1>1, <2>3
  <2> QED BY <2>1, <2>4 DEF NoGap
<1> QED
  BY <1>3, <1>4, <1>5, <1>6, <1>7, <1>8, <1>9, <1>10 DEF ConnStep

(* A step of one connection is nothing to the others.                      *)
LEMMA OthersGaps ==
    ASSUME BTypeOK, ConnTypes, NEW c \in Conns, ConnStep(c) \/ Connect(c),
           NEW d \in Conns \ {c}, NoGap(d)
    PROVE  NoGap(d)'
<1>1. open'[d] = open[d]
  BY DEF ConnStep, Connect, SendStep, Enter, ReadEnds, HandleRequest, ReadLock, WriteLock, TellQueued,
         Poll, Notify, HandleExit, HandleClear, WriteFails, CloseWriter, Write, ClientStep,
         connVars, ConnTypes
<1>2. chan'[d] = chan[d]
  BY DEF ConnStep, Connect, SendStep, Enter, ReadEnds, HandleRequest, ReadLock, WriteLock, TellQueued,
         Poll, Notify, HandleExit, HandleClear, WriteFails, CloseWriter, Write, ClientStep, Put,
         connVars, ConnTypes
<1>3. shown'[d] = shown[d]
  BY DEF ConnStep, Connect, SendStep, Enter, ReadEnds, HandleRequest, ReadLock, WriteLock, TellQueued,
         Poll, Notify, HandleExit, HandleClear, WriteFails, Write, WritePrompt, WriteLines,
         ClientStep, connVars, ConnTypes
<1>4. cursor'[d] = cursor[d] /\ rx'[d] = rx[d]
  BY ConnReceivers
  DEF ConnStep, Connect, SendStep, Enter, ReadEnds, HandleRequest, ReadLock, WriteLock, TellQueued,
      Poll, Notify, HandleExit, HandleClear, WriteFails, Write, ClientStep, bvars, Publish,
      TakeEvent, FallAsleep, Subscribe, PollAgain, Drop, BTypeOK
<1> QED BY <1>1, <1>2, <1>3, <1>4, GapStays DEF Passing, PassedOn

LEMMA GapStep ==
    ASSUME Types, FeedsAgree, NothingMissing, [Next]_vars
    PROVE  NothingMissing'
<1>1. \A c \in Conns : FeedAt(c) /\ NoGap(c)
  BY DEF FeedsAgree, FeedAt, NothingMissing
<1>2. SUFFICES ASSUME NEW d \in Conns PROVE NoGap(d)'
  BY DEF NothingMissing
<1>3. ASSUME NEW c \in Conns, ConnStep(c) \/ Connect(c) PROVE NoGap(d)'
  BY <1>1, <1>3, ConnectionGap, OthersGaps DEF Types
<1>4. ASSUME cursor' = cursor, UNCHANGED connVars, rx'[d] = rx[d] PROVE NoGap(d)'
  BY <1>1, <1>4, GapStays DEF Passing, PassedOn, connVars
<1>5. CASE ControllerTask \/ ControllerFails
  BY <1>4, <1>5
  DEF ControllerTask, ControllerStep, ControllerFails, WantLock, HandleLocked, HandleSignal,
      ControllerStops, bvars
<1>6. CASE EndBot
  <2>1. rx'[d] = rx[d]
    BY <1>6, AdminAssumption DEF EndBot, Drop, Types, BTypeOK
  <2> QED BY <1>4, <1>6, <2>1 DEF EndBot
<1>7. CASE UNCHANGED <<bvars, connVars>>
  BY <1>4, <1>7 DEF bvars
<1> QED
  BY <1>3, <1>5, <1>6, <1>7
  DEF Next, Accept, Connections, EndServer, CtrlC, Join, Exit, vars, avars

-----------------------------------------------------------------------------
(* The tasks of the program: one that has ended stays as it ended. *)
LEMMA EndedStays ==
    ASSUME [Next]_vars, NEW t \in Tasks, Ended(t)
    PROVE  TaskState(t)' = TaskState(t)
<1>1. ctl \in {"stopped", "failed"} => ctl' = ctl
  BY DEF Next, Accept, Connections, Connect, ConnStep, SendStep, Enter, ReadEnds, HandleRequest, ReadLock,
         WriteLock, TellQueued, Poll, Notify, HandleExit, HandleClear, WriteFails, Write, ClientStep,
         ControllerTask, ControllerStep, WantLock, HandleLocked, HandleSignal, ControllerStops,
         ControllerFails, EndBot, EndServer, CtrlC, Join, Exit, lockVars, vars, avars
<1>2. server \in {"stopped", "failed"} => server' = server
  BY DEF Next, Accept, Connections, ControllerTask, ControllerFails, EndBot, EndServer, CtrlC, Join, Exit,
         rvars, vars
<1>3. bot \in {"stopped", "failed"} => bot' = bot
  BY DEF Next, Accept, Connections, ControllerTask, ControllerFails, EndBot, EndServer, CtrlC, Join, Exit,
         rvars, vars
<1> QED BY <1>1, <1>2, <1>3 DEF Tasks, Ended, TaskState

LEMMA JoinStep ==
    ASSUME Types, JoinsAgree, [Next]_vars
    PROVE  JoinsAgree'
<1>1. \A t \in Tasks : Ended(t) => TaskState(t)' = TaskState(t) /\ Ended(t)'
  BY EndedStays DEF Ended
<1>2. CASE UNCHANGED <<server, socket, unjoined, outcome>> /\ (main' = main \/ unjoined = {})
  <2>1. Joined' = Joined /\ \A t \in Joined : Ended(t) /\ t \in Tasks
    BY <1>2 DEF Joined, JoinsAgree
  <2> QED BY <1>1, <1>2, <2>1 DEF JoinsAgree
<1>3. CASE EndServer
  <2>1. Joined' = Joined /\ \A t \in Joined : Ended(t) /\ t \in Tasks
    BY <1>3 DEF EndServer, Joined, JoinsAgree
  <2> QED BY <1>1, <1>3, <2>1 DEF JoinsAgree, EndServer
<1>4. ASSUME NEW u \in Tasks, Join(u) PROVE JoinsAgree'
  <2>1. Joined' = Joined \cup {u} /\ Ended(u) /\ u \notin Joined
    BY <1>4 DEF Join, Joined, Ended
  <2>2. \A t \in Joined' : Ended(t)' /\ TaskState(t)' = TaskState(t)
    BY <1>1, <2>1 DEF JoinsAgree, Joined
  <2>3. outcome' = IF \E t \in Joined' : TaskState(t)' = "failed" THEN "error" ELSE "ok"
    <3>1. outcome' = IF TaskState(u) = "failed" THEN "error" ELSE outcome
      BY <1>4 DEF Join
    <3>2. outcome = IF \E t \in Joined : TaskState(t) = "failed" THEN "error" ELSE "ok"
      BY DEF JoinsAgree
    <3> QED BY <2>1, <2>2, <3>1, <3>2
  <2>4. UNCHANGED <<server, socket, main>> /\ unjoined' \subseteq unjoined
    BY <1>4 DEF Join
  <2> QED BY <2>2, <2>3, <2>4 DEF JoinsAgree
<1>5. \/ UNCHANGED <<server, socket, unjoined, outcome>> /\ (main' = main \/ unjoined = {})
      \/ EndServer \/ \E u \in Tasks : Join(u)
  BY DEF Next, Accept, Connections, ControllerTask, ControllerFails, EndBot, CtrlC, Exit, rvars, vars
<1> QED BY <1>2, <1>3, <1>4, <1>5
-----------------------------------------------------------------------------
LEMMA InitInductive == Init => Inductive
<1> SUFFICES ASSUME Init PROVE Inductive
  OBVIOUS
<1>1. AInit(IF BotEnabled THEN {Bot} ELSE {}) /\ BInit(IF BotEnabled THEN {Bot} ELSE {})
  BY DEF Init, AInit
<1>2. BTypeOK
  BY <1>1 DEF BInit, BTypeOK
<1>3. ConnTypes
  <2>1. 0 <= WriterCapacity /\ <<>> \in Seq(Messages) /\ <<>> \in Seq(Nat) /\ Len(<<>>) = 0
    BY AdminAssumption
  <2> QED BY <1>1, <2>1 DEF AInit, ConnTypes, Steps
<1>4. TaskTypes
  BY <1>1 DEF Init, AInit, TaskTypes
<1>5. LockAgrees
  <2>1. <<>> \in Seq(Conns \cup {Controller}) /\ DOMAIN <<>> = {}
    OBVIOUS
  <2> QED BY <1>1, <2>1, ConnReceivers DEF AInit, LockAgrees, InLockq, Wants
<1>6. PromptsAgree
  BY <1>1 DEF AInit, PromptsAgree, PromptKnown, PromptOrder, PastReading, Holds
<1>7. FeedsAgree
  BY <1>1 DEF AInit, FeedsAgree, Fresh, FeedOrder
<1>8. NothingMissing
  BY <1>1 DEF AInit, NothingMissing, NoGap, Passing
<1>9. JoinsAgree
  BY DEF Init, JoinsAgree, Joined
<1> QED BY <1>2, <1>3, <1>4, <1>5, <1>6, <1>7, <1>8, <1>9 DEF Inductive, Types

LEMMA InductiveStep == Inductive /\ [Next]_vars => Inductive'
BY TypesStep, LockStep, PromptStep, FeedStep, GapStep, JoinStep DEF Inductive

LEMMA Invariants == Spec => []Inductive
BY InitInductive, InductiveStep, PTL DEF Spec

-----------------------------------------------------------------------------
(* The state of the server and of the program around it has its types:     *)
(* the writer's channel never holds more than it may, the read lock        *)
(* belongs to the connections that are sending a listing, and the queue    *)
(* for the lock is made of those who wait for it (server.rs:370-400, 520). *)
THEOREM RuntimeTypes == Spec => []RTypeOK
<1>1. ASSUME Inductive PROVE RTypeOK
  <2>1. Types /\ LockAgrees /\ FeedsAgree
    BY <1>1 DEF Inductive
  <2>2. \A c \in Conns : shown[c] \in Seq(0..tail)
    <3> SUFFICES ASSUME NEW c \in Conns PROVE shown[c] \in Seq(0..tail)
      OBVIOUS
    <3>1. shown[c] \in Seq(Nat) /\ tail \in Nat
      BY <2>1 DEF Types, ConnTypes, BTypeOK
    <3>2. \A i \in 1..Len(shown[c]) : shown[c][i] \in 0..tail
      BY <2>1, <3>1 DEF FeedsAgree, FeedOrder
    <3> QED BY <3>1, <3>2
  <2>3. {lockq[i] : i \in DOMAIN lockq} =
           {c \in Conns : req[c] \in {"view", "status", "add"}}
               \cup {who \in {Controller} : ctl \in {"waiting", "viewing"}}
    <3>1. lockq \in Seq(Conns \cup {Controller})
      BY <2>1 DEF LockAgrees
    <3>2. \A i \in DOMAIN lockq : lockq[i] \in Conns \cup {Controller}
      BY <3>1
    <3>3. \A who \in Conns \cup {Controller} : InLockq(who) <=> Wants(who)
      BY <2>1 DEF LockAgrees
    <3> QED BY <3>2, <3>3, ConnReceivers DEF InLockq, Wants
  <2> QED BY <2>1, <2>2, <2>3 DEF RTypeOK, ATypeOK, Types, ConnTypes, TaskTypes, LockAgrees, Steps
<1> QED BY <1>1, Invariants, PTL

(* However the three tasks of a connection interleave, the writer knows of *)
(* a prompt that is open on the terminal (server.rs:530-560).              *)
THEOREM PromptNeverLost == Spec => []PromptKnown
<1>1. Inductive => PromptKnown
  BY DEF Inductive, PromptsAgree
<1> QED BY <1>1, Invariants, PTL

(* Whichever tasks fail and in whatever order they end and are joined, the *)
(* program exits with an error exactly if one has failed, and its socket   *)
(* is gone (run.rs:83-97, server.rs:127).                                  *)
THEOREM ExitsCleanly == Spec => []CleanExit
<1>1. ASSUME Inductive PROVE CleanExit
  <2>1. CASE main = "exited"
    <3>1. Joined = Tasks /\ \A t \in Tasks : Ended(t)
      BY <1>1, <2>1 DEF Inductive, JoinsAgree, Joined
    <3>2. server # "running"
      BY <3>1 DEF Tasks, Ended, TaskState
    <3> QED BY <1>1, <3>1, <3>2 DEF Inductive, JoinsAgree, CleanExit
  <2> QED BY <2>1 DEF CleanExit
<1> QED BY <1>1, Invariants, PTL

(* Through the ring, the receiver's task, the writer's channel and the     *)
(* socket, what each client is shown is a feed: the events from after it   *)
(* connected, in their order, none twice and none left out between two     *)
(* (controller.rs:160-240, server.rs:430-560).                             *)
THEOREM ClientsSeeAFeed == Spec => ShowsFeed
<1>1. Init => Feed!FInit
  BY DEF Init, AInit, BInit, Feed!FInit
<1>2. ASSUME Inductive, [Next]_vars PROVE [Feed!FNext]_<<tail, shown>>
  <2>1. BTypeOK /\ ConnTypes /\ \A c \in Conns : FeedAt(c) /\ NoGap(c)
    BY <1>2 DEF Inductive, Types, FeedsAgree, FeedAt, NothingMissing
  <2>2. ASSUME shown' = shown, tail' \in {tail, tail + 1} PROVE [Feed!FNext]_<<tail, shown>>
    BY <2>2 DEF Feed!FNext, Feed!Emit
  <2>3. ASSUME NEW c \in Conns, Connect(c) PROVE [Feed!FNext]_<<tail, shown>>
    <3>1. Feed!Join(c)
      BY <2>1, <2>3 DEF Connect, FeedAt, Fresh, Feed!Join
    <3> QED BY <3>1 DEF Feed!FNext
  <2>4. ASSUME NEW c \in Conns, Write(c) PROVE [Feed!FNext]_<<tail, shown>>
    <3>1. /\ open[c] /\ chan[c] # <<>> /\ chan' = [chan EXCEPT ![c] = Tail(@)]
          /\ UNCHANGED <<tail, client, cursor, rx>> /\ shown \in [Conns -> Seq(Nat)]
      BY <2>1, <2>4 DEF Write, Received, bvars, ConnTypes
    <3>2. \/ shown' = shown
          \/ /\ Next1(c).event > 0
             /\ shown' = [shown EXCEPT ![c] = Append(shown[c], Next1(c).event)]
      BY <2>4, <3>1 DEF Write, WritePrompt, WriteLines
    <3>3. CASE shown' = shown
      BY <2>2, <3>1, <3>3
    <3>4. CASE /\ Next1(c).event > 0
               /\ shown' = [shown EXCEPT ![c] = Append(shown[c], Next1(c).event)]
      <4>1. shown'[c] = Append(shown[c], Next1(c).event)
        BY <3>1, <3>4
      <4>2. Next1(c).event \in LastShown(c) + 1..tail /\ shown[c] # <<>>
        BY <2>1, <3>1, <3>4, <4>1, FeedAfterTail
      <4>3. Next1(c).event = LastShown(c) + 1
        BY <2>1, <3>1, <3>4, NextIsNext
      <4>4. LastShown(c) < tail
        <5>1. tail \in Nat /\ LastShown(c) \in Nat
          BY <2>1, <3>1, <4>2 DEF BTypeOK, LastShown
        <5> QED BY <4>2, <5>1
      <4>5. Feed!See(c)
        BY <3>1, <3>4, <4>2, <4>3, <4>4 DEF Feed!See, LastShown
      <4> QED BY <4>5 DEF Feed!FNext
    <3> QED BY <3>2, <3>3, <3>4
  <2>5. ASSUME NEW c \in Conns, ConnStep(c), ~Write(c) PROVE [Feed!FNext]_<<tail, shown>>
    <3>1. shown' = shown /\ tail' \in {tail, tail + 1}
      BY <2>5
      DEF ConnStep, SendStep, Enter, ReadEnds, HandleRequest, ReadLock, WriteLock, TellQueued, Poll,
          Notify, HandleExit, HandleClear, WriteFails, ClientStep, Publish, bvars, connVars
    <3> QED BY <2>2, <3>1
  <2>6. ASSUME ControllerStep \/ ControllerFails PROVE [Feed!FNext]_<<tail, shown>>
    <3>1. shown' = shown /\ tail' \in {tail, tail + 1}
      BY <2>6
      DEF ControllerStep, ControllerFails, WantLock, HandleLocked, HandleSignal, ControllerStops,
          Announce, Emit, Publish, bvars, connVars
    <3> QED BY <2>2, <3>1
  <2>7. CASE UNCHANGED <<tail, shown>>
    BY <2>2, <2>7
  <2> QED
    BY <1>2, <2>3, <2>4, <2>5, <2>6, <2>7
    DEF Next, Accept, Connections, ControllerTask, EndBot, EndServer, CtrlC, Join, Exit, vars, avars,
        bvars, connVars
<1> QED BY <1>1, <1>2, Invariants, PTL DEF Spec, ShowsFeed, Feed!FeedSpec, Feed!fvars
=============================================================================
