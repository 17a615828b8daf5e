----------------------------- MODULE QueueProofs -----------------------------
(* The play queue of the controller against the sink of the player and the *)
(* claims of the manager, for every set of tracks and queue ids, every     *)
(* list clients add and every cache size.  What a stop or a skip breaks is *)
(* proved for the cores whose clients make no such request.                *)
EXTENDS ControllerProofs

QuietEvents == {e \in PlayerEvents : e.type # "PlaybackStopped"}
ClaimRequests == [op: {"Claim", "Unclaim"}, id: TrackIds]

(* Nothing is stopped, and so nothing cleared. *)
NeverStopped == ~stopping /\ pevents \in Seq(QuietEvents) /\ mreqs \in Seq(ClaimRequests)

LEMMA QuietSent ==
    ASSUME NeverStopped, NEW type \in EventTypes \ {"PlaybackStopped"}, NEW x \in Nat,
           Send(Event(type, x))
    PROVE  pevents' \in Seq(QuietEvents)
<1>1. Event(type, x) \in QuietEvents
  BY DEF Event, QuietEvents, PlayerEvents
<1> QED BY <1>1 DEF Send, NeverStopped

LEMMA QuietTransport ==
    ASSUME NeverStopped, TransportRequest
    PROVE  pevents' \in Seq(QuietEvents) /\ stopping' = stopping
<1>1. Signal("PlaybackStarted") \in QuietEvents /\ Signal("PlaybackPaused") \in QuietEvents
  BY DEF Signal, Event, QuietEvents, PlayerEvents, EventTypes
<1>2. TransportRequest => PlayHandler \/ PauseHandler
  BY DEF TransportRequest, PlayToggleHandler
<1> QED BY <1>1, <1>2 DEF PlayHandler, PauseHandler, SendIf, NeverStopped

LEMMA QuietAudio ==
    ASSUME NeverStopped, PTypeOK, AudioThread
    PROVE  pevents' \in Seq(QuietEvents) /\ stopping' = stopping
<1>1. CASE AudioSkip \/ AudioTrackEnd
  BY <1>1 DEF AudioSkip, AudioTrackEnd, NeverStopped
<1>2. ASSUME NEW kind, Playing(kind) PROVE Head(sink).id \in Nat
  <2>1. sink \in Seq(Sources) /\ sink # <<>>
    BY <1>2 DEF Playing, PTypeOK
  <2>2. Head(sink) \in Sources
    BY <2>1
  <2> QED BY <2>2, PlayerAssumption DEF Sources
<1>3. CASE AudioStarted
  BY <1>2, <1>3, QuietSent DEF AudioStarted, EventTypes
<1>4. CASE AudioFinished
  BY <1>2, <1>4, QuietSent DEF AudioFinished, EventTypes
<1> QED BY <1>1, <1>3, <1>4 DEF AudioThread

LEMMA QuietReceived ==
    ASSUME NeverStopped, NEW type, TakePlayerEvent(type)
    PROVE  /\ pevents' \in Seq(QuietEvents) /\ stopping' = stopping
           /\ type # "PlaybackStopped"
<1>1. pevents \in Seq(QuietEvents) /\ pevents # <<>>
  BY DEF NeverStopped, TakePlayerEvent
<1>2. Head(pevents) \in QuietEvents /\ Tail(pevents) \in Seq(QuietEvents)
  BY <1>1
<1> QED BY <1>2 DEF TakePlayerEvent, sinkVars, QuietEvents

LEMMA OnlyClaims ==
    ASSUME NeverStopped
    PROVE  /\ \A list \in Seq(TrackIds) : mreqs \o Claims(list) \in Seq(ClaimRequests)
           /\ \A t \in TrackIds : Request(Unclaim(t)) => mreqs' \in Seq(ClaimRequests)
           /\ ManagerWorker => mreqs' \in Seq(ClaimRequests) /\ ~ClearHandler
           /\ \A t \in TrackIds : Download(t) => mreqs' = mreqs
<1>1. ASSUME NEW list \in Seq(TrackIds) PROVE mreqs \o Claims(list) \in Seq(ClaimRequests)
  <2>1. \A i \in 1..Len(list) : Claim(list[i]) \in ClaimRequests
    BY DEF Claim, ClaimRequests
  <2>2. Len(list) \in Nat /\ DOMAIN list = 1..Len(list)
    OBVIOUS
  <2>3. Claims(list) \in Seq(ClaimRequests)
    BY <2>1, <2>2 DEF Claims
  <2> QED BY <2>3 DEF NeverStopped
<1>2. ASSUME NEW t \in TrackIds, Request(Unclaim(t)) PROVE mreqs' \in Seq(ClaimRequests)
  BY <1>2 DEF Request, Unclaim, ClaimRequests, NeverStopped
<1>3. ASSUME NEW op, NextRequest(op)
      PROVE  mreqs' \in Seq(ClaimRequests) /\ op # "Clear"
  <2>1. Head(mreqs) \in ClaimRequests /\ Tail(mreqs) \in Seq(ClaimRequests)
    BY <1>3 DEF NextRequest, NeverStopped
  <2> QED BY <1>3, <2>1 DEF NextRequest, ClaimRequests
<1>4. ASSUME ManagerWorker PROVE mreqs' \in Seq(ClaimRequests) /\ ~ClearHandler
  BY <1>3, <1>4 DEF ManagerWorker, ClaimKnown, ClaimNew, UnclaimHandler, ClearHandler
<1>5. ASSUME NEW t \in TrackIds, Download(t) PROVE mreqs' = mreqs
  BY <1>5 DEF Download, FetchDone, FetchFailed, DownloadFinish, DownloadPanic
<1> QED BY <1>1, <1>2, <1>4, <1>5

LEMMA NeverStoppedStep ==
    ASSUME "stop" \notin ClientOps, TypeOK, NeverStopped, [Next]_vars
    PROVE  NeverStopped' /\ ~ClearHandler
<1> USE DEF TypeOK
<1>1. CASE HandlePlayerEvent
  <2>1. pevents' \in Seq(QuietEvents) /\ stopping' = stopping /\ ~OnPlaybackStopped
    BY <1>1, QuietReceived
    DEF HandlePlayerEvent, OnSignal, OnPlaybackStopped, OnTrackAdded, OnTrackStarted, OnTrackFinished
  <2>2. mreqs' \in Seq(ClaimRequests) /\ ~ClearHandler
    <3>1. CASE OnTrackFinished
      <4>1. EventId \in DOMAIN queue => queue[EventId].track \in TrackIds
        BY DEF CTypeOK
      <4>2. (\E t \in TrackIds : Request(Unclaim(t))) \/ UNCHANGED mvars
        BY <3>1, <4>1 DEF OnTrackFinished, RemoveQueuePlayer
      <4>3. mreqs' \in Seq(ClaimRequests)
        BY <4>2, OnlyClaims DEF mvars, NeverStopped
      <4>4. ~ClearHandler
        BY OnlyClaims DEF ManagerWorker
      <4> QED BY <4>3, <4>4
    <3>2. CASE OnSignal \/ OnTrackAdded \/ OnTrackStarted
      BY <3>2, OnlyClaims DEF OnSignal, OnTrackAdded, OnTrackStarted, mvars, NeverStopped, ManagerWorker
    <3> QED BY <1>1, <2>1, <3>1, <3>2 DEF HandlePlayerEvent
  <2> QED BY <2>1, <2>2 DEF NeverStopped
<1>2. ~ClearHandler
  BY OnlyClaims DEF ManagerWorker
<1>3. CASE HandleManagerEvent
  <2>1. UNCHANGED <<mreqs, stopping, pevents>>
    BY <1>3
    DEF HandleManagerEvent, OnAcquired, OnRemoved, OnFailed, TakeManagerEvent, ReceiveReport, pvars
  <2> QED BY <1>2, <2>1 DEF NeverStopped
<1>4. CASE AnswerCall
  <2>1. CASE AnswerPlayCall
    BY <1>2, <2>1, QuietTransport DEF AnswerPlayCall, TransportRequest, NeverStopped, mvars
  <2>2. CASE AnswerQueueCall
    <3>1. call.id \in Nat
      BY <2>2, PlayerAssumption DEF AnswerQueueCall, CTypeOK, Calls, NoCall, PlayCall
    <3>2. QueueHandler(call.id) => pevents' \in Seq(QuietEvents) /\ stopping' = stopping
      BY <3>1, QuietSent DEF QueueHandler, EventTypes
    <3> QED BY <1>2, <2>2, <3>2 DEF AnswerQueueCall, NeverStopped, mvars, pvars
  <2> QED BY <1>4, <2>1, <2>2 DEF AnswerCall
<1>5. CASE PlayerProgress
  BY <1>2, <1>5, QuietAudio DEF PlayerProgress, StopCleared, NeverStopped, mvars
<1>6. CASE WorkerProgress \/ \E t \in TrackIds : ManagerProgress(t)
  <2>1. pevents' = pevents /\ stopping' = stopping
    BY <1>6 DEF WorkerProgress, ManagerProgress, pvars
  <2>2. mreqs' \in Seq(ClaimRequests)
    BY <1>6, OnlyClaims DEF WorkerProgress, ManagerProgress, Download, NeverStopped
  <2> QED BY <1>2, <2>1, <2>2 DEF NeverStopped
<1>7. CASE \E list \in TrackLists : AddTracks(list)
  BY <1>2, <1>7, OnlyClaims, ControllerAssumption DEF AddTracks, NeverStopped, pvars
<1>8. CASE PlayerRequest
  BY <1>2, <1>8, QuietTransport DEF PlayerRequest, SkipHandler, NeverStopped, mvars
<1>9. CASE ChangeListeners \/ UNCHANGED vars
  BY <1>2, <1>9 DEF ChangeListeners, vars, pvars, mvars, NeverStopped
<1> QED
  BY <1>1, <1>3, <1>4, <1>5, <1>6, <1>7, <1>8, <1>9 DEF Next, SystemStep, ClientStep

LEMMA NeverStops == "stop" \notin ClientOps => (Spec => []NeverStopped)
<1> SUFFICES ASSUME "stop" \notin ClientOps PROVE Spec => []NeverStopped
  OBVIOUS
<1>1. Init => NeverStopped
  BY DEF Init, PInit, MInit, NeverStopped
<1> QED BY <1>1, NeverStoppedStep, CoreTypes, PTL DEF Spec

(* While nobody stops playback, downloads that run and tracks that are     *)
(* kept fit in the cache, whatever clients add and skip (cli.rs:45).       *)
THEOREM CoreCacheKeepsItsSize == "stop" \notin ClientOps => (Spec => []CacheBound)
<1> SUFFICES ASSUME "stop" \notin ClientOps PROVE Spec => []CacheBound
  OBVIOUS
<1>1. Init => CacheFits
  BY CacheFitsInit DEF Init
<1>2. TypeOK /\ NeverStopped /\ CacheFits /\ [Next]_vars => CacheFits'
  <2> SUFFICES ASSUME TypeOK, NeverStopped, CacheFits, [Next]_vars PROVE CacheFits'
    OBVIOUS
  <2>1. CASE [MNext]_mvars
    BY <2>1, NeverStoppedStep, CacheFitsStep DEF TypeOK
  <2>2. CASE RequestAll
    BY <2>2, CacheFitsSame DEF RequestAll, dataVars
  <2> QED BY <2>1, <2>2, ManagerStepOfCore DEF TypeOK
<1>3. CacheFits => CacheBound
  BY DEF CacheFits
<1> QED BY <1>1, <1>2, <1>3, NeverStops, CoreTypes, PTL DEF Spec

-----------------------------------------------------------------------------
(* Order.  A call for a track names the first entry still to be sent, and   *)
(* keeps doing so, because the queue is locked until it is answered.  Ids   *)
(* in queue and sink have been given out.                                   *)
FirstUnsent(i, q) == i \in Unsent(q) /\ \A j \in Unsent(q) : i <= j

SinkInOrder(s, q, next) ==
    /\ \A k \in DOMAIN s : s[k].id < next
    /\ \A k \in 1..Len(s) - 1 : s[k].id <= s[k + 1].id
    /\ \A k \in DOMAIN s : \A i \in Unsent(q) : s[k].id <= i

InOrder ==
    /\ \A i \in DOMAIN queue : i < nextId
    /\ call.op = "Queue" => FirstUnsent(call.id, queue)
    /\ SinkInOrder(sink, queue, nextId)

LEMMA FirstIdIs ==
    ASSUME NEW S \in SUBSET Nat, S # {}
    PROVE  FirstId(S) \in S /\ \A j \in S : FirstId(S) <= j
<1>1. \E m \in S : \A k \in S : m <= k
  BY LeastNumber
<1> QED BY <1>1 DEF FirstId

LEMMA QueuePlayerAsksFirst ==
    ASSUME NEW q, QueueOK(q), NEW trs, QueuePlayer(q, trs), call'.op = "Queue"
    PROVE  FirstUnsent(call'.id, q)
<1>1. NoCall.op # "Queue"
  BY DEF NoCall
<1>2. PICK i \in Unsent(q) : i = FirstId(Unsent(q)) /\ call' = QueueCall(i, q[i].track)
  BY <1>1 DEF QueuePlayer
<1>3. Unsent(q) \in SUBSET Nat /\ Unsent(q) # {}
  BY <1>2, PlayerAssumption DEF Unsent, QueueOK
<1>4. call'.id = i
  BY <1>2 DEF QueueCall
<1> QED BY <1>2, <1>3, <1>4, FirstIdIs DEF FirstUnsent

LEMMA SinkIds ==
    ASSUME PTypeOK
    PROVE  sink \in Seq(Sources) /\ \A k \in DOMAIN sink : sink[k].id \in Nat
<1>1. sink \in Seq(Sources)
  BY DEF PTypeOK
<1>2. \A k \in DOMAIN sink : sink[k] \in Sources
  BY <1>1
<1> QED BY <1>1, <1>2, PlayerAssumption DEF Sources

LEMMA TailInOrder ==
    ASSUME NEW s \in Seq(Sources), s # <<>>, NEW q, NEW next, SinkInOrder(s, q, next)
    PROVE  SinkInOrder(Tail(s), q, next)
<1>1. Len(Tail(s)) = Len(s) - 1 /\ DOMAIN Tail(s) = 1..Len(s) - 1 /\ Len(s) \in Nat
      /\ \A k \in 1..Len(s) - 1 : Tail(s)[k] = s[k + 1] /\ k + 1 \in DOMAIN s
  OBVIOUS
<1> QED BY <1>1 DEF SinkInOrder

LEMMA TripleInOrder ==
    ASSUME NEW s \in Seq(Sources), NEW id \in QueueIds, NEW q, NEW next \in Nat,
           SinkInOrder(s, q, next), FirstUnsent(id, q), id < next
    PROVE  SinkInOrder(s \o Triple(id), q, next)
<1> DEFINE n == Len(s)
           r == s \o Triple(id)
<1>1. Triple(id) \in Seq(Sources) /\ Len(Triple(id)) = 3
      /\ Triple(id)[1].id = id /\ Triple(id)[2].id = id /\ Triple(id)[3].id = id
  BY DEF Triple, Sources, SourceKinds
<1>2. n \in Nat /\ DOMAIN s = 1..n /\ r \in Seq(Sources) /\ Len(r) = n + 3 /\ DOMAIN r = 1..n + 3
  BY <1>1, ConcatThree
<1>3. /\ \A k \in 1..n : r[k].id = s[k].id
      /\ r[n + 1].id = id /\ r[n + 2].id = id /\ r[n + 3].id = id
  BY <1>1, ConcatThree
<1>4. id \in Nat /\ \A k \in 1..n : s[k].id \in Nat /\ s[k].id <= id
  <2>1. \A k \in 1..n : s[k] \in Sources
    OBVIOUS
  <2> QED BY <1>2, <2>1, PlayerAssumption DEF SinkInOrder, FirstUnsent, Sources
<1>5. /\ \A k \in 1..n : s[k].id < next
      /\ \A k \in 1..n - 1 : s[k].id <= s[k + 1].id
      /\ \A k \in 1..n : \A i \in Unsent(q) : s[k].id <= i
      /\ \A i \in Unsent(q) : id <= i
  BY <1>2 DEF SinkInOrder, FirstUnsent
<1> HIDE DEF n, r
<1>6. \A k \in 1..n + 3 : k \in 1..n \/ k = n + 1 \/ k = n + 2 \/ k = n + 3
  BY <1>2
<1>7. ASSUME NEW k \in 1..n + 3 - 1 PROVE r[k].id <= r[k + 1].id
  <2>1. CASE k \in 1..n - 1
    BY <1>2, <1>3, <1>5, <2>1
  <2>2. CASE k = n
    BY <1>2, <1>3, <1>4, <2>2
  <2>3. CASE k = n + 1
    BY <1>2, <1>3, <1>4, <2>3
  <2>4. CASE k = n + 2
    BY <1>2, <1>3, <1>4, <2>4
  <2> QED BY <1>2, <2>1, <2>2, <2>3, <2>4
<1>8. SinkInOrder(r, q, next)
  <2>1. \A k \in 1..n + 3 : r[k].id < next
    BY <1>3, <1>5, <1>6
  <2>2. \A k \in 1..n + 3 : \A i \in Unsent(q) : r[k].id <= i
    BY <1>3, <1>5, <1>6
  <2> QED BY <1>2, <1>7, <2>1, <2>2 DEF SinkInOrder
<1> QED BY <1>8 DEF r

(* What only takes entries away or marks them as sent. *)
LEMMA FewerInOrder ==
    ASSUME InOrder, UNCHANGED <<sink, nextId>>,
           DOMAIN queue' \subseteq DOMAIN queue, Unsent(queue') \subseteq Unsent(queue),
           call'.op = "Queue" => FirstUnsent(call'.id, queue')
    PROVE  InOrder'
BY DEF InOrder, SinkInOrder

LEMMA SinkOnlyInOrder ==
    ASSUME InOrder, UNCHANGED <<queue, nextId>>, call' = call \/ call' = NoCall,
           SinkInOrder(sink', queue, nextId)
    PROVE  InOrder'
<1>1. NoCall.op # "Queue"
  BY DEF NoCall
<1> QED BY <1>1 DEF InOrder

LEMMA RestrictedFewer ==
    ASSUME NEW q, NEW S
    PROVE  DOMAIN Restricted(q, S) \subseteq DOMAIN q /\ Unsent(Restricted(q, S)) \subseteq Unsent(q)
BY DEF Restricted, Unsent

LEMMA AddTracksInOrder ==
    ASSUME TypeOK, InOrder, NEW list \in TrackLists, AddTracks(list)
    PROVE  InOrder'
<1>1. list \in Seq(TrackIds) /\ Len(list) \in Nat /\ nextId \in Nat \ {0}
  BY ControllerAssumption DEF TypeOK, CTypeOK
<1>2. nextId' = nextId + Len(list) /\ sink' = sink /\ queue' = Updated(queue, NewEntries(list))
      /\ nextId' \in Nat /\ nextId <= nextId'
  BY <1>1 DEF AddTracks, pvars
<1>3. DOMAIN NewEntries(list) = nextId..nextId' - 1
  <2>1. DOMAIN NewEntries(list) = nextId..nextId + Len(list) - 1
    BY DEF NewEntries
  <2>2. nextId' - 1 = nextId + Len(list) - 1
    BY <1>1, <1>2
  <2> QED BY <2>1, <2>2, Zenon
<1>4. ASSUME NEW i \in DOMAIN queue' PROVE i \in DOMAIN queue \/ i \in nextId..nextId' - 1
  BY <1>2, <1>3, <1>4 DEF Updated
<1>5. DOMAIN queue \subseteq Nat /\ \A i \in DOMAIN queue : i < nextId
  BY PlayerAssumption DEF TypeOK, CTypeOK, InOrder
<1>6. \A i \in DOMAIN queue' : i < nextId'
  BY <1>1, <1>2, <1>4, <1>5
<1>7. call'.op # "Queue"
  BY DEF AddTracks, PlayCall, NoCall
<1>8. Unsent(queue') \subseteq Unsent(queue) \cup (nextId..nextId' - 1)
  <2> SUFFICES ASSUME NEW i \in Unsent(queue'), i \notin nextId..nextId' - 1
               PROVE  i \in Unsent(queue)
    OBVIOUS
  <2>1. i \in DOMAIN queue' /\ ~queue'[i].sent
    BY DEF Unsent
  <2>2. i \in DOMAIN queue
    BY <1>4, <2>1
  <2>3. queue'[i] = queue[i]
    BY <1>2, <1>3, <2>2 DEF Updated
  <2> QED BY <2>1, <2>2, <2>3 DEF Unsent
<1>9. SinkInOrder(sink, queue', nextId')
  <2>1. \A k \in DOMAIN sink : sink[k].id \in Nat /\ sink[k].id < nextId
    BY SinkIds DEF TypeOK, InOrder, SinkInOrder
  <2>2. \A k \in DOMAIN sink : sink[k].id < nextId'
    BY <1>1, <1>2, <2>1
  <2>3. ASSUME NEW k \in DOMAIN sink, NEW i \in Unsent(queue') PROVE sink[k].id <= i
    <3>1. CASE i \in Unsent(queue)
      BY <3>1 DEF InOrder, SinkInOrder
    <3>2. CASE i \in nextId..nextId' - 1
      BY <1>1, <2>1, <3>2
    <3> QED BY <1>8, <3>1, <3>2
  <2> QED BY <2>2, <2>3 DEF InOrder, SinkInOrder
<1> QED BY <1>2, <1>6, <1>7, <1>9 DEF InOrder

LEMMA InOrderStep ==
    ASSUME "stop" \notin ClientOps, TypeOK, SinkShape, NeverStopped, InOrder, [Next]_vars
    PROVE  InOrder'
<1> USE DEF TypeOK
<1>1. NoCall.op # "Queue"
  BY DEF NoCall
<1>2. UNCHANGED <<sink, queue, nextId>> /\ call' \in {call, NoCall} => InOrder'
  BY <1>1 DEF InOrder
<1>3. QueueOK(queue)
  BY DEF CTypeOK, QueueOK, QueueEntries
<1>4. CASE HandlePlayerEvent
  <2>1. sink' = sink /\ ~OnPlaybackStopped
    BY <1>4, QuietReceived
    DEF HandlePlayerEvent, OnSignal, OnPlaybackStopped, OnTrackAdded, OnTrackStarted,
        OnTrackFinished, TakePlayerEvent, sinkVars
  <2>2. CASE OnSignal \/ OnTrackStarted
    BY <1>2, <2>1, <2>2 DEF OnSignal, OnTrackStarted, Fail, Unaltered
  <2>3. CASE OnTrackAdded
    <3>1. CASE queue' = SetQueued(queue, EventId) /\ EventId \in DOMAIN queue
      <4>1. DOMAIN queue' = DOMAIN queue /\ Unsent(queue') \subseteq Unsent(queue)
        BY <1>3, <3>1 DEF SetQueued, Unsent, QueueOK, QueueEntries
      <4>2. nextId' = nextId /\ call' = NoCall
        BY <2>3, <3>1 DEF OnTrackAdded, Fail, Unaltered, LockFree
      <4> QED BY <1>1, <2>1, <4>1, <4>2, FewerInOrder
    <3>2. CASE Unaltered
      BY <1>2, <2>1, <3>2 DEF Unaltered
    <3> QED BY <2>3, <3>1, <3>2 DEF OnTrackAdded, Fail
  <2>4. CASE OnTrackFinished
    <3>1. queue' = Restricted(queue, QueueIds \ {EventId}) /\ nextId' = nextId
      BY <2>4 DEF OnTrackFinished, RemoveQueuePlayer
    <3>2. QueueOK(queue')
      BY <1>3, <3>1, RestrictedTypes
    <3>3. QueuePlayer(queue', tracks) \/ call' = call
      BY <2>4 DEF OnTrackFinished, FirstTrackState, EntryState
    <3>4. call = NoCall
      BY <2>4 DEF OnTrackFinished, LockFree
    <3>5. call'.op = "Queue" => FirstUnsent(call'.id, queue')
      BY <1>1, <3>2, <3>3, <3>4, QueuePlayerAsksFirst
    <3> QED BY <2>1, <3>1, <3>5, RestrictedFewer, FewerInOrder
  <2> QED BY <1>4, <2>1, <2>2, <2>3, <2>4 DEF HandlePlayerEvent
<1>5. CASE HandleManagerEvent
  <2>1. sink' = sink /\ nextId' = nextId /\ call = NoCall
    BY <1>5 DEF HandleManagerEvent, OnAcquired, OnRemoved, OnFailed, pvars, Fail, Unaltered, LockFree
  <2>2. CASE OnAcquired
    <3>1. queue' = queue
      BY <2>2 DEF OnAcquired, Fail, Unaltered
    <3>2. QueuePlayer(queue, tracks') \/ call' = call
      BY <2>2 DEF OnAcquired, Fail, Unaltered
    <3>3. call'.op = "Queue" => FirstUnsent(call'.id, queue')
      BY <1>1, <1>3, <2>1, <3>1, <3>2, QueuePlayerAsksFirst
    <3> QED BY <2>1, <3>1, <3>3, FewerInOrder
  <2>3. CASE OnRemoved
    BY <1>2, <2>1, <2>3 DEF OnRemoved, Fail, Unaltered
  <2>4. CASE OnFailed
    <3>1. call' = NoCall /\ \E S : queue' = Restricted(queue, S) \/ queue' = queue
      BY <2>1, <2>4 DEF OnFailed, RemoveTrack, Fail, Unaltered
    <3> QED BY <1>1, <2>1, <3>1, RestrictedFewer, FewerInOrder
  <2> QED BY <1>5, <2>2, <2>3, <2>4 DEF HandleManagerEvent
<1>6. CASE AnswerCall
  <2>1. UNCHANGED <<queue, nextId>> /\ call' = NoCall
    BY <1>6 DEF AnswerCall, AnswerQueueCall, AnswerPlayCall
  <2>2. CASE sink' = sink
    BY <1>2, <2>1, <2>2
  <2>3. CASE call.op = "Queue" /\ sink' = sink \o Triple(call.id)
    <3>1. FirstUnsent(call.id, queue) /\ call.id \in DOMAIN queue
      BY <2>3 DEF InOrder, FirstUnsent, Unsent
    <3>2. call.id \in QueueIds /\ call.id < nextId /\ nextId \in Nat
      BY <3>1 DEF InOrder, CTypeOK
    <3>3. SinkInOrder(sink', queue, nextId)
      BY <2>3, <3>1, <3>2, SinkIds, TripleInOrder DEF InOrder
    <3> QED BY <2>1, <3>3, SinkOnlyInOrder
  <2> QED BY <1>6, <2>2, <2>3
          DEF AnswerCall, AnswerQueueCall, AnswerPlayCall, PlayHandler, QueueHandler, pvars
<1>7. CASE PlayerProgress
  <2>1. UNCHANGED <<queue, nextId, call>>
    BY <1>7 DEF PlayerProgress, cvars
  <2>2. sink # <<>> /\ sink' = Tail(sink)
    <3>1. CASE AudioSkip
      BY <3>1, SinkIds DEF AudioSkip, SinkShape, PTypeOK
    <3> QED
      BY <1>7, <3>1
      DEF PlayerProgress, StopCleared, NeverStopped, AudioThread, AudioStarted, AudioTrackEnd,
          AudioFinished, Playing
  <2>3. SinkInOrder(sink', queue, nextId)
    BY <2>2, SinkIds, TailInOrder DEF InOrder
  <2> QED BY <2>1, <2>3, SinkOnlyInOrder
<1>8. CASE \E list \in TrackLists : AddTracks(list)
  BY <1>8, AddTracksInOrder
<1>9. CASE WorkerProgress \/ (\E t \in TrackIds : ManagerProgress(t)) \/ PlayerRequest
           \/ ChangeListeners \/ UNCHANGED vars
  BY <1>2, <1>9
  DEF WorkerProgress, ManagerProgress, PlayerRequest, ChangeListeners, vars, pvars, cvars,
      TransportRequest, PlayHandler, PauseHandler, PlayToggleHandler, SkipHandler
<1> QED
  BY <1>4, <1>5, <1>6, <1>7, <1>8, <1>9 DEF Next, SystemStep, ClientStep

(* While nobody stops playback, tracks reach the player in the order of    *)
(* the queue, whoever sends the next one and however often, and no track   *)
(* overtakes one still to be sent (controller.rs:712).                     *)
THEOREM TracksPlayInOrder == "stop" \notin ClientOps => (Spec => []PlayInQueueOrder)
<1> SUFFICES ASSUME "stop" \notin ClientOps PROVE Spec => []PlayInQueueOrder
  OBVIOUS
<1>1. Init => InOrder
  BY DEF Init, PInit, InOrder, SinkInOrder, EmptyMap, NoCall
<1>2. InOrder => PlayInQueueOrder
  BY DEF InOrder, SinkInOrder, PlayInQueueOrder
<1> QED
  BY <1>1, <1>2, InOrderStep, NeverStops, CoreTypes, PlayerImplemented, SinkIsTriples, PTL DEF Spec

-----------------------------------------------------------------------------
(* Finishing.  For a track in the sink the end is still to be reported, and *)
(* every announcement that it was added comes before that report: so when  *)
(* the entry is marked as sent, the report is still on its way.            *)
FinishesAfter(i, s, es, k) ==
    \/ \E m \in DOMAIN s : s[m] = [kind |-> "finished", id |-> i]
    \/ \E m \in DOMAIN es : m > k /\ es[m] = Event("TrackFinished", i)

AllFinish(s, es, sent) ==
    /\ \A k \in DOMAIN es : es[k].type = "TrackAdded" => FinishesAfter(es[k].arg, s, es, k)
    /\ \A i \in sent : FinishesAfter(i, s, es, 0)

SentIds(q) == {i \in DOMAIN q : q[i].sent}
Finishing == toClear = 0 /\ AllFinish(sink, pevents, SentIds(queue))

LEMMA EventTaken ==
    ASSUME NEW s, NEW es \in Seq(PlayerEvents), es # <<>>, NEW sent, AllFinish(s, es, sent),
           NEW still, \A i \in still : \/ i \in sent /\ Head(es) # Event("TrackFinished", i)
                                       \/ Head(es) = Event("TrackAdded", i)
    PROVE  AllFinish(s, Tail(es), still)
<1>1. Len(es) \in Nat \ {0} /\ DOMAIN es = 1..Len(es) /\ DOMAIN Tail(es) = 1..Len(es) - 1
      /\ \A k \in 1..Len(es) - 1 : Tail(es)[k] = es[k + 1]
  OBVIOUS
<1>2. ASSUME NEW i, NEW k \in Nat, FinishesAfter(i, s, es, k + 1)
      PROVE  FinishesAfter(i, s, Tail(es), k)
  <2>1. CASE \E m \in DOMAIN es : m > k + 1 /\ es[m] = Event("TrackFinished", i)
    <3>1. PICK m \in DOMAIN es : m > k + 1 /\ es[m] = Event("TrackFinished", i)
      BY <2>1
    <3>2. m - 1 \in DOMAIN Tail(es) /\ m - 1 > k /\ Tail(es)[m - 1] = es[m]
      BY <1>1, <3>1
    <3> QED BY <3>1, <3>2 DEF FinishesAfter
  <2> QED BY <1>2, <2>1 DEF FinishesAfter
<1>3. ASSUME NEW k \in DOMAIN Tail(es), Tail(es)[k].type = "TrackAdded"
      PROVE  FinishesAfter(Tail(es)[k].arg, s, Tail(es), k)
  <2>1. k + 1 \in DOMAIN es /\ es[k + 1] = Tail(es)[k] /\ k \in Nat
    BY <1>1
  <2>2. FinishesAfter(es[k + 1].arg, s, es, k + 1)
    BY <1>3, <2>1 DEF AllFinish
  <2> QED BY <1>2, <2>1, <2>2
<1>4. ASSUME NEW i \in still PROVE FinishesAfter(i, s, Tail(es), 0)
  <2>1. FinishesAfter(i, s, es, 1)
    <3>1. CASE i \in sent /\ Head(es) # Event("TrackFinished", i)
      <4>1. FinishesAfter(i, s, es, 0)
        BY <3>1 DEF AllFinish
      <4>2. CASE \E m \in DOMAIN es : m > 0 /\ es[m] = Event("TrackFinished", i)
        <5>1. PICK m \in DOMAIN es : m > 0 /\ es[m] = Event("TrackFinished", i)
          BY <4>2
        <5>2. m # 1
          BY <1>1, <3>1, <5>1
        <5>3. m > 1
          BY <1>1, <5>1, <5>2
        <5> QED BY <5>1, <5>3 DEF FinishesAfter
      <4> QED BY <4>1, <4>2 DEF FinishesAfter
    <3>2. CASE Head(es) = Event("TrackAdded", i)
      <4>1. 1 \in DOMAIN es /\ es[1].type = "TrackAdded" /\ es[1].arg = i
        BY <1>1, <3>2 DEF Event
      <4> QED BY <4>1 DEF AllFinish
    <3> QED BY <3>1, <3>2
  <2> QED BY <1>2, <2>1
<1> QED BY <1>3, <1>4 DEF AllFinish

LEMMA EventSent ==
    ASSUME NEW s, NEW es \in Seq(PlayerEvents), NEW sent, AllFinish(s, es, sent),
           NEW e \in PlayerEvents, e.type # "TrackAdded"
    PROVE  AllFinish(s, Append(es, e), sent)
<1>1. Len(es) \in Nat /\ DOMAIN es = 1..Len(es) /\ DOMAIN Append(es, e) = 1..Len(es) + 1
      /\ (\A k \in 1..Len(es) : Append(es, e)[k] = es[k]) /\ Append(es, e)[Len(es) + 1] = e
  OBVIOUS
<1>2. ASSUME NEW i, NEW k, FinishesAfter(i, s, es, k) PROVE FinishesAfter(i, s, Append(es, e), k)
  BY <1>1, <1>2 DEF FinishesAfter
<1> QED BY <1>1, <1>2 DEF AllFinish

(* The head of the sink is dropped, with a report if it is the last of its *)
(* track.                                                                  *)
LEMMA SourcePlayed ==
    ASSUME NEW s \in Seq(Sources), s # <<>>, Head(s).kind # "finished",
           NEW es \in Seq(PlayerEvents), NEW sent, AllFinish(s, es, sent)
    PROVE  AllFinish(Tail(s), es, sent)
<1>1. Len(s) \in Nat \ {0} /\ DOMAIN s = 1..Len(s) /\ DOMAIN Tail(s) = 1..Len(s) - 1
      /\ \A k \in 1..Len(s) - 1 : Tail(s)[k] = s[k + 1]
  OBVIOUS
<1>2. ASSUME NEW i, NEW k, FinishesAfter(i, s, es, k) PROVE FinishesAfter(i, Tail(s), es, k)
  <2>1. CASE \E m \in DOMAIN s : s[m] = [kind |-> "finished", id |-> i]
    <3>1. PICK m \in DOMAIN s : s[m] = [kind |-> "finished", id |-> i]
      BY <2>1
    <3>2. s[m].kind = "finished"
      BY <3>1
    <3>3. m # 1
      BY <1>1, <3>2
    <3>4. m - 1 \in DOMAIN Tail(s) /\ Tail(s)[m - 1] = s[m]
      BY <1>1, <3>3
    <3> QED BY <3>1, <3>4 DEF FinishesAfter
  <2> QED BY <1>2, <2>1 DEF FinishesAfter
<1> QED BY <1>2 DEF AllFinish

LEMMA TrackPlayed ==
    ASSUME NEW s \in Seq(Sources), s # <<>>, Head(s).kind = "finished",
           NEW es \in Seq(PlayerEvents), NEW sent, AllFinish(s, es, sent)
    PROVE  AllFinish(Tail(s), Append(es, Event("TrackFinished", Head(s).id)), sent)
<1> DEFINE e == Event("TrackFinished", Head(s).id)
<1>1. Len(s) \in Nat \ {0} /\ DOMAIN s = 1..Len(s) /\ DOMAIN Tail(s) = 1..Len(s) - 1
      /\ \A k \in 1..Len(s) - 1 : Tail(s)[k] = s[k + 1]
  OBVIOUS
<1>2. Len(es) \in Nat /\ DOMAIN es = 1..Len(es) /\ DOMAIN Append(es, e) = 1..Len(es) + 1
      /\ (\A k \in 1..Len(es) : Append(es, e)[k] = es[k]) /\ Append(es, e)[Len(es) + 1] = e
  <2> HIDE DEF e
  <2> QED OBVIOUS
<1>3. e.type = "TrackFinished"
  BY DEF Event
<1>4. ASSUME NEW i, NEW k \in 0..Len(es), FinishesAfter(i, s, es, k)
      PROVE  FinishesAfter(i, Tail(s), Append(es, e), k)
  <2>1. CASE \E m \in DOMAIN s : s[m] = [kind |-> "finished", id |-> i]
    <3>1. PICK m \in DOMAIN s : s[m] = [kind |-> "finished", id |-> i]
      BY <2>1
    <3>2. CASE m = 1
      <4>1. Head(s).id = i
        BY <3>1, <3>2
      <4>2. e = Event("TrackFinished", i) /\ Len(es) + 1 > k
        BY <1>2, <4>1
      <4> QED BY <1>2, <4>2 DEF FinishesAfter
    <3>3. CASE m # 1
      <4>1. m - 1 \in DOMAIN Tail(s) /\ Tail(s)[m - 1] = s[m]
        BY <1>1, <3>3
      <4> QED BY <3>1, <4>1 DEF FinishesAfter
    <3> QED BY <3>2, <3>3
  <2>2. CASE \E m \in DOMAIN es : m > k /\ es[m] = Event("TrackFinished", i)
    BY <1>2, <2>2 DEF FinishesAfter
  <2> QED BY <1>4, <2>1, <2>2 DEF FinishesAfter
<1> HIDE DEF e
<1>5. AllFinish(Tail(s), Append(es, e), sent)
  <2>1. ASSUME NEW k \in DOMAIN Append(es, e), Append(es, e)[k].type = "TrackAdded"
        PROVE  FinishesAfter(Append(es, e)[k].arg, Tail(s), Append(es, e), k)
    <3>1. k \in 1..Len(es) /\ Append(es, e)[k] = es[k] /\ k \in 0..Len(es)
      BY <1>2, <1>3, <2>1
    <3>2. FinishesAfter(es[k].arg, s, es, k)
      BY <1>2, <2>1, <3>1 DEF AllFinish
    <3> QED BY <1>4, <3>1, <3>2
  <2>2. ASSUME NEW i \in sent PROVE FinishesAfter(i, Tail(s), Append(es, e), 0)
    <3>1. FinishesAfter(i, s, es, 0) /\ 0 \in 0..Len(es)
      BY <1>2 DEF AllFinish
    <3> QED BY <1>4, <3>1
  <2> QED BY <2>1, <2>2 DEF AllFinish
<1> QED BY <1>5 DEF e

LEMMA TrackQueued ==
    ASSUME NEW s \in Seq(Sources), NEW id \in QueueIds,
           NEW es \in Seq(PlayerEvents), NEW sent, AllFinish(s, es, sent)
    PROVE  AllFinish(s \o Triple(id), Append(es, Event("TrackAdded", id)), sent)
<1> DEFINE r == s \o Triple(id)
           e == Event("TrackAdded", id)
           new == Append(es, e)
<1>1. Triple(id) \in Seq(Sources) /\ Len(Triple(id)) = 3
      /\ Triple(id)[3] = [kind |-> "finished", id |-> id]
  BY DEF Triple, Sources, SourceKinds
<1>2. Len(s) \in Nat /\ DOMAIN s = 1..Len(s) /\ DOMAIN r = 1..Len(s) + 3
      /\ (\A k \in 1..Len(s) : r[k] = s[k])
      /\ r[Len(s) + 3] = [kind |-> "finished", id |-> id]
  BY <1>1, ConcatThree
<1>3. e.type = "TrackAdded" /\ e.arg = id
  BY DEF Event
<1> HIDE DEF r, e
<1>4. Len(es) \in Nat /\ DOMAIN es = 1..Len(es) /\ DOMAIN new = 1..Len(es) + 1
      /\ (\A k \in 1..Len(es) : new[k] = es[k]) /\ new[Len(es) + 1] = e
  OBVIOUS
<1> HIDE DEF new
<1>5. ASSUME NEW i, NEW k, FinishesAfter(i, s, es, k) PROVE FinishesAfter(i, r, new, k)
  BY <1>2, <1>4, <1>5 DEF FinishesAfter
<1>6. ASSUME NEW k PROVE FinishesAfter(id, r, new, k)
  BY <1>2 DEF FinishesAfter
<1>7. AllFinish(r, new, sent)
  <2>1. ASSUME NEW k \in DOMAIN new, new[k].type = "TrackAdded"
        PROVE  FinishesAfter(new[k].arg, r, new, k)
    <3>1. CASE k \in 1..Len(es)
      BY <1>4, <1>5, <2>1, <3>1 DEF AllFinish
    <3>2. CASE k = Len(es) + 1
      BY <1>3, <1>4, <1>6, <3>2
    <3> QED BY <1>4, <3>1, <3>2
  <2> QED BY <1>5, <2>1 DEF AllFinish
<1> QED BY <1>7 DEF r, e, new

LEMMA FewerFinish ==
    ASSUME NEW s, NEW es, NEW sent, AllFinish(s, es, sent), NEW fewer \in SUBSET sent
    PROVE  AllFinish(s, es, fewer)
BY DEF AllFinish

LEMMA SinkSame ==
    ASSUME Finishing, UNCHANGED <<sink, toClear, pevents>>, SentIds(queue') \subseteq SentIds(queue)
    PROVE  Finishing'
BY FewerFinish DEF Finishing

LEMMA TransportFinishing ==
    ASSUME TypeOK, Finishing, TransportRequest, queue' = queue
    PROVE  Finishing'
<1>1. PlayHandler \/ PauseHandler
  BY DEF TransportRequest, PlayToggleHandler
<1>2. sink' = sink /\ toClear' = toClear
  BY <1>1 DEF PlayHandler, PauseHandler
<1>3. \A type \in {"PlaybackStarted", "PlaybackPaused"} :
          Signal(type) \in PlayerEvents /\ Signal(type).type # "TrackAdded"
  BY DEF Signal, Event, PlayerEvents, EventTypes
<1>4. AllFinish(sink, pevents, SentIds(queue)) /\ pevents \in Seq(PlayerEvents)
  BY DEF Finishing, TypeOK, PTypeOK
<1>5. pevents' = pevents \/ \E type \in {"PlaybackStarted", "PlaybackPaused"} :
                                pevents' = Append(pevents, Signal(type))
  BY <1>1 DEF PlayHandler, PauseHandler, SendIf
<1>6. AllFinish(sink, pevents', SentIds(queue))
  BY <1>3, <1>4, <1>5, EventSent
<1> QED BY <1>2, <1>6 DEF Finishing

LEMMA AudioFinishing ==
    ASSUME TypeOK, Finishing, AudioThread, queue' = queue
    PROVE  Finishing'
<1>1. /\ sink \in Seq(Sources) /\ pevents \in Seq(PlayerEvents)
      /\ AllFinish(sink, pevents, SentIds(queue)) /\ toClear = 0
  BY DEF Finishing, TypeOK, PTypeOK
<1>2. ~AudioSkip
  BY <1>1 DEF AudioSkip
<1>3. sink # <<>> /\ sink' = Tail(sink) /\ toClear' = toClear
  BY <1>2 DEF AudioThread, AudioStarted, AudioTrackEnd, AudioFinished, Playing
<1>4. Head(sink).id \in Nat
  <2>1. Head(sink) \in Sources
    BY <1>1, <1>3
  <2> QED BY <2>1, PlayerAssumption DEF Sources
<1>5. CASE AudioStarted
  <2>1. Event("TrackStarted", Head(sink).id) \in PlayerEvents
        /\ Event("TrackStarted", Head(sink).id).type # "TrackAdded"
    BY <1>4 DEF Event, PlayerEvents, EventTypes
  <2>2. AllFinish(Tail(sink), pevents, SentIds(queue))
    BY <1>1, <1>3, <1>5, SourcePlayed DEF AudioStarted, Playing
  <2>3. AllFinish(Tail(sink), pevents', SentIds(queue))
    BY <1>1, <1>5, <2>1, <2>2, EventSent DEF AudioStarted, Send
  <2> QED BY <1>1, <1>3, <2>3 DEF Finishing
<1>6. CASE AudioTrackEnd
  <2>1. AllFinish(Tail(sink), pevents, SentIds(queue))
    BY <1>1, <1>3, <1>6, SourcePlayed DEF AudioTrackEnd, Playing
  <2> QED BY <1>1, <1>3, <1>6, <2>1 DEF Finishing, AudioTrackEnd
<1>7. CASE AudioFinished
  <2>1. AllFinish(Tail(sink), pevents', SentIds(queue))
    BY <1>1, <1>3, <1>7, TrackPlayed DEF AudioFinished, Playing, Send
  <2> QED BY <1>1, <1>3, <2>1 DEF Finishing
<1> QED BY <1>2, <1>5, <1>6, <1>7 DEF AudioThread

LEMMA EventFinishing ==
    ASSUME TypeOK, NeverStopped, Finishing, HandlePlayerEvent
    PROVE  Finishing'
<1>1. UNCHANGED <<sink, toClear>> /\ pevents # <<>> /\ pevents' = Tail(pevents) /\ ~OnPlaybackStopped
  BY QuietReceived
  DEF HandlePlayerEvent, OnSignal, OnPlaybackStopped, OnTrackAdded, OnTrackStarted,
      OnTrackFinished, TakePlayerEvent, sinkVars
<1>2. pevents \in Seq(PlayerEvents) /\ AllFinish(sink, pevents, SentIds(queue)) /\ toClear = 0
  BY DEF Finishing, TypeOK, PTypeOK
<1>3. Head(pevents) \in PlayerEvents /\ Head(pevents) = Event(Head(pevents).type, EventId)
  <2>1. Head(pevents) \in PlayerEvents
    BY <1>1, <1>2
  <2> QED BY <2>1 DEF PlayerEvents, Event, EventId
<1>4. ASSUME \A i \in SentIds(queue') : \/ i \in SentIds(queue) /\ Head(pevents) # Event("TrackFinished", i)
                                        \/ Head(pevents) = Event("TrackAdded", i)
      PROVE  Finishing'
  <2>1. AllFinish(sink, Tail(pevents), SentIds(queue'))
    BY <1>1, <1>2, <1>4, EventTaken
  <2> QED BY <1>1, <1>2, <2>1 DEF Finishing
<1>5. \A i : Event("TrackFinished", i).type = "TrackFinished" /\ Event("TrackFinished", i).arg = i
  BY DEF Event
<1>6. CASE OnSignal \/ OnTrackStarted
  <2>1. Head(pevents).type # "TrackFinished" /\ queue' = queue
    BY <1>6 DEF OnSignal, OnTrackStarted, TakePlayerEvent, Fail, Unaltered
  <2> QED BY <1>4, <1>5, <2>1
<1>7. CASE OnTrackAdded
  <2>1. Head(pevents).type = "TrackAdded"
    BY <1>7 DEF OnTrackAdded, TakePlayerEvent
  <2>2. CASE queue' = SetQueued(queue, EventId) /\ EventId \in DOMAIN queue
    <3>1. SentIds(queue') \subseteq SentIds(queue) \cup {EventId}
      BY <2>2 DEF SetQueued, SentIds, TypeOK, CTypeOK
    <3> QED BY <1>3, <1>4, <1>5, <2>1, <3>1
  <2>3. CASE queue' = queue
    BY <1>4, <1>5, <2>1, <2>3
  <2> QED BY <1>7, <2>2, <2>3 DEF OnTrackAdded, Fail, Unaltered
<1>8. CASE OnTrackFinished
  <2>1. queue' = Restricted(queue, QueueIds \ {EventId})
    BY <1>8 DEF OnTrackFinished, RemoveQueuePlayer
  <2>2. SentIds(queue') \subseteq SentIds(queue) \ {EventId}
    BY <2>1 DEF Restricted, SentIds
  <2> QED BY <1>3, <1>4, <1>5, <2>2
<1> QED BY <1>1, <1>6, <1>7, <1>8 DEF HandlePlayerEvent

LEMMA FinishingStep ==
    ASSUME "stop" \notin ClientOps, "skip" \notin ClientOps,
           TypeOK, NeverStopped, Finishing, [Next]_vars
    PROVE  Finishing'
<1>1. CASE HandlePlayerEvent
  BY <1>1, EventFinishing
<1>2. CASE HandleManagerEvent
  <2>1. UNCHANGED <<sink, toClear, pevents>>
    BY <1>2 DEF HandleManagerEvent, OnAcquired, OnRemoved, OnFailed, pvars
  <2>2. queue' = queue \/ \E S : queue' = Restricted(queue, S)
    BY <1>2 DEF HandleManagerEvent, OnAcquired, OnRemoved, OnFailed, RemoveTrack, Fail, Unaltered
  <2>3. SentIds(queue') \subseteq SentIds(queue)
    BY <2>2 DEF SentIds, Restricted
  <2> QED BY <2>1, <2>3, SinkSame
<1>3. CASE AnswerCall
  <2>1. queue' = queue
    BY <1>3 DEF AnswerCall, AnswerQueueCall, AnswerPlayCall
  <2>2. CASE call.op = "Queue" /\ QueueHandler(call.id)
    <3>1. call.id \in QueueIds
      BY <2>2 DEF TypeOK, CTypeOK, Calls, NoCall, PlayCall
    <3>2. sink \in Seq(Sources) /\ pevents \in Seq(PlayerEvents)
          /\ AllFinish(sink, pevents, SentIds(queue))
      BY DEF Finishing, TypeOK, PTypeOK
    <3>3. AllFinish(sink', pevents', SentIds(queue)) /\ toClear' = toClear
      BY <2>2, <3>1, <3>2, TrackQueued DEF QueueHandler, Send
    <3> QED BY <2>1, <3>3 DEF Finishing
  <2>3. CASE UNCHANGED pvars
    BY <2>1, <2>3, SinkSame DEF pvars
  <2>4. CASE AnswerPlayCall
    BY <2>1, <2>4, TransportFinishing DEF AnswerPlayCall, TransportRequest
  <2> QED BY <1>3, <2>2, <2>3, <2>4 DEF AnswerCall, AnswerQueueCall
<1>4. CASE PlayerProgress
  BY <1>4, AudioFinishing DEF PlayerProgress, StopCleared, NeverStopped, cvars
<1>5. CASE \E list \in TrackLists : AddTracks(list)
  <2> PICK list \in TrackLists : AddTracks(list)
    BY <1>5
  <2>1. queue' = Updated(queue, NewEntries(list)) /\ UNCHANGED pvars
    BY DEF AddTracks
  <2>2. \A i \in DOMAIN NewEntries(list) : NewEntries(list)[i].sent = FALSE
    BY DEF NewEntries
  <2>3. SentIds(queue') \subseteq SentIds(queue)
    BY <2>1, <2>2 DEF SentIds, Updated
  <2> QED BY <2>1, <2>3, SinkSame DEF pvars
<1>6. CASE PlayerRequest
  BY <1>6, TransportFinishing DEF PlayerRequest, cvars
<1>7. CASE WorkerProgress \/ (\E t \in TrackIds : ManagerProgress(t))
           \/ ChangeListeners \/ UNCHANGED vars
  BY <1>7, SinkSame DEF WorkerProgress, ManagerProgress, ChangeListeners, vars, pvars, cvars
<1> QED
  BY <1>1, <1>2, <1>3, <1>4, <1>5, <1>6, <1>7 DEF Next, SystemStep, ClientStep

(* While nobody stops or skips, an entry is marked as sent only while the  *)
(* report of its end is still to come: the entry is removed, and the next  *)
(* track sent, however late the events of the player are handled           *)
(* (controller.rs:470-540).                                                *)
THEOREM SentTracksWillFinish ==
    "stop" \notin ClientOps /\ "skip" \notin ClientOps => (Spec => []SentWillFinish)
<1> SUFFICES ASSUME "stop" \notin ClientOps, "skip" \notin ClientOps PROVE Spec => []SentWillFinish
  OBVIOUS
<1>1. Init => Finishing
  BY DEF Init, PInit, Finishing, AllFinish, SentIds, EmptyMap
<1>2. Finishing => SentWillFinish
  BY DEF Finishing, AllFinish, FinishesAfter, SentIds, SentWillFinish, InSink, PlayerReported
<1> QED BY <1>1, <1>2, FinishingStep, NeverStops, CoreTypes, PTL DEF Spec

-----------------------------------------------------------------------------
(* Claims.  FinalClaims counts along the requests from the last Clear on;   *)
(* here with the requests and the entries as parameters, so that it can be  *)
(* followed from state to state.                                           *)
LastClearOf(reqs) ==
    LET cleared == {i \in DOMAIN reqs : reqs[i] = Clear}
    IN  IF cleared = {} THEN 0 ELSE CHOOSE i \in cleared : \A j \in cleared : j <= i
StartAt(lo, t, m) == IF lo = 0 /\ t \in DOMAIN m THEN m[t].claims ELSE 0

CountsAlong(k, t, reqs, lo, start) ==
    k = [i \in lo..Len(reqs) |->
            IF i = lo THEN start
            ELSE IF reqs[i] = Claim(t) THEN k[i - 1] + 1
            ELSE IF reqs[i] = Unclaim(t) /\ k[i - 1] > 0 THEN k[i - 1] - 1
            ELSE k[i - 1]]
FinalClaimsOf(t, reqs, m) ==
    (CHOOSE k : CountsAlong(k, t, reqs, LastClearOf(reqs), StartAt(LastClearOf(reqs), t, m)))[Len(reqs)]

LEMMA FinalClaimsAre ==
    ASSUME NEW t
    PROVE  /\ FinalClaims(t) = FinalClaimsOf(t, mreqs, mtracks)
           /\ FinalClaims(t)' = FinalClaimsOf(t, mreqs', mtracks')
<1>1. LastClear = LastClearOf(mreqs) /\ LastClear' = LastClearOf(mreqs')
  BY DEF LastClear, LastClearOf
<1>2. FinalClaims(t) = FinalClaimsOf(t, mreqs, mtracks)
  BY <1>1, Zenon DEF FinalClaims, FinalClaimsOf, CountsAlong, StartAt
<1>3. FinalClaims(t)' = FinalClaimsOf(t, mreqs', mtracks')
  BY <1>1, Zenon DEF FinalClaims, FinalClaimsOf, CountsAlong, StartAt
<1> QED BY <1>2, <1>3

IsLastClear(reqs, lo) ==
    /\ lo \in 0..Len(reqs)
    /\ lo # 0 => reqs[lo] = Clear
    /\ \A i \in lo + 1..Len(reqs) : reqs[i] # Clear

LEMMA LastClearIs ==
    ASSUME NEW reqs \in Seq(Requests)
    PROVE  /\ IsLastClear(reqs, LastClearOf(reqs))
           /\ \A lo : IsLastClear(reqs, lo) => lo = LastClearOf(reqs)
<1> DEFINE cleared == {i \in DOMAIN reqs : reqs[i] = Clear}
<1>1. Len(reqs) \in Nat /\ DOMAIN reqs = 1..Len(reqs)
  OBVIOUS
<1>2. IsLastClear(reqs, LastClearOf(reqs))
  <2>1. CASE cleared = {}
    BY <1>1, <2>1 DEF LastClearOf, IsLastClear
  <2>2. CASE cleared # {}
    <3>1. cleared \in SUBSET (1..Len(reqs))
      BY <1>1
    <3>2. \E i \in cleared : \A j \in cleared : j <= i
      <4> HIDE DEF cleared
      <4>1. Max(cleared) \in cleared /\ \A j \in cleared : Max(cleared) >= j
        BY <1>1, <2>2, <3>1, GreatestNumber
      <4>2. \A j \in cleared : j <= Max(cleared)
        BY <3>1, <4>1
      <4> QED BY <4>1, <4>2
    <3>3. LastClearOf(reqs) \in cleared /\ \A j \in cleared : j <= LastClearOf(reqs)
      BY <2>2, <3>2, Zenon DEF LastClearOf
    <3> QED BY <1>1, <3>3 DEF IsLastClear
  <2> QED BY <2>1, <2>2
<1>3. ASSUME NEW lo, IsLastClear(reqs, lo), NEW hi, IsLastClear(reqs, hi), lo < hi PROVE FALSE
  BY <1>1, <1>3 DEF IsLastClear
<1>4. ASSUME NEW lo, IsLastClear(reqs, lo) PROVE lo = LastClearOf(reqs)
  BY <1>2, <1>3, <1>4 DEF IsLastClear
<1> QED BY <1>2, <1>4

(* The claims after the requests up to each: a function that counts along. *)
Counted(t, r, c) ==
    IF r = Claim(t) THEN c + 1 ELSE IF r = Unclaim(t) /\ c > 0 THEN c - 1 ELSE c

Tally(f, t, reqs, lo, start) ==
    /\ f \in [lo..Len(reqs) -> Nat] /\ f[lo] = start
    /\ \A i \in lo + 1..Len(reqs) : f[i] = Counted(t, reqs[i], f[i - 1])

LEMMA TallyExists ==
    ASSUME NEW reqs \in Seq(Requests), NEW t, NEW lo \in 0..Len(reqs), NEW start \in Nat
    PROVE  \E f : Tally(f, t, reqs, lo, start)
<1> DEFINE n == Len(reqs) - lo
           steps == [i \in 1..n |-> [c \in Nat |-> Counted(t, reqs[lo + i], c)]]
<1>1. Len(reqs) \in Nat /\ lo \in Nat /\ n \in Nat
  OBVIOUS
<1>2. \A i \in 1..n, c \in Nat : Counted(t, reqs[lo + i], c) \in Nat
  BY DEF Counted
<1>3. steps \in [1..n -> [Nat -> Nat]]
  BY <1>2
<1>4. PICK g \in [0..n -> Nat] : Runs(g, n, start, steps)
  <2> HIDE DEF n, steps
  <2> QED BY <1>1, <1>3, RecursionExists
<1> DEFINE f == [i \in lo..Len(reqs) |-> g[i - lo]]
<1>5. \A i \in lo..Len(reqs) : i - lo \in 0..n
  BY <1>1
<1>6. f \in [lo..Len(reqs) -> Nat]
  BY <1>4, <1>5
<1>7. f[lo] = start
  <2>1. f[lo] = g[0] /\ 0 \in 0..n
    BY <1>1
  <2> QED BY <1>4, <2>1 DEF Runs
<1>8. ASSUME NEW i \in lo + 1..Len(reqs) PROVE f[i] = Counted(t, reqs[i], f[i - 1])
  <2>1. i - lo \in 1..n /\ i - lo # 0 /\ i - lo \in 0..n /\ lo + (i - lo) = i
        /\ (i - 1) - lo = (i - lo) - 1 /\ i - 1 \in lo..Len(reqs) /\ i \in lo..Len(reqs)
        /\ (i - lo) - 1 \in 0..n
    BY <1>1
  <2>2. f[i] = g[i - lo] /\ f[i - 1] = g[(i - lo) - 1]
    BY <2>1
  <2>3. g[i - lo] = steps[i - lo][g[(i - lo) - 1]]
    <3> HIDE DEF steps, n, f
    <3> QED BY <1>4, <2>1 DEF Runs
  <2>4. g[(i - lo) - 1] \in Nat
    <3> HIDE DEF n
    <3> QED BY <2>1
  <2>5. steps[i - lo][g[(i - lo) - 1]] = Counted(t, reqs[lo + (i - lo)], g[(i - lo) - 1])
    <3> HIDE DEF n
    <3> QED BY <2>1, <2>4
  <2> HIDE DEF f, steps, n
  <2> QED BY <2>1, <2>2, <2>3, <2>5
<1> HIDE DEF f
<1>9. Tally(f, t, reqs, lo, start)
  BY <1>6, <1>7, <1>8 DEF Tally
<1> QED BY <1>9

LEMMA TallyOnly ==
    ASSUME NEW reqs \in Seq(Requests), NEW t, NEW lo \in 0..Len(reqs), NEW start,
           NEW f, Tally(f, t, reqs, lo, start), NEW k, CountsAlong(k, t, reqs, lo, start)
    PROVE  k[Len(reqs)] = f[Len(reqs)]
<1> DEFINE n == Len(reqs) - lo
           S == {j \in 0..n : k[lo + j] = f[lo + j]}
<1>1. Len(reqs) \in Nat /\ lo \in Nat /\ n \in Nat
  OBVIOUS
<1>2. 0 \in S
  <2>1. lo + 0 = lo /\ lo \in lo..Len(reqs) /\ 0 \in 0..n
    BY <1>1
  <2>2. k[lo] = start
    BY <2>1 DEF CountsAlong
  <2> QED BY <2>1, <2>2 DEF Tally
<1>3. ASSUME NEW j \in 0..n - 1, j \in S PROVE j + 1 \in S
  <2> DEFINE i == lo + (j + 1)
  <2>1. i \in lo + 1..Len(reqs) /\ i \in lo..Len(reqs) /\ i # lo /\ i - 1 = lo + j /\ j + 1 \in 0..n
    BY <1>1
  <2>2. k[i - 1] = f[i - 1]
    BY <1>3, <2>1
  <2> HIDE DEF i
  <2>3. k[i] = Counted(t, reqs[i], k[i - 1])
    BY <2>1 DEF CountsAlong, Counted
  <2>4. f[i] = Counted(t, reqs[i], f[i - 1])
    BY <2>1 DEF Tally
  <2>5. k[i] = f[i]
    BY <2>2, <2>3, <2>4
  <2> QED BY <2>1, <2>5 DEF i
<1> HIDE DEF S
<1>4. 0..n \subseteq S
  <2> HIDE DEF n
  <2> QED BY <1>1, <1>2, <1>3, UpTo
<1>5. n \in S /\ lo + n = Len(reqs)
  BY <1>1, <1>4
<1> QED BY <1>5 DEF S

(* c is what is left of the claims of t when every request has been taken. *)
Balance(c, t, reqs, m) ==
    \E lo \in 0..Len(reqs) : \E f :
        /\ IsLastClear(reqs, lo) /\ Tally(f, t, reqs, lo, StartAt(lo, t, m))
        /\ c = f[Len(reqs)]

LEMMA BalanceIs ==
    ASSUME NEW reqs \in Seq(Requests), NEW t, NEW m, EntryMapOK(m)
    PROVE  /\ \A c : Balance(c, t, reqs, m) => c = FinalClaimsOf(t, reqs, m)
           /\ Balance(FinalClaimsOf(t, reqs, m), t, reqs, m)
           /\ FinalClaimsOf(t, reqs, m) \in Nat
<1> DEFINE lo == LastClearOf(reqs)
           start == StartAt(lo, t, m)
<1>1. IsLastClear(reqs, lo) /\ lo \in 0..Len(reqs) /\ Len(reqs) \in Nat
  BY LastClearIs DEF IsLastClear
<1>2. \A l : StartAt(l, t, m) \in Nat
  BY DEF StartAt, EntryMapOK, TrackEntries
<1>3. PICK f : Tally(f, t, reqs, lo, start)
  <2> HIDE DEF lo
  <2> QED BY <1>1, <1>2, TallyExists
<1>4. ASSUME NEW g, Tally(g, t, reqs, lo, start)
      PROVE  FinalClaimsOf(t, reqs, m) = g[Len(reqs)]
  <2> DEFINE counts == CHOOSE k : CountsAlong(k, t, reqs, lo, start)
  <2>1. CountsAlong(g, t, reqs, lo, start)
    <3> HIDE DEF lo, start
    <3>1. \A i \in lo..Len(reqs) : i # lo => i \in lo + 1..Len(reqs)
      BY <1>1
    <3>2. g = [i \in lo..Len(reqs) |-> g[i]]
      BY <1>4 DEF Tally
    <3>3. ASSUME NEW i \in lo..Len(reqs)
          PROVE  g[i] = IF i = lo THEN start
                        ELSE IF reqs[i] = Claim(t) THEN g[i - 1] + 1
                        ELSE IF reqs[i] = Unclaim(t) /\ g[i - 1] > 0 THEN g[i - 1] - 1
                        ELSE g[i - 1]
      BY <1>4, <3>1 DEF Tally, Counted
    <3> QED BY <3>2, <3>3, Zenon DEF CountsAlong
  <2>2. CountsAlong(counts, t, reqs, lo, start)
    <3> HIDE DEF lo, start
    <3> QED BY <2>1
  <2>3. FinalClaimsOf(t, reqs, m) = counts[Len(reqs)]
    BY Zenon DEF FinalClaimsOf
  <2> HIDE DEF counts, lo, start
  <2> QED BY <1>1, <1>4, <2>2, <2>3, TallyOnly
<1>5. FinalClaimsOf(t, reqs, m) = f[Len(reqs)] /\ f[Len(reqs)] \in Nat
  <2>1. FinalClaimsOf(t, reqs, m) = f[Len(reqs)]
    BY <1>3, <1>4
  <2> HIDE DEF lo, start
  <2>2. Len(reqs) \in lo..Len(reqs) /\ f \in [lo..Len(reqs) -> Nat]
    BY <1>1, <1>3 DEF Tally
  <2> QED BY <2>1, <2>2
<1>6. ASSUME NEW c, Balance(c, t, reqs, m) PROVE c = FinalClaimsOf(t, reqs, m)
  <2>0. PICK l \in 0..Len(reqs) :
            \E g : /\ IsLastClear(reqs, l) /\ Tally(g, t, reqs, l, StartAt(l, t, m))
                   /\ c = g[Len(reqs)]
    BY <1>6 DEF Balance
  <2>1. PICK g : /\ IsLastClear(reqs, l) /\ Tally(g, t, reqs, l, StartAt(l, t, m))
                 /\ c = g[Len(reqs)]
    BY <2>0
  <2>2. l = lo
    BY <2>1, LastClearIs
  <2> QED BY <1>4, <2>1, <2>2
<1>7. Balance(FinalClaimsOf(t, reqs, m), t, reqs, m)
  BY <1>1, <1>3, <1>5 DEF Balance
<1> QED BY <1>5, <1>6, <1>7

LEMMA BalanceAppend ==
    ASSUME NEW reqs \in Seq(Requests), NEW r \in Requests, r # Clear, NEW t, NEW m, NEW c,
           Balance(c, t, reqs, m)
    PROVE  Balance(Counted(t, r, c), t, Append(reqs, r), m)
<1> DEFINE n == Len(reqs)
           more == Append(reqs, r)
<1>0. PICK lo \in 0..n :
          \E f : IsLastClear(reqs, lo) /\ Tally(f, t, reqs, lo, StartAt(lo, t, m)) /\ c = f[n]
  BY DEF Balance
<1>1. PICK f : IsLastClear(reqs, lo) /\ Tally(f, t, reqs, lo, StartAt(lo, t, m)) /\ c = f[n]
  BY <1>0
<1>2. n \in Nat /\ Len(more) = n + 1 /\ (\A i \in 1..n : more[i] = reqs[i]) /\ more[n + 1] = r
  OBVIOUS
<1> HIDE DEF n, more
<1>3. IsLastClear(more, lo) /\ lo \in 0..Len(more)
  BY <1>1, <1>2 DEF IsLastClear, n
<1>4. f \in [lo..n -> Nat] /\ f[lo] = StartAt(lo, t, m) /\ c \in Nat
      /\ \A i \in lo + 1..n : f[i] = Counted(t, reqs[i], f[i - 1])
  BY <1>1, <1>2 DEF Tally, n
<1> DEFINE g == [i \in lo..n + 1 |-> IF i = n + 1 THEN Counted(t, r, c) ELSE f[i]]
<1>5. Counted(t, r, c) \in Nat
  BY <1>4 DEF Counted
<1>6. g \in [lo..n + 1 -> Nat]
  BY <1>2, <1>4, <1>5
<1>7. g[n + 1] = Counted(t, r, c) /\ \A i \in lo..n : g[i] = f[i]
  BY <1>2
<1> HIDE DEF g
<1>8. g[lo] = StartAt(lo, t, m)
  BY <1>2, <1>4, <1>7
<1>9. ASSUME NEW i \in lo + 1..n + 1 PROVE g[i] = Counted(t, more[i], g[i - 1])
  <2>1. CASE i = n + 1
    <3>1. i - 1 = n /\ n \in lo..n
      BY <1>2, <2>1
    <3> QED BY <1>1, <1>2, <1>7, <2>1, <3>1
  <2>2. CASE i \in lo + 1..n
    <3>1. i \in 1..n /\ i \in lo..n /\ i - 1 \in lo..n
      BY <1>2, <2>2
    <3> QED BY <1>2, <1>4, <1>7, <2>2, <3>1
  <2> QED BY <1>2, <2>1, <2>2
<1>10. Tally(g, t, more, lo, StartAt(lo, t, m))
  BY <1>2, <1>6, <1>8, <1>9 DEF Tally
<1>11. Balance(Counted(t, r, c), t, more, m)
  <2>1. Counted(t, r, c) = g[Len(more)]
    BY <1>2, <1>7
  <2> QED BY <1>3, <1>10, <2>1 DEF Balance
<1> QED BY <1>11 DEF more

(* The worker takes the head and does to the entries what it says. *)
LEMMA BalanceTaken ==
    ASSUME NEW reqs \in Seq(Requests), reqs # <<>>, NEW t, NEW m, NEW c, Balance(c, t, reqs, m),
           NEW after,
           StartAt(0, t, after) = IF Head(reqs) = Clear THEN 0
                                  ELSE Counted(t, Head(reqs), StartAt(0, t, m))
    PROVE  Balance(c, t, Tail(reqs), after)
<1> DEFINE n == Len(reqs)
           rest == Tail(reqs)
<1>0. PICK lo \in 0..n :
          \E f : IsLastClear(reqs, lo) /\ Tally(f, t, reqs, lo, StartAt(lo, t, m)) /\ c = f[n]
  BY DEF Balance
<1>1. PICK f : IsLastClear(reqs, lo) /\ Tally(f, t, reqs, lo, StartAt(lo, t, m)) /\ c = f[n]
  BY <1>0
<1>2. n \in Nat \ {0} /\ Len(rest) = n - 1 /\ (\A i \in 1..n - 1 : rest[i] = reqs[i + 1])
      /\ Head(reqs) = reqs[1]
  OBVIOUS
<1>3. f \in [lo..n -> Nat] /\ f[lo] = StartAt(lo, t, m)
      /\ (\A i \in lo + 1..n : f[i] = Counted(t, reqs[i], f[i - 1]))
      /\ (lo # 0 => reqs[lo] = Clear) /\ (\A i \in lo + 1..n : reqs[i] # Clear)
  BY <1>1 DEF Tally, IsLastClear
<1> HIDE DEF n, rest
<1> DEFINE low == IF lo = 0 THEN 0 ELSE lo - 1
           g == [i \in low..n - 1 |-> f[i + 1]]
<1>4. low \in 0..n - 1 /\ \A i \in low..n - 1 : i + 1 \in lo..n
  BY <1>2
<1>5. g \in [low..n - 1 -> Nat]
  BY <1>3, <1>4
<1>6. \A i \in low..n - 1 : g[i] = f[i + 1]
  OBVIOUS
<1>7. g[low] = StartAt(low, t, after)
  <2>1. g[low] = f[low + 1]
    BY <1>2, <1>4
  <2>2. CASE lo = 0
    <3>1. 1 \in lo + 1..n /\ low = 0 /\ 1 - 1 = lo
      BY <1>2, <2>2
    <3>2. f[1] = Counted(t, reqs[1], f[lo]) /\ reqs[1] # Clear
      BY <1>3, <3>1
    <3>3. f[lo] = StartAt(0, t, m)
      BY <1>3, <2>2
    <3> QED BY <1>2, <2>1, <3>1, <3>2, <3>3
  <2>3. CASE lo = 1
    <3>1. Head(reqs) = Clear /\ low = 0 /\ f[1] = StartAt(1, t, m)
      BY <1>2, <1>3, <2>3
    <3> QED BY <2>1, <3>1 DEF StartAt
  <2>4. CASE lo > 1
    <3>1. low # 0 /\ low + 1 = lo
      BY <2>4
    <3>2. f[lo] = 0
      BY <1>3, <2>4 DEF StartAt
    <3> QED BY <2>1, <3>1, <3>2 DEF StartAt
  <2> QED BY <2>2, <2>3, <2>4
<1>8. ASSUME NEW i \in low + 1..n - 1 PROVE g[i] = Counted(t, rest[i], g[i - 1])
  <2>1. i \in low..n - 1 /\ i - 1 \in low..n - 1 /\ i + 1 \in lo + 1..n /\ (i + 1) - 1 = (i - 1) + 1
        /\ i \in 1..n - 1
    BY <1>2, <1>4
  <2>2. f[i + 1] = Counted(t, reqs[i + 1], f[(i + 1) - 1])
    BY <1>3, <2>1
  <2> QED BY <1>2, <1>6, <2>1, <2>2
<1>9. IsLastClear(rest, low)
  <2>1. low # 0 => rest[low] = Clear
    <3>1. low # 0 => low \in 1..n - 1 /\ low + 1 = lo /\ lo # 0
      BY <1>4
    <3> QED BY <1>2, <1>3, <3>1
  <2>2. ASSUME NEW i \in low + 1..n - 1 PROVE rest[i] # Clear
    <3>1. i \in 1..n - 1 /\ i + 1 \in lo + 1..n
      BY <1>2, <1>4
    <3> QED BY <1>2, <1>3, <3>1
  <2> QED BY <1>2, <1>4, <2>1, <2>2 DEF IsLastClear
<1>10. g[n - 1] = f[n]
  <2>1. n - 1 \in low..n - 1 /\ (n - 1) + 1 = n
    BY <1>2, <1>4
  <2> QED BY <1>6, <2>1
<1> HIDE DEF g, low
<1>11. Tally(g, t, rest, low, StartAt(low, t, after))
  BY <1>2, <1>5, <1>7, <1>8 DEF Tally
<1>12. c = g[Len(rest)] /\ low \in 0..Len(rest)
  BY <1>1, <1>2, <1>4, <1>10
<1>13. Balance(c, t, rest, after)
  BY <1>9, <1>11, <1>12 DEF Balance
<1> QED BY <1>13 DEF rest

-----------------------------------------------------------------------------
Covered(t) == Reported("Failed", t) \/ Cardinality(EntriesOf(t)) <= FinalClaims(t)

LEMMA ClaimsNow ==
    ASSUME TypeOK, NEW t
    PROVE  Balance(FinalClaims(t), t, mreqs, mtracks) /\ FinalClaims(t) \in Nat
<1>1. mreqs \in Seq(Requests) /\ EntryMapOK(mtracks)
  BY DEF TypeOK, MTypeOK, EntryMapOK
<1> QED BY <1>1, BalanceIs, FinalClaimsAre

LEMMA ClaimsNext ==
    ASSUME TypeOK', NEW t
    PROVE  /\ FinalClaims(t)' \in Nat
           /\ \A c : Balance(c, t, mreqs', mtracks') => FinalClaims(t)' = c
<1>1. mreqs' \in Seq(Requests) /\ EntryMapOK(mtracks')
  BY DEF TypeOK, MTypeOK, EntryMapOK
<1> QED BY <1>1, BalanceIs, FinalClaimsAre

LEMMA ClaimsSame ==
    ASSUME TypeOK, TypeOK', NEW t, mreqs' = mreqs, StartAt(0, t, mtracks') = StartAt(0, t, mtracks)
    PROVE  FinalClaims(t)' = FinalClaims(t)
<1>1. \A lo : StartAt(lo, t, mtracks') = StartAt(lo, t, mtracks)
  BY DEF StartAt
<1>2. Balance(FinalClaims(t), t, mreqs', mtracks')
  BY <1>1, ClaimsNow DEF Balance
<1> QED BY <1>2, ClaimsNext

LEMMA EntriesFinite ==
    ASSUME IsFiniteSet(DOMAIN queue), NEW t
    PROVE  IsFiniteSet(EntriesOf(t)) /\ Cardinality(EntriesOf(t)) \in Nat
<1>1. EntriesOf(t) \in SUBSET DOMAIN queue
  BY DEF EntriesOf
<1> HIDE DEF EntriesOf
<1> QED BY <1>1, FS_Subset, FS_CardinalityType

LEMMA CoveredStays ==
    ASSUME IsFiniteSet(DOMAIN queue), NEW t, Covered(t), TypeOK, TypeOK',
           Reported("Failed", t) => Reported("Failed", t)',
           EntriesOf(t)' \subseteq EntriesOf(t), FinalClaims(t)' = FinalClaims(t)
    PROVE  Covered(t)'
<1>1. EntriesOf(t)' \in SUBSET EntriesOf(t) /\ IsFiniteSet(EntriesOf(t))
  BY EntriesFinite
<1>2. Cardinality(EntriesOf(t)') <= Cardinality(EntriesOf(t)) /\ Cardinality(EntriesOf(t)') \in Nat
  <2> DEFINE S == EntriesOf(t)
             T == EntriesOf(t)'
  <2>1. T \in SUBSET S /\ IsFiniteSet(S)
    BY <1>1
  <2> HIDE DEF S, T
  <2>2. Cardinality(T) <= Cardinality(S) /\ IsFiniteSet(T) /\ Cardinality(T) \in Nat
    BY <2>1, FS_Subset, FS_CardinalityType
  <2> QED BY <2>2 DEF S, T
<1> QED BY <1>2, EntriesFinite, ClaimsNow DEF Covered

LEMMA NoEntriesCovered ==
    ASSUME TypeOK', NEW t, EntriesOf(t)' = {}
    PROVE  Covered(t)'
<1>1. Cardinality(EntriesOf(t)') = 0
  BY FS_EmptySet
<1> QED BY <1>1, ClaimsNext DEF Covered

(* The channel of the reports. *)
LEMMA ReportsStay ==
    ASSUME TypeOK, NEW t
    PROVE  /\ \A e : mevents' = Append(mevents, e) /\ Reported("Failed", t) => Reported("Failed", t)'
           /\ \A e : mevents' = Append(mevents, e) /\ e = [type |-> "Failed", id |-> t]
                        => Reported("Failed", t)'
           /\ mevents' = mevents /\ Reported("Failed", t) => Reported("Failed", t)'
           /\ mevents # <<>> /\ mevents' = Tail(mevents) /\ Reported("Failed", t)
                /\ Head(mevents) # [type |-> "Failed", id |-> t] => Reported("Failed", t)'
<1>1. mevents \in Seq(ManagerEvents) /\ Len(mevents) \in Nat /\ DOMAIN mevents = 1..Len(mevents)
  BY DEF TypeOK, MTypeOK
<1>2. ASSUME NEW e, mevents' = Append(mevents, e)
      PROVE  /\ DOMAIN mevents' = 1..Len(mevents) + 1 /\ mevents'[Len(mevents) + 1] = e
             /\ \A i \in 1..Len(mevents) : mevents'[i] = mevents[i]
  BY <1>1, <1>2
<1>3. ASSUME NEW e, mevents' = Append(mevents, e), Reported("Failed", t) PROVE Reported("Failed", t)'
  BY <1>1, <1>2, <1>3 DEF Reported
<1>4. ASSUME NEW e, mevents' = Append(mevents, e), e = [type |-> "Failed", id |-> t]
      PROVE  Reported("Failed", t)'
  BY <1>1, <1>2, <1>4 DEF Reported
<1>5. ASSUME mevents # <<>>, mevents' = Tail(mevents), Reported("Failed", t),
             Head(mevents) # [type |-> "Failed", id |-> t]
      PROVE  Reported("Failed", t)'
  <2>1. PICK i \in DOMAIN mevents : mevents[i] = [type |-> "Failed", id |-> t]
    BY <1>5 DEF Reported
  <2>2. i # 1
    BY <1>1, <1>5, <2>1
  <2>3. i - 1 \in DOMAIN Tail(mevents) /\ Tail(mevents)[i - 1] = mevents[i]
    BY <1>1, <1>5, <2>1, <2>2
  <2> QED BY <1>5, <2>1, <2>3 DEF Reported
<1>6. ASSUME mevents' = mevents, Reported("Failed", t) PROVE Reported("Failed", t)'
  BY <1>6 DEF Reported
<1> QED BY <1>3, <1>4, <1>5, <1>6

(* The worker moves claims from its channel to its entries.                *)
LEMMA WorkerClaims ==
    ASSUME TypeOK, TypeOK', ManagerWorker, NEW t \in TrackIds
    PROVE  FinalClaims(t)' = FinalClaims(t) /\ (Reported("Failed", t) => Reported("Failed", t)')
<1> DEFINE c == StartAt(0, t, mtracks)
<1>1. mreqs \in Seq(Requests) /\ mreqs # <<>> /\ mreqs' = Tail(mreqs) /\ Head(mreqs) \in Requests
  <2>1. mreqs # <<>> /\ mreqs' = Tail(mreqs)
    BY DEF ManagerWorker, ClaimKnown, ClaimNew, UnclaimHandler, ClearHandler, NextRequest
  <2>2. mreqs \in Seq(Requests)
    BY DEF TypeOK, MTypeOK
  <2> QED BY <2>1, <2>2
<1>2. c \in Nat /\ (t \in DOMAIN mtracks => c = mtracks[t].claims) /\ (t \notin DOMAIN mtracks => c = 0)
      /\ \A u \in DOMAIN mtracks : mtracks[u] \in TrackEntries
  BY DEF StartAt, TypeOK, MTypeOK, TrackEntries
<1>3. \A u : /\ Claim(u) # Clear /\ Unclaim(u) # Clear /\ Claim(u) # Unclaim(t) /\ Unclaim(u) # Claim(t)
             /\ (Claim(u) = Claim(t) <=> u = t) /\ (Unclaim(u) = Unclaim(t) <=> u = t)
  BY DEF Claim, Unclaim, Clear
<1> HIDE DEF c
<1>4. StartAt(0, t, mtracks') = IF Head(mreqs) = Clear THEN 0 ELSE Counted(t, Head(mreqs), c)
  <2>1. CASE ClaimKnown
    <3>1. Head(mreqs) = Claim(Target) /\ mtracks' = With(Target, Claimed(mtracks[Target]))
          /\ Target \in DOMAIN mtracks
      BY <1>1, <2>1 DEF ClaimKnown, NextRequest, Target, Requests, Claim
    <3>2. Counted(t, Head(mreqs), c) = IF t = Target THEN c + 1 ELSE c
      BY <1>3, <3>1 DEF Counted
    <3>3. StartAt(0, t, mtracks') = IF t = Target THEN c + 1 ELSE c
      BY <1>2, <3>1 DEF StartAt, With, Claimed, TrackEntries
    <3> QED BY <1>3, <3>1, <3>2, <3>3
  <2>2. CASE ClaimNew
    <3>1. Head(mreqs) = Claim(Target) /\ mtracks' = With(Target, Claimed([path |-> FALSE, claims |-> 0]))
          /\ Target \notin DOMAIN mtracks
      BY <1>1, <2>2 DEF ClaimNew, NextRequest, Target, Requests, Claim
    <3>2. Counted(t, Head(mreqs), c) = IF t = Target THEN c + 1 ELSE c
      BY <1>3, <3>1 DEF Counted
    <3>3. StartAt(0, t, mtracks') = IF t = Target THEN c + 1 ELSE c
      BY <1>2, <3>1 DEF StartAt, With, Claimed
    <3> QED BY <1>3, <3>1, <3>2, <3>3
  <2>3. CASE UnclaimHandler
    <3>1. Head(mreqs) = Unclaim(Target)
      BY <1>1, <2>3 DEF UnclaimHandler, NextRequest, Target, Requests, Unclaim
    <3>2. Counted(t, Head(mreqs), c) = IF t = Target /\ c > 0 THEN c - 1 ELSE c
      BY <1>3, <3>1 DEF Counted
    <3>3. StartAt(0, t, mtracks') = IF t = Target /\ c > 0 THEN c - 1 ELSE c
      <4>1. CASE Target \notin DOMAIN mtracks
        <5>1. mtracks' = mtracks
          BY <2>3, <4>1 DEF UnclaimHandler, dataVars
        <5> QED BY <1>2, <4>1, <5>1 DEF StartAt
      <4>2. CASE Target \in DOMAIN mtracks
        <5> DEFINE entry == Unclaimed(mtracks[Target])
        <5>1. entry.claims = IF mtracks[Target].claims = 0 THEN 0 ELSE mtracks[Target].claims - 1
          BY <1>2, <4>2 DEF Unclaimed, TrackEntries
        <5>2. CASE CanRemove(entry)
          <6>1. mtracks' = Without(Target) /\ entry.claims = 0
            BY <2>3, <4>2, <5>2 DEF UnclaimHandler, RotateTrack, CanRemove
          <6> QED BY <1>2, <4>2, <5>1, <6>1 DEF StartAt, Without
        <5>3. CASE ~CanRemove(entry)
          <6>1. mtracks' = With(Target, entry)
            BY <2>3, <4>2, <5>3 DEF UnclaimHandler
          <6> HIDE DEF entry
          <6> QED BY <1>2, <4>2, <5>1, <6>1 DEF StartAt, With
        <5> QED BY <5>2, <5>3
      <4> QED BY <4>1, <4>2
    <3> QED BY <1>3, <3>1, <3>2, <3>3
  <2>4. CASE ClearHandler
    <3>1. Head(mreqs) = Clear /\ mtracks' = EmptyMap
      BY <1>1, <2>4 DEF ClearHandler, NextRequest, Requests, Clear
    <3> QED BY <3>1 DEF StartAt, EmptyMap
  <2> QED BY <2>1, <2>2, <2>3, <2>4 DEF ManagerWorker
<1>5. Balance(FinalClaims(t), t, mreqs', mtracks')
  <2>1. Balance(FinalClaims(t), t, mreqs, mtracks)
    BY ClaimsNow
  <2> QED BY <1>1, <1>4, <2>1, BalanceTaken DEF c
<1>6. FinalClaims(t)' = FinalClaims(t)
  BY <1>5, ClaimsNext
<1>7. mevents' = mevents \/ \E e : mevents' = Append(mevents, e)
  BY DEF ManagerWorker, ClaimKnown, ClaimNew, UnclaimHandler, ClearHandler, Report
<1>8. Reported("Failed", t) => Reported("Failed", t)'
  BY <1>7, ReportsStay
<1> QED BY <1>6, <1>8

LEMMA DownloadClaims ==
    ASSUME TypeOK, TypeOK', NEW u \in TrackIds, Download(u), NEW t \in TrackIds
    PROVE  /\ Reported("Failed", t) => Reported("Failed", t)'
           /\ FinalClaims(t)' = FinalClaims(t) \/ Reported("Failed", t)'
<1>1. mreqs' = mreqs
  BY DEF Download, FetchDone, FetchFailed, DownloadFinish, DownloadPanic
<1>2. CASE FetchDone(u) \/ DownloadPanic(u)
  <2>1. mevents' = mevents /\ mtracks' = mtracks
    BY <1>2 DEF FetchDone, DownloadPanic, dataVars
  <2>2. StartAt(0, t, mtracks') = StartAt(0, t, mtracks)
    BY <2>1
  <2> QED BY <1>1, <2>1, <2>2, ReportsStay, ClaimsSame
<1>3. CASE FetchFailed(u)
  <2>1. mevents' = Append(mevents, [type |-> "Failed", id |-> u]) /\ mtracks' = Without(u)
    BY <1>3 DEF FetchFailed, Report, RotateTrack
  <2>2. CASE t = u
    BY <2>1, <2>2, ReportsStay
  <2>3. CASE t # u
    <3>1. StartAt(0, t, mtracks') = StartAt(0, t, mtracks)
      BY <2>1, <2>3 DEF StartAt, Without
    <3> QED BY <1>1, <2>1, <3>1, ReportsStay, ClaimsSame
  <2> QED BY <2>2, <2>3
<1>4. CASE DownloadFinish(u)
  <2>1. \E e : mevents' = Append(mevents, e)
    BY <1>4 DEF DownloadFinish, Report
  <2>2. StartAt(0, t, mtracks') = StartAt(0, t, mtracks)
    <3>1. CASE mtracks' = mtracks
      BY <3>1
    <3>2. CASE mtracks' = [mtracks EXCEPT ![u].path = TRUE]
      <4>1. DOMAIN mtracks' = DOMAIN mtracks /\ \A v \in DOMAIN mtracks : mtracks[v] \in TrackEntries
        BY <3>2 DEF TypeOK, MTypeOK
      <4>2. \A v \in DOMAIN mtracks : mtracks'[v].claims = mtracks[v].claims
        BY <3>2, <4>1 DEF TrackEntries
      <4> QED BY <4>1, <4>2 DEF StartAt
    <3> QED BY <1>4, <3>1, <3>2 DEF DownloadFinish, TrySetPath
  <2> QED BY <1>1, <2>1, <2>2, ReportsStay, ClaimsSame
<1> QED BY <1>2, <1>3, <1>4 DEF Download

(* Facts about sets and sequences in the form the next lemma needs them. *)
LEMMA OneMore ==
    ASSUME NEW A, IsFiniteSet(A), NEW x
    PROVE  /\ IsFiniteSet(A \cup {x}) /\ Cardinality(A) \in Nat
           /\ Cardinality(A \cup {x}) \in Nat /\ Cardinality(A \cup {x}) <= Cardinality(A) + 1
<1>1. Cardinality(A) \in Nat
  BY FS_CardinalityType
<1>2. IsFiniteSet(A \cup {x})
      /\ Cardinality(A \cup {x}) = IF x \in A THEN Cardinality(A) ELSE Cardinality(A) + 1
  BY FS_AddElement
<1> QED BY <1>1, <1>2

LEMMA Appended ==
    ASSUME NEW R, NEW s \in Seq(R), NEW r \in R, NEW n, Len(s) = n
    PROVE  Append(s, r) = [i \in 1..n + 1 |-> IF i = n + 1 THEN r ELSE s[i]]
<1> DEFINE more == Append(s, r)
<1>1. n \in Nat /\ more \in Seq(R) /\ Len(more) = n + 1
      /\ (\A i \in 1..n : more[i] = s[i]) /\ more[n + 1] = r
  BY AppendProperties
<1> HIDE DEF more
<1>2. more = [i \in 1..n + 1 |-> more[i]]
  BY <1>1
<1>3. \A i \in 1..n + 1 : more[i] = IF i = n + 1 THEN r ELSE s[i]
  BY <1>1
<1>4. more = [i \in 1..n + 1 |-> IF i = n + 1 THEN r ELSE s[i]]
  BY <1>2, <1>3, Zenon
<1> QED BY <1>4 DEF more

LEMMA Concatenated ==
    ASSUME NEW R, NEW s1 \in Seq(R), NEW s2 \in Seq(R)
    PROVE  s1 \o s2 = [i \in 1..Len(s1) + Len(s2) |->
                           IF i <= Len(s1) THEN s1[i] ELSE s2[i - Len(s1)]]
<1> DEFINE both == s1 \o s2
           n == Len(s1) + Len(s2)
<1>1. both \in Seq(R) /\ Len(both) = n
      /\ \A i \in 1..n : both[i] = IF i <= Len(s1) THEN s1[i] ELSE s2[i - Len(s1)]
  BY ConcatProperties
<1> HIDE DEF both
<1>2. both = [i \in 1..n |-> both[i]]
  BY <1>1
<1>3. both = [i \in 1..n |-> IF i <= Len(s1) THEN s1[i] ELSE s2[i - Len(s1)]]
  <2> HIDE DEF n
  <2> QED BY <1>1, <1>2, Zenon
<1> QED BY <1>3 DEF both

(* An entry that is added brings its claim with it. *)
LEMMA ListCovered ==
    ASSUME TypeOK, TypeOK', IsFiniteSet(DOMAIN queue), NEW t \in TrackIds, Covered(t),
           NEW list \in TrackLists, AddTracks(list)
    PROVE  Covered(t)'
<1> DEFINE n == Len(list)
           l == Len(mreqs)
           rq(j) == [i \in 1..l + j |-> IF i <= l THEN mreqs[i] ELSE Claim(list[i - l])]
           E(j) == EntriesOf(t) \cup {i \in nextId..nextId + j - 1 : list[i - nextId + 1] = t}
           S == {j \in 0..n : \E c \in Nat : /\ Balance(c, t, rq(j), mtracks)
                                             /\ IsFiniteSet(E(j)) /\ Cardinality(E(j)) <= c}
<1>1. /\ list \in Seq(TrackIds) /\ n \in Nat /\ DOMAIN list = 1..n
      /\ mreqs \in Seq(Requests) /\ l \in Nat /\ DOMAIN mreqs = 1..l /\ nextId \in Nat
      /\ DOMAIN queue \subseteq Nat
  BY ControllerAssumption, PlayerAssumption DEF TypeOK, MTypeOK, CTypeOK
<1>2. \A i \in 1..n : list[i] \in TrackIds /\ Claim(list[i]) \in Requests
  BY <1>1 DEF Claim, Requests
<1>3. CASE Reported("Failed", t)
  BY <1>3 DEF AddTracks, Reported, Covered
<1>4. CASE Cardinality(EntriesOf(t)) <= FinalClaims(t)
  <2>1. 0 \in S
    <3>1. rq(0) = mreqs
      BY <1>1
    <3>2. E(0) = EntriesOf(t)
      BY <1>1
    <3>3. Balance(FinalClaims(t), t, rq(0), mtracks) /\ FinalClaims(t) \in Nat
      BY <3>1, ClaimsNow
    <3>4. IsFiniteSet(E(0)) /\ Cardinality(E(0)) <= FinalClaims(t)
      BY <1>4, <3>2, EntriesFinite
    <3>5. 0 \in 0..n
      BY <1>1
    <3> HIDE DEF rq, E
    <3> QED BY <3>3, <3>4, <3>5
  <2>2. ASSUME NEW j \in 0..n - 1, j \in S PROVE j + 1 \in S
    <3>1. PICK c \in Nat : Balance(c, t, rq(j), mtracks) /\ IsFiniteSet(E(j)) /\ Cardinality(E(j)) <= c
      BY <2>2
    <3> DEFINE r == Claim(list[j + 1])
    <3>2. r \in Requests /\ r # Clear /\ j + 1 \in 1..n /\ l + j \in Nat
      BY <1>1, <1>2 DEF Claim, Clear
    <3>3. \A i \in 1..l + j : IF i <= l THEN mreqs[i] \in Requests ELSE Claim(list[i - l]) \in Requests
      BY <1>1, <1>2
    <3>4. rq(j) \in Seq(Requests) /\ Len(rq(j)) = l + j
      BY <3>2, <3>3
    <3>5. rq(j + 1) = Append(rq(j), r)
      <4> DEFINE old == rq(j)
      <4>1. Append(old, r) = [i \in 1..l + j + 1 |-> IF i = l + j + 1 THEN r ELSE old[i]]
        <5>1. old \in Seq(Requests) /\ Len(old) = l + j /\ r \in Requests
          BY <3>2, <3>4
        <5> HIDE DEF rq, r, old
        <5> QED BY <5>1, Appended
      <4>2. l + j + 1 = l + (j + 1)
        BY <1>1
      <4>3. ASSUME NEW i \in 1..l + (j + 1)
            PROVE  rq(j + 1)[i] = IF i = l + j + 1 THEN r ELSE old[i]
        <5>1. CASE i = l + j + 1
          <6>1. ~(i <= l) /\ i - l = j + 1
            BY <1>1, <5>1
          <6> QED BY <5>1, <6>1
        <5>2. CASE i # l + j + 1
          <6>1. i \in 1..l + j
            BY <1>1, <5>2
          <6> QED BY <5>2, <6>1
        <5> QED BY <5>1, <5>2
      <4>4. rq(j + 1) = [i \in 1..l + (j + 1) |-> rq(j + 1)[i]]
        OBVIOUS
      <4>5. rq(j + 1) = [i \in 1..l + (j + 1) |-> IF i = l + j + 1 THEN r ELSE old[i]]
        <5> HIDE DEF rq, r, old
        <5> QED BY <4>3, <4>4, Zenon
      <4> HIDE DEF rq, r
      <4> QED BY <4>1, <4>2, <4>5
    <3>6. Balance(Counted(t, r, c), t, rq(j + 1), mtracks)
      <4> HIDE DEF rq, r
      <4> QED BY <3>1, <3>2, <3>4, <3>5, BalanceAppend
    <3>7. Counted(t, r, c) = IF list[j + 1] = t THEN c + 1 ELSE c
      BY DEF Counted, Claim, Unclaim
    <3>8. E(j + 1) = IF list[j + 1] = t THEN E(j) \cup {nextId + j} ELSE E(j)
      <4>1. nextId..nextId + (j + 1) - 1 = (nextId..nextId + j - 1) \cup {nextId + j}
        BY <1>1
      <4>2. (nextId + j) - nextId + 1 = j + 1
        BY <1>1
      <4> QED BY <4>1, <4>2
    <3>9. Cardinality(E(j)) \in Nat
      <4> HIDE DEF E
      <4> QED BY <3>1, FS_CardinalityType
    <3>10. IsFiniteSet(E(j + 1)) /\ Cardinality(E(j + 1)) <= Counted(t, r, c) /\ Counted(t, r, c) \in Nat
      <4> HIDE DEF E, r
      <4>1. /\ IsFiniteSet(E(j) \cup {nextId + j}) /\ Cardinality(E(j) \cup {nextId + j}) \in Nat
            /\ Cardinality(E(j) \cup {nextId + j}) <= Cardinality(E(j)) + 1
        BY <3>1, OneMore
      <4> QED BY <3>1, <3>7, <3>8, <3>9, <4>1
    <3> HIDE DEF rq, E, r
    <3> QED BY <3>2, <3>6, <3>10
  <2> HIDE DEF S, rq, E
  <2>3. 0..n \subseteq S
    <3> HIDE DEF n
    <3> QED BY <1>1, <2>1, <2>2, UpTo
  <2>4. PICK c \in Nat : Balance(c, t, rq(n), mtracks) /\ IsFiniteSet(E(n)) /\ Cardinality(E(n)) <= c
    BY <1>1, <2>3 DEF S
  <2>5. rq(n) = mreqs'
    <3>1. mreqs' = mreqs \o Claims(list)
      BY DEF AddTracks
    <3>2. Claims(list) \in Seq(Requests) /\ Len(Claims(list)) = n
          /\ \A i \in 1..n : Claims(list)[i] = Claim(list[i])
      BY <1>1, <1>2 DEF Claims
    <3>3. mreqs \o Claims(list) = [i \in 1..l + n |->
                                      IF i <= l THEN mreqs[i] ELSE Claims(list)[i - l]]
      BY <1>1, <3>2, Concatenated
    <3>4. \A i \in 1..l + n : ~(i <= l) => Claims(list)[i - l] = Claim(list[i - l])
      BY <1>1, <3>2
    <3>5. [i \in 1..l + n |-> IF i <= l THEN mreqs[i] ELSE Claims(list)[i - l]]
          = [i \in 1..l + n |-> IF i <= l THEN mreqs[i] ELSE Claim(list[i - l])]
      BY <3>4
    <3> QED BY <3>1, <3>3, <3>5 DEF rq
  <2>6. FinalClaims(t)' = c
    <3>1. mtracks' = mtracks
      BY DEF AddTracks, dataVars
    <3> QED BY <2>4, <2>5, <3>1, ClaimsNext
  <2>7. EntriesOf(t)' \in SUBSET E(n)
    <3> SUFFICES ASSUME NEW i \in EntriesOf(t)' PROVE i \in E(n)
      OBVIOUS
    <3>1. queue' = Updated(queue, NewEntries(list)) /\ i \in DOMAIN queue' /\ queue'[i].track = t
      BY DEF EntriesOf, AddTracks
    <3>2. CASE i \in DOMAIN NewEntries(list)
      <4>1. i \in nextId..nextId + n - 1 /\ NewEntries(list)[i].track = list[i - nextId + 1]
        BY <3>2 DEF NewEntries
      <4>2. queue'[i] = NewEntries(list)[i]
        BY <3>1, <3>2 DEF Updated
      <4> QED BY <3>1, <4>1, <4>2 DEF E
    <3>3. CASE i \notin DOMAIN NewEntries(list)
      BY <3>1, <3>3 DEF Updated, E, EntriesOf
    <3> QED BY <3>2, <3>3
  <2>8. Cardinality(EntriesOf(t)') <= c
    <3> DEFINE A == EntriesOf(t)'
               B == E(n)
    <3>1. A \in SUBSET B /\ IsFiniteSet(B) /\ Cardinality(B) <= c
      BY <2>4, <2>7
    <3> HIDE DEF A, B
    <3>2. Cardinality(A) <= Cardinality(B) /\ IsFiniteSet(A) /\ Cardinality(A) \in Nat /\ Cardinality(B) \in Nat
      BY <3>1, FS_Subset, FS_CardinalityType
    <3>3. Cardinality(A) <= c
      BY <3>1, <3>2
    <3> QED BY <3>3 DEF A
  <2> QED BY <2>6, <2>8 DEF Covered
<1> QED BY <1>3, <1>4 DEF Covered
LEMMA QuietCovered ==
    ASSUME TypeOK, TypeOK', IsFiniteSet(DOMAIN queue), NEW t, Covered(t),
           mreqs' = mreqs, mtracks' = mtracks,
           Reported("Failed", t) => Reported("Failed", t)',
           EntriesOf(t)' \subseteq EntriesOf(t)
    PROVE  Covered(t)'
<1>1. StartAt(0, t, mtracks') = StartAt(0, t, mtracks)
  OBVIOUS
<1>2. FinalClaims(t)' = FinalClaims(t)
  BY <1>1, ClaimsSame
<1> QED BY <1>2, CoveredStays

LEMMA PlayerEventCovered ==
    ASSUME TypeOK, TypeOK', IsFiniteSet(DOMAIN queue), NEW t \in TrackIds, Covered(t),
           HandlePlayerEvent
    PROVE  Covered(t)'
<1>1. CASE OnPlaybackStopped
  <2>1. EntriesOf(t)' = {}
    BY <1>1 DEF OnPlaybackStopped, StopData, EmptyMap, EntriesOf
  <2> QED BY <2>1, NoEntriesCovered
<1>2. CASE OnSignal \/ OnTrackAdded \/ OnTrackStarted
  <2>1. UNCHANGED mvars
    BY <1>2 DEF OnSignal, OnTrackAdded, OnTrackStarted
  <2>2. queue' = queue \/ queue' = SetQueued(queue, EventId)
    BY <1>2 DEF OnSignal, OnTrackAdded, OnTrackStarted, Unaltered, Fail
  <2>3. \A i \in DOMAIN queue : SetQueued(queue, EventId)[i].track = queue[i].track
    BY DEF SetQueued, TypeOK, CTypeOK
  <2>4. EntriesOf(t)' \subseteq EntriesOf(t)
    BY <2>2, <2>3 DEF SetQueued, EntriesOf
  <2> QED BY <2>1, <2>4, QuietCovered, ReportsStay DEF mvars
<1>3. CASE OnTrackFinished
  <2>1. queue' = Restricted(queue, QueueIds \ {EventId})
        /\ IF EventId \in DOMAIN queue THEN Request(Unclaim(queue[EventId].track)) ELSE UNCHANGED mvars
    BY <1>3 DEF OnTrackFinished, RemoveQueuePlayer
  <2>2. EntriesOf(t)' \subseteq EntriesOf(t) \ {EventId}
    BY <2>1 DEF Restricted, EntriesOf
  <2>3. CASE EventId \notin DOMAIN queue
    BY <2>1, <2>2, <2>3, QuietCovered, ReportsStay DEF mvars
  <2>4. CASE EventId \in DOMAIN queue
    <3> DEFINE u == queue[EventId].track
               c == FinalClaims(t)
               after == Counted(t, Unclaim(u), c)
    <3>1. u \in TrackIds /\ Unclaim(u) \in Requests /\ Unclaim(u) # Clear
      BY <2>4 DEF TypeOK, CTypeOK, Unclaim, Clear, Requests
    <3>2. mreqs' = Append(mreqs, Unclaim(u)) /\ mtracks' = mtracks /\ mevents' = mevents
      BY <2>1, <2>4 DEF Request, dataVars
    <3>3. Balance(c, t, mreqs, mtracks) /\ c \in Nat /\ mreqs \in Seq(Requests)
      BY ClaimsNow DEF TypeOK, MTypeOK
    <3>4. FinalClaims(t)' = after
      <4>1. Balance(after, t, mreqs', mtracks')
        <5> HIDE DEF u, c
        <5> QED BY <3>1, <3>2, <3>3, BalanceAppend
      <4> HIDE DEF after
      <4> QED BY <4>1, ClaimsNext
    <3>5. after = IF u = t /\ c > 0 THEN c - 1 ELSE c
      BY DEF Counted, Unclaim, Claim
    <3>6. CASE u # t
      <4>1. FinalClaims(t)' = FinalClaims(t)
        BY <3>4, <3>5, <3>6
      <4> QED BY <2>2, <3>2, <4>1, CoveredStays, ReportsStay
    <3>7. CASE u = t
      <4> DEFINE S == EntriesOf(t)
                 T == EntriesOf(t)'
      <4>1. EventId \in S /\ T \in SUBSET (S \ {EventId}) /\ IsFiniteSet(S) /\ Cardinality(S) \in Nat
        BY <2>2, <2>4, <3>7, EntriesFinite DEF EntriesOf
      <4> HIDE DEF S, T
      <4>2. Cardinality(S \ {EventId}) = Cardinality(S) - 1 /\ IsFiniteSet(S \ {EventId})
        BY <4>1, FS_RemoveElement
      <4>3. Cardinality(T) <= Cardinality(S) - 1 /\ IsFiniteSet(T)
        BY <4>1, <4>2, FS_Subset
      <4>4. Cardinality(T) \in Nat
        BY <4>3, FS_CardinalityType
      <4>5. Cardinality(S) <= c => Cardinality(T) <= after
        <5> HIDE DEF c, after
        <5> QED BY <3>3, <3>5, <3>7, <4>1, <4>3, <4>4
      <4>6. Reported("Failed", t) => Reported("Failed", t)'
        BY <3>2, ReportsStay
      <4> HIDE DEF after
      <4> QED BY <3>4, <4>5, <4>6 DEF S, T, Covered
    <3> QED BY <3>6, <3>7
  <2> QED BY <2>3, <2>4
<1> QED BY <1>1, <1>2, <1>3 DEF HandlePlayerEvent

LEMMA ManagerEventCovered ==
    ASSUME TypeOK, TypeOK', QueueTracksKnown, IsFiniteSet(DOMAIN queue),
           NEW t \in TrackIds, Covered(t), HandleManagerEvent
    PROVE  Covered(t)'
<1>1. mreqs' = mreqs /\ mtracks' = mtracks /\ mevents # <<>> /\ mevents' = Tail(mevents)
  BY DEF HandleManagerEvent, OnAcquired, OnRemoved, OnFailed, TakeManagerEvent, ReceiveReport, dataVars
<1>2. ASSUME Head(mevents) # [type |-> "Failed", id |-> t], EntriesOf(t)' \subseteq EntriesOf(t)
      PROVE  Covered(t)'
  BY <1>1, <1>2, QuietCovered, ReportsStay
<1>3. CASE OnAcquired \/ OnRemoved
  <2>1. Head(mevents).type # "Failed" /\ queue' = queue
    BY <1>3 DEF OnAcquired, OnRemoved, TakeManagerEvent, Fail, Unaltered
  <2> QED BY <1>2, <2>1 DEF EntriesOf
<1>4. CASE OnFailed
  <2>1. \/ queue' = Restricted(queue, {i \in DOMAIN queue : queue[i].track # EventTrack})
        \/ EventTrack \notin DOMAIN tracks /\ queue' = queue
    BY <1>4 DEF OnFailed, RemoveTrack, Fail, Unaltered
  <2>2. CASE EventTrack = t
    <3>1. EntriesOf(t)' = {}
      BY <2>1, <2>2 DEF Restricted, EntriesOf, QueueTracksKnown
    <3> QED BY <3>1, NoEntriesCovered
  <2>3. CASE EventTrack # t
    <3>1. EntriesOf(t)' \subseteq EntriesOf(t)
      BY <2>1 DEF Restricted, EntriesOf
    <3>2. Head(mevents) # [type |-> "Failed", id |-> t]
      BY <2>3 DEF EventTrack
    <3> QED BY <1>2, <3>1, <3>2
  <2> QED BY <2>2, <2>3
<1> QED BY <1>3, <1>4 DEF HandleManagerEvent

(* The queue stays finite. *)
LEMMA QueueFinite ==
    ASSUME TypeOK, IsFiniteSet(DOMAIN queue), [Next]_vars
    PROVE  IsFiniteSet(DOMAIN queue)'
<1>1. CASE DOMAIN queue' \subseteq DOMAIN queue
  <2>1. DOMAIN queue' \in SUBSET DOMAIN queue
    BY <1>1
  <2> QED BY <2>1, FS_Subset
<1>2. CASE \E list \in TrackLists : AddTracks(list)
  <2> PICK list \in TrackLists : AddTracks(list)
    BY <1>2
  <2> DEFINE added == nextId..nextId + Len(list) - 1
  <2>1. nextId \in Int /\ nextId + Len(list) - 1 \in Int
    BY ControllerAssumption DEF TypeOK, CTypeOK
  <2>2. IsFiniteSet(added)
    BY <2>1, FS_Interval
  <2>3. DOMAIN queue' = DOMAIN queue \cup added
    BY DEF AddTracks, Updated, NewEntries
  <2>4. IsFiniteSet(DOMAIN queue \cup added)
    <3> HIDE DEF added
    <3> QED BY <2>2, FS_Union
  <2> QED BY <2>3, <2>4
<1>3. CASE HandlePlayerEvent
  <2>1. \/ queue' = queue \/ queue' = SetQueued(queue, EventId) \/ queue' = EmptyMap
        \/ queue' = Restricted(queue, QueueIds \ {EventId})
    BY <1>3
    DEF HandlePlayerEvent, OnSignal, OnTrackAdded, OnTrackStarted, OnTrackFinished,
        OnPlaybackStopped, StopData, RemoveQueuePlayer, Unaltered, Fail
  <2> QED BY <1>1, <2>1 DEF SetQueued, EmptyMap, Restricted
<1>4. CASE HandleManagerEvent
  <2>1. queue' = queue \/ \E S : queue' = Restricted(queue, S)
    BY <1>4 DEF HandleManagerEvent, OnAcquired, OnRemoved, OnFailed, RemoveTrack, Fail, Unaltered
  <2> QED BY <1>1, <2>1 DEF Restricted
<1>5. CASE \/ AnswerCall \/ PlayerProgress \/ WorkerProgress \/ PlayerRequest \/ ChangeListeners
           \/ (\E t \in TrackIds : ManagerProgress(t)) \/ UNCHANGED vars
  <2>1. queue' = queue
    BY <1>5
    DEF AnswerCall, AnswerQueueCall, AnswerPlayCall, PlayerProgress, WorkerProgress, PlayerRequest,
        ChangeListeners, ManagerProgress, vars, cvars
  <2> QED BY <1>1, <2>1
<1> QED BY <1>2, <1>3, <1>4, <1>5 DEF Next, SystemStep, ClientStep

LEMMA CoverageStep ==
    ASSUME TypeOK, TypeOK', QueueTracksKnown, IsFiniteSet(DOMAIN queue), ClaimCoverage, [Next]_vars
    PROVE  ClaimCoverage'
<1> SUFFICES ASSUME NEW t \in TrackIds PROVE Covered(t)'
  BY DEF ClaimCoverage, Covered
<1>1. Covered(t)
  BY DEF ClaimCoverage, Covered
<1>2. CASE HandlePlayerEvent
  BY <1>1, <1>2, PlayerEventCovered
<1>3. CASE HandleManagerEvent
  BY <1>1, <1>3, ManagerEventCovered
<1>4. CASE AnswerCall \/ PlayerProgress \/ PlayerRequest \/ ChangeListeners \/ UNCHANGED vars
  <2>1. queue' = queue /\ UNCHANGED mvars
    BY <1>4
    DEF AnswerCall, AnswerQueueCall, AnswerPlayCall, PlayerProgress, PlayerRequest,
        ChangeListeners, vars, cvars
  <2>2. EntriesOf(t)' = EntriesOf(t) /\ mreqs' = mreqs /\ mtracks' = mtracks /\ mevents' = mevents
    BY <2>1 DEF EntriesOf, mvars
  <2> QED BY <1>1, <2>2, QuietCovered, ReportsStay
<1>5. CASE WorkerProgress
  <2>1. EntriesOf(t)' = EntriesOf(t)
    BY <1>5 DEF EntriesOf, WorkerProgress, cvars
  <2>2. FinalClaims(t)' = FinalClaims(t) /\ (Reported("Failed", t) => Reported("Failed", t)')
    BY <1>5, WorkerClaims DEF WorkerProgress
  <2> QED BY <1>1, <2>1, <2>2, CoveredStays
<1>6. CASE \E u \in TrackIds : ManagerProgress(u)
  <2>1. EntriesOf(t)' = EntriesOf(t)
    BY <1>6 DEF EntriesOf, ManagerProgress, cvars
  <2>2. \E u \in TrackIds : Download(u)
    BY <1>6 DEF ManagerProgress, Download
  <2>3. /\ Reported("Failed", t) => Reported("Failed", t)'
        /\ FinalClaims(t)' = FinalClaims(t) \/ Reported("Failed", t)'
    BY <2>2, DownloadClaims
  <2>4. CASE Reported("Failed", t)'
    BY <2>4 DEF Covered
  <2>5. CASE FinalClaims(t)' = FinalClaims(t)
    BY <1>1, <2>1, <2>3, <2>5, CoveredStays
  <2> QED BY <2>3, <2>4, <2>5
<1>7. CASE \E list \in TrackLists : AddTracks(list)
  BY <1>1, <1>7, ListCovered
<1> QED
  BY <1>2, <1>3, <1>4, <1>5, <1>6, <1>7 DEF Next, SystemStep, ClientStep

(* Every entry of the play queue keeps a claim of its own: the claims the  *)
(* manager has counted and those still in its requests cover the entries,  *)
(* whatever clients, downloads and late events do, unless a failed         *)
(* download is about to take the entries out (controller.rs:583, 640, 736, *)
(* track_manager.rs:139-253).                                              *)
THEOREM EntriesStayClaimed == Spec => []ClaimCoverage
<1>1. Init => IsFiniteSet(DOMAIN queue)
  BY FS_EmptySet DEF Init, EmptyMap
<1>2. Init /\ TypeOK => ClaimCoverage
  <2> SUFFICES ASSUME Init, TypeOK, NEW t PROVE Covered(t)
    BY DEF ClaimCoverage, Covered
  <2>1. EntriesOf(t) = {}
    BY DEF Init, EmptyMap, EntriesOf
  <2>2. Cardinality(EntriesOf(t)) = 0
    BY <2>1, FS_EmptySet
  <2> QED BY <2>2, ClaimsNow DEF Covered
<1>3. TypeOK /\ TypeOK' /\ QueueTracksKnown /\ IsFiniteSet(DOMAIN queue) /\ ClaimCoverage /\ [Next]_vars
      => ClaimCoverage'
  BY CoverageStep
<1> QED
  BY <1>1, <1>2, <1>3, QueueFinite, CoreTypes, QueueTracksStayKnown, PTL DEF Spec
=============================================================================
