-------------------------- MODULE ControllerProofs --------------------------
(* Invariants of the core as a whole, for every set of tracks and queue    *)
(* ids, every cache size and every choice of what clients may do.  The     *)
(* player in it takes only steps of Player, and the manager only steps of  *)
(* TrackManager but for the claims of a whole list, so what is proved of   *)
(* the parts carries over.                                                 *)
EXTENDS Controller, PlayerProofs, TrackManagerProofs

(* The parts of the controller's types that its operations share. *)
QueueEntries == [track: TrackIds, sent: BOOLEAN]
QueueOK(q) == DOMAIN q \subseteq QueueIds /\ q \in [DOMAIN q -> QueueEntries]
TracksOK(trs) == DOMAIN trs \subseteq TrackIds /\ trs \in [DOMAIN trs -> BOOLEAN]

LEMMA CTypeParts ==
    CTypeOK <=> /\ QueueOK(queue) /\ TracksOK(tracks) /\ nextId \in Nat \ {0}
                /\ call \in Calls /\ listening \in BOOLEAN /\ ctl \in Outcomes
BY DEF CTypeOK, QueueOK, TracksOK, QueueEntries

LEMMA RestrictedTypes ==
    ASSUME NEW q, NEW S
    PROVE  /\ QueueOK(q) => QueueOK(Restricted(q, S))
           /\ TracksOK(q) => TracksOK(Restricted(q, S))
BY DEF QueueOK, TracksOK, Restricted

LEMMA EmptyTypes == QueueOK(EmptyMap) /\ TracksOK(EmptyMap)
BY DEF QueueOK, TracksOK, EmptyMap

LEMMA QueueCallTypes ==
    ASSUME NEW q, QueueOK(q), NEW trs, QueuePlayer(q, trs)
    PROVE  call' \in Calls
<1>1. NoCall \in Calls
  BY DEF Calls
<1>2. ASSUME NEW i \in Unsent(q) PROVE QueueCall(i, q[i].track) \in Calls
  <2>1. i \in QueueIds /\ q[i].track \in TrackIds
    BY DEF Unsent, QueueOK, QueueEntries
  <2> QED BY <2>1 DEF QueueCall, Calls
<1> QED BY <1>1, <1>2 DEF QueuePlayer

LEMMA SetDownloadedTypes ==
    ASSUME TracksOK(tracks), NEW t, NEW here \in BOOLEAN, SetDownloaded(t, here)
    PROVE  TracksOK(tracks') /\ DOMAIN tracks' = DOMAIN tracks
BY DEF SetDownloaded, TracksOK

LEMMA SetQueuedTypes ==
    ASSUME QueueOK(queue), NEW i, queue' = SetQueued(queue, i)
    PROVE  QueueOK(queue')
BY DEF SetQueued, QueueOK, QueueEntries

(* Ids given out together stay within the ids there are. *)
LEMMA AddTracksTypes ==
    ASSUME QueueOK(queue), TracksOK(tracks), nextId \in Nat \ {0},
           NEW list \in TrackLists, AddTracks(list)
    PROVE  QueueOK(queue') /\ TracksOK(tracks') /\ nextId' \in Nat \ {0}
<1>1. list \in Seq(TrackIds) /\ Len(list) \in Nat
  BY ControllerAssumption
<1>2. nextId' \in Nat \ {0}
  BY <1>1 DEF AddTracks
<1>3. \A i \in nextId..nextId + Len(list) - 1 : i \in QueueIds /\ list[i - nextId + 1] \in TrackIds
  <2> TAKE i \in nextId..nextId + Len(list) - 1
  <2>1. nextId + Len(list) - 1 \in QueueIds /\ i \in 1..nextId + Len(list) - 1
    BY <1>1 DEF AddTracks, QueueIdStart
  <2>2. i - nextId + 1 \in 1..Len(list)
    BY <1>1
  <2> QED BY <1>1, <2>1, <2>2, ControllerAssumption
<1>4. QueueOK(NewEntries(list))
  BY <1>3 DEF QueueOK, QueueEntries, NewEntries
<1>5. QueueOK(queue')
  BY <1>4 DEF AddTracks, QueueOK, Updated
<1>6. TracksOK(NewTracks(list))
  BY <1>1 DEF TracksOK, NewTracks
<1>7. TracksOK(tracks')
  BY <1>6 DEF AddTracks, TracksOK, Updated
<1> QED BY <1>2, <1>5, <1>7

-----------------------------------------------------------------------------
LEMMA PlayerEventKeepsTypes ==
    ASSUME CTypeOK, ctl = "running", HandlePlayerEvent
    PROVE  CTypeOK'
<1>1. /\ QueueOK(queue) /\ TracksOK(tracks) /\ nextId \in Nat \ {0}
      /\ call \in Calls /\ listening \in BOOLEAN
  BY CTypeParts
<1> SUFFICES /\ QueueOK(queue') /\ TracksOK(tracks') /\ nextId' \in Nat \ {0}
             /\ call' \in Calls /\ listening' \in BOOLEAN /\ ctl' \in Outcomes
  BY DEF CTypeOK, QueueOK, TracksOK, QueueEntries
<1>2. CASE OnSignal
  BY <1>1, <1>2 DEF OnSignal, Broadcast, Unaltered, Outcomes
<1>3. CASE OnPlaybackStopped
  BY <1>1, <1>3, EmptyTypes DEF OnPlaybackStopped, StopData, Broadcast, Outcomes, QueueIdStart
<1>4. CASE OnTrackAdded
  BY <1>1, <1>4, SetQueuedTypes DEF OnTrackAdded, Fail, Unaltered, Outcomes, Panics
<1>5. CASE OnTrackStarted
  BY <1>1, <1>5 DEF OnTrackStarted, Fail, Broadcast, Unaltered, Outcomes, Panics
<1>6. CASE OnTrackFinished
  <2>1. QueueOK(queue')
    BY <1>1, <1>6, RestrictedTypes DEF OnTrackFinished, RemoveQueuePlayer
  <2>2. (QueuePlayer(queue', tracks) /\ UNCHANGED ctl) \/ UNCHANGED <<call, ctl>>
        \/ (Broadcast /\ UNCHANGED call)
    BY <1>6 DEF OnTrackFinished, FirstTrackState, EntryState
  <2>3. call' \in Calls
    BY <1>1, <2>1, <2>2, QueueCallTypes
  <2>4. ctl' \in Outcomes
    BY <2>2 DEF Broadcast, Outcomes
  <2> QED BY <1>1, <1>6, <2>1, <2>3, <2>4 DEF OnTrackFinished
<1> QED BY <1>2, <1>3, <1>4, <1>5, <1>6 DEF HandlePlayerEvent

LEMMA ManagerEventKeepsTypes ==
    ASSUME CTypeOK, ctl = "running", HandleManagerEvent
    PROVE  CTypeOK'
<1>1. /\ QueueOK(queue) /\ TracksOK(tracks) /\ nextId \in Nat \ {0}
      /\ call \in Calls /\ listening \in BOOLEAN
  BY CTypeParts
<1> SUFFICES /\ QueueOK(queue') /\ TracksOK(tracks') /\ nextId' \in Nat \ {0}
             /\ call' \in Calls /\ listening' \in BOOLEAN /\ ctl' \in Outcomes
  BY DEF CTypeOK, QueueOK, TracksOK, QueueEntries
<1>2. CASE OnAcquired
  BY <1>1, <1>2, SetDownloadedTypes, QueueCallTypes
  DEF OnAcquired, Fail, Unaltered, Outcomes, Panics
<1>3. CASE OnRemoved
  BY <1>1, <1>3, SetDownloadedTypes DEF OnRemoved, Fail, Unaltered, Outcomes, Panics
<1>4. CASE OnFailed
  BY <1>1, <1>4, RestrictedTypes
  DEF OnFailed, RemoveTrack, Fail, Broadcast, Unaltered, Outcomes, Panics
<1> QED BY <1>2, <1>3, <1>4 DEF HandleManagerEvent

LEMMA ControllerTypesStep ==
    ASSUME CTypeOK, [Next]_vars
    PROVE  CTypeOK'
<1>1. CASE HandlePlayerEvent /\ ctl = "running"
  BY <1>1, PlayerEventKeepsTypes
<1>2. CASE HandleManagerEvent /\ ctl = "running"
  BY <1>2, ManagerEventKeepsTypes
<1>3. CASE AnswerCall
  BY <1>3 DEF AnswerCall, AnswerQueueCall, AnswerPlayCall, CTypeOK, Calls, Outcomes
<1>4. CASE \E list \in TrackLists : AddTracks(list)
  <2> PICK list \in TrackLists : AddTracks(list)
    BY <1>4
  <2>1. QueueOK(queue') /\ TracksOK(tracks') /\ nextId' \in Nat \ {0}
    BY AddTracksTypes DEF CTypeOK, QueueOK, TracksOK, QueueEntries
  <2>2. call' \in Calls /\ UNCHANGED <<listening, ctl>>
    BY DEF AddTracks, Calls
  <2> QED BY <2>1, <2>2 DEF CTypeOK, QueueOK, TracksOK, QueueEntries
<1>5. CASE ChangeListeners
  BY <1>5 DEF ChangeListeners, Connect, Disconnect, CTypeOK
<1>6. CASE UNCHANGED cvars
  BY <1>6 DEF cvars, CTypeOK
<1> QED
  BY <1>1, <1>2, <1>3, <1>4, <1>5, <1>6
  DEF Next, SystemStep, ClientStep, PlayerProgress, WorkerProgress, ManagerProgress,
      PlayerRequest, vars

LEMMA ControllerTypes == Spec => []CTypeOK
<1>1. ASSUME Init PROVE CTypeOK
  <2>1. NoCall \in Calls /\ QueueIdStart \in Nat \ {0} /\ "running" \in Outcomes
    BY DEF Calls, QueueIdStart, Outcomes
  <2>2. listening \in BOOLEAN
    BY <1>1, ControllerAssumption DEF Init
  <2>3. QueueOK(queue) /\ TracksOK(tracks)
    BY <1>1, EmptyTypes DEF Init
  <2> QED BY <1>1, <2>1, <2>2, <2>3, CTypeParts DEF Init
<1> QED BY <1>1, ControllerTypesStep, PTL DEF Spec

-----------------------------------------------------------------------------
(* What the core asks of the player it may ask: every step is one of the   *)
(* player's or leaves it alone.                                            *)
LEMMA PlayerStep ==
    ASSUME CTypeOK, [Next]_vars
    PROVE  [PNext]_pvars
<1>1. CASE UNCHANGED pvars
  BY <1>1
<1>2. ASSUME NEW type, TakePlayerEvent(type) PROVE PNext
  BY <1>2 DEF TakePlayerEvent, PNext, ReceiveEvent
<1>3. CASE HandlePlayerEvent
  BY <1>2, <1>3 DEF HandlePlayerEvent, OnSignal, OnPlaybackStopped, OnTrackAdded,
                    OnTrackStarted, OnTrackFinished
<1>4. CASE HandleManagerEvent
  BY <1>4 DEF HandleManagerEvent, OnAcquired, OnRemoved, OnFailed
<1>5. CASE AnswerCall
  <2>1. CASE call.op = "Queue" /\ QueueHandler(call.id)
    <3>1. call.id \in QueueIds
      BY <2>1 DEF CTypeOK, Calls, NoCall, PlayCall
    <3> QED BY <2>1, <3>1 DEF PNext
  <2> QED BY <1>5, <2>1 DEF AnswerCall, AnswerQueueCall, AnswerPlayCall, PNext, TransportRequest
<1>6. CASE PlayerProgress \/ PlayerRequest
  BY <1>6 DEF PlayerProgress, PlayerRequest, PNext
<1>7. CASE \E list \in TrackLists : AddTracks(list)
  BY <1>7 DEF AddTracks
<1>8. CASE ChangeListeners \/ WorkerProgress \/ \E t \in TrackIds : ManagerProgress(t)
  BY <1>8 DEF ChangeListeners, WorkerProgress, ManagerProgress
<1> QED
  BY <1>1, <1>3, <1>4, <1>5, <1>6, <1>7, <1>8 DEF Next, SystemStep, ClientStep, vars

(* The core drives the player as its specification allows: in particular   *)
(* the ids it queues are ids of the play queue.                            *)
THEOREM PlayerImplemented == Spec => PSpec
<1>1. Init => PInit
  BY DEF Init
<1> QED BY <1>1, ControllerTypes, PlayerStep, PTL DEF Spec, PSpec

-----------------------------------------------------------------------------
(* Several requests to the manager in one critical section, as AddTracks   *)
(* makes.                                                                  *)
RequestAll ==
    /\ mreqs \in Seq(Requests) => mreqs' \in Seq(Requests)
    /\ UNCHANGED <<dataVars, fetching, fetched, files, mevents>>

LEMMA ClaimsTypes ==
    ASSUME NEW list \in Seq(TrackIds)
    PROVE  Claims(list) \in Seq(Requests)
<1>1. \A i \in 1..Len(list) : Claim(list[i]) \in Requests
  BY DEF Claim, Requests
<1>2. Len(list) \in Nat /\ DOMAIN list = 1..Len(list)
  OBVIOUS
<1> QED BY <1>1, <1>2 DEF Claims

LEMMA ManagerStepOfCore ==
    ASSUME CTypeOK, [Next]_vars
    PROVE  [MNext]_mvars \/ RequestAll
<1>1. CASE UNCHANGED mvars
  BY <1>1
<1>2. CASE HandlePlayerEvent
  <2>1. Clear \in Requests
    BY DEF Clear, Requests
  <2>2. ASSUME NEW i \in DOMAIN queue PROVE Unclaim(queue[i].track) \in Requests
    BY DEF CTypeOK, Unclaim, Requests
  <2> QED
    BY <1>2, <2>1, <2>2
    DEF HandlePlayerEvent, OnSignal, OnPlaybackStopped, StopData, OnTrackAdded,
        OnTrackStarted, OnTrackFinished, RemoveQueuePlayer, MNext
<1>3. CASE HandleManagerEvent
  BY <1>3 DEF HandleManagerEvent, OnAcquired, OnRemoved, OnFailed, TakeManagerEvent, MNext
<1>4. CASE \E list \in TrackLists : AddTracks(list)
  <2> PICK list \in TrackLists : AddTracks(list)
    BY <1>4
  <2>1. Claims(list) \in Seq(Requests)
    BY ClaimsTypes, ControllerAssumption
  <2>2. mreqs' = mreqs \o Claims(list)
        /\ UNCHANGED <<dataVars, fetching, fetched, files, mevents>>
    BY DEF AddTracks
  <2>3. mreqs \in Seq(Requests) => mreqs' \in Seq(Requests)
    BY <2>1, <2>2
  <2> QED BY <2>2, <2>3 DEF RequestAll
<1>5. CASE WorkerProgress \/ \E t \in TrackIds : ManagerProgress(t)
  BY <1>5 DEF WorkerProgress, ManagerProgress, MNext, ManagerStep, Download
<1>6. CASE AnswerCall \/ PlayerProgress \/ PlayerRequest \/ ChangeListeners
  BY <1>6
  DEF AnswerCall, AnswerQueueCall, AnswerPlayCall, PlayerProgress, PlayerRequest, ChangeListeners
<1> QED
  BY <1>1, <1>2, <1>3, <1>4, <1>5, <1>6 DEF Next, SystemStep, ClientStep, vars

(* Requests for a whole list disturb nothing the manager promises.         *)
LEMMA RequestAllKeeps ==
    ASSUME MTypeOK, RequestAll
    PROVE  /\ MTypeOK'
           /\ Finite => Finite'
           /\ SlotsInUse => SlotsInUse'
           /\ MissingHasDownload => MissingHasDownload'
<1>1. MTypeOK' /\ (MissingHasDownload => MissingHasDownload')
  BY DEF RequestAll, dataVars, MTypeOK, MissingHasDownload, Missing, Tasks, Waiting
<1>2. Running' = Running /\ Kept' = Kept
  BY SlotsSame DEF RequestAll
<1> QED BY <1>1, <1>2 DEF RequestAll, dataVars, Finite, SlotsInUse, InUse

(* The state of the whole core keeps its types.                            *)
THEOREM CoreTypes == Spec => []TypeOK
<1>1. Init => MTypeOK
  BY ManagerAssumption DEF Init, MInit, MTypeOK, EmptyMap
<1>2. CTypeOK /\ MTypeOK /\ [Next]_vars => MTypeOK'
  BY ManagerStepOfCore, ManagerTypesStep, RequestAllKeeps
<1>3. Spec => []MTypeOK
  BY <1>1, <1>2, ControllerTypes, PTL DEF Spec
<1> QED BY <1>3, ControllerTypes, PlayerImplemented, PlayerTypes, PTL DEF TypeOK

(* In the core too, where lists of claims arrive in one critical section,  *)
(* every step leaves each slot counted in use and no track waiting beside  *)
(* a free one, but for Clear and the ends of superfluous downloads.        *)
THEOREM CoreSlotsAreHandedOn == Spec => SlotsStayInUse
<1>1. Init => Finite
  BY SlotsInit DEF Init
<1>2. CTypeOK /\ MTypeOK /\ Finite /\ [Next]_vars => Finite'
  BY ManagerStepOfCore, FiniteStep, RequestAllKeeps
<1>3. CTypeOK /\ MTypeOK /\ Finite /\ [Next]_vars
      => [SlotsInUse => SlotsInUse' \/ ClearHandler \/ \E t \in TrackIds : SlotLost(t)]_mvars
  BY ManagerStepOfCore, SlotsInUseStep, RequestAllKeeps
<1>4. Spec => []MTypeOK
  BY CoreTypes, PTL DEF TypeOK
<1> QED BY <1>1, <1>2, <1>3, <1>4, ControllerTypes, PTL DEF Spec, SlotsStayInUse

(* A track whose claim the manager has taken and whose file is missing has *)
(* a download running or waiting, whatever clients, player and downloader  *)
(* do.                                                                     *)
THEOREM CoreNoForgottenTrack == Spec => []MissingHasDownload
<1>1. Init => MissingHasDownload
  BY DEF Init, MInit, EmptyMap, MissingHasDownload
<1>2. CTypeOK /\ MTypeOK /\ MissingHasDownload /\ [Next]_vars => MissingHasDownload'
  BY ManagerStepOfCore, NoForgottenStep, RequestAllKeeps
<1>3. Spec => []MTypeOK
  BY CoreTypes, PTL DEF TypeOK
<1> QED BY <1>1, <1>2, <1>3, ControllerTypes, PTL DEF Spec

-----------------------------------------------------------------------------
LEMMA QueueTracksKnownStep ==
    ASSUME CTypeOK, QueueTracksKnown, [Next]_vars
    PROVE  QueueTracksKnown'
<1>1. ASSUME NEW S, queue' = Restricted(queue, S), DOMAIN tracks' = DOMAIN tracks
      PROVE  QueueTracksKnown'
  BY <1>1 DEF Restricted, QueueTracksKnown
<1>2. ASSUME queue' = queue, DOMAIN tracks' = DOMAIN tracks
      PROVE  QueueTracksKnown'
  BY <1>2 DEF QueueTracksKnown
<1>3. CASE HandlePlayerEvent
  <2>1. CASE OnPlaybackStopped
    BY <2>1 DEF OnPlaybackStopped, StopData, EmptyMap, QueueTracksKnown
  <2>2. CASE OnTrackAdded
    <3>1. CASE queue' = SetQueued(queue, EventId)
      BY <2>2, <3>1 DEF OnTrackAdded, Fail, Unaltered, SetQueued, QueueTracksKnown, CTypeOK
    <3> QED BY <1>2, <2>2, <3>1 DEF OnTrackAdded, Fail, Unaltered
  <2>3. CASE OnTrackFinished
    BY <1>1, <2>3 DEF OnTrackFinished, RemoveQueuePlayer
  <2>4. CASE OnSignal \/ OnTrackStarted
    BY <1>2, <2>4 DEF OnSignal, OnTrackStarted, Fail, Unaltered
  <2> QED BY <1>3, <2>1, <2>2, <2>3, <2>4 DEF HandlePlayerEvent
<1>4. CASE HandleManagerEvent
  <2>1. CASE OnAcquired \/ OnRemoved
    BY <1>2, <2>1 DEF OnAcquired, OnRemoved, SetDownloaded, Fail, Unaltered
  <2>2. CASE OnFailed
    <3>1. CASE RemoveTrack(EventTrack)
      BY <3>1 DEF RemoveTrack, Restricted, QueueTracksKnown, CTypeOK
    <3> QED BY <1>2, <2>2, <3>1 DEF OnFailed, Fail, Unaltered
  <2> QED BY <1>4, <2>1, <2>2 DEF HandleManagerEvent
<1>5. CASE \E list \in TrackLists : AddTracks(list)
  <2> PICK list \in TrackLists : AddTracks(list)
    BY <1>5
  <2>1. list \in Seq(TrackIds) /\ Len(list) \in Nat
    BY ControllerAssumption
  <2>2. ASSUME NEW i \in DOMAIN NewEntries(list)
        PROVE  NewEntries(list)[i].track \in DOMAIN tracks'
    <3>1. i - nextId + 1 \in DOMAIN list /\ NewEntries(list)[i].track = list[i - nextId + 1]
      BY <2>1, <2>2 DEF NewEntries, CTypeOK
    <3> QED BY <3>1 DEF AddTracks, Updated, NewTracks
  <2>3. \A i \in DOMAIN queue : queue[i].track \in DOMAIN tracks'
    BY DEF AddTracks, Updated, QueueTracksKnown
  <2> QED BY <2>2, <2>3 DEF AddTracks, Updated, QueueTracksKnown
<1>6. CASE UNCHANGED <<queue, tracks>>
  BY <1>2, <1>6
<1> QED
  BY <1>3, <1>4, <1>5, <1>6
  DEF Next, SystemStep, ClientStep, AnswerCall, AnswerQueueCall, AnswerPlayCall,
      PlayerProgress, WorkerProgress, ManagerProgress, PlayerRequest, ChangeListeners,
      vars, cvars

(* No entry of the play queue outlives its track in the track map, in      *)
(* whatever order tracks are added, fail, finish and are forgotten: the    *)
(* unwraps of controller.rs:614, 633, 694, 717 and 802 never fail.         *)
THEOREM QueueTracksStayKnown == Spec => []QueueTracksKnown
<1>1. Init => QueueTracksKnown
  BY DEF Init, EmptyMap, QueueTracksKnown
<1> QED BY <1>1, QueueTracksKnownStep, ControllerTypes, PTL DEF Spec
=============================================================================
