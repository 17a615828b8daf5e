----------------------------- MODULE Controller -----------------------------
(***************************************************************************)
(* The controller of src/src/controller.rs with the player and the track   *)
(* manager it drives.  Its task merges the events of both and keeps the    *)
(* play queue, which clients extend, under one read-write lock.  Requests  *)
(* to the manager are queued; a request to the player is awaited, with the *)
(* lock held, so it is a state of its own here: call.                      *)
(*                                                                         *)
(* A panic or an error of the controller task ends the program: the model  *)
(* stops there, with the reason in ctl.  Volume requests touch nothing the *)
(* controller reads and are left to the player's own module.               *)
(***************************************************************************)
EXTENDS Player, TrackManager

CONSTANTS TrackLists,     \* lists of tracks clients add
          AutoPlay,       \* Settings.auto_play
          BotEnabled,     \* the bot holds a broadcast receiver all along
          ClientOps,      \* requests that clients make
          DownloadsFail   \* the downloader may fail

ASSUME ControllerAssumption ==
    /\ TrackLists \subseteq Seq(TrackIds)
    /\ \A i \in QueueIds : 1..i \subseteq QueueIds
    /\ AutoPlay \in BOOLEAN /\ BotEnabled \in BOOLEAN /\ DownloadsFail \in BOOLEAN
    /\ ClientOps \subseteq {"transport", "stop", "skip"}

VARIABLES queue,      \* Data.queue: queue id -> track, sent to the player
          tracks,     \* Data.tracks: track -> downloaded
          nextId,     \* Data.queue_id_counter
          call,       \* the player request awaited under the lock
          listening,  \* the broadcast channel has a receiver
          ctl         \* the controller task: running, or why it ended

cvars == <<queue, tracks, nextId, call, listening, ctl>>
vars == <<pvars, mvars, cvars>>

QueueIdStart == 1

Panics == {"ready_track", "unready_track", "remove_track", "set_queued", "get_queued_track"}
Outcomes == {"running", "invalid_track", "no_receiver"} \cup Panics

NoCall == [op |-> "None"]
QueueCall(i, t) == [op |-> "Queue", id |-> i, track |-> t]
PlayCall == [op |-> "Play"]
Calls == {NoCall, PlayCall} \cup [op: {"Queue"}, id: QueueIds, track: TrackIds]

Init ==
    /\ PInit /\ MInit
    /\ queue = EmptyMap /\ tracks = EmptyMap /\ nextId = QueueIdStart
    /\ call = NoCall
    /\ listening \in {TRUE, BotEnabled}
    /\ ctl = "running"

-----------------------------------------------------------------------------
(* Operations on Data. *)

(* A map extended or overwritten with another, as BTreeMap::insert does. *)
Updated(f, g) == [x \in DOMAIN f \cup DOMAIN g |-> IF x \in DOMAIN g THEN g[x] ELSE f[x]]
Restricted(f, S) == [x \in DOMAIN f \cap S |-> f[x]]

(* Variant: the other end of the map. *)
LastId(S) == CHOOSE i \in S : \A j \in S : j <= i
FirstId(S) == CHOOSE i \in S : \A j \in S : i <= j

EntryState(entry, trs) ==
    IF entry.sent THEN "SentToPlayer"
    ELSE IF trs[entry.track] THEN "Downloaded" ELSE "NotReady"

FirstTrackState(q, trs) ==
    IF DOMAIN q = {} THEN "None" ELSE EntryState(q[FirstId(DOMAIN q)], trs)

(* queue_player: ask for the first track not sent yet, if it is here. *)
Unsent(q) == {i \in DOMAIN q : ~q[i].sent}
QueuePlayer(q, trs) ==
    \/ Unsent(q) = {} /\ call' = NoCall
    \/ \E i \in Unsent(q) :
          /\ i = FirstId(Unsent(q))
          /\ call' = IF trs[q[i].track] THEN QueueCall(i, q[i].track) ELSE NoCall

SetQueued(q, i) == [q EXCEPT ![i].sent = TRUE]
SetDownloaded(t, here) == tracks' = [tracks EXCEPT ![t] = here]

(* Data::stop: everything is forgotten and the ids start again.            *)
StopData ==
    /\ Request(Clear)
    /\ queue' = EmptyMap /\ tracks' = EmptyMap /\ nextId' = QueueIdStart

(* An id that is not in the queue is tolerated.                            *)
RemoveQueuePlayer(i) ==
    /\ queue' = Restricted(queue, QueueIds \ {i})
    /\ IF i \in DOMAIN queue THEN Request(Unclaim(queue[i].track)) ELSE UNCHANGED mvars

(* Every entry of the track goes, claims are not given back.               *)
RemoveTrack(t) ==
    /\ queue' = Restricted(queue, {i \in DOMAIN queue : queue[i].track # t})
    /\ tracks' = Restricted(tracks, TrackIds \ {t})

(* The entries and claims of a list of tracks added at the next ids. *)
NewEntries(list) ==
    [i \in nextId..nextId + Len(list) - 1 |->
        [track |-> list[i - nextId + 1], sent |-> FALSE]]
NewTracks(list) == [t \in {list[i] : i \in DOMAIN list} \ DOMAIN tracks |-> FALSE]

(* Variant: only tracks not known yet are claimed. *)
ClaimsOfNew(list) == LET new(t) == t \notin DOMAIN tracks
                         fresh == SelectSeq(list, new)
                     IN  [i \in DOMAIN fresh |-> Claim(fresh[i])]
Claims(list) == [i \in DOMAIN list |-> Claim(list[i])]

-----------------------------------------------------------------------------
(* The controller task. *)

LockFree == call = NoCall

Unaltered == UNCHANGED <<queue, tracks, nextId, call, listening>>
Fail(why) == ctl' = why /\ Unaltered
Broadcast == ctl' = IF listening THEN "running" ELSE "no_receiver"

TakePlayerEvent(type) ==
    /\ pevents # <<>> /\ Head(pevents).type = type
    /\ pevents' = Tail(pevents)
    /\ UNCHANGED <<sinkVars, volumeVars>>
EventId == Head(pevents).arg

(* Events that are only passed on; no lock, but the task itself may be in  *)
(* a call.                                                                 *)
OnSignal ==
    /\ call.op # "Queue"
    /\ \E type \in EventTypes \ {"PlaybackStopped", "TrackAdded", "TrackStarted", "TrackFinished"} :
          TakePlayerEvent(type)
    /\ Broadcast
    /\ Unaltered /\ UNCHANGED mvars

OnPlaybackStopped ==
    /\ LockFree
    /\ TakePlayerEvent("PlaybackStopped")
    /\ StopData
    /\ Broadcast
    /\ UNCHANGED <<call, listening>>

OnTrackAdded ==
    /\ LockFree
    /\ TakePlayerEvent("TrackAdded")
    /\ \/ /\ EventId \in DOMAIN queue
          /\ queue' = SetQueued(queue, EventId)
          /\ UNCHANGED <<tracks, nextId, call, listening, ctl>>
       \/ EventId \notin DOMAIN queue /\ Fail("set_queued")
    /\ UNCHANGED mvars

OnTrackStarted ==
    /\ LockFree
    /\ TakePlayerEvent("TrackStarted")
    /\ \/ EventId \in DOMAIN queue /\ Broadcast /\ Unaltered
       \/ EventId \notin DOMAIN queue /\ Fail("get_queued_track")
    /\ UNCHANGED mvars

(* The entry is removed, then the next track sent if it is here.            *)
OnTrackFinished ==
    /\ LockFree
    /\ TakePlayerEvent("TrackFinished")
    /\ RemoveQueuePlayer(EventId)
    /\ CASE FirstTrackState(queue', tracks) = "Downloaded" ->
                QueuePlayer(queue', tracks) /\ UNCHANGED ctl
         [] FirstTrackState(queue', tracks) = "SentToPlayer" -> UNCHANGED <<call, ctl>>
         [] FirstTrackState(queue', tracks) \in {"NotReady", "None"} ->
                Broadcast /\ UNCHANGED call
    /\ UNCHANGED <<tracks, nextId, listening>>

TakeManagerEvent(type) ==
    /\ ReceiveReport
    /\ Head(mevents).type = type
EventTrack == Head(mevents).id

OnAcquired ==
    /\ LockFree
    /\ TakeManagerEvent("Acquired")
    /\ \/ /\ EventTrack \in DOMAIN tracks
          /\ SetDownloaded(EventTrack, TRUE)
          /\ IF FirstTrackState(queue, tracks') = "Downloaded"
             THEN QueuePlayer(queue, tracks')
             ELSE UNCHANGED call
          /\ UNCHANGED <<queue, nextId, listening, ctl>>
       \/ EventTrack \notin DOMAIN tracks /\ Fail("ready_track")
    /\ UNCHANGED pvars

(* Removed without an error: the file was deleted on purpose. *)
OnRemoved ==
    /\ LockFree
    /\ TakeManagerEvent("Removed")
    /\ \/ /\ EventTrack \in DOMAIN tracks
          /\ SetDownloaded(EventTrack, FALSE)
          /\ UNCHANGED <<queue, nextId, call, listening, ctl>>
       \/ EventTrack \notin DOMAIN tracks /\ Fail("unready_track")
    /\ UNCHANGED pvars

(* Variant: the entries of the failed track stay in the play queue. *)
OnFailedKeepsEntries ==
    /\ LockFree
    /\ TakeManagerEvent("Failed")
    /\ tracks' = Restricted(tracks, TrackIds \ {EventTrack})
    /\ Broadcast
    /\ UNCHANGED <<pvars, queue, nextId, call, listening>>

(* Removed with the error of the download: drop every entry of the track. *)
OnFailed ==
    /\ LockFree
    /\ TakeManagerEvent("Failed")
    /\ \/ /\ EventTrack \in DOMAIN tracks
          /\ RemoveTrack(EventTrack)
          /\ Broadcast
          /\ UNCHANGED <<nextId, call, listening>>
       \/ EventTrack \notin DOMAIN tracks /\ Fail("remove_track")
    /\ UNCHANGED pvars

HandlePlayerEvent ==
    OnSignal \/ OnPlaybackStopped \/ OnTrackAdded \/ OnTrackStarted \/ OnTrackFinished
HandleManagerEvent == OnAcquired \/ OnRemoved \/ OnFailed

(* The player answers the call: InvalidTrack, which ends the task, when    *)
(* the file of the track is not there any more.                            *)
AnswerQueueCall ==
    /\ call.op = "Queue"
    /\ \/ call.track \in files /\ QueueHandler(call.id) /\ UNCHANGED ctl
       \/ /\ call.track \notin files /\ PlayerIdle
          /\ ctl' = "invalid_track" /\ UNCHANGED pvars
    /\ call' = NoCall
    /\ UNCHANGED <<mvars, queue, tracks, nextId, listening>>

AnswerPlayCall ==
    /\ call = PlayCall
    /\ PlayHandler
    /\ call' = NoCall
    /\ UNCHANGED <<mvars, queue, tracks, nextId, listening, ctl>>

AnswerCall == AnswerQueueCall \/ AnswerPlayCall

-----------------------------------------------------------------------------
(* Clients. *)

(* Claims and entries are made in one critical section, which AutoPlay     *)
(* prolongs until the player has answered.                                 *)
AddTracks(list) ==
    /\ LockFree
    /\ nextId + Len(list) - 1 \in QueueIds \cup {QueueIdStart - 1}
    /\ mreqs' = mreqs \o Claims(list)
    /\ queue' = Updated(queue, NewEntries(list))
    /\ tracks' = Updated(tracks, NewTracks(list))
    /\ nextId' = nextId + Len(list)
    /\ call' = IF AutoPlay /\ DOMAIN queue = {} THEN PlayCall ELSE NoCall
    /\ UNCHANGED <<pvars, dataVars, fetching, fetched, files, mevents, listening, ctl>>

PlayerRequest ==
    /\ \/ "transport" \in ClientOps /\ TransportRequest
       \/ "stop" \in ClientOps /\ StopHandler
       \/ "skip" \in ClientOps /\ SkipHandler
    /\ UNCHANGED <<mvars, cvars>>

(* Connections of the admin server come and go; without the bot the last   *)
(* one to go leaves the broadcast channel without a receiver, as soon as   *)
(* its notifier has failed to pass one event on.                           *)
Connect == ~listening /\ listening' = TRUE
Disconnect == listening /\ ~BotEnabled /\ listening' = FALSE
ChangeListeners ==
    /\ Connect \/ Disconnect
    /\ UNCHANGED <<pvars, mvars, queue, tracks, nextId, call, ctl>>

-----------------------------------------------------------------------------
PlayerProgress == (AudioThread \/ StopCleared) /\ UNCHANGED <<mvars, cvars>>
ManagerProgress(t) ==
    /\ FetchDone(t) \/ (DownloadsFail /\ FetchFailed(t)) \/ DownloadFinish(t) \/ DownloadPanic(t)
    /\ UNCHANGED <<pvars, cvars>>
WorkerProgress == ManagerWorker /\ UNCHANGED <<pvars, cvars>>

SystemStep ==
    \/ HandlePlayerEvent \/ HandleManagerEvent \/ AnswerCall
    \/ PlayerProgress
    \/ WorkerProgress
    \/ \E t \in TrackIds : ManagerProgress(t)

ClientStep ==
    \/ \E list \in TrackLists : AddTracks(list)
    \/ PlayerRequest
    \/ ChangeListeners

Next == ctl = "running" /\ (SystemStep \/ ClientStep)

Spec == Init /\ [][Next]_vars

-----------------------------------------------------------------------------
(* The state has its types. *)
CTypeOK ==
    /\ DOMAIN queue \subseteq QueueIds
    /\ queue \in [DOMAIN queue -> [track: TrackIds, sent: BOOLEAN]]
    /\ DOMAIN tracks \subseteq TrackIds /\ tracks \in [DOMAIN tracks -> BOOLEAN]
    /\ nextId \in Nat \ {0}
    /\ call \in Calls
    /\ listening \in BOOLEAN
    /\ ctl \in Outcomes

TypeOK == PTypeOK /\ MTypeOK /\ CTypeOK

(* Every entry of the play queue has its track in the track map, which is  *)
(* what the unwraps of controller.rs:614, 633, 694, 717 and 802 rely on.   *)
QueueTracksKnown == \A i \in DOMAIN queue : queue[i].track \in DOMAIN tracks

(* Claims the manager will hold on t once it has taken every request.      *)
LastClear == LET cleared == {i \in DOMAIN mreqs : mreqs[i] = Clear}
             IN  IF cleared = {} THEN 0 ELSE CHOOSE i \in cleared : \A j \in cleared : j <= i
FinalClaims(t) ==
    LET start == IF LastClear = 0 /\ t \in DOMAIN mtracks THEN mtracks[t].claims ELSE 0
        after[i \in LastClear..Len(mreqs)] ==
            IF i = LastClear THEN start
            ELSE IF mreqs[i] = Claim(t) THEN after[i - 1] + 1
            ELSE IF mreqs[i] = Unclaim(t) /\ after[i - 1] > 0 THEN after[i - 1] - 1
            ELSE after[i - 1]
    IN  after[Len(mreqs)]

EntriesOf(t) == {i \in DOMAIN queue : queue[i].track = t}
Reported(type, t) == \E i \in DOMAIN mevents : mevents[i] = [type |-> type, id |-> t]

(* Every entry of the play queue has a claim of its own: once the manager  *)
(* has taken the requests sent so far it counts at least as many claims of *)
(* a track as the queue has entries of it, whatever clients, downloads and *)
(* late events do; a failed download voids them all until the controller   *)
(* has dropped the entries.  It says nothing of the file before that: a    *)
(* track finished and added again waits as Unclaim, then Claim, and the    *)
(* manager deletes its file and downloads it anew.                         *)
ClaimCoverage ==
    \A t \in TrackIds : Reported("Failed", t) \/ Cardinality(EntriesOf(t)) <= FinalClaims(t)

PlayerReported(type, i) == \E k \in DOMAIN pevents : pevents[k] = Event(type, i)
InSink(kind, i) == \E k \in DOMAIN sink : sink[k] = [kind |-> kind, id |-> i]

(* An entry marked as sent is still to be reported as finished.            *)
SentWillFinish ==
    \A i \in DOMAIN queue :
        queue[i].sent => InSink("finished", i) \/ PlayerReported("TrackFinished", i)

(* Tracks reach the player in the order of the play queue: the sink never  *)
(* holds a later entry before an earlier one, nor one that overtakes an    *)
(* entry still to be sent (controller.rs:712).                             *)
PlayInQueueOrder ==
    /\ \A k \in 1..Len(sink) - 1 : sink[k].id <= sink[k + 1].id
    /\ \A k \in DOMAIN sink : \A i \in Unsent(queue) : sink[k].id <= i

(* While playback is not paused again and again, no entry stays in the     *)
(* queue for ever: its track is downloaded, sent, played and removed, as   *)
(* "start playback automatically after adding tracks to empty queue"       *)
(* (cli.rs:48) wants, unless the program ends.                             *)
QueueDrains ==
    \A i \in QueueIds :
        <>[](i \in DOMAIN queue) => []<>(paused \/ ctl # "running")

(* No unwrap of the controller task meets a missing entry.                 *)
NoPanic == ctl \notin Panics

=============================================================================
