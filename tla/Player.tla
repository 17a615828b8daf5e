------------------------------- MODULE Player -------------------------------
(***************************************************************************)
(* The audio player of src/src/player.rs: a thread that answers requests   *)
(* one at a time, and the rodio sink it drives, which the audio thread     *)
(* empties on its own.  Every track is appended as three sources: an empty *)
(* source whose callback reports TrackStarted, the track, and an empty     *)
(* source whose callback reports TrackFinished.  Events of both threads    *)
(* meet in one unbounded channel, pevents.                                 *)
(***************************************************************************)
EXTENDS Integers, Sequences, FiniteSets

CONSTANTS QueueIds,     \* queue ids the controller hands out
          MinVolume,    \* MIN_VOLUME
          MaxVolume     \* MAX_VOLUME

ASSUME PlayerAssumption ==
    /\ QueueIds \subseteq Nat \ {0}
    /\ MinVolume \in Nat \ {0} /\ MaxVolume \in Nat
    /\ MinVolume <= MaxVolume /\ MaxVolume < 256

VARIABLES sink,       \* sources not yet played, the playing one first
          toClear,    \* Sink.to_clear: sources still to be skipped
          paused,     \* Sink.is_paused
          stopping,   \* the thread is inside Sink.clear
          muted,      \* Worker.is_muted
          level,      \* Worker.volume_level
          gain,       \* level the sink amplifies with, 0 when silent
          pevents     \* channel to the controller

sinkVars == <<sink, toClear, paused, stopping>>
volumeVars == <<muted, level, gain>>
pvars == <<sink, toClear, paused, stopping, muted, level, gain, pevents>>

Volumes == MinVolume..MaxVolume
SourceKinds == {"started", "track", "finished"}
Sources == [kind: SourceKinds, id: QueueIds]

EventTypes == {"PlaybackStarted", "PlaybackPaused", "PlaybackStopped", "Muted",
               "Unmuted", "Volume", "TrackAdded", "TrackStarted", "TrackFinished"}
PlayerEvents == [type: EventTypes, arg: Nat]

Event(t, x) == [type |-> t, arg |-> x]
Signal(t) == Event(t, 0)

Send(e) == pevents' = Append(pevents, e)
SendIf(condition, e) == pevents' = IF condition THEN Append(pevents, e) ELSE pevents

PInit ==
    /\ sink = <<>> /\ toClear = 0 /\ paused = TRUE /\ stopping = FALSE
    /\ muted = FALSE /\ level = MaxVolume /\ gain = MaxVolume
    /\ pevents = <<>>

-----------------------------------------------------------------------------
(* Requests.  The thread takes the next one only when it is done with the  *)
(* last, so none is handled while Sink.clear waits.                        *)

PlayerIdle == ~stopping

PlayHandler ==
    /\ PlayerIdle
    /\ paused' = FALSE
    /\ SendIf(paused, Signal("PlaybackStarted"))
    /\ UNCHANGED <<sink, toClear, stopping, volumeVars>>

PauseHandler ==
    /\ PlayerIdle
    /\ paused' = TRUE
    /\ SendIf(~paused, Signal("PlaybackPaused"))
    /\ UNCHANGED <<sink, toClear, stopping, volumeVars>>

PlayToggleHandler == IF paused THEN PlayHandler ELSE PauseHandler

(* PlaybackStopped is announced before the sink is cleared, and only when  *)
(* there is something to clear.  Sink.clear waits for the audio thread.    *)
StopHandler ==
    /\ PlayerIdle
    /\ stopping' = TRUE
    /\ SendIf(sink # <<>>, Signal("PlaybackStopped"))
    /\ UNCHANGED <<sink, toClear, paused, volumeVars>>

(* The rest of stop_handler: the cleared sources are dropped, callbacks    *)
(* and all, without being played.                                          *)
StopCleared ==
    /\ stopping
    /\ sink' = <<>> /\ toClear' = 0 /\ paused' = TRUE /\ stopping' = FALSE
    /\ UNCHANGED <<volumeVars, pevents>>

(* Variant: skips are counted past the sources there are. *)
SkipHandlerUncapped ==
    /\ PlayerIdle /\ sink # <<>>
    /\ toClear' = toClear + 1
    /\ UNCHANGED <<sink, paused, stopping, volumeVars, pevents>>

(* skip_one asks the audio thread to drop one more source, if there is one. *)
SkipHandler ==
    /\ PlayerIdle
    /\ sink # <<>>
    /\ toClear' = IF Len(sink) > toClear THEN toClear + 1 ELSE toClear
    /\ UNCHANGED <<sink, paused, stopping, volumeVars, pevents>>

SetMuted(m) ==
    /\ PlayerIdle
    /\ muted # m
    /\ muted' = m
    /\ gain' = IF m THEN 0 ELSE level
    /\ Send(Signal(IF m THEN "Muted" ELSE "Unmuted"))
    /\ UNCHANGED <<sinkVars, level>>

MuteHandler == SetMuted(TRUE)
UnmuteHandler == SetMuted(FALSE)
MuteToggleHandler == SetMuted(~muted)

(* Variant: a volume request makes a muted sink audible. *)
ApplyVolumeMuted(l) ==
    /\ PlayerIdle
    /\ level' = l /\ gain' = l
    /\ Send(Event("Volume", l))
    /\ UNCHANGED <<sinkVars, muted>>

ApplyVolume(l) ==
    /\ PlayerIdle
    /\ level' = l
    /\ gain' = IF muted THEN gain ELSE l
    /\ Send(Event("Volume", l))
    /\ UNCHANGED <<sinkVars, muted>>

SetVolumeHandler(l) == l \in Volumes /\ ApplyVolume(l)

(* Variant: no saturation. *)
ChangeLevelWrapping(l, modifier) == (l + modifier) % 256

(* u8 arithmetic that saturates at both ends of the range. *)
ChangeLevel(l, modifier) ==
    IF (l = MinVolume /\ modifier < 0) \/ (l = MaxVolume /\ modifier > 0)
    THEN l ELSE (l + modifier) % 256

ChangeVolumeHandler(modifier) == ApplyVolume(ChangeLevel(level, modifier))

(* Variant: no callback after the track. *)
TripleUnfinished(id) == << [kind |-> "started", id |-> id], [kind |-> "track", id |-> id] >>

Triple(id) == << [kind |-> "started", id |-> id],
                 [kind |-> "track", id |-> id],
                 [kind |-> "finished", id |-> id] >>

(* The file is opened first; when it cannot be, InvalidTrack is returned   *)
(* and nothing changes.                                                    *)
QueueHandler(id) ==
    /\ PlayerIdle
    /\ Send(Event("TrackAdded", id))
    /\ sink' = sink \o Triple(id)
    /\ UNCHANGED <<toClear, paused, stopping, volumeVars>>

(* Variant: a track being left counts as one to play. *)
StatusLengthRoundedUp == Len(sink) \div 3 + (IF Len(sink) % 3 > 0 THEN 1 ELSE 0)

(* Status.length: how many tracks are left, from the number of sources. *)
StatusLength == Len(sink) \div 3 + (IF Len(sink) % 3 > 1 THEN 1 ELSE 0)

-----------------------------------------------------------------------------
(* The audio thread.  A pending skip drops the head source unplayed, paused *)
(* or not; otherwise sources advance only while the sink is not paused.     *)

AudioSkip ==
    /\ toClear > 0
    /\ sink' = Tail(sink)
    /\ toClear' = toClear - 1
    /\ UNCHANGED <<paused, stopping, volumeVars, pevents>>

Playing(kind) == ~paused /\ toClear = 0 /\ sink # <<>> /\ Head(sink).kind = kind

AudioStarted ==
    /\ Playing("started")
    /\ Send(Event("TrackStarted", Head(sink).id))
    /\ sink' = Tail(sink)
    /\ UNCHANGED <<toClear, paused, stopping, volumeVars>>

AudioTrackEnd ==
    /\ Playing("track")
    /\ sink' = Tail(sink)
    /\ UNCHANGED <<toClear, paused, stopping, volumeVars, pevents>>

AudioFinished ==
    /\ Playing("finished")
    /\ Send(Event("TrackFinished", Head(sink).id))
    /\ sink' = Tail(sink)
    /\ UNCHANGED <<toClear, paused, stopping, volumeVars>>

AudioThread == AudioSkip \/ AudioStarted \/ AudioTrackEnd \/ AudioFinished

-----------------------------------------------------------------------------
(* Requests that concern nothing but the player: any client, at any time. *)

TransportRequest == PlayHandler \/ PauseHandler \/ PlayToggleHandler
VolumeRequest ==
    \/ MuteHandler \/ UnmuteHandler \/ MuteToggleHandler
    \/ \E l \in Volumes : SetVolumeHandler(l)
    \/ \E modifier \in {-1, 1} : ChangeVolumeHandler(modifier)

(* The player with any requests and a controller that reads its events. *)
ReceiveEvent ==
    /\ pevents # <<>>
    /\ pevents' = Tail(pevents)
    /\ UNCHANGED <<sinkVars, volumeVars>>

PNext ==
    \/ TransportRequest
    \/ VolumeRequest
    \/ StopHandler \/ StopCleared
    \/ SkipHandler
    \/ \E id \in QueueIds : QueueHandler(id)
    \/ AudioThread
    \/ ReceiveEvent

PSpec == PInit /\ [][PNext]_pvars

-----------------------------------------------------------------------------
(* The state has its types: in particular the level never leaves the range *)
(* that VOLUME_LEVELS is indexed by (player.rs:413).                       *)
PTypeOK ==
    /\ sink \in Seq(Sources) /\ toClear \in Nat
    /\ paused \in BOOLEAN /\ stopping \in BOOLEAN
    /\ muted \in BOOLEAN /\ level \in Volumes /\ gain \in 0..MaxVolume
    /\ pevents \in Seq(PlayerEvents)

(* The sink is silent exactly while the player says it is muted, and       *)
(* otherwise amplifies with the level the player reports: no order of      *)
(* mute, unmute and volume requests makes them drift apart.                *)
GainFollowsMute == gain = IF muted THEN 0 ELSE level

(* The sources are whole triples in the order queued, except that the head *)
(* may have lost its front; a skip is only pending while it has a source.  *)
KindFromEnd(i) ==
    CASE i % 3 = 1 -> "finished" [] i % 3 = 2 -> "track" [] i % 3 = 0 -> "started"
SinkShape ==
    /\ toClear <= Len(sink)
    /\ \A i \in 1..Len(sink) : sink[i].kind = KindFromEnd(Len(sink) + 1 - i)
    /\ \A i \in 1..Len(sink) - 1 :
        sink[i].kind # "finished" => sink[i + 1].id = sink[i].id

(* The length status reports (player.rs:243) is the number of tracks that  *)
(* have not been heard to the end or skipped.                              *)
StatusLengthExact ==
    StatusLength = Cardinality({i \in DOMAIN sink : sink[i].kind = "track"})

(* What the bot's /skip promises ("skip the track", dispatch.rs:46): the  *)
(* source a skip drops is a track, not a callback of one.                  *)
SkipDropsTrack == [][AudioSkip => Head(sink).kind = "track"]_pvars
=============================================================================
