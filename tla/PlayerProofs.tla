---------------------------- MODULE PlayerProofs ----------------------------
(* Invariants of the player, for every set of queue ids and volume range.  *)
EXTENDS Player, SequenceTheorems, FiniteSetTheorems, DataInduction

(* The shape of a list of sources, apart from the skips pending on it.     *)
ShapeOK(s) ==
    /\ \A i \in 1..Len(s) : s[i].kind = KindFromEnd(Len(s) + 1 - i)
    /\ \A i \in 1..Len(s) - 1 : s[i].kind # "finished" => s[i + 1].id = s[i].id

LEMMA KindPeriod ==
    ASSUME NEW n \in Nat
    PROVE  KindFromEnd(n + 3) = KindFromEnd(n)
<1>1. (n + 3) % 3 = n % 3
  OBVIOUS
<1> QED BY <1>1 DEF KindFromEnd

LEMMA KindValues ==
    KindFromEnd(1) = "finished" /\ KindFromEnd(2) = "track" /\ KindFromEnd(3) = "started"
BY DEF KindFromEnd

LEMMA EmptyShape == <<>> \in Seq(Sources) /\ Len(<<>>) = 0 /\ ShapeOK(<<>>)
<1>1. <<>> \in Seq(Sources) /\ Len(<<>>) = 0
  OBVIOUS
<1>2. 1..0 = {} /\ 1..0 - 1 = {}
  OBVIOUS
<1> QED BY <1>1, <1>2, Zenon DEF ShapeOK

(* Dropping the head moves no source relative to the end.                  *)
LEMMA TailShape ==
    ASSUME NEW s \in Seq(Sources), s # <<>>, ShapeOK(s)
    PROVE  Tail(s) \in Seq(Sources) /\ ShapeOK(Tail(s))
<1>1. /\ Tail(s) \in Seq(Sources) /\ Len(Tail(s)) = Len(s) - 1 /\ Len(s) \in Nat
      /\ \A i \in 1..Len(s) - 1 : Tail(s)[i] = s[i + 1]
  OBVIOUS
<1>2. ASSUME NEW i \in 1..Len(s) - 1
      PROVE  Tail(s)[i].kind = KindFromEnd(Len(s) - 1 + 1 - i)
  <2>1. Len(s) \in Nat
    BY <1>1
  <2>2. Len(s) - 1 + 1 - i = Len(s) + 1 - (i + 1) /\ i + 1 \in 1..Len(s)
    BY <2>1
  <2> QED BY <1>1, <2>2 DEF ShapeOK
<1>3. ASSUME NEW i \in 1..Len(s) - 1 - 1, Tail(s)[i].kind # "finished"
      PROVE  Tail(s)[i + 1].id = Tail(s)[i].id
  <2>1. i + 1 \in 1..Len(s) - 1 /\ Tail(s)[i] = s[i + 1] /\ Tail(s)[i + 1] = s[i + 2]
    BY <1>1
  <2> QED BY <1>3, <2>1 DEF ShapeOK
<1> QED BY <1>1, <1>2, <1>3 DEF ShapeOK

LEMMA ConcatThree ==
    ASSUME NEW S, NEW s \in Seq(S), NEW r \in Seq(S), Len(r) = 3
    PROVE  /\ s \o r \in Seq(S) /\ Len(s) \in Nat /\ Len(s \o r) = Len(s) + 3
           /\ \A i \in 1..Len(s) : (s \o r)[i] = s[i]
           /\ (s \o r)[Len(s) + 1] = r[1]
           /\ (s \o r)[Len(s) + 2] = r[2]
           /\ (s \o r)[Len(s) + 3] = r[3]
<1>1. s \o r \in Seq(S) /\ Len(s) \in Nat
  OBVIOUS
<1>2. Len(s \o r) = Len(s) + Len(r)
  BY ConcatProperties
<1>3. \A i \in 1..Len(s) : (s \o r)[i] = s[i]
  OBVIOUS
<1>4. \A i \in 1..Len(s) + Len(r) :
          (s \o r)[i] = IF i <= Len(s) THEN s[i] ELSE r[i - Len(s)]
  BY ConcatProperties
<1>5. ASSUME NEW k \in 1..3
      PROVE  (s \o r)[Len(s) + k] = r[k]
  <2> DEFINE i == Len(s) + k
  <2>1. i \in 1..Len(s) + Len(r) /\ ~(i <= Len(s)) /\ i - Len(s) = k
    BY <1>1
  <2> HIDE DEF i
  <2>2. (s \o r)[i] = r[i - Len(s)]
    BY <2>1, <1>4
  <2> QED BY <2>1, <2>2, Zenon DEF i
<1> QED BY <1>1, <1>2, <1>3, <1>5

(* A triple shifts what is there by three, the period of the kinds.        *)
LEMMA TripleShape ==
    ASSUME NEW s \in Seq(Sources), NEW id \in QueueIds, ShapeOK(s)
    PROVE  s \o Triple(id) \in Seq(Sources) /\ ShapeOK(s \o Triple(id))
<1> DEFINE u == s \o Triple(id)
           n == Len(s)
<1>1. /\ Triple(id) \in Seq(Sources) /\ Len(Triple(id)) = 3
      /\ Triple(id)[1] = [kind |-> "started", id |-> id]
      /\ Triple(id)[2] = [kind |-> "track", id |-> id]
      /\ Triple(id)[3] = [kind |-> "finished", id |-> id]
  BY DEF Triple, Sources, SourceKinds
<1>2. /\ u \in Seq(Sources) /\ n \in Nat /\ Len(u) = n + 3
      /\ \A i \in 1..n : u[i] = s[i]
      /\ u[n + 1] = Triple(id)[1] /\ u[n + 2] = Triple(id)[2] /\ u[n + 3] = Triple(id)[3]
  BY <1>1, ConcatThree
<1>3. ASSUME NEW i \in 1..n + 3
      PROVE  u[i].kind = KindFromEnd(n + 3 + 1 - i)
  <2>1. CASE i \in 1..n
    <3>1. n + 1 - i \in Nat /\ n + 3 + 1 - i = (n + 1 - i) + 3
      BY <1>2, <2>1
    <3>2. u[i].kind = KindFromEnd(n + 1 - i)
      BY <1>2, <2>1 DEF ShapeOK
    <3> HIDE DEF n, u
    <3> QED BY <3>1, <3>2, KindPeriod
  <2>2. CASE i = n + 1
    BY <1>1, <1>2, <2>2, KindValues
  <2>3. CASE i = n + 2
    BY <1>1, <1>2, <2>3, KindValues
  <2>4. CASE i = n + 3
    BY <1>1, <1>2, <2>4, KindValues
  <2> QED BY <1>2, <2>1, <2>2, <2>3, <2>4
<1>4. ASSUME NEW i \in 1..n + 3 - 1, u[i].kind # "finished"
      PROVE  u[i + 1].id = u[i].id
  <2>1. CASE i \in 1..n - 1
    BY <1>2, <1>4, <2>1 DEF ShapeOK
  <2>2. CASE i = n
    <3>1. n \in 1..n /\ n + 1 - n = 1
      BY <1>2, <2>2
    <3>2. u[n].kind = KindFromEnd(1)
      BY <1>2, <3>1 DEF ShapeOK
    <3> QED BY <1>4, <2>2, <3>2, KindValues
  <2>3. CASE i = n + 1 \/ i = n + 2
    BY <1>1, <1>2, <2>3
  <2> QED BY <1>2, <2>1, <2>2, <2>3
<1> HIDE DEF u, n
<1>5. ShapeOK(u)
  BY <1>2, <1>3, <1>4 DEF ShapeOK
<1> QED BY <1>2, <1>5 DEF u

-----------------------------------------------------------------------------
(* Events keep the channel well typed.                                     *)
EventsOK == pevents \in Seq(PlayerEvents)

LEMMA EventTyped ==
    ASSUME NEW x \in Nat, NEW type \in EventTypes
    PROVE  Event(type, x) \in PlayerEvents
BY DEF Event, PlayerEvents

LEMMA ChannelTyped ==
    ASSUME EventsOK, NEW e \in PlayerEvents
    PROVE  /\ Send(e) => EventsOK'
           /\ \A condition \in BOOLEAN : SendIf(condition, e) => EventsOK'
<1>1. Append(pevents, e) \in Seq(PlayerEvents)
  BY DEF EventsOK
<1> QED BY <1>1 DEF EventsOK, Send, SendIf

LEMMA LevelTyped ==
    ASSUME NEW l \in Volumes, NEW modifier \in {-1, 1}
    PROVE  ChangeLevel(l, modifier) \in Volumes
<1>1. /\ MinVolume \in Nat \ {0} /\ MaxVolume \in Nat /\ MaxVolume < 256
      /\ l \in Int /\ MinVolume <= l /\ l <= MaxVolume
  BY PlayerAssumption DEF Volumes
<1>2. CASE (l = MinVolume /\ modifier < 0) \/ (l = MaxVolume /\ modifier > 0)
  BY <1>2 DEF ChangeLevel
<1>3. CASE ~((l = MinVolume /\ modifier < 0) \/ (l = MaxVolume /\ modifier > 0))
  <2>1. l + modifier \in MinVolume..MaxVolume
    BY <1>1, <1>3
  <2>2. (l + modifier) % 256 = l + modifier
    BY <1>1, <2>1
  <2> QED BY <1>3, <2>1, <2>2 DEF ChangeLevel, Volumes
<1> QED BY <1>2, <1>3

(* The invariant: types, the shape that keeps a skip from an empty sink,   *)
(* and the gain.                                                           *)
PInv == PTypeOK /\ SinkShape /\ GainFollowsMute

SinkOK == sink \in Seq(Sources) /\ toClear \in Nat /\ paused \in BOOLEAN
          /\ stopping \in BOOLEAN /\ SinkShape
VolumeOK == muted \in BOOLEAN /\ level \in Volumes /\ gain \in 0..MaxVolume /\ GainFollowsMute

LEMMA PInvParts == PInv <=> SinkOK /\ VolumeOK /\ EventsOK
BY DEF PInv, PTypeOK, SinkOK, VolumeOK, EventsOK

LEMMA SinkUnchanged == SinkOK /\ UNCHANGED sinkVars => SinkOK'
BY DEF SinkOK, SinkShape, sinkVars, KindFromEnd
LEMMA VolumeUnchanged == VolumeOK /\ UNCHANGED volumeVars => VolumeOK'
BY DEF VolumeOK, GainFollowsMute, volumeVars

LEMMA EmptySinkOK ==
    ASSUME sink' = <<>>, toClear' = 0, paused' \in BOOLEAN, stopping' \in BOOLEAN
    PROVE  SinkOK'
<1>1. sink' \in Seq(Sources) /\ ShapeOK(sink') /\ Len(sink') = 0
  BY EmptyShape
<1> QED BY <1>1 DEF SinkOK, SinkShape, ShapeOK

(* What the audio thread does to the sink, and what a stop does.           *)
LEMMA SinkAdvances ==
    ASSUME SinkOK, sink # <<>>, sink' = Tail(sink), UNCHANGED <<paused, stopping>>,
           (toClear' = toClear /\ toClear = 0) \/ (toClear > 0 /\ toClear' = toClear - 1)
    PROVE  SinkOK'
<1>1. ShapeOK(sink)
  BY DEF SinkOK, SinkShape, ShapeOK
<1>2. sink' \in Seq(Sources) /\ ShapeOK(sink')
  BY <1>1, TailShape DEF SinkOK
<1>3. toClear' \in Nat /\ toClear' <= Len(sink')
  BY DEF SinkOK, SinkShape
<1> QED BY <1>2, <1>3 DEF SinkOK, SinkShape, ShapeOK

LEMMA SignalTyped ==
    ASSUME NEW type \in EventTypes
    PROVE  Signal(type) \in PlayerEvents
BY EventTyped DEF Signal

-----------------------------------------------------------------------------
(* Every action keeps each part.                                           *)
LEMMA TransportKeeps ==
    ASSUME SinkOK, VolumeOK, EventsOK, TransportRequest
    PROVE  SinkOK' /\ VolumeOK' /\ EventsOK'
<1>1. CASE PlayHandler
  <2>1. EventsOK'
    BY <1>1, ChannelTyped, SignalTyped DEF PlayHandler, EventTypes, SinkOK
  <2>2. SinkOK'
    BY <1>1 DEF PlayHandler, SinkOK, SinkShape, KindFromEnd
  <2> QED BY <1>1, <2>1, <2>2, VolumeUnchanged DEF PlayHandler
<1>2. CASE PauseHandler
  <2>1. EventsOK'
    BY <1>2, ChannelTyped, SignalTyped DEF PauseHandler, EventTypes, SinkOK
  <2>2. SinkOK'
    BY <1>2 DEF PauseHandler, SinkOK, SinkShape, KindFromEnd
  <2> QED BY <1>2, <2>1, <2>2, VolumeUnchanged DEF PauseHandler
<1> QED BY <1>1, <1>2 DEF TransportRequest, PlayToggleHandler

LEMMA MuteKeeps ==
    ASSUME SinkOK, VolumeOK, EventsOK, NEW m \in BOOLEAN, SetMuted(m)
    PROVE  SinkOK' /\ VolumeOK' /\ EventsOK'
<1>1. EventsOK'
  BY ChannelTyped, SignalTyped DEF SetMuted, EventTypes
<1>2. VolumeOK'
  BY PlayerAssumption DEF SetMuted, VolumeOK, GainFollowsMute, Volumes
<1> QED BY <1>1, <1>2, SinkUnchanged DEF SetMuted

LEMMA VolumeKeeps ==
    ASSUME SinkOK, VolumeOK, EventsOK, NEW l \in Volumes, ApplyVolume(l)
    PROVE  SinkOK' /\ VolumeOK' /\ EventsOK'
<1>1. l \in Nat /\ l \in 0..MaxVolume
  BY PlayerAssumption DEF Volumes
<1>2. EventsOK'
  BY <1>1, ChannelTyped, EventTyped DEF ApplyVolume, EventTypes
<1>3. VolumeOK'
  BY <1>1 DEF ApplyVolume, VolumeOK, GainFollowsMute
<1> QED BY <1>2, <1>3, SinkUnchanged DEF ApplyVolume

LEMMA VolumeRequestKeeps ==
    ASSUME SinkOK, VolumeOK, EventsOK, VolumeRequest
    PROVE  SinkOK' /\ VolumeOK' /\ EventsOK'
<1>1. CASE MuteHandler \/ UnmuteHandler \/ MuteToggleHandler
  BY <1>1, MuteKeeps DEF MuteHandler, UnmuteHandler, MuteToggleHandler, VolumeOK
<1>2. CASE \E l \in Volumes : SetVolumeHandler(l)
  BY <1>2, VolumeKeeps DEF SetVolumeHandler
<1>3. CASE \E modifier \in {-1, 1} : ChangeVolumeHandler(modifier)
  <2>1. PICK modifier \in {-1, 1} : ApplyVolume(ChangeLevel(level, modifier))
    BY <1>3 DEF ChangeVolumeHandler
  <2>2. ChangeLevel(level, modifier) \in Volumes
    BY LevelTyped DEF VolumeOK
  <2> QED BY <2>1, <2>2, VolumeKeeps
<1> QED BY <1>1, <1>2, <1>3 DEF VolumeRequest

LEMMA StopKeeps ==
    ASSUME SinkOK, VolumeOK, EventsOK, StopHandler \/ StopCleared
    PROVE  SinkOK' /\ VolumeOK' /\ EventsOK'
<1>1. CASE StopHandler
  <2>1. EventsOK'
    BY <1>1, ChannelTyped, SignalTyped DEF StopHandler, EventTypes
  <2>2. SinkOK'
    BY <1>1 DEF StopHandler, SinkOK, SinkShape, KindFromEnd
  <2> QED BY <1>1, <2>1, <2>2, VolumeUnchanged DEF StopHandler
<1>2. CASE StopCleared
  <2>1. SinkOK'
    BY <1>2, EmptySinkOK DEF StopCleared, SinkOK
  <2> QED BY <1>2, <2>1, VolumeUnchanged DEF StopCleared, EventsOK
<1> QED BY <1>1, <1>2

LEMMA SkipKeeps ==
    ASSUME SinkOK, VolumeOK, EventsOK, SkipHandler
    PROVE  SinkOK' /\ VolumeOK' /\ EventsOK'
<1>1. toClear' \in Nat /\ toClear' <= Len(sink)
  BY DEF SkipHandler, SinkOK, SinkShape
<1>2. SinkOK'
  BY <1>1 DEF SkipHandler, SinkOK, SinkShape, KindFromEnd
<1> QED BY <1>2, VolumeUnchanged DEF SkipHandler, EventsOK

LEMMA QueueKeeps ==
    ASSUME SinkOK, VolumeOK, EventsOK, NEW id \in QueueIds, QueueHandler(id)
    PROVE  SinkOK' /\ VolumeOK' /\ EventsOK'
<1>1. EventsOK'
  BY PlayerAssumption, ChannelTyped, EventTyped DEF QueueHandler, EventTypes
<1>2. SinkOK'
  <2>1. ShapeOK(sink)
    BY DEF SinkOK, SinkShape, ShapeOK
  <2>2. sink' \in Seq(Sources) /\ ShapeOK(sink')
    BY <2>1, TripleShape DEF SinkOK, QueueHandler
  <2>3. Triple(id) \in Seq(Sources) /\ Len(Triple(id)) = 3
    BY DEF Triple, Sources, SourceKinds
  <2>4. Len(sink') = Len(sink) + 3 /\ Len(sink) \in Nat
    BY <2>3, ConcatThree DEF SinkOK, QueueHandler
  <2>5. toClear' \in Nat /\ toClear' <= Len(sink')
    BY <2>4 DEF SinkOK, SinkShape, QueueHandler
  <2> QED BY <2>2, <2>5 DEF SinkOK, SinkShape, ShapeOK, QueueHandler
<1> QED BY <1>1, <1>2, VolumeUnchanged DEF QueueHandler

LEMMA AudioKeeps ==
    ASSUME SinkOK, VolumeOK, EventsOK, AudioThread
    PROVE  SinkOK' /\ VolumeOK' /\ EventsOK'
<1>1. CASE AudioSkip
  <2>1. sink # <<>>
    BY <1>1 DEF AudioSkip, SinkOK, SinkShape
  <2>2. SinkOK'
    BY <1>1, <2>1, SinkAdvances DEF AudioSkip
  <2> QED BY <1>1, <2>2, VolumeUnchanged DEF AudioSkip, EventsOK
<1>2. CASE AudioStarted \/ AudioTrackEnd \/ AudioFinished
  <2>1. sink # <<>> /\ toClear = 0 /\ sink' = Tail(sink) /\ UNCHANGED <<toClear, paused, stopping>>
    BY <1>2 DEF AudioStarted, AudioTrackEnd, AudioFinished, Playing
  <2>2. SinkOK'
    BY <2>1, SinkAdvances
  <2>3. Head(sink) \in Sources
    BY <2>1 DEF SinkOK
  <2>4. Head(sink).id \in Nat
    BY <2>3, PlayerAssumption DEF Sources
  <2>5. EventsOK'
    BY <1>2, <2>4, ChannelTyped, EventTyped
    DEF AudioStarted, AudioTrackEnd, AudioFinished, EventTypes, EventsOK
  <2> QED BY <1>2, <2>2, <2>5, VolumeUnchanged DEF AudioStarted, AudioTrackEnd, AudioFinished
<1> QED BY <1>1, <1>2 DEF AudioThread

LEMMA ReceiveKeeps ==
    ASSUME SinkOK, VolumeOK, EventsOK, ReceiveEvent
    PROVE  SinkOK' /\ VolumeOK' /\ EventsOK'
<1>1. EventsOK'
  BY DEF ReceiveEvent, EventsOK
<1> QED BY <1>1, SinkUnchanged, VolumeUnchanged DEF ReceiveEvent

LEMMA PInvInductive == PSpec => []PInv
<1>1. ASSUME PInit PROVE PInv
  <2>1. sink \in Seq(Sources) /\ ShapeOK(sink) /\ Len(sink) = 0 /\ toClear = 0
    BY <1>1, EmptyShape DEF PInit
  <2>2. SinkShape
    BY <2>1 DEF SinkShape, ShapeOK
  <2>3. level \in Volumes /\ gain \in 0..MaxVolume /\ GainFollowsMute
    BY <1>1, PlayerAssumption DEF PInit, Volumes, GainFollowsMute
  <2>4. <<>> \in Seq(PlayerEvents)
    OBVIOUS
  <2>5. pevents \in Seq(PlayerEvents)
    BY <1>1, <2>4 DEF PInit
  <2>6. paused \in BOOLEAN /\ stopping \in BOOLEAN /\ muted \in BOOLEAN
    BY <1>1 DEF PInit
  <2> QED BY <2>1, <2>2, <2>3, <2>5, <2>6 DEF PInv, PTypeOK
<1>2. PInv /\ [PNext]_pvars => PInv'
  <2> SUFFICES ASSUME PInv, [PNext]_pvars
               PROVE  SinkOK' /\ VolumeOK' /\ EventsOK'
    BY PInvParts DEF PInv, PTypeOK, SinkOK, VolumeOK, EventsOK
  <2>1. SinkOK /\ VolumeOK /\ EventsOK
    BY PInvParts
  <2>2. CASE TransportRequest
    BY <2>1, <2>2, TransportKeeps
  <2>3. CASE VolumeRequest
    BY <2>1, <2>3, VolumeRequestKeeps
  <2>4. CASE StopHandler \/ StopCleared
    BY <2>1, <2>4, StopKeeps
  <2>5. CASE SkipHandler
    BY <2>1, <2>5, SkipKeeps
  <2>6. CASE \E id \in QueueIds : QueueHandler(id)
    BY <2>1, <2>6, QueueKeeps
  <2>7. CASE AudioThread
    BY <2>1, <2>7, AudioKeeps
  <2>8. CASE ReceiveEvent
    BY <2>1, <2>8, ReceiveKeeps
  <2>9. CASE UNCHANGED pvars
    <3>1. UNCHANGED sinkVars /\ UNCHANGED volumeVars /\ pevents' = pevents
      BY <2>9 DEF pvars, sinkVars, volumeVars
    <3> QED BY <2>1, <3>1, SinkUnchanged, VolumeUnchanged DEF EventsOK
  <2> QED BY <2>2, <2>3, <2>4, <2>5, <2>6, <2>7, <2>8, <2>9 DEF PNext
<1> QED BY <1>1, <1>2, PTL DEF PSpec

(* Type correctness of the player: above all, the volume level never       *)
(* leaves the range of its table, whatever requests come (player.rs:416).  *)
THEOREM PlayerTypes == PSpec => []PTypeOK
BY PInvInductive, PTL DEF PInv

(* No order of mute, unmute and volume requests makes the gain of the sink *)
(* differ from what the player reports (player.rs:261-314).                *)
THEOREM GainAgrees == PSpec => []GainFollowsMute
BY PInvInductive, PTL DEF PInv

(* Whatever is queued, played, skipped and stopped, the sink holds whole   *)
(* triples behind its head, and never fewer sources than skips pending     *)
(* (player.rs:248-259, 316-332).                                           *)
THEOREM SinkIsTriples == PSpec => []SinkShape
BY PInvInductive, PTL DEF PInv
-----------------------------------------------------------------------------
(* Among the last k sources there are as many tracks as Status.length says *)
(* of k sources.                                                           *)
TracksAmongLast(k) == {i \in 1..Len(sink) : i > Len(sink) - k /\ sink[i].kind = "track"}
TracksOf(k) == k \div 3 + (IF k % 3 > 1 THEN 1 ELSE 0)

LEMMA TracksOfNext ==
    ASSUME NEW k \in Nat
    PROVE  /\ TracksOf(k) \in Nat
           /\ TracksOf(k + 1) = IF KindFromEnd(k + 1) = "track" THEN TracksOf(k) + 1 ELSE TracksOf(k)
<1>1. k % 3 \in 0..2 /\ k \div 3 \in Nat
  OBVIOUS
<1>2. CASE k % 3 = 0
  <2>1. (k + 1) % 3 = 1 /\ (k + 1) \div 3 = k \div 3
    BY <1>2
  <2> QED BY <1>1, <1>2, <2>1 DEF TracksOf, KindFromEnd
<1>3. CASE k % 3 = 1
  <2>1. (k + 1) % 3 = 2 /\ (k + 1) \div 3 = k \div 3
    BY <1>3
  <2> QED BY <1>1, <1>3, <2>1 DEF TracksOf, KindFromEnd
<1>4. CASE k % 3 = 2
  <2>1. (k + 1) % 3 = 0 /\ (k + 1) \div 3 = k \div 3 + 1
    BY <1>4
  <2> QED BY <1>1, <1>4, <2>1 DEF TracksOf, KindFromEnd
<1> QED BY <1>1, <1>2, <1>3, <1>4

LEMMA TracksCounted ==
    ASSUME PTypeOK, SinkShape
    PROVE  \A k \in 0..Len(sink) : /\ IsFiniteSet(TracksAmongLast(k))
                                   /\ Cardinality(TracksAmongLast(k)) = TracksOf(k)
<1> DEFINE n == Len(sink)
           T == {k \in 0..n : /\ IsFiniteSet(TracksAmongLast(k))
                              /\ Cardinality(TracksAmongLast(k)) = TracksOf(k)}
<1>1. n \in Nat
  BY DEF PTypeOK
<1>2. 0 \in T
  <2>1. TracksAmongLast(0) = {}
    BY <1>1 DEF TracksAmongLast
  <2>2. TracksOf(0) = 0
    BY DEF TracksOf
  <2> QED BY <1>1, <2>1, <2>2, FS_EmptySet
<1>3. \A k \in 0..n - 1 : k \in T => k + 1 \in T
  <2> SUFFICES ASSUME NEW k \in 0..n - 1, k \in T PROVE k + 1 \in T
    OBVIOUS
  <2> DEFINE i == n - k
  <2>1. k \in Nat /\ i \in 1..n /\ n + 1 - i = k + 1 /\ k + 1 \in 0..n
    BY <1>1
  <2>2. sink[i].kind = KindFromEnd(k + 1)
    BY <2>1 DEF SinkShape
  <2>3. i \notin TracksAmongLast(k)
    BY <1>1, <2>1 DEF TracksAmongLast
  <2>4. \A j \in 1..n : j > n - (k + 1) <=> j > n - k \/ j = i
    BY <1>1
  <2>5. TracksAmongLast(k + 1) = IF KindFromEnd(k + 1) = "track"
                                 THEN TracksAmongLast(k) \cup {i} ELSE TracksAmongLast(k)
    BY <2>1, <2>2, <2>4 DEF TracksAmongLast
  <2> HIDE DEF i, n
  <2> QED BY <2>1, <2>3, <2>5, TracksOfNext, FS_AddElement
<1> HIDE DEF T, n
<1>4. 0..n \subseteq T
  BY <1>1, <1>2, <1>3, UpTo
<1> QED BY <1>4 DEF T, n

(* The length that status reports is the number of tracks not yet heard to *)
(* the end or skipped, also while one has lost its front (player.rs:243).  *)
THEOREM StatusLengthRight == PSpec => []StatusLengthExact
<1>1. ASSUME PTypeOK, SinkShape PROVE StatusLengthExact
  <2> DEFINE n == Len(sink)
  <2>1. n \in Nat /\ DOMAIN sink = 1..n /\ n \in 0..n
    BY <1>1 DEF PTypeOK
  <2>2. TracksAmongLast(n) = {i \in DOMAIN sink : sink[i].kind = "track"}
    BY <2>1 DEF TracksAmongLast
  <2>3. Cardinality(TracksAmongLast(n)) = TracksOf(n)
    BY <1>1, <2>1, TracksCounted
  <2> QED BY <2>2, <2>3 DEF StatusLengthExact, StatusLength, TracksOf
<1> QED BY <1>1, PInvInductive, PTL DEF PInv
=============================================================================
