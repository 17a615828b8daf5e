------------------------- MODULE TrackManagerProofs -------------------------
(* Invariants of the track manager, for every set of tracks and cache size. *)
EXTENDS TrackManager, FiniteSetTheorems, TLAPS

(* Operations on the counters and the entry map stay within their types. *)
LEMMA CounterTypes ==
    ASSUME MTypeOK
    PROVE  /\ Increment(msize) \in 0..MaxUsize
           /\ Decrement(msize) \in 0..MaxUsize
BY ManagerAssumption DEF MTypeOK, Increment, Decrement

LEMMA AddType ==
    ASSUME NEW counts \in [TrackIds -> Nat], NEW t \in TrackIds
    PROVE  /\ Add(counts, t) \in [TrackIds -> Nat]
           /\ counts[t] > 0 => Drop(counts, t) \in [TrackIds -> Nat]
BY DEF Add, Drop

EntryMapOK(m) == DOMAIN m \subseteq TrackIds /\ m \in [DOMAIN m -> TrackEntries]

LEMMA EntryMapTypes ==
    ASSUME MTypeOK, NEW t \in TrackIds, NEW entry \in TrackEntries
    PROVE  EntryMapOK(With(t, entry)) /\ EntryMapOK(Without(t)) /\ EntryMapOK(EmptyMap)
BY DEF MTypeOK, EntryMapOK, With, Without, EmptyMap

LEMMA EntryTypes ==
    ASSUME NEW entry \in TrackEntries
    PROVE  Claimed(entry) \in TrackEntries /\ Unclaimed(entry) \in TrackEntries
BY DEF TrackEntries, Claimed, Unclaimed

LEMMA QueueTypes ==
    ASSUME NEW S, NEW q \in Seq(S)
    PROVE  /\ \A x \in S : Append(q, x) \in Seq(S)
           /\ q # <<>> => Head(q) \in S /\ Tail(q) \in Seq(S)
OBVIOUS

LEMMA ReportTypes ==
    ASSUME MTypeOK, NEW kind \in {"Acquired", "Removed", "Failed"}, NEW t \in TrackIds,
           Report(kind, t)
    PROVE  mevents' \in Seq(ManagerEvents)
BY DEF MTypeOK, Report, ManagerEvents

(* The two places where a slot changes hands, with the entries aside. *)
SlotTypes == mqueue \in Seq(TrackIds) /\ msize \in 0..MaxUsize /\ fetching \in [TrackIds -> Nat]

LEMMA TryDownloadTypes ==
    ASSUME MTypeOK, NEW t \in TrackIds, TryDownload(t)
    PROVE  SlotTypes'
<1>1. Append(mqueue, t) \in Seq(TrackIds) /\ Add(fetching, t) \in [TrackIds -> Nat]
  BY AddType DEF MTypeOK
<1> QED BY <1>1, CounterTypes DEF TryDownload, MTypeOK, SlotTypes

LEMMA RotateTrackTypes ==
    ASSUME MTypeOK, NEW t \in TrackIds, NEW running \in [TrackIds -> Nat],
           RotateTrack(t, running)
    PROVE  SlotTypes' /\ EntryMapOK(mtracks')
<1>1. EntryMapOK(mtracks')
  BY DEF RotateTrack, MTypeOK, EntryMapOK, Without
<1>2. SlotTypes'
  <2>1. CASE mqueue = <<>>
    BY <2>1, CounterTypes DEF RotateTrack, MTypeOK, SlotTypes
  <2>2. CASE mqueue # <<>>
    <3>1. Head(mqueue) \in TrackIds /\ Tail(mqueue) \in Seq(TrackIds)
      BY <2>2 DEF MTypeOK
    <3>2. Add(running, Head(mqueue)) \in [TrackIds -> Nat]
      BY <3>1, AddType
    <3> QED BY <2>2, <3>1, <3>2 DEF RotateTrack, MTypeOK, SlotTypes
  <2> QED BY <2>1, <2>2
<1> QED BY <1>1, <1>2

LEMMA RequestTypes ==
    ASSUME MTypeOK, NEW op, NextRequest(op)
    PROVE  /\ mreqs' \in Seq(Requests)
           /\ op # "Clear" => Target \in TrackIds
<1>1. mreqs # <<>> /\ Head(mreqs) \in Requests /\ mreqs' \in Seq(Requests)
  BY DEF NextRequest, MTypeOK
<1> QED BY <1>1 DEF NextRequest, Requests, Target

(* Every step of the manager keeps the types.                              *)
LEMMA ManagerTypesStep ==
    ASSUME MTypeOK, [MNext]_mvars
    PROVE  MTypeOK'
<1>1. CASE ClaimKnown
  <2>1. Target \in TrackIds /\ mreqs' \in Seq(Requests)
    BY <1>1, RequestTypes DEF ClaimKnown
  <2> DEFINE entry == Claimed(mtracks[Target])
  <2>2. entry \in TrackEntries
    BY <1>1, EntryTypes DEF ClaimKnown, MTypeOK
  <2>3. mtracks' = With(Target, entry)
    BY <1>1 DEF ClaimKnown
  <2>4. EntryMapOK(mtracks')
    BY <2>1, <2>2, <2>3, EntryMapTypes
  <2>5. SlotTypes'
    <3>1. CASE TryDownload(Target)
      BY <3>1, <2>1, TryDownloadTypes
    <3>2. CASE UNCHANGED <<mqueue, msize, fetching>>
      BY <3>2 DEF MTypeOK, SlotTypes
    <3> QED BY <1>1, <3>1, <3>2 DEF ClaimKnown
  <2>6. mevents' \in Seq(ManagerEvents)
    <3>1. CASE Report("Acquired", Target)
      BY <3>1, <2>1, ReportTypes
    <3>2. CASE UNCHANGED mevents
      BY <3>2 DEF MTypeOK
    <3> QED BY <1>1, <3>1, <3>2 DEF ClaimKnown
  <2> QED BY <1>1, <2>1, <2>4, <2>5, <2>6 DEF ClaimKnown, MTypeOK, EntryMapOK, SlotTypes
<1>2. CASE ClaimNew
  <2>1. Target \in TrackIds /\ mreqs' \in Seq(Requests)
    BY <1>2, RequestTypes DEF ClaimNew
  <2>2. Claimed([path |-> FALSE, claims |-> 0]) \in TrackEntries
    <3>1. [path |-> FALSE, claims |-> 0] \in TrackEntries
      BY DEF TrackEntries
    <3> QED BY <3>1, EntryTypes
  <2>3. EntryMapOK(mtracks')
    BY <1>2, <2>1, <2>2, EntryMapTypes DEF ClaimNew
  <2>4. SlotTypes'
    BY <1>2, <2>1, TryDownloadTypes DEF ClaimNew
  <2> QED BY <1>2, <2>1, <2>3, <2>4 DEF ClaimNew, MTypeOK, EntryMapOK, SlotTypes
<1>3. CASE UnclaimHandler
  <2>1. Target \in TrackIds /\ mreqs' \in Seq(Requests)
    BY <1>3, RequestTypes DEF UnclaimHandler
  <2>2. CASE Target \notin DOMAIN mtracks
    BY <1>3, <2>1, <2>2 DEF UnclaimHandler, MTypeOK, dataVars
  <2>3. CASE Target \in DOMAIN mtracks
    <3> DEFINE entry == Unclaimed(mtracks[Target])
    <3>1. entry \in TrackEntries
      BY <2>3, EntryTypes DEF MTypeOK
    <3>2. CASE CanRemove(entry)
      <4>1. RotateTrack(Target, fetching) /\ Report("Removed", Target)
            /\ files' = files \ {Target} /\ fetched' = fetched
        BY <1>3, <2>3, <3>2 DEF UnclaimHandler, RemoveFile
      <4>2. SlotTypes' /\ EntryMapOK(mtracks')
        BY <4>1, <2>1, RotateTrackTypes DEF MTypeOK
      <4>3. mevents' \in Seq(ManagerEvents)
        BY <4>1, <2>1, ReportTypes
      <4> QED BY <2>1, <4>1, <4>2, <4>3 DEF MTypeOK, EntryMapOK, SlotTypes
    <3>3. CASE ~CanRemove(entry)
      <4>1. mtracks' = With(Target, entry) /\ UNCHANGED <<mqueue, msize, fetching, files, mevents, fetched>>
        BY <1>3, <2>3, <3>3 DEF UnclaimHandler
      <4>2. EntryMapOK(mtracks')
        BY <4>1, <2>1, <3>1, EntryMapTypes
      <4> QED BY <2>1, <4>1, <4>2 DEF MTypeOK, EntryMapOK
    <3> QED BY <3>2, <3>3
  <2> QED BY <2>2, <2>3
<1>4. CASE ClearHandler
  <2>1. mreqs' \in Seq(Requests)
    BY <1>4, RequestTypes DEF ClearHandler
  <2> QED BY <1>4, <2>1, ManagerAssumption DEF ClearHandler, MTypeOK, EmptyMap
<1>5. CASE \E t \in TrackIds : Download(t)
  <2> PICK t \in TrackIds : Download(t)
    BY <1>5
  <2>1. CASE FetchDone(t)
    <3>1. fetching' \in [TrackIds -> Nat] /\ fetched' \in [TrackIds -> Nat]
      BY <2>1, AddType DEF FetchDone, MTypeOK
    <3> QED BY <2>1, <3>1 DEF FetchDone, MTypeOK, dataVars
  <2>2. CASE FetchFailed(t)
    <3>1. Drop(fetching, t) \in [TrackIds -> Nat]
      BY <2>2, AddType DEF FetchFailed, MTypeOK
    <3>2. SlotTypes' /\ EntryMapOK(mtracks')
      BY <2>2, <3>1, RotateTrackTypes DEF FetchFailed
    <3>3. mevents' \in Seq(ManagerEvents)
      BY <2>2, ReportTypes DEF FetchFailed
    <3> QED BY <2>2, <3>2, <3>3 DEF FetchFailed, MTypeOK, EntryMapOK, SlotTypes
  <2>3. CASE DownloadFinish(t)
    <3>1. fetched' \in [TrackIds -> Nat]
      BY <2>3, AddType DEF DownloadFinish, MTypeOK
    <3>2. mevents' \in Seq(ManagerEvents)
      BY <2>3, ReportTypes DEF DownloadFinish
    <3>3. EntryMapOK(mtracks') /\ files' \subseteq TrackIds
      <4>1. CASE mtracks[t].claims # 0
        BY <2>3, <4>1 DEF DownloadFinish, TrySetPath, MTypeOK, EntryMapOK, TrackEntries
      <4>2. CASE mtracks[t].claims = 0
        BY <2>3, <4>2 DEF DownloadFinish, TrySetPath, RemoveFile, MTypeOK, EntryMapOK
      <4> QED BY <4>1, <4>2
    <3> QED BY <2>3, <3>1, <3>2, <3>3 DEF DownloadFinish, MTypeOK, EntryMapOK
  <2>4. CASE DownloadPanic(t)
    <3>1. fetched' \in [TrackIds -> Nat]
      BY <2>4, AddType DEF DownloadPanic, MTypeOK
    <3> QED BY <2>4, <3>1 DEF DownloadPanic, MTypeOK, dataVars
  <2> QED BY <2>1, <2>2, <2>3, <2>4 DEF Download
<1>6. CASE \E r \in Requests : Request(r)
  BY <1>6 DEF Request, MTypeOK, dataVars
<1>7. CASE ReceiveReport
  BY <1>7 DEF ReceiveReport, MTypeOK, dataVars
<1>8. CASE UNCHANGED mvars
  BY <1>8 DEF mvars, MTypeOK
<1> QED BY <1>1, <1>2, <1>3, <1>4, <1>5, <1>6, <1>7, <1>8 DEF MNext, ManagerStep, ManagerWorker

(* Type correctness of the track manager: claims, slots, download tasks    *)
(* and both channels keep their types for any callers and any downloader.  *)
THEOREM ManagerTypes == MSpec => []MTypeOK
<1>1. MInit => MTypeOK
  BY ManagerAssumption DEF MInit, MTypeOK, EmptyMap
<1> QED BY <1>1, ManagerTypesStep, PTL DEF MSpec

-----------------------------------------------------------------------------
Pending(t) == Tasks(t) > 0 \/ Waiting(t)

(* try_download starts the download of its track or queues it, and takes   *)
(* nothing from any other.                                                 *)
LEMMA TryDownloadPends ==
    ASSUME MTypeOK, NEW t \in TrackIds, TryDownload(t), fetched' = fetched
    PROVE  Pending(t)' /\ \A u \in TrackIds : Pending(u) => Pending(u)'
<1>1. CASE msize = CacheSize
  <2>1. mqueue' = Append(mqueue, t) /\ fetching' = fetching
    BY <1>1 DEF TryDownload
  <2>2. Waiting(t)' /\ \A u : Waiting(u) => Waiting(u)'
    <3>1. Len(mqueue) + 1 \in DOMAIN mqueue' /\ mqueue'[Len(mqueue) + 1] = t
      BY <2>1 DEF MTypeOK
    <3>2. \A i \in DOMAIN mqueue : i \in DOMAIN mqueue' /\ mqueue'[i] = mqueue[i]
      BY <2>1 DEF MTypeOK
    <3> QED BY <3>1, <3>2 DEF Waiting
  <2> QED BY <2>1, <2>2 DEF Pending, Tasks
<1>2. CASE msize # CacheSize
  <2>1. fetching' = Add(fetching, t) /\ mqueue' = mqueue
    BY <1>2 DEF TryDownload
  <2>2. fetching'[t] > 0 /\ \A u \in TrackIds : fetching'[u] >= fetching[u]
    BY <2>1 DEF Add, MTypeOK
  <2>3. fetching' \in [TrackIds -> Nat]
    BY <2>1, AddType DEF MTypeOK
  <2> QED BY <2>1, <2>2, <2>3 DEF Pending, Tasks, Waiting, MTypeOK
<1> QED BY <1>1, <1>2

(* rotate_track turns the wait of the track it pops into a download and    *)
(* leaves every other track's alone.                                       *)
LEMMA RotateTrackPends ==
    ASSUME MTypeOK, NEW t \in TrackIds, NEW running \in [TrackIds -> Nat],
           RotateTrack(t, running), fetched' = fetched,
           \A u \in TrackIds \ {t} : running[u] = fetching[u]
    PROVE  \A u \in TrackIds \ {t} : Pending(u) => Pending(u)'
<1> SUFFICES ASSUME NEW u \in TrackIds \ {t}, Pending(u) PROVE Pending(u)'
  OBVIOUS
<1>1. CASE mqueue = <<>>
  BY <1>1 DEF RotateTrack, Pending, Tasks, Waiting
<1>2. CASE mqueue # <<>>
  <2>1. mqueue' = Tail(mqueue) /\ fetching' = Add(running, Head(mqueue)) /\ Head(mqueue) \in TrackIds
    BY <1>2 DEF RotateTrack, MTypeOK
  <2>2. fetching' \in [TrackIds -> Nat] /\ fetching'[u] >= running[u]
    BY <2>1, AddType DEF Add
  <2>3. CASE Tasks(u) > 0
    BY <2>2, <2>3 DEF Tasks, Pending, MTypeOK
  <2>4. CASE Waiting(u)
    <3>1. PICK i \in DOMAIN mqueue : mqueue[i] = u
      BY <2>4 DEF Waiting
    <3>2. CASE i = 1
      <4>1. fetching'[u] > 0
        BY <2>1, <3>1, <3>2 DEF Add, MTypeOK
      <4> QED BY <4>1, <2>2 DEF Pending, Tasks, MTypeOK
    <3>3. CASE i # 1
      <4>1. mqueue \in Seq(TrackIds) /\ i \in 2..Len(mqueue) /\ mqueue[i] = u
        BY <3>1, <3>3 DEF MTypeOK
      <4>2. i - 1 \in DOMAIN Tail(mqueue) /\ Tail(mqueue)[i - 1] = u
        BY <4>1
      <4> QED BY <2>1, <4>2 DEF Pending, Waiting
    <3> QED BY <3>2, <3>3
  <2> QED BY <2>3, <2>4 DEF Pending
<1> QED BY <1>1, <1>2

LEMMA NoForgottenStep ==
    ASSUME MTypeOK, MissingHasDownload, [MNext]_mvars
    PROVE  MissingHasDownload'
<1> DEFINE Inv == \A t \in DOMAIN mtracks : Missing(t) => Pending(t)
<1> SUFFICES ASSUME Inv, NEW u \in DOMAIN mtracks', Missing(u)'
             PROVE  Pending(u)'
  BY DEF MissingHasDownload, Pending
<1>1. CASE ClaimKnown
  <2>1. Target \in TrackIds /\ Target \in DOMAIN mtracks /\ fetched' = fetched
    BY <1>1, RequestTypes DEF ClaimKnown
  <2> DEFINE entry == Claimed(mtracks[Target])
  <2>2. mtracks' = With(Target, entry) /\ DOMAIN mtracks' = DOMAIN mtracks
    BY <1>1, <2>1 DEF ClaimKnown, With
  <2>3. CASE NeedsDownload(entry) /\ TryDownload(Target)
    <3>1. u = Target \/ Missing(u)
      BY <2>2 DEF With, Missing
    <3> QED BY <2>1, <2>2, <2>3, <3>1, TryDownloadPends DEF MTypeOK
  <2>4. CASE ~NeedsDownload(entry) /\ UNCHANGED <<mqueue, msize, fetching>>
    <3>1. Missing(u)
      <4>1. CASE u # Target
        BY <2>2, <4>1 DEF With, Missing
      <4>2. CASE u = Target
        <5>1. mtracks'[u] = entry
          BY <2>2, <4>2 DEF With
        <5>2. mtracks[u] \in TrackEntries
          BY <2>1, <4>2 DEF MTypeOK
        <5>3. entry.claims = mtracks[u].claims + 1 /\ entry.path = mtracks[u].path
          BY <4>2, <5>2 DEF Claimed, TrackEntries
        <5> QED BY <2>4, <5>1, <5>2, <5>3 DEF Missing, NeedsDownload, TrackEntries
      <4> QED BY <4>1, <4>2
    <3> QED BY <2>1, <2>2, <2>4, <3>1 DEF Pending, Tasks, Waiting
  <2> QED BY <1>1, <2>3, <2>4 DEF ClaimKnown
<1>2. CASE ClaimNew
  <2>1. Target \in TrackIds /\ fetched' = fetched /\ TryDownload(Target)
    BY <1>2, RequestTypes DEF ClaimNew
  <2>2. u = Target \/ (u \in DOMAIN mtracks /\ Missing(u))
    BY <1>2 DEF ClaimNew, With, Missing
  <2> QED BY <2>1, <2>2, TryDownloadPends DEF MTypeOK
<1>3. CASE UnclaimHandler
  <2>1. Target \in TrackIds /\ fetched' = fetched
    BY <1>3, RequestTypes DEF UnclaimHandler
  <2>2. CASE Target \notin DOMAIN mtracks
    BY <1>3, <2>1, <2>2 DEF UnclaimHandler, dataVars, Missing, Pending, Tasks, Waiting
  <2>3. CASE Target \in DOMAIN mtracks
    <3> DEFINE entry == Unclaimed(mtracks[Target])
    <3>1. CASE CanRemove(entry)
      <4>1. RotateTrack(Target, fetching)
        BY <1>3, <2>3, <3>1 DEF UnclaimHandler
      <4>2. u \in DOMAIN mtracks /\ u # Target /\ Missing(u)
        BY <4>1 DEF RotateTrack, Without, Missing
      <4>3. \A v \in TrackIds \ {Target} : Pending(v) => Pending(v)'
        BY <2>1, <4>1, RotateTrackPends DEF MTypeOK
      <4> QED BY <4>2, <4>3 DEF MTypeOK
    <3>2. CASE ~CanRemove(entry)
      <4>1. mtracks' = With(Target, entry) /\ UNCHANGED <<mqueue, fetching>>
        BY <1>3, <2>3, <3>2 DEF UnclaimHandler
      <4>2. u \in DOMAIN mtracks /\ Missing(u)
        <5>1. CASE u # Target
          BY <4>1, <5>1 DEF With, Missing
        <5>2. CASE u = Target
          <6>1. mtracks'[u] = entry /\ mtracks[u] \in TrackEntries
            BY <2>3, <4>1, <5>2 DEF With, MTypeOK
          <6>2. entry.claims > 0 => mtracks[u].claims > 0
            BY <5>2, <6>1 DEF Unclaimed, TrackEntries
          <6>3. entry.path = mtracks[u].path
            BY <5>2, <6>1 DEF Unclaimed, TrackEntries
          <6> QED BY <2>3, <5>2, <6>1, <6>2, <6>3 DEF Missing
        <5> QED BY <5>1, <5>2
      <4> QED BY <2>1, <4>1, <4>2 DEF Pending, Tasks, Waiting
    <3> QED BY <3>1, <3>2
  <2> QED BY <2>2, <2>3
<1>4. CASE ClearHandler
  BY <1>4 DEF ClearHandler, EmptyMap
<1>5. CASE \E t \in TrackIds : Download(t)
  <2> PICK t \in TrackIds : Download(t)
    BY <1>5
  <2>1. CASE FetchDone(t)
    <3>1. u \in DOMAIN mtracks /\ Missing(u) /\ mqueue' = mqueue
      BY <2>1 DEF FetchDone, dataVars, Missing
    <3>2. Tasks(u)' = Tasks(u)
      BY <2>1, <3>1 DEF FetchDone, Tasks, Add, Drop, MTypeOK
    <3> QED BY <3>1, <3>2 DEF Pending, Waiting
  <2>2. CASE FetchFailed(t)
    <3>1. RotateTrack(t, Drop(fetching, t)) /\ fetched' = fetched
      BY <2>2 DEF FetchFailed
    <3>2. u \in DOMAIN mtracks /\ u # t /\ Missing(u)
      BY <3>1 DEF RotateTrack, Without, Missing
    <3>3. Drop(fetching, t) \in [TrackIds -> Nat]
      BY <2>2, AddType DEF FetchFailed, MTypeOK
    <3>4. \A v \in TrackIds \ {t} : Drop(fetching, t)[v] = fetching[v]
      BY DEF Drop, MTypeOK
    <3>5. \A v \in TrackIds \ {t} : Pending(v) => Pending(v)'
      BY <3>1, <3>3, <3>4, RotateTrackPends
    <3> QED BY <3>2, <3>5 DEF MTypeOK
  <2>3. CASE DownloadFinish(t)
    <3>1. u # t /\ u \in DOMAIN mtracks /\ Missing(u)
      <4>1. CASE mtracks[t].claims # 0
        <5>1. mtracks' = [mtracks EXCEPT ![t].path = TRUE] /\ t \in DOMAIN mtracks
          BY <2>3, <4>1 DEF DownloadFinish, TrySetPath
        <5>2. mtracks'[t].path = TRUE
          BY <5>1 DEF MTypeOK, TrackEntries
        <5>3. DOMAIN mtracks' = DOMAIN mtracks /\ (u # t => mtracks'[u] = mtracks[u])
          BY <5>1
        <5> QED BY <5>2, <5>3 DEF Missing
      <4>2. CASE mtracks[t].claims = 0
        BY <2>3, <4>2 DEF DownloadFinish, TrySetPath, Missing
      <4> QED BY <4>1, <4>2
    <3>2. Tasks(u)' = Tasks(u) /\ mqueue' = mqueue
      BY <2>3, <3>1 DEF DownloadFinish, Tasks, Drop, MTypeOK
    <3> QED BY <3>1, <3>2 DEF Pending, Waiting
  <2>4. CASE DownloadPanic(t)
    <3>1. u # t /\ u \in DOMAIN mtracks /\ Missing(u) /\ mqueue' = mqueue
      BY <2>4 DEF DownloadPanic, dataVars, Missing
    <3>2. Tasks(u)' = Tasks(u)
      BY <2>4, <3>1 DEF DownloadPanic, Tasks, Drop, MTypeOK
    <3> QED BY <3>1, <3>2 DEF Pending, Waiting
  <2> QED BY <2>1, <2>2, <2>3, <2>4 DEF Download
<1>6. CASE (\E r \in Requests : Request(r)) \/ ReceiveReport \/ UNCHANGED mvars
  BY <1>6 DEF Request, ReceiveReport, mvars, dataVars, Missing, Pending, Tasks, Waiting
<1> QED BY <1>1, <1>2, <1>3, <1>4, <1>5, <1>6 DEF MNext, ManagerStep, ManagerWorker

(* A claimed track without a file always has a download that runs or waits *)
(* for a slot.  Needs the types only: an entry is created or claimed again *)
(* together with its try_download, and the two steps that end a download,  *)
(* success and failure, also set the path or remove the entry.             *)
THEOREM NoForgottenTrack == MSpec => []MissingHasDownload
<1>1. MInit => MissingHasDownload
  BY DEF MInit, EmptyMap, MissingHasDownload
<1> QED BY <1>1, NoForgottenStep, ManagerTypes, PTL DEF MSpec

-----------------------------------------------------------------------------
(* Slots: the downloads that run and the tracks that are kept.             *)
SlotsOf(counts) == UNION {{t} \X (1..counts[t]) : t \in TrackIds}
TaskCounts == [t \in TrackIds |-> Tasks(t)]

LEMMA RunningSlots == MTypeOK => Running = SlotsOf(TaskCounts) /\ TaskCounts \in [TrackIds -> Nat]
BY DEF Running, SlotsOf, TaskCounts, Tasks, MTypeOK

LEMMA SlotMembers ==
    ASSUME NEW counts \in [TrackIds -> Nat], NEW x
    PROVE  x \in SlotsOf(counts) <=> \E u \in TrackIds : \E k \in 1..counts[u] : x = <<u, k>>
BY DEF SlotsOf

LEMMA SlotAdded ==
    ASSUME NEW counts \in [TrackIds -> Nat], NEW t \in TrackIds
    PROVE  /\ SlotsOf(Add(counts, t)) = SlotsOf(counts) \cup {<<t, counts[t] + 1>>}
           /\ <<t, counts[t] + 1>> \notin SlotsOf(counts)
<1> DEFINE more == Add(counts, t)
<1>1. more \in [TrackIds -> Nat] /\ more[t] = counts[t] + 1
      /\ \A u \in TrackIds \ {t} : more[u] = counts[u]
  BY DEF Add
<1> HIDE DEF more
<1>2. 1..more[t] = (1..counts[t]) \cup {counts[t] + 1}
  BY <1>1
<1>3. ASSUME NEW x PROVE x \in SlotsOf(more) <=> x \in SlotsOf(counts) \cup {<<t, counts[t] + 1>>}
  <2>1. ASSUME x \in SlotsOf(more) PROVE x \in SlotsOf(counts) \cup {<<t, counts[t] + 1>>}
    <3>1. PICK u \in TrackIds : \E k \in 1..more[u] : x = <<u, k>>
      BY <1>1, <2>1, SlotMembers
    <3>2. PICK k \in 1..more[u] : x = <<u, k>>
      BY <3>1
    <3>3. CASE k \in 1..counts[u]
      BY <3>2, <3>3, SlotMembers
    <3>4. CASE u = t /\ k = counts[t] + 1
      BY <3>2, <3>4
    <3> QED BY <1>1, <1>2, <3>3, <3>4
  <2>2. ASSUME x \in SlotsOf(counts) PROVE x \in SlotsOf(more)
    <3>1. PICK u \in TrackIds : \E k \in 1..counts[u] : x = <<u, k>>
      BY <2>2, SlotMembers
    <3>2. 1..counts[u] \subseteq 1..more[u]
      BY <1>1, <1>2
    <3> QED BY <1>1, <3>1, <3>2, SlotMembers
  <2>3. <<t, counts[t] + 1>> \in SlotsOf(more)
    <3>1. counts[t] + 1 \in 1..more[t]
      BY <1>2
    <3> QED BY <1>1, <3>1, SlotMembers
  <2> QED BY <2>1, <2>2, <2>3
<1>4. <<t, counts[t] + 1>> \notin SlotsOf(counts)
  <2> SUFFICES ASSUME NEW u \in TrackIds, NEW k \in 1..counts[u], <<t, counts[t] + 1>> = <<u, k>>
               PROVE  FALSE
    BY SlotMembers
  <2> QED OBVIOUS
<1> QED BY <1>3, <1>4 DEF more

(* One task more or one less is one slot more or one less. *)
LEMMA SlotsCounted ==
    ASSUME NEW counts \in [TrackIds -> Nat], NEW t \in TrackIds, IsFiniteSet(SlotsOf(counts))
    PROVE  /\ IsFiniteSet(SlotsOf(Add(counts, t)))
           /\ Cardinality(SlotsOf(Add(counts, t))) = Cardinality(SlotsOf(counts)) + 1
           /\ counts[t] > 0 =>
                /\ IsFiniteSet(SlotsOf(Drop(counts, t)))
                /\ Cardinality(SlotsOf(Drop(counts, t))) = Cardinality(SlotsOf(counts)) - 1
<1>1. IsFiniteSet(SlotsOf(Add(counts, t)))
      /\ Cardinality(SlotsOf(Add(counts, t))) = Cardinality(SlotsOf(counts)) + 1
  <2> DEFINE x == <<t, counts[t] + 1>>
             S == SlotsOf(counts)
  <2>1. SlotsOf(Add(counts, t)) = S \cup {x} /\ x \notin S
    BY SlotAdded
  <2>2. IsFiniteSet(S)
    OBVIOUS
  <2> HIDE DEF x, S
  <2>3. IsFiniteSet(S \cup {x}) /\ Cardinality(S \cup {x}) = Cardinality(S) + 1
    BY <2>1, <2>2, FS_AddElement
  <2> QED BY <2>1, <2>3 DEF S
<1>2. ASSUME counts[t] > 0
      PROVE  /\ IsFiniteSet(SlotsOf(Drop(counts, t)))
             /\ Cardinality(SlotsOf(Drop(counts, t))) = Cardinality(SlotsOf(counts)) - 1
  <2> DEFINE less == Drop(counts, t)
             x == <<t, less[t] + 1>>
  <2>1. less \in [TrackIds -> Nat] /\ Add(less, t) = counts
    <3>1. less \in [TrackIds -> Nat] /\ less[t] = counts[t] - 1
          /\ \A u \in TrackIds \ {t} : less[u] = counts[u]
      BY <1>2 DEF Drop
    <3> HIDE DEF less
    <3>2. Add(less, t) \in [TrackIds -> Nat]
      BY <3>1, AddType
    <3>3. \A u \in TrackIds : Add(less, t)[u] = counts[u]
      BY <3>1 DEF Add
    <3> QED BY <3>1, <3>2, <3>3
  <2> HIDE DEF less
  <2>2. SlotsOf(counts) = SlotsOf(less) \cup {x} /\ x \notin SlotsOf(less)
    BY <2>1, SlotAdded
  <2> HIDE DEF x
  <2>3. SlotsOf(less) = SlotsOf(counts) \ {x} /\ x \in SlotsOf(counts)
    BY <2>2
  <2> DEFINE S == SlotsOf(counts)
  <2>4. IsFiniteSet(S) /\ x \in S
    BY <2>3
  <2> HIDE DEF S
  <2>5. IsFiniteSet(S \ {x}) /\ Cardinality(S \ {x}) = Cardinality(S) - 1
    BY <2>4, FS_RemoveElement
  <2>6. IsFiniteSet(SlotsOf(less)) /\ Cardinality(SlotsOf(less)) = Cardinality(SlotsOf(counts)) - 1
    BY <2>3, <2>5 DEF S
  <2> QED BY <2>6 DEF less
<1> QED BY <1>1, <1>2

(* The sets are finite, so that their sizes are numbers. *)
Finite == IsFiniteSet(Running) /\ IsFiniteSet(Kept)

LEMMA Numbers ==
    ASSUME MTypeOK, Finite
    PROVE  /\ Cardinality(Running) \in Nat /\ Cardinality(Kept) \in Nat /\ InUse \in Nat
           /\ InUse = Cardinality(Running) + Cardinality(Kept)
           /\ msize \in Nat /\ CacheSize \in Nat \ {0} /\ MaxUsize \in Nat /\ CacheSize < MaxUsize
BY FS_CardinalityType, ManagerAssumption DEF Finite, InUse, MTypeOK

LEMMA InUseIsNat == Finite => InUse \in Nat /\ (Finite' => InUse' \in Nat)
<1>1. ASSUME Finite' PROVE InUse' \in Nat
  <2>1. Cardinality(Running') \in Nat /\ Cardinality(Kept') \in Nat
    BY <1>1, FS_CardinalityType DEF Finite
  <2> QED BY <2>1 DEF InUse
<1>2. ASSUME Finite PROVE InUse \in Nat
  <2>1. Cardinality(Running) \in Nat /\ Cardinality(Kept) \in Nat
    BY <1>2, FS_CardinalityType DEF Finite
  <2> QED BY <2>1 DEF InUse
<1> QED BY <1>1, <1>2

(* What a step does to the tasks. *)
LEMMA TasksSame ==
    ASSUME UNCHANGED <<fetching, fetched>>
    PROVE  Running' = Running
BY DEF Running, Tasks

LEMMA TaskStarted ==
    ASSUME MTypeOK, IsFiniteSet(Running), NEW t \in TrackIds,
           fetching' = Add(fetching, t), fetched' = fetched
    PROVE  IsFiniteSet(Running') /\ Cardinality(Running') = Cardinality(Running) + 1
<1>1. TaskCounts' = Add(TaskCounts, t)
  <2>1. \A u \in TrackIds : Tasks(u)' = IF u = t THEN Tasks(u) + 1 ELSE Tasks(u)
    BY DEF Tasks, Add, MTypeOK
  <2>2. TaskCounts' = [u \in TrackIds |-> Tasks(u)']
    BY DEF TaskCounts
  <2>3. Add(TaskCounts, t) = [u \in TrackIds |-> IF u = t THEN Tasks(u) + 1 ELSE Tasks(u)]
    BY DEF TaskCounts, Add
  <2> QED BY <2>1, <2>2, <2>3
<1>2. Running' = SlotsOf(Add(TaskCounts, t))
  <2>1. Running' = SlotsOf(TaskCounts')
    BY DEF Running, SlotsOf, TaskCounts
  <2> QED BY <1>1, <2>1
<1> QED BY <1>2, RunningSlots, SlotsCounted

LEMMA TaskEnded ==
    ASSUME MTypeOK, IsFiniteSet(Running), NEW t \in TrackIds, Tasks(t) > 0,
           Tasks(t)' = Tasks(t) - 1, \A u \in TrackIds \ {t} : Tasks(u)' = Tasks(u)
    PROVE  IsFiniteSet(Running') /\ Cardinality(Running') = Cardinality(Running) - 1
<1>1. TaskCounts' = Drop(TaskCounts, t)
  BY DEF TaskCounts, Drop
<1>2. Running' = SlotsOf(Drop(TaskCounts, t))
  <2>1. Running' = SlotsOf(TaskCounts')
    BY DEF Running, SlotsOf, TaskCounts
  <2> QED BY <1>1, <2>1
<1>3. TaskCounts[t] > 0
  BY DEF TaskCounts
<1> QED BY <1>2, <1>3, RunningSlots, SlotsCounted

(* What a step does to the tracks that are kept. *)
LEMMA KeptAfter ==
    ASSUME MTypeOK, NEW t \in TrackIds, NEW entry
    PROVE  /\ mtracks' = Without(t) => Kept' = Kept \ {t}
           /\ mtracks' = With(t, entry) /\ (entry.path <=> t \in Kept) => Kept' = Kept
<1>1. ASSUME mtracks' = Without(t) PROVE Kept' = Kept \ {t}
  BY <1>1 DEF Kept, Without
<1>2. ASSUME mtracks' = With(t, entry), entry.path <=> t \in Kept PROVE Kept' = Kept
  <2>1. DOMAIN mtracks' = DOMAIN mtracks \cup {t}
        /\ \A u \in DOMAIN mtracks' : mtracks'[u] = IF u = t THEN entry ELSE mtracks[u]
    BY <1>2 DEF With
  <2>2. ASSUME NEW u PROVE u \in Kept' <=> u \in Kept
    <3>1. CASE u = t
      BY <1>2, <2>1, <3>1 DEF Kept
    <3>2. CASE u # t
      BY <2>1, <3>2 DEF Kept
    <3> QED BY <3>1, <3>2
  <2> QED BY <2>2
<1> QED BY <1>1, <1>2

(* What a step can do to the slots: take one for a new download, give one  *)
(* back, hand one on, or change nothing but the end of the queue.          *)
Taken ==
    /\ msize # CacheSize /\ msize' = Increment(msize)
    /\ InUse' = InUse + 1 /\ UNCHANGED mqueue
Queued == msize = CacheSize /\ InUse' = InUse /\ UNCHANGED msize
GivenBack ==
    /\ mqueue = <<>> /\ mqueue' = <<>>
    /\ msize' = Decrement(msize)
    /\ InUse >= 1 /\ InUse' = InUse - 1
HandedOn == mqueue # <<>> /\ InUse' = InUse /\ UNCHANGED msize
Same == InUse' = InUse /\ UNCHANGED <<mqueue, msize>>

(* An end of a download that loses its slot uses no more than before. *)
Shrunk ==
    \/ InUse' <= InUse /\ UNCHANGED msize
    \/ InUse' <= InUse - 1 /\ InUse >= 1 /\ msize' = Decrement(msize)

SlotMove == Taken \/ Queued \/ GivenBack \/ HandedOn \/ Same
                \/ (Shrunk /\ \E t \in TrackIds : SlotLost(t))

LEMMA TryDownloadMoves ==
    ASSUME MTypeOK, Finite, NEW t \in TrackIds, TryDownload(t), fetched' = fetched, Kept' = Kept
    PROVE  Finite' /\ SlotMove
<1>1. CASE msize = CacheSize
  <2>1. UNCHANGED <<fetching, msize>>
    BY <1>1 DEF TryDownload
  <2>2. Running' = Running
    BY <2>1, TasksSame
  <2> QED BY <1>1, <2>1, <2>2 DEF Finite, InUse, SlotMove, Queued
<1>2. CASE msize # CacheSize
  <2>1. msize' = Increment(msize) /\ fetching' = Add(fetching, t) /\ UNCHANGED mqueue
    BY <1>2 DEF TryDownload
  <2>2. IsFiniteSet(Running') /\ Cardinality(Running') = Cardinality(Running) + 1
    BY <2>1, TaskStarted DEF Finite
  <2>3. InUse' = InUse + 1
    BY <2>2, Numbers DEF InUse
  <2> QED BY <1>2, <2>1, <2>2, <2>3 DEF Finite, SlotMove, Taken
<1> QED BY <1>1, <1>2

(* rotate_track beside the downloads in counts: it drops t and starts the  *)
(* next one, if one waits.                                                 *)
LEMMA RotateTrackMoves ==
    ASSUME MTypeOK, Finite, NEW t \in TrackIds, NEW running \in [TrackIds -> Nat],
           RotateTrack(t, running), fetched' = fetched,
           NEW counts \in [TrackIds -> Nat],
           \A u \in TrackIds : counts[u] = running[u] + fetched[u],
           IsFiniteSet(SlotsOf(counts)),
           NEW rest, rest = Cardinality(SlotsOf(counts)) + Cardinality(Kept \ {t})
    PROVE  /\ Finite'
           /\ \/ mqueue = <<>> /\ mqueue' = <<>> /\ msize' = Decrement(msize) /\ InUse' = rest
              \/ mqueue # <<>> /\ UNCHANGED msize /\ InUse' = rest + 1
<1>1. Kept' = Kept \ {t} /\ IsFiniteSet(Kept') /\ Cardinality(Kept') \in Nat
  <2>1. Kept' = Kept \ {t}
    BY KeptAfter DEF RotateTrack
  <2>2. IsFiniteSet(Kept \ {t})
    BY FS_RemoveElement DEF Finite
  <2>3. Cardinality(Kept \ {t}) \in Nat
    BY <2>2, FS_CardinalityType
  <2> QED BY <2>1, <2>2, <2>3
<1>2. Cardinality(SlotsOf(counts)) \in Nat
  BY FS_CardinalityType
<1>3. Running' = SlotsOf(TaskCounts')
  BY DEF Running, SlotsOf, TaskCounts
<1>4. CASE mqueue = <<>>
  <2>1. msize' = Decrement(msize) /\ fetching' = running /\ mqueue' = <<>>
    BY <1>4 DEF RotateTrack
  <2>2. TaskCounts' = counts
    BY <2>1 DEF TaskCounts, Tasks
  <2>3. IsFiniteSet(Running') /\ Cardinality(Running') = Cardinality(SlotsOf(counts))
    BY <1>3, <2>2
  <2> QED BY <1>1, <1>4, <2>1, <2>3 DEF Finite, InUse
<1>5. CASE mqueue # <<>>
  <2>1. UNCHANGED msize /\ fetching' = Add(running, Head(mqueue)) /\ Head(mqueue) \in TrackIds
    BY <1>5 DEF RotateTrack, MTypeOK
  <2>2. TaskCounts' = Add(counts, Head(mqueue))
    <3>1. \A u \in TrackIds : Tasks(u)' = IF u = Head(mqueue) THEN counts[u] + 1 ELSE counts[u]
      <4> TAKE u \in TrackIds
      <4>1. fetching'[u] = IF u = Head(mqueue) THEN running[u] + 1 ELSE running[u]
        BY <2>1 DEF Add
      <4>2. counts[u] = running[u] + fetched[u] /\ running[u] \in Nat /\ fetched[u] \in Nat
        BY DEF MTypeOK
      <4> QED BY <4>1, <4>2 DEF Tasks
    <3>2. TaskCounts' = [u \in TrackIds |-> Tasks(u)']
      BY DEF TaskCounts
    <3>3. Add(counts, Head(mqueue))
          = [u \in TrackIds |-> IF u = Head(mqueue) THEN counts[u] + 1 ELSE counts[u]]
      BY DEF Add
    <3> QED BY <3>1, <3>2, <3>3
  <2>3. IsFiniteSet(Running') /\ Cardinality(Running') = Cardinality(SlotsOf(counts)) + 1
    <3>1. Running' = SlotsOf(Add(counts, Head(mqueue)))
      BY <1>3, <2>2
    <3> QED BY <2>1, <3>1, SlotsCounted
  <2>4. InUse' = rest + 1
    BY <1>1, <1>2, <2>3 DEF InUse
  <2> QED BY <1>1, <1>5, <2>1, <2>3, <2>4 DEF Finite
<1> QED BY <1>4, <1>5

LEMMA WorkerMoves ==
    ASSUME MTypeOK, Finite, ManagerWorker, ~ClearHandler
    PROVE  Finite' /\ SlotMove
<1>1. CASE ClaimKnown
  <2>1. Target \in TrackIds /\ Target \in DOMAIN mtracks /\ fetched' = fetched
    BY <1>1, RequestTypes DEF ClaimKnown
  <2> DEFINE entry == Claimed(mtracks[Target])
  <2>2. mtracks' = With(Target, entry)
    BY <1>1 DEF ClaimKnown
  <2>3. entry.path <=> Target \in Kept
    BY <2>1 DEF Claimed, Kept, MTypeOK, TrackEntries
  <2>4. Kept' = Kept
    BY <2>1, <2>2, <2>3, KeptAfter
  <2>5. CASE TryDownload(Target)
    BY <2>1, <2>4, <2>5, TryDownloadMoves
  <2>6. CASE UNCHANGED <<mqueue, msize, fetching>>
    <3>1. Running' = Running
      BY <2>1, <2>6, TasksSame
    <3> QED BY <2>4, <2>6, <3>1 DEF Finite, InUse, SlotMove, Same
  <2> QED BY <1>1, <2>5, <2>6 DEF ClaimKnown
<1>2. CASE ClaimNew
  <2>1. Target \in TrackIds /\ Target \notin DOMAIN mtracks /\ fetched' = fetched /\ TryDownload(Target)
    BY <1>2, RequestTypes DEF ClaimNew
  <2> DEFINE entry == Claimed([path |-> FALSE, claims |-> 0])
  <2>2. entry.path <=> Target \in Kept
    BY <2>1 DEF Claimed, Kept
  <2>3. Kept' = Kept
    BY <1>2, <2>1, <2>2, KeptAfter DEF ClaimNew
  <2> QED BY <2>1, <2>3, TryDownloadMoves
<1>3. CASE UnclaimHandler
  <2>1. Target \in TrackIds /\ fetched' = fetched
    BY <1>3, RequestTypes DEF UnclaimHandler
  <2>2. CASE Target \notin DOMAIN mtracks
    <3>1. UNCHANGED <<mtracks, msize, mqueue, fetching>>
      BY <1>3, <2>2 DEF UnclaimHandler, dataVars
    <3>2. Running' = Running /\ Kept' = Kept
      BY <2>1, <3>1, TasksSame DEF Kept
    <3> QED BY <3>1, <3>2 DEF Finite, InUse, SlotMove, Same
  <2>3. CASE Target \in DOMAIN mtracks
    <3> DEFINE entry == Unclaimed(mtracks[Target])
    <3>1. entry.path <=> Target \in Kept
      BY <2>3 DEF Unclaimed, Kept, MTypeOK, TrackEntries
    <3>2. CASE CanRemove(entry)
      <4>1. RotateTrack(Target, fetching) /\ Target \in Kept
        BY <1>3, <2>3, <3>1, <3>2 DEF UnclaimHandler, CanRemove
      <4>2. Cardinality(Kept \ {Target}) = Cardinality(Kept) - 1
        BY <4>1, FS_RemoveElement DEF Finite
      <4>3. Running = SlotsOf(TaskCounts) /\ TaskCounts \in [TrackIds -> Nat] /\ IsFiniteSet(Running)
        BY RunningSlots DEF Finite
      <4>4. /\ Cardinality(SlotsOf(TaskCounts)) + Cardinality(Kept \ {Target}) = InUse - 1
            /\ InUse \in Nat /\ InUse >= 1
        <5>1. IsFiniteSet(Kept \ {Target})
          BY FS_RemoveElement DEF Finite
        <5>2. Cardinality(Kept \ {Target}) \in Nat
          BY <5>1, FS_CardinalityType
        <5> QED BY <4>2, <4>3, <5>2, Numbers
      <4>5. \A u \in TrackIds : TaskCounts[u] = fetching[u] + fetched[u]
        BY DEF TaskCounts, Tasks
      <4>6. fetching \in [TrackIds -> Nat]
        BY DEF MTypeOK
      <4> QED BY <2>1, <4>1, <4>3, <4>4, <4>5, <4>6, RotateTrackMoves DEF SlotMove, GivenBack, HandedOn
    <3>3. CASE ~CanRemove(entry)
      <4>1. mtracks' = With(Target, entry) /\ UNCHANGED <<msize, mqueue, fetching>>
        BY <1>3, <2>3, <3>3 DEF UnclaimHandler
      <4>2. Running' = Running /\ Kept' = Kept
        BY <2>1, <3>1, <4>1, TasksSame, KeptAfter
      <4> QED BY <4>1, <4>2 DEF Finite, InUse, SlotMove, Same
    <3> QED BY <3>2, <3>3
  <2> QED BY <2>2, <2>3
<1> QED BY <1>1, <1>2, <1>3 DEF ManagerWorker
LEMMA DownloadMoves ==
    ASSUME MTypeOK, Finite, NEW t \in TrackIds, Download(t)
    PROVE  Finite' /\ SlotMove
<1> USE DEF Tasks
<1>1. CASE FetchDone(t)
  <2>1. \A u \in TrackIds : Tasks(u)' = Tasks(u)
    BY <1>1 DEF FetchDone, Add, Drop, MTypeOK
  <2>2. Running' = Running /\ Kept' = Kept /\ UNCHANGED <<msize, mqueue>>
    BY <1>1, <2>1 DEF FetchDone, Running, Kept, dataVars
  <2> QED BY <2>2 DEF Finite, InUse, SlotMove, Same
<1>2. CASE FetchFailed(t)
  <2> DEFINE running == Drop(fetching, t)
             counts == Drop(TaskCounts, t)
             rest == Cardinality(SlotsOf(counts)) + Cardinality(Kept \ {t})
  <2>1. running \in [TrackIds -> Nat] /\ TaskCounts \in [TrackIds -> Nat] /\ TaskCounts[t] > 0
    <3>1. fetching \in [TrackIds -> Nat] /\ fetched \in [TrackIds -> Nat] /\ fetching[t] > 0
      BY <1>2 DEF FetchFailed, MTypeOK
    <3>2. TaskCounts \in [TrackIds -> Nat] /\ TaskCounts[t] > 0
      BY <3>1 DEF TaskCounts
    <3> QED BY <3>1, <3>2, AddType
  <2>2. counts \in [TrackIds -> Nat]
    BY <2>1, AddType
  <2>3. \A u \in TrackIds : counts[u] = running[u] + fetched[u]
    BY DEF Drop, TaskCounts, MTypeOK
  <2>4. IsFiniteSet(SlotsOf(counts))
        /\ Cardinality(SlotsOf(counts)) = Cardinality(Running) - 1
    <3>1. Running = SlotsOf(TaskCounts)
      BY RunningSlots
    <3> QED BY <2>1, <3>1, SlotsCounted DEF Finite
  <2>5. RotateTrack(t, running) /\ fetched' = fetched
    BY <1>2 DEF FetchFailed
  <2>6. IF t \in Kept THEN rest = InUse - 2 ELSE rest = InUse - 1
    <3> DEFINE K == Kept
    <3>1. IsFiniteSet(K)
      BY DEF Finite
    <3> HIDE DEF K
    <3>2. Cardinality(K \ {t}) = IF t \in K THEN Cardinality(K) - 1 ELSE Cardinality(K)
      BY <3>1, FS_RemoveElement
    <3>3. Cardinality(Kept \ {t}) = IF t \in Kept THEN Cardinality(Kept) - 1 ELSE Cardinality(Kept)
      BY <3>2 DEF K
    <3> QED BY <2>4, <3>3, Numbers
  <2>7. rest \in Nat /\ InUse \in Nat
    <3>1. IsFiniteSet(Kept \ {t})
      BY FS_RemoveElement DEF Finite
    <3> QED BY <2>4, <3>1, FS_CardinalityType, Numbers
  <2> HIDE DEF running, counts, rest
  <2>8. rest = Cardinality(SlotsOf(counts)) + Cardinality(Kept \ {t})
    BY DEF rest
  <2>9. /\ Finite'
        /\ \/ mqueue = <<>> /\ mqueue' = <<>> /\ msize' = Decrement(msize) /\ InUse' = rest
           \/ mqueue # <<>> /\ UNCHANGED msize /\ InUse' = rest + 1
    BY <2>1, <2>2, <2>3, <2>4, <2>5, <2>8, RotateTrackMoves
  <2>10. CASE t \in Kept
    <3>1. SlotLost(t)
      BY <1>2, <2>10 DEF SlotLost
    <3>2. Shrunk
      BY <2>6, <2>7, <2>9, <2>10 DEF Shrunk
    <3> QED BY <2>9, <3>1, <3>2 DEF SlotMove
  <2>11. CASE t \notin Kept
    BY <2>6, <2>7, <2>9, <2>11 DEF SlotMove, GivenBack, HandedOn
  <2> QED BY <2>10, <2>11
<1>3. CASE DownloadFinish(t)
  <2>1. Tasks(t) > 0 /\ Tasks(t)' = Tasks(t) - 1 /\ (\A u \in TrackIds \ {t} : Tasks(u)' = Tasks(u))
    BY <1>3 DEF DownloadFinish, Drop, MTypeOK
  <2>2. IsFiniteSet(Running') /\ Cardinality(Running') = Cardinality(Running) - 1
    BY <2>1, TaskEnded DEF Finite
  <2>3. t \in DOMAIN mtracks /\ UNCHANGED <<mqueue, msize>>
    BY <1>3 DEF DownloadFinish
  <2>4. CASE SlotLost(t) /\ Kept' = Kept
    <3>1. Finite' /\ InUse' = InUse - 1
      BY <2>2, <2>4, Numbers DEF Finite, InUse
    <3> QED BY <2>3, <2>4, <3>1, Numbers DEF SlotMove, Shrunk
  <2>5. CASE t \notin Kept /\ Kept' = Kept \cup {t}
    <3> DEFINE K == Kept
    <3>1. IsFiniteSet(K) /\ t \notin K
      BY <2>5 DEF Finite
    <3> HIDE DEF K
    <3>2. IsFiniteSet(K \cup {t}) /\ Cardinality(K \cup {t}) = Cardinality(K) + 1
      BY <3>1, FS_AddElement
    <3>3. IsFiniteSet(Kept') /\ Cardinality(Kept') = Cardinality(Kept) + 1
      BY <2>5, <3>2 DEF K
    <3>4. Finite' /\ InUse' = InUse
      BY <2>2, <3>3, Numbers DEF Finite, InUse
    <3> QED BY <2>3, <3>4 DEF SlotMove, Same
  <2>6. CASE mtracks[t].claims = 0
    <3>1. Kept' = Kept
      BY <1>3, <2>6 DEF DownloadFinish, TrySetPath, Kept
    <3> QED BY <1>3, <2>4, <2>6, <3>1 DEF SlotLost
  <2>7. CASE mtracks[t].claims # 0
    <3>1. mtracks' = [mtracks EXCEPT ![t].path = TRUE]
      BY <1>3, <2>7 DEF DownloadFinish, TrySetPath
    <3>2. mtracks'[t].path = TRUE /\ DOMAIN mtracks' = DOMAIN mtracks
          /\ \A u \in DOMAIN mtracks \ {t} : mtracks'[u] = mtracks[u]
      BY <2>3, <3>1 DEF MTypeOK, TrackEntries
    <3>3. \A u : u \in Kept' <=> u \in Kept \cup {t}
      BY <2>3, <3>2 DEF Kept
    <3>4. Kept' = Kept \cup {t}
      BY <3>3
    <3>5. t \in Kept <=> mtracks[t].path
      BY <2>3 DEF Kept
    <3>6. CASE t \in Kept
      BY <1>3, <2>4, <3>4, <3>5, <3>6 DEF SlotLost
    <3>7. CASE t \notin Kept
      BY <2>5, <3>4, <3>7
    <3> QED BY <3>6, <3>7
  <2> QED BY <2>6, <2>7
<1>4. CASE DownloadPanic(t)
  <2>1. Tasks(t) > 0 /\ Tasks(t)' = Tasks(t) - 1 /\ (\A u \in TrackIds \ {t} : Tasks(u)' = Tasks(u))
    BY <1>4 DEF DownloadPanic, Drop, MTypeOK
  <2>2. IsFiniteSet(Running') /\ Cardinality(Running') = Cardinality(Running) - 1
    BY <2>1, TaskEnded DEF Finite
  <2>3. Kept' = Kept /\ msize' = msize
    BY <1>4 DEF DownloadPanic, dataVars, Kept
  <2>4. Finite' /\ InUse' = InUse - 1
    BY <2>2, <2>3, Numbers DEF Finite, InUse
  <2> QED BY <1>4, <2>3, <2>4, Numbers DEF SlotMove, Shrunk, SlotLost
<1> QED BY <1>1, <1>2, <1>3, <1>4 DEF Download

LEMMA SlotsSame == UNCHANGED <<dataVars, fetching, fetched>> => Running' = Running /\ Kept' = Kept
BY TasksSame DEF Kept, dataVars

(* Every step but Clear is one of these moves. *)
LEMMA SlotsStep ==
    ASSUME MTypeOK, Finite, [MNext]_mvars, ~ClearHandler
    PROVE  Finite' /\ SlotMove
<1>1. CASE ManagerWorker
  BY <1>1, WorkerMoves
<1>2. CASE \E t \in TrackIds : Download(t)
  BY <1>2, DownloadMoves
<1>3. CASE (\E r \in Requests : Request(r)) \/ ReceiveReport \/ UNCHANGED mvars
  <2>1. UNCHANGED <<dataVars, fetching, fetched>>
    BY <1>3 DEF Request, ReceiveReport, mvars, dataVars
  <2> QED BY <2>1, SlotsSame DEF Finite, InUse, SlotMove, Same, dataVars
<1> QED BY <1>1, <1>2, <1>3 DEF MNext, ManagerStep

LEMMA FiniteStep ==
    ASSUME MTypeOK, Finite, [MNext]_mvars
    PROVE  Finite'
<1>1. CASE ClearHandler
  <2>1. Running' = Running
    BY <1>1, TasksSame DEF ClearHandler
  <2>2. Kept' = {}
    BY <1>1 DEF ClearHandler, EmptyMap, Kept
  <2> QED BY <2>1, <2>2, FS_EmptySet DEF Finite
<1> QED BY <1>1, SlotsStep

LEMMA SlotsInit == MInit => Finite /\ InUse = 0
<1> SUFFICES ASSUME MInit PROVE Finite /\ InUse = 0
  OBVIOUS
<1>1. Running = {} /\ Kept = {}
  BY DEF MInit, Running, Tasks, Kept, EmptyMap
<1> QED BY <1>1, FS_EmptySet DEF Finite, InUse

-----------------------------------------------------------------------------
CacheFits == Finite /\ CacheBound

LEMMA CacheFitsSame == CacheFits /\ UNCHANGED <<dataVars, fetching, fetched>> => CacheFits'
BY SlotsSame DEF CacheFits, CacheBound, Finite, InUse, dataVars

LEMMA CacheFitsStep ==
    ASSUME MTypeOK, CacheFits, [MNext]_mvars, ~ClearHandler
    PROVE  CacheFits'
<1>1. Finite' /\ SlotMove
  BY SlotsStep DEF CacheFits
<1>2. /\ InUse \in Nat /\ InUse' \in Nat /\ InUse <= msize /\ msize <= CacheSize
      /\ msize \in Nat /\ CacheSize \in Nat /\ MaxUsize \in Nat /\ CacheSize < MaxUsize
  BY <1>1, Numbers, InUseIsNat DEF CacheFits, CacheBound
<1>3. Taken => CacheBound'
  BY <1>2 DEF Taken, Increment, CacheBound
<1>4. GivenBack => CacheBound'
  BY <1>2 DEF GivenBack, Decrement, CacheBound
<1>5. Queued \/ HandedOn \/ Same => CacheBound'
  BY <1>2 DEF Queued, HandedOn, Same, CacheBound
<1>6. Shrunk => CacheBound'
  BY <1>2 DEF Shrunk, Decrement, CacheBound
<1> QED BY <1>1, <1>3, <1>4, <1>5, <1>6 DEF SlotMove, CacheFits

LEMMA CacheFitsInit == MInit => CacheFits
BY SlotsInit, ManagerAssumption DEF MInit, CacheFits, CacheBound

(* As long as nothing is cleared, downloads that run and tracks that are   *)
(* kept fit in the slots counted and those in the cache: a slot is taken   *)
(* before a download starts, passes from the download to the kept track,   *)
(* and is given back or handed on at most once (track_manager.rs:203-256). *)
THEOREM CacheKeepsItsSize == MSpec /\ [][~ClearHandler]_mvars => []CacheBound
<1>1. MTypeOK /\ CacheFits /\ [MNext]_mvars /\ [~ClearHandler]_mvars => CacheFits'
  <2>1. UNCHANGED mvars /\ CacheFits => CacheFits'
    BY CacheFitsSame DEF mvars, dataVars
  <2> QED BY <2>1, CacheFitsStep
<1>2. CacheFits => CacheBound
  BY DEF CacheFits
<1> QED BY <1>1, <1>2, CacheFitsInit, ManagerTypes, PTL DEF MSpec

-----------------------------------------------------------------------------
LEMMA SlotsInUseStep ==
    ASSUME MTypeOK, Finite, SlotsInUse, [MNext]_mvars, ~ClearHandler,
           ~\E t \in TrackIds : SlotLost(t)
    PROVE  SlotsInUse'
<1>1. Finite' /\ (Taken \/ Queued \/ GivenBack \/ HandedOn \/ Same)
  BY SlotsStep DEF SlotMove
<1>2. /\ InUse \in Nat /\ InUse' \in Nat /\ InUse = msize /\ msize <= CacheSize
      /\ mqueue # <<>> => msize = CacheSize
      /\ CacheSize \in Nat /\ MaxUsize \in Nat /\ CacheSize < MaxUsize
  BY <1>1, Numbers, InUseIsNat DEF SlotsInUse
<1>3. CASE Taken
  BY <1>2, <1>3 DEF Taken, Increment, SlotsInUse
<1>4. CASE GivenBack
  <2>1. msize \in Nat /\ msize # 0
    BY <1>2, <1>4 DEF GivenBack
  <2>2. msize' = msize - 1 /\ InUse' = InUse - 1 /\ mqueue' = <<>>
    BY <1>2, <1>4, <2>1 DEF GivenBack, Decrement
  <2> QED BY <1>2, <2>1, <2>2 DEF SlotsInUse
<1>5. CASE Queued \/ HandedOn \/ Same
  BY <1>2, <1>5 DEF Queued, HandedOn, Same, SlotsInUse
<1> QED BY <1>1, <1>3, <1>4, <1>5

(* Every slot counted is used, and no track waits beside a free one: each  *)
(* step keeps that, for any tracks and cache size, except Clear and the    *)
(* ends of superfluous downloads.  try_download counts the slot it starts  *)
(* a download in, and rotate_track hands the slot of the entry it drops to *)
(* a waiting track or takes it off the counter.                            *)
THEOREM SlotsAreHandedOn == MSpec => SlotsStayInUse
<1>1. MInit => Finite
  BY SlotsInit
<1>2. MTypeOK /\ Finite /\ [MNext]_mvars => Finite'
  BY FiniteStep
<1>3. MTypeOK /\ Finite /\ [MNext]_mvars
      => [SlotsInUse => SlotsInUse' \/ ClearHandler \/ \E t \in TrackIds : SlotLost(t)]_mvars
  BY SlotsInUseStep
<1> QED BY <1>1, <1>2, <1>3, ManagerTypes, PTL DEF MSpec, SlotsStayInUse

(* No step that may lose a slot. *)
Calm == ~ClearHandler /\ ~\E t \in TrackIds : SlotLost(t)

(* Hence, as long as no such end has lost a slot, a track waits only while *)
(* every slot of the cache is held by a running download or a kept track.  *)
THEOREM WaitingOnlyWhenFull == MSpec /\ [][Calm]_mvars => [](mqueue # <<>> => InUse = CacheSize)
<1>1. MInit => SlotsInUse
  BY SlotsInit, ManagerAssumption DEF MInit, SlotsInUse
<1>2. SlotsInUse /\ [SlotsInUse => SlotsInUse' \/ ClearHandler \/ \E t \in TrackIds : SlotLost(t)]_mvars
      /\ [Calm]_mvars => SlotsInUse'
  <2>1. SlotsInUse /\ UNCHANGED mvars => SlotsInUse'
    <3>1. UNCHANGED mvars => UNCHANGED <<dataVars, fetching, fetched>>
      BY DEF mvars, dataVars
    <3> QED BY <3>1, SlotsSame DEF SlotsInUse, InUse, dataVars
  <2> QED BY <2>1 DEF Calm
<1>3. SlotsInUse => (mqueue # <<>> => InUse = CacheSize)
  BY DEF SlotsInUse
<1> QED BY <1>1, <1>2, <1>3, SlotsAreHandedOn, PTL DEF MSpec, SlotsStayInUse
=============================================================================
