---------------------------- MODULE TrackManager ----------------------------
(***************************************************************************)
(* The download cache of src/src/track_manager.rs.  A worker task takes    *)
(* claim, unclaim and clear requests in order from an unbounded channel;   *)
(* download tasks run beside it.  All of them change the same record of    *)
(* claims, waiting downloads and used slots under one mutex, and report to *)
(* the controller in the channel mevents.                                  *)
(*                                                                         *)
(* A download task is counted, not named: fetching[t] of them wait for the *)
(* downloader, fetched[t] of them have their file and wait for the mutex.  *)
(***************************************************************************)
EXTENDS Integers, Sequences, FiniteSets

CONSTANTS TrackIds,     \* track ids of the downloader
          CacheSize,    \* 1 + the configured cache size
          MaxUsize      \* largest value of the slot counter, usize

ASSUME ManagerAssumption ==
    /\ CacheSize \in Nat \ {0}
    /\ MaxUsize \in Nat /\ CacheSize < MaxUsize

VARIABLES mreqs,      \* requests to the worker task
          mtracks,    \* Data.tracks: claims and whether the path is set
          mqueue,     \* Data.queue: tracks waiting for a slot
          msize,      \* Data.size: slots in use
          fetching,   \* download tasks waiting for the downloader
          fetched,    \* download tasks that have a file
          files,      \* tracks whose file is in the download directory
          mevents     \* channel to the controller

dataVars == <<mtracks, mqueue, msize>>
mvars == <<mreqs, mtracks, mqueue, msize, fetching, fetched, files, mevents>>

TrackEntries == [path: BOOLEAN, claims: Nat]
Requests == [op: {"Claim", "Unclaim"}, id: TrackIds] \cup [op: {"Clear"}]
ManagerEvents == [type: {"Acquired", "Removed", "Failed"}, id: TrackIds]

Claim(t) == [op |-> "Claim", id |-> t]
Unclaim(t) == [op |-> "Unclaim", id |-> t]
Clear == [op |-> "Clear"]

(* "Failed" is Removed with the error of the download. *)
Report(kind, t) == mevents' = Append(mevents, [type |-> kind, id |-> t])

(* A map without keys. *)
EmptyMap == [k \in {} |-> k]

MInit ==
    /\ mreqs = <<>> /\ mtracks = EmptyMap /\ mqueue = <<>> /\ msize = 0
    /\ fetching = [t \in TrackIds |-> 0] /\ fetched = [t \in TrackIds |-> 0]
    /\ files = {} /\ mevents = <<>>

-----------------------------------------------------------------------------
(* Operations on Data. *)

With(t, entry) == [u \in DOMAIN mtracks \cup {t} |-> IF u = t THEN entry ELSE mtracks[u]]
Without(t) == [u \in DOMAIN mtracks \ {t} |-> mtracks[u]]

Add(counts, t) == [counts EXCEPT ![t] = @ + 1]
Drop(counts, t) == [counts EXCEPT ![t] = @ - 1]

(* usize arithmetic, which wraps in a release build. *)
Increment(n) == IF n = MaxUsize THEN 0 ELSE n + 1

(* Variant: a signed counter. *)
DecrementSigned(n) == n - 1
Decrement(n) == IF n = 0 THEN MaxUsize ELSE n - 1

(* Variant: the first claim of an abandoned track is overlooked. *)
NeedsDownloadUnclaimed(entry) == entry.claims = 0 /\ ~entry.path
NeedsDownload(entry) == entry.claims <= 1 /\ ~entry.path
Claimed(entry) == [entry EXCEPT !.claims = @ + 1]
Unclaimed(entry) == [entry EXCEPT !.claims = IF @ = 0 THEN 0 ELSE @ - 1]
CanRemove(entry) == entry.claims = 0 /\ entry.path

RemoveFile(t) == files' = files \ {t}

(* Keep a new file if its track is still claimed, delete it if not.        *)
TrySetPath(t) ==
    \/ /\ mtracks[t].claims # 0
       /\ mtracks' = [mtracks EXCEPT ![t].path = TRUE]
       /\ UNCHANGED files
    \/ /\ mtracks[t].claims = 0
       /\ RemoveFile(t)
       /\ UNCHANGED mtracks

TryDownload(t) ==
    IF msize = CacheSize
    THEN mqueue' = Append(mqueue, t) /\ UNCHANGED <<msize, fetching>>
    ELSE msize' = Increment(msize) /\ fetching' = Add(fetching, t) /\ UNCHANGED mqueue

(* Variants: the slot is given back although a waiting track takes it, or   *)
(* waiting tracks are not looked at.                                        *)
RotateTrackFreesSlot(t, running) ==
    /\ mtracks' = Without(t)
    /\ msize' = Decrement(msize)
    /\ IF mqueue = <<>> THEN fetching' = running /\ UNCHANGED mqueue
       ELSE fetching' = Add(running, Head(mqueue)) /\ mqueue' = Tail(mqueue)
RotateTrackForgetful(t, running) ==
    /\ mtracks' = Without(t)
    /\ msize' = Decrement(msize)
    /\ fetching' = running /\ UNCHANGED mqueue

(* Drop the entry of t and hand its slot to the next waiting track, beside *)
(* the downloads that run without it.                                       *)
RotateTrack(t, running) ==
    /\ mtracks' = Without(t)
    /\ \/ /\ mqueue # <<>>
          /\ mqueue' = Tail(mqueue)
          /\ fetching' = Add(running, Head(mqueue))
          /\ UNCHANGED msize
       \/ /\ mqueue = <<>>
          /\ msize' = Decrement(msize)
          /\ fetching' = running
          /\ UNCHANGED mqueue

-----------------------------------------------------------------------------
(* The worker task. *)

NextRequest(op) == mreqs # <<>> /\ Head(mreqs).op = op /\ mreqs' = Tail(mreqs)
Target == Head(mreqs).id

ClaimKnown ==
    /\ NextRequest("Claim")
    /\ Target \in DOMAIN mtracks
    /\ LET entry == Claimed(mtracks[Target]) IN
       /\ mtracks' = With(Target, entry)
       /\ \/ /\ NeedsDownload(entry)
             /\ TryDownload(Target)
             /\ UNCHANGED mevents
          \/ /\ ~NeedsDownload(entry)
             /\ IF entry.path THEN Report("Acquired", Target) ELSE UNCHANGED mevents
             /\ UNCHANGED <<mqueue, msize, fetching>>
    /\ UNCHANGED <<fetched, files>>

ClaimNew ==
    /\ NextRequest("Claim")
    /\ Target \notin DOMAIN mtracks
    /\ mtracks' = With(Target, Claimed([path |-> FALSE, claims |-> 0]))
    /\ TryDownload(Target)
    /\ UNCHANGED <<fetched, files, mevents>>

UnclaimHandler ==
    /\ NextRequest("Unclaim")
    /\ IF Target \notin DOMAIN mtracks
       THEN UNCHANGED <<dataVars, fetching, files, mevents>>
       ELSE LET entry == Unclaimed(mtracks[Target]) IN
            IF CanRemove(entry)
            THEN /\ RotateTrack(Target, fetching)
                 /\ RemoveFile(Target)
                 /\ Report("Removed", Target)
            ELSE /\ mtracks' = With(Target, entry)
                 /\ UNCHANGED <<mqueue, msize, fetching, files, mevents>>
    /\ UNCHANGED fetched

(* Forgets everything; running downloads and files are left alone. *)
ClearHandler ==
    /\ NextRequest("Clear")
    /\ mtracks' = EmptyMap /\ mqueue' = <<>> /\ msize' = 0
    /\ UNCHANGED <<fetching, fetched, files, mevents>>

ManagerWorker == ClaimKnown \/ ClaimNew \/ UnclaimHandler \/ ClearHandler

-----------------------------------------------------------------------------
(* A download task. *)

(* The downloader has written the file. *)
FetchDone(t) ==
    /\ fetching[t] > 0
    /\ fetching' = Drop(fetching, t)
    /\ fetched' = Add(fetched, t)
    /\ files' = files \cup {t}
    /\ UNCHANGED <<mreqs, dataVars, mevents>>

(* The downloader fails: download_error, under the mutex. *)
FetchFailed(t) ==
    /\ fetching[t] > 0
    /\ RotateTrack(t, Drop(fetching, t))
    /\ Report("Failed", t)
    /\ UNCHANGED <<mreqs, fetched, files>>

(* Success, under the mutex, which reports Acquired in either case.        *)
DownloadFinish(t) ==
    /\ fetched[t] > 0
    /\ t \in DOMAIN mtracks
    /\ fetched' = Drop(fetched, t)
    /\ TrySetPath(t)
    /\ Report("Acquired", t)
    /\ UNCHANGED <<mreqs, mqueue, msize, fetching>>

(* The entry is gone: the unwrap of line 203 ends the task, not the program. *)
DownloadPanic(t) ==
    /\ fetched[t] > 0
    /\ t \notin DOMAIN mtracks
    /\ fetched' = Drop(fetched, t)
    /\ UNCHANGED <<mreqs, dataVars, fetching, files, mevents>>

Download(t) == FetchDone(t) \/ FetchFailed(t) \/ DownloadFinish(t) \/ DownloadPanic(t)
ManagerStep == ManagerWorker \/ \E t \in TrackIds : Download(t)

-----------------------------------------------------------------------------
(* Callers, and the controller reading the events. *)

Request(r) ==
    /\ mreqs' = Append(mreqs, r)
    /\ UNCHANGED <<dataVars, fetching, fetched, files, mevents>>

ReceiveReport ==
    /\ mevents # <<>>
    /\ mevents' = Tail(mevents)
    /\ UNCHANGED <<mreqs, dataVars, fetching, fetched, files>>

MNext == ManagerStep \/ (\E r \in Requests : Request(r)) \/ ReceiveReport
MSpec == MInit /\ [][MNext]_mvars

-----------------------------------------------------------------------------
(* The state has its types. *)
MTypeOK ==
    /\ mreqs \in Seq(Requests)
    /\ DOMAIN mtracks \subseteq TrackIds /\ mtracks \in [DOMAIN mtracks -> TrackEntries]
    /\ mqueue \in Seq(TrackIds)
    /\ msize \in 0..MaxUsize
    /\ fetching \in [TrackIds -> Nat] /\ fetched \in [TrackIds -> Nat]
    /\ files \subseteq TrackIds
    /\ mevents \in Seq(ManagerEvents)

(* A claimed track that has no file is never forgotten: a download of it   *)
(* runs or waits for a slot, whatever order claims, unclaims, failures and *)
(* clears come in (track_manager.rs:139-158, 264).                         *)
Tasks(t) == fetching[t] + fetched[t]
Waiting(t) == \E i \in DOMAIN mqueue : mqueue[i] = t
Missing(t) == mtracks[t].claims > 0 /\ ~mtracks[t].path
MissingHasDownload ==
    \A t \in DOMAIN mtracks : Missing(t) => Tasks(t) > 0 \/ Waiting(t)

(* "Download this number of tracks beforehand" (cli.rs:45): the downloads  *)
(* that run and the tracks kept fit in the slots counted, and those in the *)
(* cache.                                                                  *)
Running == UNION {{t} \X (1..Tasks(t)) : t \in TrackIds}
Kept == {t \in DOMAIN mtracks : mtracks[t].path}
InUse == Cardinality(Running) + Cardinality(Kept)
CacheBound == InUse <= msize /\ msize <= CacheSize

(* Every slot counted is held by a download that runs or a track that is   *)
(* kept, and a track waits only while all slots of the cache are held so.  *)
SlotsInUse ==
    /\ InUse = msize /\ msize <= CacheSize
    /\ mqueue # <<>> => msize = CacheSize

(* The end of a download that holds a slot nobody gives back: no claim was *)
(* left (line 279), the track was here already, or its entry was gone.     *)
SlotLost(t) ==
    \/ DownloadFinish(t) /\ (mtracks[t].claims = 0 \/ mtracks[t].path)
    \/ DownloadPanic(t)
    \/ FetchFailed(t) /\ t \in Kept

(* A slot passes from download to kept track to the next waiting track, or *)
(* back to the counter: no claim, unclaim or failure leaves one counted    *)
(* but unused, or unused beside a waiting track.  Clear, which forgets     *)
(* running downloads, and the ends named above are the only exceptions     *)
(* (track_manager.rs:233-249).                                             *)
SlotsStayInUse ==
    [][SlotsInUse => SlotsInUse' \/ ClearHandler \/ \E t \in TrackIds : SlotLost(t)]_mvars
=============================================================================
