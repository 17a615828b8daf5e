# Verification of yt-music-bot

The program plays YouTube tracks on the audio device of the machine it runs on.
Clients (a Telegram bot, an admin server on a Unix socket) add tracks to one
queue; a download cache fetches them ahead of time; a player plays them. This
directory holds TLA+ models of its parts, the TLC runs that check them, and
proofs of their safety properties for every value of the constants. Paths are
relative to `src/src/` unless they start with `src/`. Modelled is the repository as its
source stands; it has no tests and no design documents, so what the program
promises is taken from the help texts of its options (`cli.rs`), the command
descriptions of the bot (`telegram/dispatch.rs`), and the unwraps of the code.

## Inventory

| component | state | operations | talks to |
|---|---|---|---|
| player, `player.rs` | rodio sink, mute, volume level | play, pause, toggle, stop, skip, mute, volume, queue, status; callbacks when a track starts and ends | answers requests one by one on its own thread; the audio thread of rodio runs the callbacks; events in an unbounded channel |
| track manager, `track_manager.rs` | claims and path of every track, tracks waiting for a slot, slots in use | claim, unclaim, clear; download, download error | worker task fed by an unbounded channel; one task per download; one mutex; events in an unbounded channel |
| controller, `controller.rs` | play queue (id -> track, sent), tracks (-> downloaded), next queue id, under one RwLock | add tracks, every player request, view, status; handlers of player and manager events | calls the player *with the lock held*; broadcasts to all clients |
| broadcast, `controller.rs:215-237, 392-421` | ring of 8 events, receivers | send (an error without receivers), receive (a lag is swallowed) | every client |
| admin server, `server.rs` | accept loop; per connection three tasks, a writer with a channel of 4 messages, whether a prompt is open | commands; notifications | controller and its lock, broadcast |
| Telegram bot, `telegram/` | subscribed chats, a dialogue per chat, a channel of registrations, LRU store from origin id to the message that asked | /start, /stop, requests; notifications to all chats, answers to download errors | controller, broadcast |
| YouTube service, `youtube.rs`, `py/youtube.py` | bounded channel, bounded queue of the processes and its lock, a pipe per request, an alarm per download | resolve, download, close | one thread serves one request at a time |
| start and shutdown, `run.rs` | task set, cancellation token, socket file | start, first error or ^C cancels all | all |
| options, utilities, formatting | none | | |

What is hard about it:

* Three parties change the queue without a common step: clients under the
  lock, the controller's task from two channels in random order
  (`stream_select!`), and the audio thread, which only sends events.
* An event says what was true when it was sent. After a stop the queue and its
  ids start again, while events, requests and downloads of the old queue are
  still on their way.
* Whether a track is sent to the player depends on exactly one handler doing so
  at the right time: there is no periodic retry.
* Claims live in two places, as entries of the controller and as counters of
  the manager, and cross in two channels.
* Handlers unwrap: a missing entry is a panic, and a panic or an error of the
  controller's task ends the program (`run.rs:85-95`).
* Locks are held across waiting: the listing of an admin connection holds the
  controller's read lock while a client reads (or does not), and the bot holds
  a shard of its set of chats while Telegram answers.
* Ends come in any order: a receiver that lags sleeps, a client leaves with a
  prompt open, a process dies with a request, an alarm fires as the download
  returns, two tasks fail at once.

`PROJECT.json` lists the hazards one by one, at the line where each bites, with
the properties that cover it.

What makes each component correct: the player says what the sink does, and
never loses a callback; the manager never forgets a claimed track, keeps to its
size, and passes every slot on that it has counted; the controller sends every
entry once, in order, as soon as it can be, and its entries stay claimed; a
receiver sees the events in order, none twice and, up to its first lag, all; whoever
holds a lock gives it back; a chat is subscribed exactly while its dialogue runs;
a request has one reply; a download has one answer; shutdown ends, with an error
exactly if a task failed. Not all of it is true of the code; the properties name
their exceptions.

## Modules

| module | models | state and actions |
|---|---|---|
| `Player` | `player.rs` and the sink | `sink` is the list of sources not yet played. A track is three (`Triple`): a callback, the decoded file, a callback. One action per request (`PlayHandler` ... `QueueHandler`), taken when the thread is idle. `stop` is two actions, because `Sink.clear` waits for the audio thread and callbacks may still run in between. `AudioSkip`, `AudioStarted`, `AudioTrackEnd`, `AudioFinished` are the audio thread. |
| `TrackManager` | `track_manager.rs` | `mtracks`, `mqueue`, `msize` are the fields of `Data`; `mreqs` and `mevents` the channels. `ClaimKnown`, `ClaimNew`, `UnclaimHandler`, `ClearHandler` are the worker task. Downloads are counted per track by phase: `fetching` ends with `FetchDone` or `FetchFailed`, and `fetched` with `DownloadFinish`, or `DownloadPanic` when the entry is gone. `files` is the download directory. |
| `Controller` | `controller.rs`, composing both | EXTENDS the two modules, adding `queue`, `tracks`, `nextId`. `call` is the player request awaited with the lock held; `LockFree` is the lock. One action per event kind; `AddTracks` and `PlayerRequest` are clients. `ctl` is "running", or the reason the task ended; nothing moves after that. `listening` says whether the broadcast channel has a receiver. |
| `Broadcast` | the broadcast channel | `tail` numbers the newest event, `cursor` is what a receiver has got to, and `rx` whether it waits, holds an event, or is `asleep`: `FallAsleep` is the lag that `poll_next` answers with `Pending` and no waker. |
| `EventFeed` | what the broadcast promises a reader | abstract: join at some event, then see every next one |
| `AdminServer` | `server.rs`, and of the controller what a connection meets | EXTENDS `Broadcast`. `req` is the point the request task has reached; the steps that send are the fields of `Sends` and `Then` says what follows. `chan`, `open`, `prompt` are the writer. `lockq` and `readers` are tokio's fair RwLock; the listing is the one reader that keeps it while it sends. `client` and `term` are the user's side. |
| `Runtime` | `run.rs`, the accept loop and the controller's cancellation | EXTENDS `AdminServer`. `Join` is `wait_for_tasks`, `CtrlC` the signal, `Exit` the end of `run`. The bot is a task that runs until it is cancelled or fails. |
| `RequestService` | what the download service promises | abstract: a queue of accepted requests answered in order, which may break |
| `Youtube` | `youtube.rs`, `py/youtube.py` | callers (`Ask`, `Send`), the thread (`ThreadTake` ... `ThreadJoin`), the processes (`LockQueue` ... `Reply`), the alarm (`AlarmFires`), what the system may do to a process (`Die`), and the end of the runtime (`HandlesDropped`), which may come at any time and drops whoever waits for room in the channel. Once `gone`, the thread may stop anywhere: nobody joins it. What the processes do after the program has ended is not modelled |
| `TrackLists` | `filter_tracks`, and how a list becomes messages | the loops as folds and recursive functions, and the same without loops to compare with |
| `TelegramBot` | `telegram/` | EXTENDS `Broadcast`. `update` and `dialogue` are a chat's command and state, `step` a request on its way, `regs` and `store` its registration. The walk over the DashSet is `EnterShard`, `SendTo`, `Finish`, with `guard` the shard that is locked. `ThreadFree` counts the threads that wait for it. |
| `TrackManagerProofs`, `PlayerProofs`, `ControllerProofs` | | theorems about the parts of the core, and of the core itself |
| `QueueProofs` | | theorems about the play queue against sink and claims; EXTENDS `ControllerProofs` |
| `YoutubeProofs`, `RuntimeProofs`, `TelegramBotProofs` | | theorems about the download service, the admin server with the program around it, and the bot |
| `DataInduction` | | lemmas: induction over numbers for sets, and what functions and folds along a sequence compute |
| `MCPlayer`, `MCTrackManager`, `MCController`, `MCRuntime`, `MCYoutube`, `MCTelegramBot` | | bounds and constants for TLC; `MCController` also states fairness |

Definitions that start with "Variant:" in their comment are plausible mistakes;
`PROJECT.json` names the property that finds each.

Abstractions, and why they are sound for the properties:

* Tracks are model values; a file is named by its track. Titles, origin ids
  and tracing spans are left out, as no modelled decision reads them.
* Volume requests are left out of the composition: they change nothing that
  another action of it reads. `Player` has them.
* Downloads finish in any order. The service runs one at a time, but any
  order of *reporting* under the mutex is possible, and requests enter its
  channel from concurrent tasks.
* A callback runs in the same step as the sink forgets its source. rodio
  decrements its counter just after the callback.
* `MaxUsize` stands for the largest `usize`. A small one makes the wrap of the
  slot counter (`track_manager.rs:248`, a release build) reachable.
* `Disconnect` may come at any time; in the code the last receiver goes after
  its notifier has failed to pass one event on (`server.rs:402-418`).
* Decoding never fails for a file that exists; a missing file is `InvalidTrack`.
* `status()` only reads and is not an action; of `view()` it matters that the
  guard lives on, which `AdminServer` models.
* `AdminServer` has of the controller only what others notice: it wants the
  lock for writing or for reading, or not, then broadcasts or not. `Controller`
  has the reasons. A request to the player is answered at once; that it is
  answered is what `Player` and `drain` show.
* A client of the admin server presses return only when it has been asked.
  One that types ahead moves the cursor without the writer knowing, and
  `PromptKnown` fails for it. Its socket takes a message whole or, stalled, not
  at all.
* A download event is a kind and an origin. In `TelegramBot` events of
  nobody's request are left out: they go the way of a request that is not
  stored. Confirmations and refusals of a command are sent by the command
  itself and change nothing.
* Telegram answers a command's own message in its own time; only the handler's
  messages are steps, since it holds a guard meanwhile.
* In `Youtube` the alarm may fire at any time between arming and disarming.

## Runs

All bounds are in the `.cfg` files; the MC modules name them.

| run | asks | bounds | result |
|---|---|---|---|
| `player` | do the player's words agree with the sink, whatever the requests | 2 ids, 3 levels, 6 sources, 2 events: partly played and skipped heads with a whole track behind | pass |
| `player_skip` | does skip drop a track | 1 id | violation, below |
| `manager` | is a claimed track ever forgotten, and where can a slot be lost | 3 tracks over 2 slots, 2 claims each, 3 downloads: waiting, shared and abandoned tracks | pass |
| `controller` | do queue, track map and claims agree after stop, skip, failures and late events | 2 tracks, 3 queue ids, 1 slot, lists of 0 to 2 tracks, a track repeated | pass |
| `session` | order, exactly-once and cache size while nobody stops or skips | 3 tracks, 4 ids, 2 slots, a track repeated, failures, receivers that come and go | pass |
| `drain` | is every entry played in the end | 3 different tracks in 5 ids, 2 slots, downloads succeed, play and pause | pass |
| `double_queue` | can an unwrap of the controller fail | as `controller`, but no failures and no repeats | violation, below |
| `stall` | `QueueDrains` with a failing download | 2 tracks, 2 ids | violation, below |
| `cache_deadlock` | `QueueDrains` with a track queued twice | 2 tracks, 3 ids, 1 slot | violation, below |
| `youtube` | do thread, processes and pipes make an orderly service; who can wait for ever | 2 downloads, 2 resolves (one of a foreign host), 2 processes, 1 death: a full channel, a request behind the one served, a dead holder of the lock, handles dropped while callers wait | pass |
| `admin` | what a client sees, who keeps the lock, how the program ends | 1 connection, ring and writer of 1, 2 events: a lag, a full writer, and the lock with a reader, the controller and a wait for it; the bot and the controller may fail on their own | pass |
| `bot` | who is told what while chats come and go | 2 chats in 2 shards, 3 threads, a /queue and a player request, ring and store of 1, 3 events: a lag, an eviction, a reply and a second error for the same request, a list that fits exactly and one that does not | pass |

In `MCController` clients act only while the channels and downloads hold at
most `MaxBacklog` and the sink at most `MaxSources` items, so that TLC
terminates; steps of the program are never held back, and each client step can
meet every phase of the work of the one before. Queue ids end at a maximum,
which only limits how many tracks are added between two stops; three to five
cover two tracks in flight, one behind and one that is stale. `drain` clients
add no track that is in the queue already (`Repeats`), because of
`cache_deadlock`, and downloads do not fail there, because of `stall`: the runs
together delimit when the queue drains.

In the last three runs the capacities (8 events, 4 messages, 1000 requests, 20
tracks in a message) are 1 or 2: what they decide is what happens when they are
reached, and one is the size at which that comes soonest. Two readers do not
meet in the `admin` run; a second connection differs from the first only in the
queue of the lock, where the controller is the other party.

`CHECK_DEADLOCK FALSE` where the system may stop: the manager when a cleared
download has leaked its slot, the controller when its task has ended or nobody
has anything to ask, the service when a process has died or all is closed, the
program when it has exited, the bot when its events are used up.

Fairness (`FairSpec`, in `MCController`) is weak and only of the program's own
steps. The worker task, download tasks and controller task are scheduled by
tokio; the two event streams are merged by `stream_select!`, which picks at
random, so each of `HandlePlayerEvent` and `HandleManagerEvent` is fair; the
player's thread answers (`AnswerCall`); a sink that is not paused plays
(`PlayerProgress`); downloads end because the downloader has a timeout
(`py/youtube.py:170-173, 252-269`). tokio's RwLock is fair, so a waiting handler
gets the lock although clients come back. Clients are under no obligation:
`QueueDrains` excuses behaviours that pause playback for ever or again and
again, nothing else.

`Youtube` has weak fairness of the thread as long as the runtime lives (`~gone`),
of each living process (of extracting only for a resolve, whose sockets have a
timeout; of a download only the alarm is sure, whose exception yt-dlp is taken to let
through), and of the caller that waits for room. Nobody joins the thread
(`youtube.rs:138`): once the handles are dropped `main` may return, which ends the
thread before or during `close`, so it owes nothing any more. `EveryRequestAnswered`
excuses the shutdown for that reason, and the death of a process that has taken a
request or the queue's lock along, because `recv` has no timeout there. That `close`
puts enough into the queue is therefore an invariant of the state in which the
thread waits for the processes (`NoneForEveryWorker`), and not a promise that it
gets there.

`Runtime` has weak fairness of every task, and strong fairness of two steps: the
writer's write, which is possible again and again to a client that stalls again
and again, and the controller's look at the token, one of three sources that
`stream_select!` takes in random order. A client owes nothing. The properties
about the lock and the shutdown therefore start with `ClientsRead`: without it
they fail, since a client that stalls for good during a listing keeps the read
lock, then the controller and the shutdown wait for ever. That is the code's
behaviour and the reason for the premise.

`TelegramBot` has weak fairness of a blocked command and of the tasks together.
Requests and events are bounded, so no task can be kept waiting by the others
for ever. `Threads` is larger than the number of chats; with fewer, chats that
wait for a guarded shard take every thread the handler needs to release it, and
`CommandsFinish` is false. The default is one thread per core (`cli.rs:111`),
and Telegram's updates are handled in parallel across chats.

## What the violations show

* `player_skip`: the bot describes `/skip` as skipping the track, but
  `Sink::skip_one` drops one source. Right after a track was queued on a paused
  sink it drops the start callback; between the end of a track and its callback
  it drops the end callback, and then the controller never hears of the end.
* `double_queue`: an entry is marked as sent when `TrackAdded` comes back, not
  when it is sent. A second `Acquired` in between sends it again.
* `stall`: a failed download removes its entries without sending the next track.
* `cache_deadlock`: a claim behind the head keeps the slot the head needs.

Related, seen in the same models and not listed again: an `Acquired` or
`Removed` after a stop ends the program at `controller.rs:598`, `603`; a stop
while a download runs makes the slot counter disagree with the slots for good
(`CacheBound` holds only without `Clear`); `/clear` with an empty sink clears
nothing (`player.rs:327`).

## Proofs

Every safety property that a passing run checks, and both refinements of an
abstract specification, are proved for all values of the constants; `PROJECT.json`
lists the theorems with the properties they state.

`TrackManagerProofs` proves, for any tracks, any cache size and any order of
requests, failures and downloads (`MSpec`):

* `ManagerTypes`: `MTypeOK`, by one lemma per action group;
* `WaitingOnlyWhenFull`: a track waits only while the slot counter is at the
  cache size. Inductive together with the types: only `TryDownload` queues, and
  only when full; only `RotateTrack` and `Clear` lower the counter, the one when
  nothing waits, the other emptying the queue;
* `SlotsAreHandedOn`: `SlotsStayInUse`, which says that the counter also tells the truth.
  While each slot counted belongs to a running download or a kept track
  (`SlotsInUse`), every step keeps that, and with it that a track waits only while
  all slots are used. The exceptions are in the formula: `Clear`, which forgets running
  downloads, and `SlotLost`, the ends of a download that give no slot back (its
  track has no claim any more, is there already, or has lost its entry);
* `NoForgottenTrack`: `MissingHasDownload`. A rotation hands its slot to the
  head of the waiting tracks, so that track gets a running download in exchange
  for its place in the queue, and every other waiting track keeps its place;
  the track whose download ends in an error loses its entry; one that ends
  well gets a path. The lemmas on `Append` and `Tail` carry this;
* `CacheKeepsItsSize`: `CacheBound`, for behaviours that handle no `Clear`
  (`[][~ClearHandler]_mvars`). A `Clear` resets the slot counter while downloads
  run on, and the property is then false. The bound counts a set of
  pairs (track, download), which has to be finite for that: `CacheFits` adds this,
  and `SlotAdded` and `SlotsCounted` say how the count moves with one download.

`PlayerProofs` proves for any set of queue ids and any volume range (`PSpec`):

* `PlayerTypes`: `PTypeOK`, where the volume level stays inside its range by
  the saturation of `change_level`;
* `GainAgrees`: `GainFollowsMute`, with the types as the invariant it needs;
* `SinkIsTriples`: `SinkShape`. Kinds are counted from the end of the sink, so
  that dropping the head changes nothing and appending a triple shifts every
  index by three;
* `StatusLengthRight`: `StatusLengthExact`, by induction along a sink of that
  shape: of its last k sources, as many are tracks as the rounded division says.

`ControllerProofs` proves for the core as a whole (`Spec`), for any lists of
tracks, ids, cache size and any choice of what clients do:

* `PlayerImplemented`: `Spec => PSpec`. Every step of the core is a step of the
  player or leaves it alone. This needs `CTypeOK` as an invariant: the id in an
  awaited `Queue` request is an id of the play queue. What `PlayerProofs` proves
  of `PSpec` then holds in the core;
* `CoreTypes`: `TypeOK`. The manager takes only steps of `MNext` here, except
  that `AddTracks` sends the claims of a whole list in one critical section
  (`RequestAll`), so `Spec => MSpec` is false and each step lemma of
  `TrackManagerProofs` is used directly instead, with `RequestAllKeeps` for
  the exception;
* `CoreSlotsAreHandedOn`, `CoreNoForgottenTrack`: the manager's `SlotsStayInUse` and
  `MissingHasDownload`, by the same step lemmas;
* `QueueTracksStayKnown`: `QueueTracksKnown`. Entries are added with their
  tracks and a track is taken from the map only with all its entries
  (`RemoveTrack`) or with everything (`StopData`). It is inductive with
  `CTypeOK`, which places the ids of a list.

`QueueProofs` relates the queue to its two neighbours, in the same `Spec`:

* `EntriesStayClaimed`: `ClaimCoverage`, whatever clients do, stops and skips
  included. It is about the claims the manager will count once it has taken the
  requests on their way, and says nothing of the file until then: for a track that
  is finished and added again `Unclaim` and `Claim` wait one behind the other, and the
  first deletes the file. `FinalClaims` is a recursive function over the channel of requests;
  what it computes is stated as `Balance(c, t, requests, entries)`: a count runs
  along the requests behind the last `Clear` and ends with c. `BalanceIs`
  says that this is what `FinalClaims` yields, by induction along the channel.
  `BalanceAppend` follows a request that is sent and `BalanceTaken` one that the
  worker takes, whose effect on the entries is that of one step of the count.
  `ListCovered` adds the claims of a list one by one, each with its entry.
  `QueueFinite` is needed to compare cardinalities, and
  `QueueTracksKnown` for the report of a failed download whose track is unknown:
  it ends the task, but it takes no claim from an entry;
* `TracksPlayInOrder`: `PlayInQueueOrder`, for clients that do not stop.
  `InOrder` adds that an awaited `Queue` request is for the first entry not sent
  and that ids are below the next id; the sink's triples (`SinkIsTriples`) say
  that what is left of a track keeps its place. With a stop it is false: the ids
  start again while the sink still empties;
* `SentTracksWillFinish`: `SentWillFinish`, for clients that neither stop nor
  skip. `Finishing` says it of every `TrackAdded` on its way as well, because an
  entry is marked as sent only when that event is handled, and orders it before
  the `TrackFinished` of the same send. A skip can drop the callback that sends it
  (`player_skip`);
* `CoreCacheKeepsItsSize`: `CacheBound` in the core, for clients that do not
  stop: `NeverStopped` shows that then no `PlaybackStopped` and no `Clear` is
  ever sent.

The premises `"stop" \notin ClientOps` and `"skip" \notin ClientOps` are those of
the run `session`, and none is stronger than it has to be: with `session` changed
to let clients stop, TLC finds each of the three properties violated, and with
skips `SentWillFinish` only. Failing downloads, repeated tracks, any lists and receivers
that come and go are not excluded anywhere.

`YoutubeProofs` proves for any requests and worker processes: `ServiceTypes`
(`YTypeOK`), `OneAtATime` (`OneWorkerBusy`), `TimeoutsStayWithDownloads`
(`OnlyDownloadsTimeOut`), `CloseReachesAll` (`NoneForEveryWorker`) and the
refinement `ServiceImplemented` (`ServesInOrder`).
The invariant has four parts: callers, channel and thread agree on who waits
(`CallersAgree`); the request being served is in one place, the queue, one worker
or its pipe (`WorkInOnePlace`), which is why one worker at most is busy; an alarm is
armed only during the download it belongs to (`TimeoutsAgree`); while the thread
waits for the processes the queue has a None left for each that lives (`NoneLeft`).
The abstract queue is the thread's request followed by the
channel; taking a request and handing it to a process are stutters, answering is
the abstract answer, a panic of the thread is the abstract break.

`RuntimeProofs` proves for any number of connections, sizes of ring and writer,
with or without bot: `RuntimeTypes` (`RTypeOK`), `PromptNeverLost`
(`PromptKnown`), `ExitsCleanly` (`CleanExit`) and the refinement
`ClientsSeeAFeed` (`ShowsFeed`). `LockAgrees` identifies the readers with the
connections that send a listing, and the queue of the lock with those who wait.
`PromptsAgree` follows a prompt from the request task through the
writer's channel: there is one at most, and the message that closes it comes
behind it. `FeedsAgree` orders what is shown, what is in the channel and what the
cursor is at, and `NoGap` says that these follow each other without a number
missing, which a receiver that has lagged keeps by sleeping. `JoinsAgree` says that a task that was joined stays as it ended,
which makes the outcome independent of the order.

`TelegramBotProofs` proves for any chats, messages and tracks: `BotTypes`
(`BotTypeOK`), `LongestPrefixAccepted`, `AllTracksAnnounced`, `DialoguesMatch`,
`OneReplyEach`, and the action properties `StopIsObeyed` (`NothingAfterStop`) and
`NobodyLeftOut` (`NoChatLeftOut`). The invariant: a chat's command, dialogue and
membership agree at each point of the command (`DialogueAgrees`); a request that
may still be answered is in one of the channel, the store and the handler's
hands, once (`RepliesAgree`); the chats left in the shard are kept in the set by
its guard, one that is due is still ahead, and a reply on its way is that of a failed
download to its own request (`WalkAgrees`). `StopIsObeyed` is about every message
the handler sends: that reply alone can reach a chat that has left.
`NobodyLeftOut` withholds an event from a subscribed chat only if it is an error
that has been answered; an error without a stored request goes to all. The two theorems
about lists are lemmas about `TrackLists` first: the loop that filters and the
one that fills messages are followed element by element.

`DataInduction` makes that possible. The induction theorems of the library take
an operator as parameter, which the provers cannot instantiate; but that a
well-founded relation has minimal elements (`WFMin`) is a statement about sets.
From it follow `SetInduction` for sets of numbers, that a function defined along
a sequence exists and is what each step makes of the one before
(`RecursionExists`), and the same for `FoldLeft`, whose definition recurses over
sets of positions (`FoldExists`, `FoldStep`).

The only assumptions are those on the constants, which TLC evaluates on each
run: among them that queue ids are an initial segment of the positive numbers
(`ControllerAssumption`) and that the controller is none of the connections
(`AdminAssumption`; both stand in the queue of the lock).

Model-checked only, because liveness under fairness is out of the prover's
reach: `QueueDrains`, `EveryRequestAnswered`, `ShutdownCompletes`, `LockComesFree`, `ShowsAll`, `CommandsFinish`,
`RequestsTaken`. None of the modules uses RECURSIVE.

## Seen on the way

Behaviour of the code that the models show and no text of the repository
contradicts:

* The number of youtube workers gives no parallelism: the thread waits for each
  answer before it takes the next request (`OneWorkerBusy`), so a long download
  also delays every search.
* A download error answers the message that asked only if its request has been
  registered by then and no other event of the same request came in between:
  `TracksQueued` is sent before the registration but may be handled after it,
  and then uses the entry up. Only the first failing track of a request is
  answered as a reply, the others go to all chats.
* Connections are not in the join set: the program may exit before a client has
  got its "Bye!".
* A receiver that has lagged once is polled again only if something else wakes
  its task; an admin connection's notifications then stay away.
* A download that ends without a claim of its track left deletes the file, reports
  `Acquired` all the same, and keeps entry and slot (`track_manager.rs:204, 279`): the
  slot is missing until the next `Clear`. A second download of a track that is here
  already keeps its slot, too. `SlotLost` names these ends.
* A track that is finished and added again at once can be sent to the player after
  its file has been deleted: the controller's downloaded flag is older than the
  `Unclaim` on its way. That is `InvalidTrack`, and ends the program
  (`controller.rs:525`; the run `controller` reaches it).
* The processes of the downloader outlive the program if `main` returns before the
  detached thread has closed them; they then wait at their queue.
* One message that Telegram refuses, for instance to a chat that has blocked
  the bot, ends the program with an error.

## Not modelled, and the plan

Modelled: every component that keeps state. What is left of them:

1. `Playlist`: an abstract queue (add, play head, drop) that `Controller`
   without stop and skip implements by INSTANCE with a refinement mapping.
2. `status()` as a two-step snapshot, with the subtraction of
   `controller.rs:375`; the /clear promise (`player.rs:327`).
3. `/show` of the bot, which holds the controller's read lock while Telegram
   takes its messages: the same hazard as the listing of `AdminServer`.
4. `Youtube` as the downloader of `TrackManager`: the any-order downloads there
   are more than the service does, so that nothing is missed.
5. Proofs: the implementation of `Playlist`; that no unwrap fails without stops
   once a second send of the same entry is excluded (`double_queue`); lemmas
   towards `QueueDrains`, such as that an entry that can be sent always has a
   step that sends it under way.

Left out for good: yt-dlp and the order of its metadata, rodio's decoding,
teloxide, tracing, the layout of messages, the parsing of arguments (pure, and
with the type system's help total), options, the name and the removal of the
download directory.
