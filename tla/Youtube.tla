------------------------------ MODULE Youtube ------------------------------
(***************************************************************************)
(* The download service: the bounded channel and the one thread of         *)
(* src/src/youtube.rs, and the worker processes of src/src/py/youtube.py   *)
(* behind their own bounded queue.  The thread takes one request, hands it *)
(* to a worker with a pipe of its own and waits for the answer.            *)
(*                                                                         *)
(* A worker reads the queue under the read lock of multiprocessing.Queue;  *)
(* SIGALRM interrupts a download; a process may die, and the answer of     *)
(* yt-dlp (Extract) is nondeterministic.  What a pipe carries is only the  *)
(* verdict.                                                                *)
(***************************************************************************)
EXTENDS Naturals, Sequences, FiniteSets

CONSTANTS Downloads, Resolves,  \* the requests, each made at most once
          ForeignUrls,          \* those that name a host other than youtube's
          Workers,              \* the worker processes
          Nothing,              \* no request, no worker
          Stop,                 \* None, which ends a worker
          MaxDeaths,            \* bound: processes that may die
          PipesFail             \* the parent may fail to open a pipe

Requests == Downloads \cup Resolves
Jobs == Cardinality(Workers)

ASSUME YoutubeAssumption ==
    /\ IsFiniteSet(Workers) /\ Workers # {}
    /\ Downloads \cap Resolves = {} /\ ForeignUrls \subseteq Resolves
    /\ Nothing \notin Requests \cup Workers /\ Stop \notin Requests \cup {Nothing}
    /\ MaxDeaths \in Nat /\ PipesFail \in BOOLEAN

VARIABLES caller,    \* idle, sending, waiting, answered or dropped
          verdict,   \* the answer a caller has had
          chan,      \* the mpsc channel
          gone,      \* every handle of the channel has been dropped
          thread,    \* what the thread does
          current,   \* the request it has taken
          jobq,      \* the queue of the processes
          reader,    \* the holder of the queue's read lock
          phase,     \* what a worker does
          work,      \* the request it has taken
          alarm,     \* SIGALRM is pending for the worker
          result,    \* what it is going to answer
          pipe       \* what the pipe of a request holds

callers == <<caller, verdict, gone>>
threadVars == <<chan, thread, current, jobq>>
workerVars == <<reader, phase, work, alarm, result, pipe>>
vars == <<callers, threadVars, workerVars>>

Verdicts == {"ok", "error", "timeout"}
Idle(w) == phase[w] = "idle"
Busy(w) == phase[w] \in {"running", "done", "reply"}
Broken == thread = "panicked"

Init ==
    /\ caller = [r \in Requests |-> "idle"]
    /\ verdict = [r \in Requests |-> "none"]
    /\ chan = <<>> /\ gone = FALSE
    /\ thread = "idle" /\ current = Nothing /\ jobq = <<>>
    /\ reader = Nothing
    /\ phase = [w \in Workers |-> "idle"]
    /\ work = [w \in Workers |-> Nothing]
    /\ alarm = [w \in Workers |-> FALSE]
    /\ result = [w \in Workers |-> "none"]
    /\ pipe = [r \in Requests |-> "none"]

-----------------------------------------------------------------------------
(* Callers: Youtube::resolve and Youtube::download_by_id. *)

AnswerWith(S, v) ==
    /\ caller' = [r \in Requests |-> IF r \in S THEN "answered" ELSE caller[r]]
    /\ verdict' = [r \in Requests |-> IF r \in S THEN v ELSE verdict[r]]

Ask(r) ==
    /\ caller[r] = "idle" /\ ~gone
    /\ IF r \in ForeignUrls
       THEN AnswerWith({r}, "invalid")
       ELSE caller' = [caller EXCEPT ![r] = "sending"] /\ UNCHANGED verdict
    /\ UNCHANGED <<gone, threadVars, workerVars>>

(* Variant: the channel has no bound. *)
SendUnbounded(r) ==
    /\ caller[r] = "sending"
    /\ \/ /\ ~Broken
          /\ chan' = Append(chan, r)
          /\ caller' = [caller EXCEPT ![r] = "waiting"] /\ UNCHANGED verdict
       \/ Broken /\ AnswerWith({r}, "lost") /\ UNCHANGED chan
    /\ UNCHANGED <<gone, thread, current, jobq, workerVars>>

(* The channel takes the request when it has room, or refuses it when the  *)
(* thread has gone.                                                        *)
Send(r) ==
    /\ caller[r] = "sending"
    /\ \/ /\ ~Broken /\ Len(chan) < Jobs
          /\ chan' = Append(chan, r)
          /\ caller' = [caller EXCEPT ![r] = "waiting"] /\ UNCHANGED verdict
       \/ Broken /\ AnswerWith({r}, "lost") /\ UNCHANGED chan
    /\ UNCHANGED <<gone, thread, current, jobq, workerVars>>

(* The runtime is shut down, and the tasks are dropped at their awaits with *)
(* the handles they hold.  Whoever has not got his request into the        *)
(* channel never will; what is in it the thread answers all the same.      *)
HandlesDropped ==
    /\ ~gone /\ gone' = TRUE
    /\ caller' = [r \in Requests |-> IF caller[r] = "sending" THEN "dropped" ELSE caller[r]]
    /\ UNCHANGED <<verdict, threadVars, workerVars>>

-----------------------------------------------------------------------------
(* The thread: Worker::serve_forever, and _request and close in python. *)

ThreadTake ==
    /\ thread = "idle" /\ chan # <<>>
    /\ current' = Head(chan) /\ chan' = Tail(chan)
    /\ thread' = "put"
    /\ UNCHANGED <<callers, jobq, workerVars>>

ThreadPut ==
    /\ thread = "put" /\ Len(jobq) < Jobs
    /\ jobq' = Append(jobq, current)
    /\ thread' = "recv"
    /\ UNCHANGED <<callers, chan, current, workerVars>>

(* Variant: the answer is passed on without waiting for the worker. *)
ThreadAnswerEarly ==
    /\ thread = "recv"
    /\ AnswerWith({current}, "ok")
    /\ thread' = "idle" /\ current' = Nothing
    /\ UNCHANGED <<gone, chan, jobq, workerVars>>

ThreadAnswer ==
    /\ thread = "recv" /\ pipe[current] # "none"
    /\ AnswerWith({current}, pipe[current])
    /\ thread' = "idle" /\ current' = Nothing
    /\ UNCHANGED <<gone, chan, jobq, workerVars>>

Outstanding == {r \in Requests : caller[r] = "waiting"}

(* Variant: only the caller whose request failed is told. *)
ThreadPanicsKeepingQueue ==
    /\ PipesFail /\ thread = "put"
    /\ AnswerWith({current}, "lost")
    /\ thread' = "panicked" /\ current' = Nothing /\ chan' = <<>>
    /\ UNCHANGED <<gone, jobq, workerVars>>

(* An exception other than the module's own Error, such as a failure to    *)
(* open the pipe, meets the unwrap of map_err: the thread ends, and with   *)
(* the channel goes the answer of every request in it.                     *)
ThreadPanics ==
    /\ PipesFail /\ thread = "put"
    /\ AnswerWith(Outstanding, "lost")
    /\ thread' = "panicked" /\ current' = Nothing /\ chan' = <<>>
    /\ UNCHANGED <<gone, jobq, workerVars>>

(* Variant: one None for all the workers. *)
OneStopItem == <<Stop>>
StopItems == [i \in 1..Jobs |-> Stop]

(* close: the queue is empty by now and takes one None for every worker.   *)
ThreadClose ==
    /\ thread = "idle" /\ chan = <<>> /\ gone
    /\ jobq' = jobq \o StopItems
    /\ thread' = "join"
    /\ UNCHANGED <<callers, chan, current, workerVars>>

ThreadJoin ==
    /\ thread = "join"
    /\ \A w \in Workers : phase[w] \in {"ended", "dead"}
    /\ thread' = "ended"
    /\ UNCHANGED <<callers, chan, current, jobq, workerVars>>

ThreadStep == ThreadTake \/ ThreadPut \/ ThreadAnswer \/ ThreadClose \/ ThreadJoin

-----------------------------------------------------------------------------
(* A worker process. *)

LockQueue(w) ==
    /\ Idle(w) /\ reader = Nothing
    /\ reader' = w
    /\ UNCHANGED <<callers, threadVars, phase, work, alarm, result, pipe>>

Dequeue(w) ==
    /\ reader = w /\ Idle(w) /\ jobq # <<>>
    /\ jobq' = Tail(jobq) /\ reader' = Nothing

(* download arms the alarm, resolve does not. *)
TakeJob(w) ==
    /\ Dequeue(w) /\ Head(jobq) # Stop
    /\ work' = [work EXCEPT ![w] = Head(jobq)]
    /\ phase' = [phase EXCEPT ![w] = "running"]
    /\ alarm' = IF Head(jobq) \in Downloads THEN [alarm EXCEPT ![w] = TRUE] ELSE alarm
    /\ UNCHANGED <<callers, chan, thread, current, result, pipe>>

TakeStop(w) ==
    /\ Dequeue(w) /\ Head(jobq) = Stop
    /\ phase' = [phase EXCEPT ![w] = "ended"]
    /\ UNCHANGED <<callers, chan, thread, current, work, alarm, result, pipe>>

(* yt-dlp returns or raises; of a download the alarm is still to be disarmed. *)
Extract(w) ==
    /\ phase[w] = "running"
    /\ \E v \in {"ok", "error"} : result' = [result EXCEPT ![w] = v]
    /\ phase' = [phase EXCEPT ![w] = IF work[w] \in Downloads THEN "done" ELSE "reply"]
    /\ UNCHANGED <<callers, threadVars, reader, work, alarm, pipe>>

(* Variant: the finally block is missing. *)
DisarmForgotten(w) ==
    /\ phase[w] = "done"
    /\ phase' = [phase EXCEPT ![w] = "reply"]
    /\ UNCHANGED <<callers, threadVars, reader, work, alarm, result, pipe>>

(* signal.alarm(0) of the finally block. *)
Disarm(w) ==
    /\ phase[w] = "done"
    /\ alarm' = [alarm EXCEPT ![w] = FALSE]
    /\ phase' = [phase EXCEPT ![w] = "reply"]
    /\ UNCHANGED <<callers, threadVars, reader, work, result, pipe>>

(* The handler raises in whatever the worker executes, which can be the    *)
(* finally block of a download that has succeeded.                         *)
AlarmFires(w) ==
    /\ alarm[w] /\ phase[w] \in {"running", "done"}
    /\ alarm' = [alarm EXCEPT ![w] = FALSE]
    /\ result' = [result EXCEPT ![w] = "timeout"]
    /\ phase' = [phase EXCEPT ![w] = "reply"]
    /\ UNCHANGED <<callers, threadVars, reader, work, pipe>>

(* Variant: an exception ends the loop of the worker, answered or not. *)
ReplyOrEnd(w) ==
    /\ phase[w] = "reply"
    /\ pipe' = [pipe EXCEPT ![work[w]] = IF result[w] = "ok" THEN "ok" ELSE @]
    /\ phase' = [phase EXCEPT ![w] = IF result[w] = "ok" THEN "idle" ELSE "ended"]
    /\ work' = [work EXCEPT ![w] = Nothing]
    /\ result' = [result EXCEPT ![w] = "none"]
    /\ UNCHANGED <<callers, threadVars, reader, alarm>>

(* The result or the exception is sent, and the loop goes on. *)
Reply(w) ==
    /\ phase[w] = "reply"
    /\ pipe' = [pipe EXCEPT ![work[w]] = result[w]]
    /\ phase' = [phase EXCEPT ![w] = "idle"]
    /\ work' = [work EXCEPT ![w] = Nothing]
    /\ result' = [result EXCEPT ![w] = "none"]
    /\ UNCHANGED <<callers, threadVars, reader, alarm>>

Dead == {w \in Workers : phase[w] = "dead"}

(* The process is killed: what it holds, lock or request, it keeps.        *)
Die(w) ==
    /\ phase[w] \notin {"dead", "ended"} /\ Cardinality(Dead) < MaxDeaths
    /\ phase' = [phase EXCEPT ![w] = "dead"]
    /\ alarm' = [alarm EXCEPT ![w] = FALSE]
    /\ UNCHANGED <<callers, threadVars, reader, work, result, pipe>>

WorkerStep(w) == LockQueue(w) \/ TakeJob(w) \/ TakeStop(w) \/ Disarm(w) \/ Reply(w)

-----------------------------------------------------------------------------
Next ==
    \/ \E r \in Requests : Ask(r) \/ Send(r)
    \/ HandlesDropped
    \/ ThreadStep \/ ThreadPanics
    \/ \E w \in Workers : WorkerStep(w) \/ Extract(w) \/ AlarmFires(w) \/ Die(w)

Spec == Init /\ [][Next]_vars

(* Threads, tasks and living processes run.  yt-dlp returns from a resolve *)
(* (its sockets have a timeout); of a download only the alarm is sure.     *)
(* Nobody joins the thread (youtube.rs:138): once the handles are dropped  *)
(* main may return and end it wherever it is, so that it need not go on.   *)
FairSpec ==
    /\ Spec
    /\ \A r \in Requests : WF_vars(Send(r))
    /\ WF_vars(~gone /\ ThreadStep)
    /\ \A w \in Workers :
          /\ WF_vars(WorkerStep(w)) /\ WF_vars(AlarmFires(w))
          /\ WF_vars(work[w] \in Resolves /\ Extract(w))

-----------------------------------------------------------------------------
(* The state has its types, and the channel and the queue keep the bounds  *)
(* that youtube.rs:136 and youtube.py:79 give them.                        *)
YTypeOK ==
    /\ caller \in [Requests -> {"idle", "sending", "waiting", "answered", "dropped"}]
    /\ verdict \in [Requests -> Verdicts \cup {"none", "invalid", "lost"}]
    /\ chan \in Seq(Requests) /\ Len(chan) <= Jobs
    /\ gone \in BOOLEAN
    /\ thread \in {"idle", "put", "recv", "join", "ended", "panicked"}
    /\ current \in Requests \cup {Nothing}
    /\ jobq \in Seq(Requests \cup {Stop}) /\ Len(jobq) <= Jobs
    /\ reader \in Workers \cup {Nothing}
    /\ phase \in [Workers -> {"idle", "running", "done", "reply", "ended", "dead"}]
    /\ work \in [Workers -> Requests \cup {Nothing}]
    /\ alarm \in [Workers -> BOOLEAN]
    /\ result \in [Workers -> Verdicts \cup {"none"}]
    /\ pipe \in [Requests -> Verdicts \cup {"none"}]

(* Whatever the number of workers, at most one has a request: the thread   *)
(* waits for the answer before it takes the next one (youtube.rs:187).     *)
OneWorkerBusy == Cardinality({w \in Workers : Busy(w)}) <= 1

(* A timeout is the fate of the download it was set for: no resolve that   *)
(* the same process serves later is answered with it (youtube.py:264).     *)
OnlyDownloadsTimeOut == \A r \in Resolves : verdict[r] # "timeout"

(* Threads, processes and pipes together are an orderly service: one       *)
(* answer each, in the order of acceptance, and nobody forgotten when the  *)
(* thread panics.                                                          *)
Service == INSTANCE RequestService WITH
    pending <- (IF current = Nothing THEN <<>> ELSE <<current>>) \o chan,
    verdict <- verdict,
    open <- ~Broken
ServesInOrder == Service!ServiceSpec

(* A dead process has taken a request or the read lock with it, or none is *)
(* left.                                                                   *)
WorkerLost ==
    \/ \E w \in Dead : work[w] # Nothing \/ reader = w
    \/ Dead = Workers

(* Every caller gets an answer, unless the death of a process takes its    *)
(* request along (the recv of youtube.py:101 has no timeout) or the        *)
(* program is shut down meanwhile.                                         *)
EveryRequestAnswered ==
    \A r \in Requests :
        caller[r] = "sending" ~> (caller[r] = "answered" \/ WorkerLost \/ gone)

Living == {w \in Workers : phase[w] \notin {"ended", "dead"}}

(* While close waits for the processes (youtube.py:85), whoever has ended  *)
(* or died before, the queue holds no request any more and a None for each *)
(* process still living: with one too few the join would never return.     *)
NoneForEveryWorker ==
    thread = "join" =>
        /\ \A i \in DOMAIN jobq : jobq[i] = Stop
        /\ Cardinality(Living) <= Len(jobq)
=============================================================================
