---------------------------- MODULE YoutubeProofs ----------------------------
(* Invariants of the download service and the proof that it implements     *)
(* RequestService, for every set of requests and worker processes.         *)
EXTENDS Youtube, FiniteSetTheorems, TLAPS

(* Who waits: a caller waits exactly while its request is in the channel   *)
(* or with the thread, it has no answer until it is answered, and the      *)
(* requests in the channel are different from each other and from the one  *)
(* the thread has.                                                         *)
InChan(r) == \E i \in DOMAIN chan : chan[i] = r
Waits == \A r \in Requests : caller[r] = "waiting" <=> r = current \/ InChan(r)
Unanswered == \A r \in Requests : verdict[r] = "none" <=> caller[r] # "answered"
AllDifferent ==
    /\ \A i, j \in DOMAIN chan : chan[i] = chan[j] => i = j
    /\ ~InChan(current)
ThreadHolds == current # Nothing <=> thread \in {"put", "recv"}
CallersAgree == Waits /\ Unanswered /\ AllDifferent /\ ThreadHolds

(* Where the request of the thread is: in one place only, the queue, the   *)
(* hands of one worker, or its pipe.                                       *)
NobodyBusy == \A w \in Workers : ~Busy(w)
InQueue == jobq = <<current>> /\ NobodyBusy /\ pipe[current] = "none"
QueueAgrees ==
    /\ thread \in {"idle", "put", "panicked"} => jobq = <<>>
    /\ thread = "recv" => jobq = <<>> \/ InQueue
    /\ thread \in {"join", "ended"} => \A i \in DOMAIN jobq : jobq[i] = Stop
OneServes ==
    /\ \A w \in Workers :
          Busy(w) => thread = "recv" /\ work[w] = current /\ pipe[current] = "none"
    /\ \A v, w \in Workers : Busy(v) /\ Busy(w) => v = w
PipesFresh ==
    \A r \in Requests :
        pipe[r] # "none" => caller[r] = "answered" \/ (thread = "recv" /\ r = current)
WorkInOnePlace == QueueAgrees /\ OneServes /\ PipesFresh

(* Whose timeout: an alarm is pending only during the download it was set  *)
(* for, so that no other answer is a timeout.                              *)
AlarmOfDownload ==
    \A w \in Workers :
        /\ alarm[w] => phase[w] \in {"running", "done"} /\ work[w] \in Downloads
        /\ phase[w] \in {"done", "reply"} => result[w] \in Verdicts
        /\ phase[w] \in {"done", "reply"} /\ result[w] = "timeout" => work[w] \in Downloads
TimeoutsOfDownloads ==
    \A r \in Resolves : pipe[r] # "timeout" /\ verdict[r] # "timeout"
TimeoutsAgree == AlarmOfDownload /\ TimeoutsOfDownloads

-----------------------------------------------------------------------------
LEMMA JobsType == Jobs \in Nat \ {0}
BY FS_CardinalityType, FS_EmptySet, YoutubeAssumption DEF Jobs

LEMMA SequenceTypes ==
    ASSUME NEW S, NEW q \in Seq(S)
    PROVE  /\ Len(q) \in Nat
           /\ \A x \in S : Append(q, x) \in Seq(S) /\ Len(Append(q, x)) = Len(q) + 1
           /\ q # <<>> =>
                 /\ Head(q) \in S /\ Tail(q) \in Seq(S)
                 /\ Len(q) > 0 /\ Len(Tail(q)) = Len(q) - 1
OBVIOUS

LEMMA StopItemsType == StopItems \in Seq(Requests \cup {Stop}) /\ Len(StopItems) = Jobs
BY JobsType DEF StopItems

LEMMA AnswerTypes ==
    ASSUME YTypeOK, NEW S, NEW v \in Verdicts \cup {"none", "invalid", "lost"}, AnswerWith(S, v)
    PROVE  /\ caller' \in [Requests -> {"idle", "sending", "waiting", "answered", "dropped"}]
           /\ verdict' \in [Requests -> Verdicts \cup {"none", "invalid", "lost"}]
BY DEF AnswerWith, YTypeOK

(* Every step keeps the types; only for the end of the service is it       *)
(* needed that the queue of the processes is empty by then.                *)
LEMMA TypesStep ==
    ASSUME YTypeOK, ThreadHolds, QueueAgrees, [Next]_vars
    PROVE  YTypeOK'
<1> USE JobsType
<1>1. ASSUME NEW r \in Requests, Ask(r) PROVE YTypeOK'
  BY <1>1, AnswerTypes DEF Ask, YTypeOK, callers, threadVars, workerVars
<1>2. ASSUME NEW r \in Requests, Send(r) PROVE YTypeOK'
  <2>1. CASE Len(chan) < Jobs /\ chan' = Append(chan, r)
    <3>1. chan' \in Seq(Requests) /\ Len(chan') <= Jobs
      BY <2>1, SequenceTypes DEF YTypeOK
    <3>2. caller' \in [Requests -> {"idle", "sending", "waiting", "answered", "dropped"}]
          /\ verdict' \in [Requests -> Verdicts \cup {"none", "invalid", "lost"}]
      BY <1>2, AnswerTypes DEF Send, YTypeOK
    <3> QED BY <1>2, <3>1, <3>2 DEF Send, YTypeOK, workerVars
  <2>2. CASE AnswerWith({r}, "lost") /\ UNCHANGED chan
    BY <1>2, <2>2, AnswerTypes DEF Send, YTypeOK, workerVars
  <2> QED BY <1>2, <2>1, <2>2 DEF Send
<1>3. CASE HandlesDropped
  BY <1>3 DEF HandlesDropped, YTypeOK, threadVars, workerVars
<1>4. CASE ThreadTake
  BY <1>4, SequenceTypes DEF ThreadTake, YTypeOK, callers, workerVars
<1>5. CASE ThreadPut
  <2>1. current \in Requests
    BY <1>5 DEF ThreadPut, ThreadHolds, YTypeOK
  <2> QED BY <1>5, <2>1, SequenceTypes DEF ThreadPut, YTypeOK, callers, workerVars
<1>6. CASE ThreadAnswer
  <2>1. current \in Requests
    BY <1>6 DEF ThreadAnswer, ThreadHolds, YTypeOK
  <2>2. pipe[current] \in Verdicts \cup {"none", "invalid", "lost"}
    BY <2>1 DEF YTypeOK
  <2> QED BY <1>6, <2>2, AnswerTypes DEF ThreadAnswer, YTypeOK, workerVars
<1>7. CASE ThreadPanics
  BY <1>7, AnswerTypes DEF ThreadPanics, YTypeOK, workerVars
<1>8. CASE ThreadClose
  <2>1. jobq = <<>>
    BY <1>8 DEF ThreadClose, QueueAgrees
  <2>2. jobq' = StopItems
    BY <1>8, <2>1, StopItemsType DEF ThreadClose
  <2> QED BY <1>8, <2>2, StopItemsType DEF ThreadClose, YTypeOK, callers, workerVars
<1>9. CASE ThreadJoin
  BY <1>9 DEF ThreadJoin, YTypeOK, callers, workerVars
<1>10. ASSUME NEW w \in Workers, LockQueue(w) PROVE YTypeOK'
  BY <1>10 DEF LockQueue, YTypeOK, callers, threadVars
<1>11. ASSUME NEW w \in Workers, TakeJob(w) PROVE YTypeOK'
  <2>1. Head(jobq) \in Requests /\ jobq' \in Seq(Requests \cup {Stop}) /\ Len(jobq') <= Jobs
    BY <1>11, SequenceTypes DEF TakeJob, Dequeue, YTypeOK
  <2> QED BY <1>11, <2>1 DEF TakeJob, Dequeue, YTypeOK, callers
<1>12. ASSUME NEW w \in Workers, TakeStop(w) PROVE YTypeOK'
  <2>1. jobq' \in Seq(Requests \cup {Stop}) /\ Len(jobq') <= Jobs
    BY <1>12, SequenceTypes DEF TakeStop, Dequeue, YTypeOK
  <2> QED BY <1>12, <2>1 DEF TakeStop, Dequeue, YTypeOK, callers
<1>13. ASSUME NEW w \in Workers, Extract(w) PROVE YTypeOK'
  BY <1>13 DEF Extract, YTypeOK, Verdicts, callers, threadVars
<1>14. ASSUME NEW w \in Workers, Disarm(w) PROVE YTypeOK'
  BY <1>14 DEF Disarm, YTypeOK, callers, threadVars
<1>15. ASSUME NEW w \in Workers, AlarmFires(w) PROVE YTypeOK'
  BY <1>15 DEF AlarmFires, YTypeOK, Verdicts, callers, threadVars
<1>16. ASSUME NEW w \in Workers, Reply(w) PROVE YTypeOK'
  BY <1>16 DEF Reply, YTypeOK, callers, threadVars
<1>17. ASSUME NEW w \in Workers, Die(w) PROVE YTypeOK'
  BY <1>17 DEF Die, YTypeOK, callers, threadVars
<1>18. CASE UNCHANGED vars
  BY <1>18 DEF YTypeOK, vars, callers, threadVars, workerVars
<1> QED
  BY <1>1, <1>2, <1>3, <1>4, <1>5, <1>6, <1>7, <1>8, <1>9, <1>10, <1>11, <1>12, <1>13,
     <1>14, <1>15, <1>16, <1>17, <1>18
  DEF Next, ThreadStep, WorkerStep

-----------------------------------------------------------------------------
(* A request enters the channel at its end and leaves it at its head.      *)
LEMMA ChanAfterSend ==
    ASSUME YTypeOK, NEW r \in Requests, chan' = Append(chan, r)
    PROVE  /\ \A x : InChan(x)' <=> InChan(x) \/ x = r
           /\ ~InChan(r) /\ AllDifferent =>
                 \A i, j \in DOMAIN chan' : chan'[i] = chan'[j] => i = j
<1> USE DEF InChan
<1>1. /\ DOMAIN chan = 1..Len(chan) /\ Len(chan) \in Nat
      /\ DOMAIN chan' = 1..Len(chan) + 1
      /\ \A i \in 1..Len(chan) : chan'[i] = chan[i]
      /\ chan'[Len(chan) + 1] = r
  BY DEF YTypeOK
<1>2. \A x : InChan(x)' <=> InChan(x) \/ x = r
  <2>1. \A i \in DOMAIN chan : i \in DOMAIN chan' /\ chan'[i] = chan[i]
    BY <1>1
  <2>2. Len(chan) + 1 \in DOMAIN chan'
    BY <1>1
  <2>3. \A i \in DOMAIN chan' : i \in DOMAIN chan \/ i = Len(chan) + 1
    BY <1>1
  <2>4. ASSUME NEW x, InChan(x)' PROVE InChan(x) \/ x = r
    BY <1>1, <2>1, <2>3, <2>4
  <2>5. ASSUME NEW x, InChan(x) \/ x = r PROVE InChan(x)'
    BY <1>1, <2>1, <2>2, <2>5
  <2> QED BY <2>4, <2>5
<1>3. ~InChan(r) /\ AllDifferent => \A i, j \in DOMAIN chan' : chan'[i] = chan'[j] => i = j
  BY <1>1 DEF AllDifferent
<1> QED BY <1>2, <1>3

LEMMA ChanAfterTake ==
    ASSUME YTypeOK, AllDifferent, chan # <<>>, chan' = Tail(chan)
    PROVE  /\ \A x : InChan(x)' <=> InChan(x) /\ x # Head(chan)
           /\ \A i, j \in DOMAIN chan' : chan'[i] = chan'[j] => i = j
           /\ InChan(Head(chan))
<1> USE DEF YTypeOK, InChan, AllDifferent
<1>1. /\ DOMAIN chan = 1..Len(chan) /\ Len(chan) \in Nat \ {0} /\ Head(chan) = chan[1]
      /\ DOMAIN chan' = 1..Len(chan) - 1
      /\ \A i \in 1..Len(chan) - 1 : chan'[i] = chan[i + 1]
  OBVIOUS
<1>2. ASSUME NEW x, NEW i \in DOMAIN chan, chan[i] = x, x # Head(chan)
      PROVE  InChan(x)'
  <2>1. i - 1 \in DOMAIN chan' /\ chan'[i - 1] = x
    BY <1>1, <1>2
  <2> QED BY <2>1
<1>3. \A i \in DOMAIN chan' : i + 1 \in DOMAIN chan /\ chan'[i] = chan[i + 1] /\ i + 1 # 1
  BY <1>1
<1>4. ASSUME NEW x, InChan(x)' PROVE InChan(x) /\ x # Head(chan)
  BY <1>1, <1>3, <1>4
<1>5. \A i, j \in DOMAIN chan' : chan'[i] = chan'[j] => i = j
  <2> TAKE i, j \in DOMAIN chan'
  <2> HAVE chan'[i] = chan'[j]
  <2>1. i + 1 = j + 1
    BY <1>3
  <2> QED BY <1>1, <2>1
<1>6. \A x : InChan(x)' <=> InChan(x) /\ x # Head(chan)
  BY <1>2, <1>4
<1>7. 1 \in DOMAIN chan /\ chan[1] = Head(chan)
  BY <1>1
<1> HIDE DEF YTypeOK, AllDifferent
<1>8. InChan(Head(chan))
  BY <1>7
<1> HIDE DEF InChan
<1> QED BY <1>5, <1>6, <1>8

LEMMA CallersStep ==
    ASSUME YTypeOK, CallersAgree, WorkInOnePlace, [Next]_vars
    PROVE  CallersAgree'
<1> USE DEF CallersAgree, Waits, Unanswered, ThreadHolds
<1>1. ASSUME UNCHANGED <<caller, verdict, chan, current>>,
             thread' \in {"put", "recv"} <=> thread \in {"put", "recv"}
      PROVE  CallersAgree'
  BY <1>1 DEF AllDifferent, InChan
<1>2. ASSUME NEW r \in Requests, Ask(r) PROVE CallersAgree'
  BY <1>2 DEF Ask, AnswerWith, YTypeOK, AllDifferent, InChan, threadVars
<1>3. ASSUME NEW r \in Requests, Send(r) PROVE CallersAgree'
  <2>1. ~InChan(r) /\ r # current
    BY <1>3 DEF Send
  <2>2. CASE chan' = Append(chan, r)
    <3>1. caller' = [caller EXCEPT ![r] = "waiting"] /\ UNCHANGED <<verdict, current, thread>>
      BY <1>3, <2>2, SequenceTypes DEF Send, YTypeOK
    <3>2. AllDifferent'
      BY <2>1, <2>2, <3>1, ChanAfterSend DEF AllDifferent
    <3>3. \A x \in Requests : InChan(x)' <=> InChan(x) \/ x = r
      BY <2>2, ChanAfterSend
    <3> QED BY <1>3, <3>1, <3>2, <3>3 DEF Send, YTypeOK
  <2>3. CASE AnswerWith({r}, "lost") /\ UNCHANGED chan
    BY <1>3, <2>3 DEF Send, AnswerWith, YTypeOK, AllDifferent, InChan
  <2> QED BY <1>3, <2>2, <2>3 DEF Send
<1>4. CASE ThreadTake
  <2>1. /\ chan # <<>> /\ chan' = Tail(chan) /\ current' = Head(chan)
        /\ thread' = "put" /\ current = Nothing /\ UNCHANGED <<caller, verdict>>
    BY <1>4 DEF ThreadTake, callers
  <2>2. Head(chan) \in Requests
    BY <2>1, SequenceTypes DEF YTypeOK
  <2>3. AllDifferent'
    BY <2>1, ChanAfterTake DEF AllDifferent
  <2> QED BY <2>1, <2>2, <2>3, ChanAfterTake, YoutubeAssumption
<1>5. CASE ThreadAnswer
  <2>1. current \in Requests
    BY <1>5 DEF ThreadAnswer, YTypeOK
  <2>2. pipe[current] # "none" /\ AnswerWith({current}, pipe[current])
        /\ current' = Nothing /\ thread' = "idle" /\ UNCHANGED chan
    BY <1>5 DEF ThreadAnswer
  <2>3. ~InChan(Nothing)
    BY YoutubeAssumption DEF InChan, YTypeOK
  <2> QED BY <2>1, <2>2, <2>3, YoutubeAssumption DEF AnswerWith, YTypeOK, AllDifferent, InChan
<1>6. CASE ThreadPanics
  <2>1. AnswerWith(Outstanding, "lost") /\ current' = Nothing /\ chan' = <<>> /\ thread' = "panicked"
    BY <1>6 DEF ThreadPanics
  <2> QED BY <2>1, YoutubeAssumption DEF AnswerWith, Outstanding, YTypeOK, AllDifferent, InChan
<1>7. CASE ThreadPut \/ ThreadClose \/ ThreadJoin
  BY <1>1, <1>7 DEF ThreadPut, ThreadClose, ThreadJoin, callers
<1>8. ASSUME NEW w \in Workers, WorkerStep(w) \/ Extract(w) \/ AlarmFires(w) \/ Die(w)
      PROVE  CallersAgree'
  BY <1>1, <1>8
  DEF WorkerStep, LockQueue, TakeJob, TakeStop, Extract, Disarm, AlarmFires, Reply, Die,
      callers, threadVars
<1>9. CASE HandlesDropped
  <2>1. ASSUME NEW r \in Requests
        PROVE  /\ (caller'[r] = "waiting") <=> (caller[r] = "waiting")
               /\ (caller'[r] = "answered") <=> (caller[r] = "answered")
    BY <1>9 DEF HandlesDropped, YTypeOK
  <2>2. UNCHANGED <<verdict, chan, current, thread>>
    BY <1>9 DEF HandlesDropped, threadVars
  <2> QED BY <2>1, <2>2 DEF AllDifferent, InChan
<1>10. CASE UNCHANGED vars
  BY <1>1, <1>10 DEF vars, callers, threadVars
<1> QED
  BY <1>2, <1>3, <1>4, <1>5, <1>6, <1>7, <1>8, <1>9, <1>10 DEF Next, ThreadStep

-----------------------------------------------------------------------------
(* A worker's step that hands over no request, and one of another caller,  *)
(* leave the request of the thread where it is.                            *)
LEMMA WorkStep ==
    ASSUME YTypeOK, CallersAgree, WorkInOnePlace, [Next]_vars
    PROVE  WorkInOnePlace'
<1> USE DEF WorkInOnePlace, QueueAgrees, InQueue, NobodyBusy, OneServes, PipesFresh, Busy
<1>1. ASSUME UNCHANGED <<thread, current, jobq, phase, work, pipe>>,
             \A r \in Requests : caller[r] = "answered" => caller'[r] = "answered"
      PROVE  WorkInOnePlace'
  BY <1>1
<1>2. ASSUME NEW r \in Requests, Ask(r) PROVE WorkInOnePlace'
  BY <1>1, <1>2 DEF Ask, AnswerWith, YTypeOK, threadVars, workerVars
<1>3. ASSUME NEW r \in Requests, Send(r) PROVE WorkInOnePlace'
  BY <1>1, <1>3 DEF Send, AnswerWith, YTypeOK, workerVars
<1>4. CASE ThreadTake
  BY <1>4 DEF ThreadTake, YTypeOK, callers, workerVars
<1>5. CASE ThreadPut
  <2>1. current \in Requests /\ caller[current] = "waiting"
    BY <1>5 DEF ThreadPut, CallersAgree, ThreadHolds, Waits, YTypeOK
  <2>2. pipe[current] = "none" /\ NobodyBusy /\ jobq' = <<current>>
    BY <1>5, <2>1 DEF ThreadPut
  <2> QED BY <1>5, <2>2 DEF ThreadPut, callers, workerVars
<1>6. CASE ThreadAnswer
  <2>1. jobq = <<>> /\ NobodyBusy
    BY <1>6 DEF ThreadAnswer
  <2>2. ASSUME NEW r \in Requests, pipe'[r] # "none" PROVE caller'[r] = "answered"
    BY <1>6, <2>2 DEF ThreadAnswer, AnswerWith, workerVars
  <2> QED BY <1>6, <2>1, <2>2 DEF ThreadAnswer, workerVars
<1>7. CASE ThreadPanics
  BY <1>7 DEF ThreadPanics, AnswerWith, YTypeOK, workerVars
<1>8. CASE ThreadClose
  <2>1. jobq' = StopItems
    BY <1>8, StopItemsType DEF ThreadClose
  <2> QED BY <1>8, <2>1 DEF ThreadClose, StopItems, callers, workerVars
<1>9. CASE HandlesDropped
  BY <1>1, <1>9 DEF HandlesDropped, YTypeOK, threadVars, workerVars
<1>10. CASE ThreadJoin
  BY <1>10 DEF ThreadJoin, callers, workerVars
<1>11. ASSUME NEW w \in Workers, LockQueue(w) PROVE WorkInOnePlace'
  BY <1>1, <1>11 DEF LockQueue, callers, threadVars
<1>12. ASSUME NEW w \in Workers, TakeJob(w) PROVE WorkInOnePlace'
  <2>1. jobq # <<>> /\ Head(jobq) # Stop /\ jobq' = Tail(jobq) /\ UNCHANGED <<callers, thread, current, pipe>>
    BY <1>12 DEF TakeJob, Dequeue
  <2>2. thread = "recv" /\ InQueue
    <3>1. Head(jobq) = jobq[1] /\ 1 \in DOMAIN jobq
      BY <2>1 DEF YTypeOK
    <3> QED BY <2>1, <3>1 DEF YTypeOK
  <2>3. jobq' = <<>> /\ work' = [work EXCEPT ![w] = current] /\ phase' = [phase EXCEPT ![w] = "running"]
    BY <1>12, <2>1, <2>2 DEF TakeJob
  <2> QED BY <2>1, <2>2, <2>3 DEF YTypeOK, callers
<1>13. ASSUME NEW w \in Workers, TakeStop(w) PROVE WorkInOnePlace'
  <2>1. /\ jobq # <<>> /\ Head(jobq) = Stop /\ jobq' = Tail(jobq)
        /\ phase' = [phase EXCEPT ![w] = "ended"]
        /\ UNCHANGED <<callers, thread, current, pipe, work>>
    BY <1>13 DEF TakeStop, Dequeue
  <2>2. thread \in {"join", "ended"}
    BY <2>1, YoutubeAssumption DEF YTypeOK
  <2>3. \A i \in DOMAIN jobq' : i + 1 \in DOMAIN jobq /\ jobq'[i] = jobq[i + 1]
    BY <2>1 DEF YTypeOK
  <2> QED BY <2>1, <2>2, <2>3 DEF YTypeOK, callers
<1>14. ASSUME NEW w \in Workers, Extract(w) \/ Disarm(w) \/ AlarmFires(w)
       PROVE  WorkInOnePlace'
  <2>1. /\ Busy(w) /\ UNCHANGED <<callers, threadVars, work, pipe>>
        /\ \E p \in {"done", "reply"} : phase' = [phase EXCEPT ![w] = p]
    BY <1>14 DEF Extract, Disarm, AlarmFires
  <2> QED BY <2>1 DEF YTypeOK, callers, threadVars
<1>15. ASSUME NEW w \in Workers, Reply(w) PROVE WorkInOnePlace'
  <2>1. Busy(w) /\ thread = "recv" /\ work[w] = current /\ jobq = <<>>
    BY <1>15 DEF Reply
  <2> QED BY <1>15, <2>1 DEF Reply, YTypeOK, callers, threadVars
<1>16. ASSUME NEW w \in Workers, Die(w) PROVE WorkInOnePlace'
  BY <1>16 DEF Die, YTypeOK, callers, threadVars
<1>17. CASE UNCHANGED vars
  BY <1>1, <1>17 DEF vars, callers, threadVars, workerVars
<1> QED
  BY <1>2, <1>3, <1>4, <1>5, <1>6, <1>7, <1>8, <1>9, <1>10, <1>11, <1>12, <1>13, <1>14,
     <1>15, <1>16, <1>17
  DEF Next, ThreadStep, WorkerStep

(* The alarm is armed and disarmed by the worker that has the download.    *)
LEMMA TimeoutsStep ==
    ASSUME YTypeOK, WorkInOnePlace, TimeoutsAgree, [Next]_vars
    PROVE  TimeoutsAgree'
<1> USE YoutubeAssumption DEF TimeoutsAgree, AlarmOfDownload, TimeoutsOfDownloads, Verdicts
<1>1. ASSUME UNCHANGED <<workerVars, verdict>> PROVE TimeoutsAgree'
  BY <1>1 DEF workerVars
<1>2. ASSUME NEW S, NEW v \in {"invalid", "lost"}, AnswerWith(S, v), UNCHANGED workerVars
      PROVE  TimeoutsAgree'
  BY <1>2 DEF AnswerWith, workerVars, Requests
<1>3. ASSUME NEW r \in Requests, Ask(r) \/ Send(r) PROVE TimeoutsAgree'
  BY <1>1, <1>2, <1>3 DEF Ask, Send
<1>4. CASE ThreadAnswer
  BY <1>4 DEF ThreadAnswer, AnswerWith, workerVars, YTypeOK, Requests
<1>5. CASE ThreadPanics
  BY <1>2, <1>5 DEF ThreadPanics
<1>6. CASE HandlesDropped \/ ThreadTake \/ ThreadPut \/ ThreadClose \/ ThreadJoin
  BY <1>1, <1>6 DEF HandlesDropped, ThreadTake, ThreadPut, ThreadClose, ThreadJoin, callers
<1>7. ASSUME NEW w \in Workers, LockQueue(w) \/ TakeStop(w) \/ Die(w) PROVE TimeoutsAgree'
  BY <1>7 DEF LockQueue, TakeStop, Dequeue, Idle, Die, YTypeOK, callers
<1>8. ASSUME NEW w \in Workers, TakeJob(w) PROVE TimeoutsAgree'
  BY <1>8 DEF TakeJob, Dequeue, Idle, YTypeOK, callers
<1>9. ASSUME NEW w \in Workers, Extract(w) \/ Disarm(w) \/ AlarmFires(w)
      PROVE  TimeoutsAgree'
  BY <1>9 DEF Extract, Disarm, AlarmFires, YTypeOK, callers
<1>10. ASSUME NEW w \in Workers, Reply(w) PROVE TimeoutsAgree'
  BY <1>10 DEF Reply, YTypeOK, callers, Requests
<1>11. CASE UNCHANGED vars
  BY <1>1, <1>11 DEF vars, callers
<1> QED
  BY <1>3, <1>4, <1>5, <1>6, <1>7, <1>8, <1>9, <1>10, <1>11 DEF Next, ThreadStep, WorkerStep

-----------------------------------------------------------------------------
NoneLeft == thread = "join" => Cardinality(Living) <= Len(jobq)

(* Every None that is taken ends one process, and a death only leaves a    *)
(* None too many.                                                          *)
LEMMA NoneStep ==
    ASSUME YTypeOK, WorkInOnePlace, NoneLeft, [Next]_vars
    PROVE  NoneLeft'
<1> USE DEF NoneLeft
<1>1. IsFiniteSet(Living) /\ Cardinality(Living) \in Nat /\ Cardinality(Living) <= Jobs
  BY FS_Subset, FS_CardinalityType, YoutubeAssumption DEF Living, Jobs
<1>2. ASSUME UNCHANGED <<thread, jobq, phase>> PROVE NoneLeft'
  BY <1>2 DEF Living
<1>3. ASSUME thread' # "join" PROVE NoneLeft'
  BY <1>3
<1>4. ASSUME NEW r \in Requests, Ask(r) \/ Send(r) PROVE NoneLeft'
  BY <1>2, <1>4 DEF Ask, Send, threadVars, workerVars
<1>5. CASE HandlesDropped
  BY <1>2, <1>5 DEF HandlesDropped, threadVars, workerVars
<1>6. CASE ThreadTake \/ ThreadPut \/ ThreadAnswer \/ ThreadPanics \/ ThreadJoin
  BY <1>3, <1>6 DEF ThreadTake, ThreadPut, ThreadAnswer, ThreadPanics, ThreadJoin
<1>7. CASE ThreadClose
  <2>1. jobq' = StopItems /\ Living' = Living
    BY <1>7, StopItemsType DEF ThreadClose, WorkInOnePlace, QueueAgrees, Living, workerVars
  <2> QED BY <1>1, <2>1, StopItemsType
<1>8. ASSUME NEW w \in Living, phase' = [phase EXCEPT ![w] = "ended"]
                               \/ phase' = [phase EXCEPT ![w] = "dead"]
      PROVE  Cardinality(Living') = Cardinality(Living) - 1
  <2>1. Living' = Living \ {w}
    BY <1>8 DEF Living, YTypeOK
  <2> QED BY <1>1, <2>1, FS_RemoveElement
<1>9. ASSUME NEW w \in Workers, LockQueue(w) PROVE NoneLeft'
  BY <1>2, <1>9 DEF LockQueue, threadVars
<1>10. ASSUME NEW w \in Workers, TakeStop(w) PROVE NoneLeft'
  <2>1. /\ w \in Living /\ phase' = [phase EXCEPT ![w] = "ended"]
        /\ jobq # <<>> /\ jobq' = Tail(jobq) /\ UNCHANGED thread
    BY <1>10 DEF TakeStop, Dequeue, Idle, Living
  <2>2. Len(jobq') = Len(jobq) - 1 /\ Len(jobq) \in Nat
    BY <2>1, SequenceTypes DEF YTypeOK
  <2>3. Cardinality(Living') = Cardinality(Living) - 1
    BY <1>8, <2>1
  <2> QED BY <1>1, <2>1, <2>2, <2>3
<1>11. ASSUME NEW w \in Workers, Die(w) PROVE NoneLeft'
  <2>1. /\ w \in Living /\ phase' = [phase EXCEPT ![w] = "dead"] /\ UNCHANGED <<thread, jobq>>
    BY <1>11 DEF Die, Living, threadVars
  <2>2. Len(jobq) \in Nat
    BY DEF YTypeOK
  <2>3. Cardinality(Living') = Cardinality(Living) - 1
    BY <1>8, <2>1
  <2> QED BY <1>1, <2>1, <2>2, <2>3
<1>12. ASSUME NEW w \in Workers, TakeJob(w) PROVE NoneLeft'
  <2>1. jobq # <<>> /\ Head(jobq) # Stop /\ UNCHANGED thread
    BY <1>12 DEF TakeJob, Dequeue
  <2>2. Head(jobq) = jobq[1] /\ 1 \in DOMAIN jobq
    BY <2>1 DEF YTypeOK
  <2> QED BY <1>3, <2>1, <2>2 DEF WorkInOnePlace, QueueAgrees
<1>13. ASSUME NEW w \in Workers, Extract(w) \/ Disarm(w) \/ AlarmFires(w) \/ Reply(w)
       PROVE  NoneLeft'
  <2>1. Busy(w) /\ UNCHANGED thread
    BY <1>13 DEF Extract, Disarm, AlarmFires, Reply, Busy, threadVars
  <2> QED BY <1>3, <2>1 DEF WorkInOnePlace, OneServes
<1>14. CASE UNCHANGED vars
  BY <1>2, <1>14 DEF vars, threadVars, workerVars
<1> QED
  BY <1>4, <1>5, <1>6, <1>7, <1>9, <1>10, <1>11, <1>12, <1>13, <1>14
  DEF Next, ThreadStep, WorkerStep

-----------------------------------------------------------------------------
Inductive == YTypeOK /\ CallersAgree /\ WorkInOnePlace /\ TimeoutsAgree /\ NoneLeft

LEMMA InitInductive == Init => Inductive
<1> SUFFICES ASSUME Init PROVE Inductive
  OBVIOUS
<1>1. YTypeOK
  <2>1. <<>> \in Seq(Requests) /\ <<>> \in Seq(Requests \cup {Stop}) /\ Len(<<>>) <= Jobs
    BY JobsType
  <2> QED BY <2>1 DEF Init, YTypeOK
<1>2. CallersAgree
  BY YoutubeAssumption
  DEF Init, CallersAgree, Waits, Unanswered, AllDifferent, ThreadHolds, InChan
<1>3. WorkInOnePlace /\ TimeoutsAgree /\ NoneLeft
  BY DEF Init, WorkInOnePlace, QueueAgrees, OneServes, PipesFresh, Busy, TimeoutsAgree,
         AlarmOfDownload, TimeoutsOfDownloads, NoneLeft, Requests
<1> QED BY <1>1, <1>2, <1>3 DEF Inductive

LEMMA InductiveStep == Inductive /\ [Next]_vars => Inductive'
<1> SUFFICES ASSUME Inductive, [Next]_vars PROVE Inductive'
  OBVIOUS
<1>1. YTypeOK'
  BY TypesStep DEF Inductive, CallersAgree, WorkInOnePlace
<1> QED BY <1>1, CallersStep, WorkStep, TimeoutsStep, NoneStep DEF Inductive

LEMMA ServiceInvariant == Spec => []Inductive
BY InitInductive, InductiveStep, PTL DEF Spec

(* The state of the service keeps its types; the channel and the queue of  *)
(* the processes keep the bounds that youtube.rs:136 and youtube.py:79     *)
(* give them, also when the end of the service fills the queue.            *)
THEOREM ServiceTypes == Spec => []YTypeOK
BY ServiceInvariant, PTL DEF Inductive

(* However many processes there are, one at most has a request.            *)
THEOREM OneAtATime == Spec => []OneWorkerBusy
<1>1. ASSUME Inductive PROVE OneWorkerBusy
  <2> DEFINE S == {w \in Workers : Busy(w)}
  <2>1. CASE S = {}
    BY <2>1, FS_EmptySet DEF OneWorkerBusy
  <2>2. CASE S # {}
    <3>1. PICK w \in Workers : S = {w}
      BY <1>1, <2>2 DEF Inductive, WorkInOnePlace, OneServes
    <3>2. Cardinality({w}) = 1
      BY FS_Singleton
    <3> QED BY <3>1, <3>2 DEF OneWorkerBusy
  <2> QED BY <2>1, <2>2
<1> QED BY <1>1, ServiceInvariant, PTL

(* No resolve is answered with the timeout of a download that the same     *)
(* process served before it, whenever the alarm fires.                     *)
THEOREM TimeoutsStayWithDownloads == Spec => []OnlyDownloadsTimeOut
<1>1. Inductive => OnlyDownloadsTimeOut
  BY DEF Inductive, TimeoutsAgree, TimeoutsOfDownloads, OnlyDownloadsTimeOut
<1> QED BY <1>1, ServiceInvariant, PTL

(* However the processes end or die while close waits for them, each one   *)
(* living still finds a None in the queue and nothing before it.           *)
THEOREM CloseReachesAll == Spec => []NoneForEveryWorker
<1>1. Inductive => NoneForEveryWorker
  BY DEF Inductive, WorkInOnePlace, QueueAgrees, NoneLeft, NoneForEveryWorker
<1> QED BY <1>1, ServiceInvariant, PTL

-----------------------------------------------------------------------------
(* The service as a whole is the orderly one: what is accepted and not     *)
(* answered is the request of the thread, then the channel.                *)
Pending == (IF current = Nothing THEN <<>> ELSE <<current>>) \o chan

LEMMA PendingIsWaiting ==
    ASSUME YTypeOK, CallersAgree, NEW r \in Requests
    PROVE  Service!Accepted(r) <=> caller[r] = "waiting"
<1>1. Service!Accepted(r) <=> \E i \in DOMAIN Pending : Pending[i] = r
  BY DEF Service!Accepted, Pending
<1>2. chan \in Seq(Requests) /\ Len(chan) \in Nat
  BY DEF YTypeOK
<1>3. CASE current = Nothing
  <2>1. Pending = chan
    BY <1>2, <1>3 DEF Pending
  <2> QED
    BY <1>1, <1>3, <2>1, YoutubeAssumption DEF CallersAgree, Waits, InChan
<1>4. CASE current # Nothing
  <2>1. /\ DOMAIN Pending = 1..Len(chan) + 1 /\ DOMAIN chan = 1..Len(chan)
        /\ Pending[1] = current
        /\ \A i \in 1..Len(chan) : Pending[i + 1] = chan[i]
    BY <1>2, <1>4 DEF Pending
  <2>2. ASSUME NEW i \in DOMAIN Pending, Pending[i] = r PROVE r = current \/ InChan(r)
    <3>1. i = 1 \/ (i - 1 \in DOMAIN chan /\ Pending[i] = chan[i - 1])
      BY <1>2, <2>1
    <3> QED BY <2>1, <2>2, <3>1 DEF InChan
  <2>3. ASSUME r = current \/ InChan(r) PROVE \E i \in DOMAIN Pending : Pending[i] = r
    <3>1. 1 \in DOMAIN Pending /\ \A i \in DOMAIN chan : i + 1 \in DOMAIN Pending
      BY <1>2, <2>1
    <3> QED BY <2>1, <2>3, <3>1 DEF InChan
  <2> QED BY <1>1, <2>2, <2>3 DEF CallersAgree, Waits
<1> QED BY <1>3, <1>4

LEMMA PendingMoves ==
    ASSUME YTypeOK, CallersAgree
    PROVE  /\ \A r \in Requests :
                 chan' = Append(chan, r) /\ UNCHANGED current => Pending' = Append(Pending, r)
           /\ ThreadTake => Pending' = Pending
           /\ ThreadAnswer => Pending # <<>> /\ Head(Pending) = current /\ Pending' = Tail(Pending)
<1>1. chan \in Seq(Requests) /\ current \in Requests \cup {Nothing}
  BY DEF YTypeOK
<1>2. ASSUME NEW r \in Requests, chan' = Append(chan, r), UNCHANGED current
      PROVE  Pending' = Append(Pending, r)
  BY <1>1, <1>2 DEF Pending
<1>3. ASSUME ThreadTake PROVE Pending' = Pending
  <2>1. chan # <<>> /\ current = Nothing /\ current' = Head(chan) /\ chan' = Tail(chan)
    BY <1>3 DEF ThreadTake, CallersAgree, ThreadHolds
  <2>2. Head(chan) \in Requests /\ Head(chan) # Nothing
    BY <1>1, <2>1, SequenceTypes, YoutubeAssumption
  <2>3. chan = <<Head(chan)>> \o Tail(chan)
    BY <1>1, <2>1
  <2> QED BY <1>1, <2>1, <2>2, <2>3 DEF Pending
<1>4. ASSUME ThreadAnswer
      PROVE  Pending # <<>> /\ Head(Pending) = current /\ Pending' = Tail(Pending)
  <2>1. current # Nothing /\ current' = Nothing /\ chan' = chan
    BY <1>4 DEF ThreadAnswer, CallersAgree, ThreadHolds
  <2>2. Pending = <<current>> \o chan /\ Pending' = chan
    BY <1>1, <2>1 DEF Pending
  <2> QED BY <1>1, <2>2
<1> QED BY <1>2, <1>3, <1>4

LEMMA ServiceStep ==
    ASSUME Inductive, [Next]_vars
    PROVE  [Service!SNext]_<<Pending, verdict, ~Broken>>
<1>1. YTypeOK /\ CallersAgree
  BY DEF Inductive
<1> USE DEF Broken
<1>2. ASSUME UNCHANGED <<Pending, verdict, thread>>
      PROVE  UNCHANGED <<Pending, verdict, ~Broken>>
  BY <1>2
<1>3. ASSUME NEW r \in Requests, NEW v \in {"invalid", "lost"}, AnswerWith({r}, v),
             caller[r] \in {"idle", "sending"}, v = "lost" => Broken,
             UNCHANGED <<chan, current, thread>>
      PROVE  Service!SNext
  <2>1. verdict[r] = "none" /\ ~Service!Accepted(r)
    BY <1>1, <1>3, PendingIsWaiting DEF CallersAgree, Unanswered
  <2>2. verdict' = [verdict EXCEPT ![r] = v]
    BY <1>1, <1>3 DEF AnswerWith, YTypeOK
  <2>3. Service!Refuse(r)
    BY <1>3, <2>1, <2>2 DEF Service!Refuse
  <2> QED BY <2>3 DEF Service!SNext
<1>4. ASSUME NEW r \in Requests, Ask(r)
      PROVE  Service!SNext \/ UNCHANGED <<Pending, verdict, thread>>
  BY <1>3, <1>4 DEF Ask, threadVars, Pending
<1>5. ASSUME NEW r \in Requests, Send(r) PROVE Service!SNext
  <2>1. CASE ~Broken /\ chan' = Append(chan, r) /\ UNCHANGED verdict
    <3>1. verdict[r] = "none" /\ ~Service!Accepted(r)
      BY <1>1, <1>5, PendingIsWaiting DEF Send, CallersAgree, Unanswered
    <3>2. Pending' = Append(Pending, r)
      BY <1>1, <1>5, <2>1, PendingMoves DEF Send
    <3>3. Service!Accept(r)
      BY <1>5, <2>1, <3>1, <3>2 DEF Service!Accept, Send, Pending
    <3> QED BY <3>3 DEF Service!SNext
  <2>2. CASE Broken /\ AnswerWith({r}, "lost") /\ UNCHANGED chan
    BY <1>3, <1>5, <2>2 DEF Send
  <2> QED BY <1>5, <2>1, <2>2 DEF Send
<1>6. CASE ThreadTake
  BY <1>1, <1>6, PendingMoves DEF ThreadTake, callers
<1>7. CASE ThreadAnswer
  <2>1. current \in Requests /\ pipe[current] \in Verdicts
    BY <1>1, <1>7 DEF ThreadAnswer, YTypeOK, CallersAgree, ThreadHolds
  <2>2. verdict' = [verdict EXCEPT ![current] = pipe[current]]
    BY <1>1, <1>7, <2>1 DEF ThreadAnswer, AnswerWith, YTypeOK
  <2>3. Pending # <<>> /\ Head(Pending) = current /\ Pending' = Tail(Pending)
    BY <1>1, <1>7, PendingMoves
  <2>4. Service!AnswerFirst(pipe[current])
    BY <1>7, <2>2, <2>3 DEF Service!AnswerFirst, ThreadAnswer, Pending
  <2> QED BY <2>1, <2>4 DEF Service!SNext
<1>8. CASE ThreadPanics
  <2>1. verdict' = [r \in Requests |-> IF Service!Accepted(r) THEN "lost" ELSE verdict[r]]
    <3>1. \A r \in Requests : r \in Outstanding <=> Service!Accepted(r)
      BY <1>1, PendingIsWaiting DEF Outstanding
    <3> QED BY <1>8, <3>1 DEF ThreadPanics, AnswerWith
  <2>2. Pending' = <<>> /\ ~Broken /\ Broken'
    BY <1>8 DEF ThreadPanics, Pending
  <2>3. Service!Break
    BY <2>1, <2>2 DEF Service!Break, Pending
  <2> QED BY <2>3 DEF Service!SNext
<1>9. CASE HandlesDropped \/ ThreadPut \/ ThreadClose \/ ThreadJoin
  BY <1>9
  DEF HandlesDropped, ThreadPut, ThreadClose, ThreadJoin, Pending, callers, threadVars
<1>10. ASSUME NEW w \in Workers, WorkerStep(w) \/ Extract(w) \/ AlarmFires(w) \/ Die(w)
       PROVE  UNCHANGED <<Pending, verdict, thread>>
  BY <1>10
  DEF WorkerStep, LockQueue, TakeJob, TakeStop, Extract, Disarm, AlarmFires, Reply, Die,
      Pending, callers, threadVars
<1>11. CASE UNCHANGED vars
  BY <1>11 DEF vars, callers, threadVars, Pending
<1> QED
  BY <1>2, <1>4, <1>5, <1>6, <1>7, <1>8, <1>9, <1>10, <1>11 DEF Next, ThreadStep

(* The thread, the processes and their pipes implement the orderly         *)
(* service: one answer each, in the order of acceptance, and nobody        *)
(* forgotten when the thread panics.                                       *)
THEOREM ServiceImplemented == Spec => ServesInOrder
<1>1. Init => Service!SInit
  BY DEF Init, Service!SInit, Broken
<1>2. Inductive /\ [Next]_vars => [Service!SNext]_(Service!svars)
  BY ServiceStep DEF Service!svars, Pending
<1> QED BY <1>1, <1>2, ServiceInvariant, PTL DEF Spec, ServesInOrder, Service!ServiceSpec
=============================================================================
