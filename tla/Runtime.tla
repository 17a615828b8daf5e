------------------------------ MODULE Runtime ------------------------------
(***************************************************************************)
(* src/src/run.rs around the admin server and the controller: the tasks of *)
(* the join set (the bot's is only running or over here), the token that   *)
(* Ctrl-C and the first error cancel, and the end of the program, which    *)
(* waits for the tasks of the set, not for the connections.                *)
(***************************************************************************)
EXTENDS AdminServer

CONSTANTS BotEnabled,  \* a bot token was given
          Failing      \* the tasks that may fail on their own

ASSUME RuntimeAssumption == BotEnabled \in BOOLEAN

VARIABLES bot,      \* the task of the bot's notifications
          server,   \* the accept loop
          socket,   \* the socket's file exists
          unjoined, \* the tasks of the set that have not been joined
          outcome,  \* result of wait_for_tasks
          main      \* running, or the program has exited

rvars == <<bot, server, socket, unjoined, outcome, main>>
vars == <<avars, rvars>>

Tasks == {"controller", "server"} \cup (IF BotEnabled THEN {"bot"} ELSE {})

Init ==
    /\ AInit(IF BotEnabled THEN {Bot} ELSE {})
    /\ bot = IF BotEnabled THEN "running" ELSE "off"
    /\ server = "running" /\ socket = TRUE
    /\ unjoined = Tasks /\ outcome = "ok" /\ main = "running"

TaskState(t) == CASE t = "controller" -> ctl [] t = "server" -> server [] t = "bot" -> bot

-----------------------------------------------------------------------------
(* How a task can end now. *)
Endings(t) == (IF token THEN {"stopped"} ELSE {}) \cup (IF t \in Failing THEN {"failed"} ELSE {})

(* Cancelled, or a message that Telegram refuses: its receiver goes.       *)
EndBot ==
    /\ bot = "running"
    /\ \E how \in Endings("bot") : bot' = how
    /\ Drop(Bot)
    /\ UNCHANGED <<tail, cursor, connVars, lockVars, token, server, socket, unjoined, outcome, main>>

Accept(c) ==
    /\ server = "running"
    /\ Connect(c)
    /\ UNCHANGED rvars

(* Cancelled, or accept has failed: either way the file is removed.        *)
EndServer ==
    /\ server = "running"
    /\ \E how \in Endings("server") : server' = how
    /\ socket' = FALSE
    /\ UNCHANGED <<avars, bot, unjoined, outcome, main>>

(* An error of the controller that no receiver has to do with.             *)
ControllerFails ==
    /\ "controller" \in Failing /\ ctl = "idle" /\ ctl' = "failed"
    /\ UNCHANGED <<bvars, connVars, lockq, readers, token, rvars>>

CtrlC ==
    /\ ~token /\ token' = TRUE
    /\ UNCHANGED <<bvars, connVars, lockVars, rvars>>

(* Variant: the first error is kept, but the other tasks go on. *)
JoinWithoutCancel(t) ==
    /\ t \in unjoined /\ TaskState(t) \in {"stopped", "failed"}
    /\ unjoined' = unjoined \ {t}
    /\ outcome' = IF TaskState(t) = "failed" THEN "error" ELSE outcome
    /\ UNCHANGED <<avars, bot, server, socket, main>>

(* Variant: the result is that of the task joined last. *)
JoinKeepingLast(t) ==
    /\ t \in unjoined /\ TaskState(t) \in {"stopped", "failed"}
    /\ unjoined' = unjoined \ {t}
    /\ outcome' = IF TaskState(t) = "failed" THEN "error" ELSE "ok"
    /\ token' = (token \/ TaskState(t) = "failed")
    /\ UNCHANGED <<bvars, connVars, lockVars, bot, server, socket, main>>

(* The first error cancels the others and is the result. *)
Join(t) ==
    /\ t \in unjoined /\ TaskState(t) \in {"stopped", "failed"}
    /\ unjoined' = unjoined \ {t}
    /\ outcome' = IF TaskState(t) = "failed" THEN "error" ELSE outcome
    /\ token' = (token \/ (TaskState(t) = "failed" /\ outcome = "ok"))
    /\ UNCHANGED <<bvars, connVars, lockVars, bot, server, socket, main>>

(* The set is empty: the download directory goes and the program ends,     *)
(* with whatever its connections were doing.                               *)
Exit ==
    /\ unjoined = {} /\ main' = "exited"
    /\ UNCHANGED <<avars, bot, server, socket, unjoined, outcome>>

Connections(c) == ConnStep(c) /\ UNCHANGED rvars
ControllerTask == ControllerStep /\ UNCHANGED rvars

Next ==
    /\ main = "running"
    /\ \/ \E c \in Conns : Accept(c) \/ Connections(c)
       \/ ControllerTask \/ ControllerFails
       \/ EndBot \/ EndServer \/ CtrlC
       \/ \E t \in Tasks : Join(t)
       \/ Exit

Spec == Init /\ [][Next]_vars

(* Every task that can run is run; a client owes nothing, but if it reads  *)
(* again and again the socket takes what is written.                       *)
Up == main = "running" /\ UNCHANGED rvars
FairSpec ==
    /\ Spec
    /\ \A c \in Conns :
          /\ WF_vars(Up /\ SendStep(c)) /\ WF_vars(Up /\ ReadEnds(c))
          /\ WF_vars(Up /\ HandleRequest(c))
          /\ WF_vars(Up /\ (ReadLock(c) \/ WriteLock(c) \/ TellQueued(c)))
          /\ WF_vars(Up /\ Poll(c)) /\ WF_vars(Up /\ Notify(c))
          /\ WF_vars(Up /\ (HandleExit(c) \/ HandleClear(c) \/ WriteFails(c)))
          /\ SF_vars(Up /\ Write(c))
    /\ WF_vars(Up /\ HandleLocked) /\ SF_vars(Up /\ ControllerStops)
    /\ WF_vars(main = "running" /\ token /\ EndBot)
    /\ WF_vars(main = "running" /\ token /\ EndServer)
    /\ \A t \in Tasks : WF_vars(main = "running" /\ Join(t))
    /\ WF_vars(main = "running" /\ Exit)

-----------------------------------------------------------------------------
(* The state has its types. *)
RTypeOK ==
    /\ ATypeOK
    /\ bot \in {"off", "running", "stopped", "failed"}
    /\ server \in {"running", "stopped", "failed"}
    /\ socket \in BOOLEAN
    /\ unjoined \subseteq Tasks
    /\ outcome \in {"ok", "error"}
    /\ main \in {"running", "exited"}

(* The program exits with an error exactly if one of its tasks has failed, *)
(* however many have and in whatever order they are joined, and leaves no  *)
(* socket file (run.rs:83-97, server.rs:127).                              *)
CleanExit ==
    main = "exited" =>
        /\ outcome = (IF \E t \in Tasks : TaskState(t) = "failed" THEN "error" ELSE "ok")
        /\ ~socket

ClientsRead == \A c \in Conns : []<>(client[c] # "stalled" \/ main = "exited")

(* Ctrl-C, or the failure of any task, ends the program, provided no       *)
(* client stops reading for good.                                          *)
Ending == token \/ \E t \in Tasks : TaskState(t) = "failed"
ShutdownCompletes == ClientsRead => (Ending ~> main = "exited")

(* With the same proviso nobody keeps the lock and the controller is not   *)
(* kept waiting for it: a client that leaves while its listing is being    *)
(* sent gives it back.                                                     *)
LockComesFree ==
    ClientsRead =>
        []<>(main = "exited" \/ (readers = {} /\ ctl \notin {"waiting", "viewing"}))

(* The terminal of a client that reads and is not kept busy in the end     *)
(* shows every event sent since it connected, from the first to the last,  *)
(* unless its notification task has once lagged and sleeps.                *)
SentTo(c) == [i \in 1..tail - shown[c][1] + 1 |-> shown[c][1] + i - 1]
ShowsAll ==
    \A c \in Conns :
        <>[](client[c] = "reading" /\ req[c] = "read" /\ main = "running") =>
            <>[](shown[c] # <<>> /\ (shown[c] = SentTo(c) \/ rx[c] = "asleep"))
=============================================================================
