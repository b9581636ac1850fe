----------------------------- MODULE MCGpsThreads -----------------------------
(***************************************************************************)
(* The threads of the GPS HAL on small instances: the request threads of    *)
(* LocEngNi, which is extended, and beside it the message task, the server  *)
(* of the daemon connection and the timer, which are instantiated.  They    *)
(* share no state: part says which of them a behaviour is about.            *)
(***************************************************************************)
EXTENDS LocEngNi

CONSTANTS Senders, MaxMsgs,   \* of the message task
          DaemonRequests, MaxNotices, PipeSize, MaxFailures,   \* of the daemon connection
          MaxHold   \* of the timer

VARIABLES part,
    list, unblocked, destroyed, loop, msg, sent, handled, leaked, flushed,
    pipe, pipes, responses, thread_exit, thread_ready, launcher, server, dHandled, queue,
    subscribers, msgTask, made, dropped, taken, told, read, early, failures,
    memory, state, mutex, tmThread, ret, attempt, stopper, tmHeld, aborted, spurious, fired

task   == <<list, unblocked, destroyed, loop, msg, sent, handled, leaked, flushed>>
daemon == <<pipe, pipes, responses, thread_exit, thread_ready, launcher, server, dHandled,
            queue, subscribers, msgTask, made, dropped, taken, told, read, early, failures>>
timer  == <<memory, state, mutex, tmThread, ret, attempt, stopper, tmHeld, aborted,
            spurious, fired>>
all    == <<part, vars, task, daemon, timer>>

M == INSTANCE MsgTask

Daemons == {"QUIPC", "MSAPM", "GPSONE_DAEMON"}
D == INSTANCE DmnConn WITH handled <- dHandled, MaxRequests <- DaemonRequests

T == INSTANCE LocTimer WITH thread <- tmThread, held <- tmHeld

MCInit == /\ part \in {"ni", "task", "daemon", "timer"}
          /\ Init /\ M!Init /\ D!DcInit /\ T!TmInit

Ni(A)     == part = "ni"     /\ A /\ UNCHANGED <<part, task, daemon, timer>>
Task(A)   == part = "task"   /\ A /\ UNCHANGED <<part, vars, daemon, timer>>
Daemon(A) == part = "daemon" /\ A /\ UNCHANGED <<part, vars, task, timer>>
Timer(A)  == part = "timer"  /\ A /\ UNCHANGED <<part, vars, task, daemon>>

MCNext == Ni(Next) \/ Task(M!Next) \/ Daemon(D!DcNext) \/ Timer(T!TmNext)

\* The fairness of the four parts.  A behaviour is about one of them: an action
\* of one part and an action of another can share a condition.  The conditions
\* name the threads of two requests of the modem.
MCFair ==
    /\ WF_all(\/ Ni(ni_notify_cb) \/ Task(M!loopMain)
              \/ Daemon(D!signalWait \/ D!join)
              \/ Timer(T!beginWait \/ T!wakeUp \/ T!endWait \/ T!callback \/ T!destroyTimer))
    /\ WF_all(\/ Ni(informNiResponse)
              \/ Daemon(launcher = "unblocking" /\ D!unblock)
              \/ Timer(T!stopAborts \/ T!stopUnlocks))
    /\ WF_all(\/ Ni(resetFrees \/ resetClears \/ resetSignals)
              \/ Daemon(D!proc_init \/ D!signalReady \/ D!msgrcv \/ D!handle \/ D!loop))
    /\ WF_all(Ni(threadTests(1))) /\ WF_all(Ni(threadTests(2)))
    /\ WF_all(Ni(threadTimesOut(1))) /\ WF_all(Ni(threadTimesOut(2)))
    /\ WF_all(Ni(threadLeaves(1))) /\ WF_all(Ni(threadLeaves(2)))

MCSpec == MCInit /\ [][MCNext]_all /\ MCFair

\* MsgTask: messages are handled in order, each once or accounted for; no wakeup
\* is lost, and none ends the thread.
MessagesHandled == part = "task" => M!MessagesHandled

\* DmnConn: messages of daemons are accounted for, and what the arbiters tell a
\* daemon comes on its own pipe.
RequestsAccounted == part = "daemon" => D!RequestsAccounted

\* LocTimer: a timer is not freed under loc_timer_stop, a stopped one is silent.
TimerSound == part = "timer" => T!TimerSound

\* Threads end.  MsgTask: every message ends, and so does the thread of a task
\* destroyed.  DmnConn: launching returns; unblocking ends the thread.  LocTimer:
\* every timer ends, and has called back unless it was stopped.
ThreadsEnd == /\ M!EveryMessageEnds /\ M!UnblockEnds
              /\ D!LaunchEnds /\ D!UnblockEnds
              /\ T!TimerEnds
=============================================================================
