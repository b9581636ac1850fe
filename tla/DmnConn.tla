------------------------------- MODULE DmnConn -------------------------------
(***************************************************************************)
(* The daemon connection (loc_eng_dmn_conn and its parts): a server thread *)
(* that reads interface requests of other daemons from a named pipe and    *)
(* turns them into messages of the MsgTask thread, whose arbiters answer   *)
(* on the pipe of the daemon that asked.                                   *)
(*                                                                         *)
(* Writes fit into PIPE_BUF and are atomic; every pipe is opened O_RDWR,   *)
(* so that a write blocks when the pipe is full and never fails for want   *)
(* of a reader.  The arbiters are AgpsStateMachine's: here they list who   *)
(* has subscribed, and notify whom they like of those.                     *)
(***************************************************************************)
EXTENDS Naturals, Sequences, FiniteSets, SequencesExt

CONSTANTS Daemons,      \* subset of QUIPC, MSAPM, MSAPU, GPSONE_DAEMON
          MaxRequests,  \* bound on the messages of all daemons
          MaxNotices,   \* bound on what daemons are told unasked
          PipeSize,     \* messages a pipe holds
          MaxFailures   \* bound on reads that fail

VARIABLES pipe,        \* the server's pipe
          pipes,       \* the pipes are open
          responses,   \* the daemons' pipes
          thread_exit, thread_ready,
          launcher,    \* where the thread that launches and unblocks is
          server,      \* where thelper_main is
          handled,     \* the message the server handles, at most one
          queue,       \* LocEngReqRelWifi and LocEngReqRelBIT messages
          subscribers, \* daemons the arbiters list
          msgTask,     \* notifications the MsgTask thread is writing
          made,        \* messages each daemon has written
          dropped,     \* those the handlers have dropped
          taken,       \* those the arbiters were given
          told,        \* notifications for each daemon
          read,        \* responses it has read
          early,       \* the launch returned before the pipes were open
          failures

dcvars == <<pipe, pipes, responses, thread_exit, thread_ready, launcher, server, handled,
            queue, subscribers, msgTask, made, dropped, taken, told, read, early, failures>>

counts   == <<dropped, taken, told, read>>
arbiters == <<subscribers, msgTask>>

(* A message of a daemon.  OTHER has a control type, a kind of interface   *)
(* or a sender's ID that the handlers do not know.                         *)
Types == {"REQUEST", "RELEASE", "OTHER"}
Message(type, sender) == [type |-> type, sender |-> sender]
Unblock == Message("UNBLOCK", "none")

OfDaemon(d, seq) == Cardinality({k \in DOMAIN seq : seq[k].sender = d})

DcInit ==
  /\ pipe = <<>> /\ pipes = FALSE
  /\ responses = [d \in Daemons |-> <<>>]
  /\ thread_exit = FALSE /\ thread_ready = FALSE
  /\ launcher = "idle" /\ server = "none" /\ handled = <<>>
  /\ queue = <<>> /\ msgTask = <<>> /\ subscribers = {}
  /\ made = [d \in Daemons |-> 0] /\ dropped = [d \in Daemons |-> 0]
  /\ taken = [d \in Daemons |-> 0] /\ told = [d \in Daemons |-> 0]
  /\ read = [d \in Daemons |-> 0]
  /\ early = FALSE /\ failures = 0

data == <<pipe, pipes, responses, handled, queue, arbiters, made, counts, failures>>

-----------------------------------------------------------------------------
(* loc_eng_dmn_conn_loc_api_server_launch: the signal is initialized and   *)
(* the thread created.                                                     *)
launch ==
  /\ launcher = "idle"
  /\ thread_exit' = FALSE /\ thread_ready' = FALSE
  /\ server' = "created" /\ launcher' = "created"
  /\ UNCHANGED <<data, early>>

MustWait == ~thread_ready /\ ~thread_exit

(* thelper_signal_wait, with one wait and no loop.                         *)
signalWait ==
  /\ launcher = "created"
  /\ launcher' = IF MustWait THEN "waiting" ELSE "returned"
  /\ UNCHANGED <<data, thread_exit, thread_ready, server, early>>

(* The wait may end without a signal: then launch returns too early.       *)
spuriousWakeup ==
  /\ launcher = "waiting"
  /\ launcher' = "returned" /\ early' = ~pipes
  /\ UNCHANGED <<data, thread_exit, thread_ready, server>>

(* thelper_main: loc_api_server_proc_init opens the pipes.                 *)
proc_init ==
  /\ server = "created"
  /\ pipes' = TRUE
  /\ server' = "opened"
  /\ UNCHANGED <<pipe, responses, thread_exit, thread_ready, launcher, handled, queue,
                 arbiters, made, counts, early, failures>>

signalReady ==
  /\ server = "opened"
  /\ thread_ready' = TRUE
  /\ launcher' = IF launcher = "waiting" THEN "returned" ELSE launcher
  /\ server' = "listening"
  /\ UNCHANGED <<data, thread_exit, early>>

-----------------------------------------------------------------------------
(* A daemon asks.                                                          *)
daemonWrites(type, d) ==
  /\ pipes /\ Len(pipe) < PipeSize
  /\ FoldFunction(+, 0, made) < MaxRequests
  /\ pipe' = Append(pipe, Message(type, d))
  /\ made' = [made EXCEPT ![d] = @ + 1]
  /\ UNCHANGED <<pipes, responses, thread_exit, thread_ready, launcher, server, handled,
                 queue, arbiters, counts, early, failures>>

(* loc_api_server_proc: msgrcv.  A read that is interrupted is tried again *)
(* later; nothing has been taken from the pipe.                            *)
msgrcv ==
  /\ server = "listening"
  /\ \/ /\ pipe # <<>>
        /\ handled' = <<Head(pipe)>> /\ pipe' = Tail(pipe)
        /\ server' = "handling"
        /\ UNCHANGED failures
     \/ /\ pipe = <<>> /\ failures < MaxFailures
        /\ failures' = failures + 1
        /\ server' = "looping"
        /\ UNCHANGED <<handled, pipe>>
  /\ UNCHANGED <<pipes, responses, thread_exit, thread_ready, launcher, queue, arbiters,
                 made, counts, early>>

(* The request and the release handler: what they know becomes a message   *)
(* of the MsgTask thread for one of its arbiters, by the sender; their     *)
(* results are ignored.  loc_api_handle is set before the thread is made.  *)
Known(m) == m.type \in {"REQUEST", "RELEASE"}

ReqRel(m) == [type |-> m.type, sender |-> m.sender,
              via |-> IF m.sender = "GPSONE_DAEMON" THEN "BIT" ELSE "WIFI"]

handle ==
  /\ server = "handling"
  /\ LET m == handled[1]
     IN  \/ /\ Known(m) /\ queue' = Append(queue, ReqRel(m))
            /\ UNCHANGED dropped
         \/ /\ ~Known(m) /\ UNCHANGED queue
            /\ dropped' = IF m.type = "OTHER" THEN [dropped EXCEPT ![m.sender] = @ + 1]
                          ELSE dropped
  /\ handled' = <<>>
  /\ server' = "looping"
  /\ UNCHANGED <<pipe, pipes, responses, thread_exit, thread_ready, launcher, arbiters,
                 made, taken, told, read, early, failures>>

(* do ... while (thread_exit == 0), and loc_api_server_proc_post: the      *)
(* pipes are closed and removed, with what they hold.                      *)
loop ==
  /\ server = "looping"
  /\ \/ ~thread_exit /\ server' = "listening" /\ UNCHANGED <<pipe, pipes>>
     \/ thread_exit /\ server' = "gone" /\ pipes' = FALSE /\ pipe' = <<>>
  /\ UNCHANGED <<responses, thread_exit, thread_ready, launcher, handled, queue, arbiters,
                 made, counts, early, failures>>

-----------------------------------------------------------------------------
(* Notifications go out one after the other.                               *)
Notice(d) == [sender |-> d, via |-> IF d = "GPSONE_DAEMON" THEN "BIT" ELSE "WIFI"]

tell(order) ==
  LET notices == [i \in DOMAIN order |-> Notice(order[i])]
  IN  /\ msgTask' = notices
      /\ told' = [d \in Daemons |-> told[d] + OfDaemon(d, notices)]

(* LocEngReqRelWifi::proc and LocEngReqRelBIT::proc.  A request is granted *)
(* or denied at once, or its subscriber is listed; without wifi_nif it is  *)
(* the modem that is told.  A release is answered at once by the BIT       *)
(* arbiter, if it has the subscriber, and not by the other.  (The GPSONE   *)
(* daemon may have a subscriber for each of several addresses.)            *)
proc ==
  /\ msgTask = <<>> /\ queue # <<>>
  /\ LET m == Head(queue)
         d == m.sender
     IN  /\ taken' = [taken EXCEPT ![d] = @ + 1]
         /\ \/ /\ m.type = "REQUEST" /\ tell(<<>>)
               /\ \/ subscribers' = subscribers \cup {d}
                  \/ m.via = "WIFI" /\ UNCHANGED subscribers
            \/ /\ m.type = "REQUEST" /\ tell(<<d>>)
               /\ \/ subscribers' = subscribers \cup {d}
                  \/ UNCHANGED subscribers
            \/ /\ m.type = "RELEASE" /\ (m.via = "WIFI" \/ d \notin subscribers)
               /\ tell(<<>>) /\ UNCHANGED subscribers
            \/ /\ m.type = "RELEASE" /\ m.via = "BIT" /\ d \in subscribers
               /\ tell(<<d>>) /\ subscribers' \in {subscribers, subscribers \ {d}}
  /\ queue' = Tail(queue)
  /\ UNCHANGED <<pipe, pipes, responses, thread_exit, thread_ready, launcher, server,
                 handled, made, dropped, read, early, failures>>

(* The arbiters' other events: the framework grants, denies or takes away  *)
(* an interface, and subscribers are told, any number of times; denied or  *)
(* closed ones are taken off the list.  A modem restart drops those of the *)
(* BIT arbiter, and nobody is told.                                        *)
Orders(S) == {f \in UNION {[1 .. n -> S] : n \in 1 .. Cardinality(S)} : IsInjective(f)}

onRsrcEvent ==
  /\ msgTask = <<>>
  /\ \/ /\ FoldFunction(+, 0, told) < MaxNotices
        /\ \E order \in Orders(subscribers) :
             /\ tell(order)
             /\ subscribers' \in {subscribers, subscribers \ Range(order)}
     \/ /\ subscribers' = subscribers \ {"GPSONE_DAEMON"}
        /\ UNCHANGED <<msgTask, told>>
  /\ UNCHANGED <<pipe, pipes, responses, thread_exit, thread_ready, launcher, server,
                 handled, queue, made, dropped, taken, read, early, failures>>

(* Variant: both MSAP daemons are answered on one pipe.                    *)
pipeShared(n) == IF n.sender = "MSAPM" THEN "QUIPC" ELSE n.sender

(* loc_eng_dmn_conn_loc_api_server_data_conn chooses the pipe by sender.   *)
PipeOf(n) == IF n.via = "BIT" THEN "GPSONE_DAEMON" ELSE n.sender

(* The MsgTask thread waits while the daemon's pipe is full; without pipes *)
(* the write fails, which is ignored.                                      *)
data_conn ==
  /\ msgTask # <<>>
  /\ LET to == PipeOf(Head(msgTask))
     IN  \/ /\ pipes /\ Len(responses[to]) < PipeSize
            /\ responses' = [responses EXCEPT ![to] = Append(@, "RESPONSE")]
         \/ ~pipes /\ UNCHANGED responses
  /\ msgTask' = Tail(msgTask)
  /\ UNCHANGED <<pipe, pipes, thread_exit, thread_ready, launcher, server, handled, queue,
                 subscribers, made, counts, early, failures>>

daemonReads(d) ==
  /\ responses[d] # <<>>
  /\ responses' = [responses EXCEPT ![d] = Tail(@)]
  /\ read' = [read EXCEPT ![d] = @ + 1]
  /\ UNCHANGED <<pipe, pipes, thread_exit, thread_ready, launcher, server, handled, queue,
                 arbiters, made, dropped, taken, told, early, failures>>

-----------------------------------------------------------------------------
(* loc_eng_dmn_conn_loc_api_server_unblock, whose call in loc_eng_cleanup  *)
(* is not compiled (#if 0), sets thread_exit and then writes a message for *)
(* a thread that is inside read().  Without open pipes the write goes      *)
(* elsewhere.                                                              *)
sendUnblock ==
  /\ \/ pipes /\ Len(pipe) < PipeSize /\ pipe' = Append(pipe, Unblock)
     \/ ~pipes /\ UNCHANGED pipe
  /\ UNCHANGED thread_exit

setExit == thread_exit' = TRUE /\ UNCHANGED pipe

UnblockStep(step) == IF step = 1 THEN setExit ELSE sendUnblock

unblock ==
  /\ \/ launcher = "returned" /\ UnblockStep(1) /\ launcher' = "unblocking"
     \/ launcher = "unblocking" /\ UnblockStep(2) /\ launcher' = "joining"
  /\ UNCHANGED <<pipes, responses, thread_ready, server, handled, queue, arbiters, made,
                 counts, early, failures>>

(* loc_eng_dmn_conn_join_thelper.                                          *)
join ==
  /\ launcher = "joining" /\ server = "gone"
  /\ launcher' = "joined"
  /\ UNCHANGED <<data, thread_exit, thread_ready, server, early>>

DcNext ==
  \/ launch \/ signalWait \/ spuriousWakeup \/ proc_init \/ signalReady
  \/ \E type \in Types, d \in Daemons : daemonWrites(type, d)
  \/ msgrcv \/ handle \/ loop
  \/ proc \/ onRsrcEvent \/ data_conn
  \/ \E d \in Daemons : daemonReads(d)
  \/ unblock \/ join

(* Threads run: the launching thread once it has begun, and the server.    *)
DcSpec ==
  /\ DcInit /\ [][DcNext]_dcvars
  /\ WF_dcvars(signalWait \/ join)
  /\ WF_dcvars(launcher = "unblocking" /\ unblock)
  /\ WF_dcvars(proc_init \/ signalReady \/ msgrcv \/ handle \/ loop)

-----------------------------------------------------------------------------
AtServer(d) == OfDaemon(d, pipe) + OfDaemon(d, handled)

(* Through the server thread, the queue of the MsgTask thread, the         *)
(* arbiters and five pipes: while the server runs, every message of a      *)
(* daemon is with the server, dropped because it is none that the handlers *)
(* know, queued, or with its arbiter; whatever the arbiters tell a daemon  *)
(* is being written, on that daemon's own pipe, or read by it; and nobody  *)
(* is told anything who has not asked.                                     *)
RequestsAccounted ==
  pipes => \A d \in Daemons :
    /\ made[d] = AtServer(d) + dropped[d] + OfDaemon(d, queue) + taken[d]
    /\ told[d] = OfDaemon(d, msgTask) + Len(responses[d]) + read[d]
    /\ told[d] > 0 => taken[d] > 0

(* What is on the server's pipe, and what the handlers make of it.         *)
Asked   == [type : Types, sender : Daemons] \cup {Unblock}
Queued  == {ReqRel(m) : m \in {x \in Asked : Known(x)}}
Notices == {Notice(d) : d \in Daemons}

(* What RequestsAccounted rests on.  The pipes open once, before which     *)
(* there are no requests; who is subscribed has asked; and the GPSONE      *)
(* daemon's notices, whose pipe is fixed, are those of the BIT arbiter.    *)
DcInv ==
  /\ pipe \in Seq(Asked) /\ handled \in Seq(Asked)
  /\ queue \in Seq(Queued) /\ msgTask \in Seq(Notices)
  /\ pipes \in BOOLEAN
  /\ responses \in [Daemons -> Seq({"RESPONSE"})]
  /\ made \in [Daemons -> Nat] /\ dropped \in [Daemons -> Nat]
  /\ taken \in [Daemons -> Nat] /\ told \in [Daemons -> Nat]
  /\ read \in [Daemons -> Nat]
  /\ subscribers \subseteq {d \in Daemons : taken[d] > 0}
  /\ IF server = "handling" THEN Len(handled) = 1 ELSE handled = <<>>
  /\ launcher = "idle" => server = "none"
  /\ server \in {"none", "created"} =>
       /\ ~pipes /\ pipe = <<>> /\ handled = <<>> /\ queue = <<>> /\ msgTask = <<>>
       /\ \A d \in Daemons : /\ made[d] = 0 /\ dropped[d] = 0 /\ taken[d] = 0
                             /\ told[d] = 0 /\ read[d] = 0 /\ responses[d] = <<>>

(* Launching returns, whether the thread is ready before or after the      *)
(* launcher waits; and once the pipes are open, unblocking ends a thread   *)
(* blocked in read() and joining it returns.                               *)
LaunchEnds == launcher = "created" ~> launcher \notin {"created", "waiting"}

UnblockEnds == launcher = "unblocking" /\ ~early ~> launcher = "joined"
=============================================================================
