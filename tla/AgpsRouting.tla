----------------------------- MODULE AgpsRouting ----------------------------
(***************************************************************************)
(* The AGPS data connections of the modem and the network interfaces that  *)
(* serve them (loc_eng.cpp, loc.cpp): an ATL request is routed to the      *)
(* machine of its type, an emergency request to ds_nif, which hands the    *)
(* connection over to the ordinary SUPL machine when its data call cannot  *)
(* be started; a release names a connection only and is offered to one     *)
(* machine after the other; and the framework, which the machines ask for  *)
(* a network, answers through entry points without a type.                 *)
(* The machines are those of AgpsStates.                                   *)
(***************************************************************************)
EXTENDS Naturals, Sequences, FiniteSets

CONSTANTS Conns,        \* connection handles of the modem
          MaxQueue,     \* bound on queued messages and requests
          MaxRestarts   \* bound on modem restarts

VARIABLES ready,      \* loc_eng_agps_init was called
          nif,        \* agnss_nif and internet_nif
          dsClient,   \* ds_nif was made
          ds,         \* ds_nif
          dsCall,     \* its data call
          timers,     \* its retry timers that have not fired
          queue,      \* of the MsgTask
          asked,      \* requests of the machines to the framework
          view,       \* what the modem knows of each connection
          es,         \* connections that have been emergency ones
          late,       \* those asked for anew before ds_nif was done with them
          restarts

vars == <<ready, nif, dsClient, ds, dsCall, timers, queue, asked, view, es, late,
          restarts>>

dsVars == <<ds, dsCall, timers, late>>

A == INSTANCE AgpsStates WITH Clients <- Conns, Kind <- "ATL"
D == INSTANCE AgpsStates WITH Clients <- Conns, Kind <- "DS"

Nifs  == {"agnss", "internet"}
Types == {"SUPL", "WWAN_ANY"}

Msg(type, conn, arg) == [type |-> type, conn |-> conn, arg |-> arg]
Space == Len(queue) + Len(asked) + timers < MaxQueue

Init ==
  /\ ready = FALSE
  /\ nif = [n \in Nifs |-> A!NewMachine]
  /\ dsClient = FALSE /\ ds = D!NewMachine /\ dsCall = "none" /\ timers = 0
  /\ queue = <<>> /\ asked = <<>>
  /\ view = [c \in Conns |-> "idle"]
  /\ es = {} /\ late = {}
  /\ restarts = 0

(* loc_eng_agps_init; LocEngDataClientInit may find a data client.         *)
agps_init ==
  /\ ~ready
  /\ ready' = TRUE
  /\ dsClient' \in BOOLEAN
  /\ UNCHANGED <<nif, dsVars, queue, asked, view, es, restarts>>

-----------------------------------------------------------------------------
(* getAgpsStateMachine.                                                    *)
getAgpsStateMachine(type) ==
  CASE type \in {"INVALID", "SUPL"} -> "agnss"
    [] type = "WIFI" -> "wifi"
    [] OTHER -> "internet"

(* The modem is given an open or a close status.  It knows nothing of a    *)
(* connection from before its restart, and once it has asked for the close *)
(* the open status no longer matters.                                      *)
AtlOpen(v, succ) == IF v = "opening" THEN IF succ THEN "open" ELSE "idle" ELSE v

Notified(v, told) ==
  [c \in Conns |->
     LET status == {n.status : n \in {x \in told : x.to = c}}
     IN  IF status \cap {"UNSUBSCRIBE", "RELEASED"} # {} THEN "idle"
         ELSE IF status # {} THEN AtlOpen(v[c], "GRANTED" \in status)
         ELSE v[c]]

(* A machine has handled an event; its request goes to the framework with  *)
(* the machine's type.                                                     *)
Perform(n, o, v) ==
  /\ nif' = [nif EXCEPT ![n] = o.m]
  /\ view' = Notified(v, o.told)
  /\ asked' = IF o.ask # "NONE" /\ ((o.m.active = {}) <=> (o.ask = "RELEASE"))
              THEN Append(asked, [nif |-> n, ask |-> o.ask]) ELSE asked

Handling(type) == queue # <<>> /\ Head(queue).type = type /\ queue' = Tail(queue)

(* LocEngRequestATL.  Without a machine the open fails at once.            *)
requestATL ==
  /\ Handling("RequestATL")
  /\ LET c == Head(queue).conn
         n == getAgpsStateMachine(Head(queue).arg)
     IN  \/ /\ ready
            /\ \E o \in A!onRsrcEvent(nif[n], "SUBSCRIBE", c, TRUE) : Perform(n, o, view)
         \/ /\ ~ready
            /\ view' = [view EXCEPT ![c] = AtlOpen(@, FALSE)]
            /\ UNCHANGED <<nif, asked>>
  /\ UNCHANGED <<ready, dsClient, dsVars, es, restarts>>

(* The subscribers of ds_nif that are denied are handed over: requestATL   *)
(* for AGPS_TYPE_SUPL, one message each.                                   *)
Orders(S) ==
  {f \in UNION {[1 .. n -> S] : n \in 0 .. Cardinality(S)} :
     \A c \in S : \E i \in DOMAIN f : f[i] = c}

HandedOver(told) == {n.to : n \in {x \in told : x.status = "DENIED"}}

(* DSStateMachine::informStatus: a released call is closed, and the client *)
(* hears nothing of it.                                                    *)
informStatus(told) ==
  /\ view' = Notified(view, {n \in told : n.status \in {"GRANTED", "UNSUBSCRIBE"}})
  /\ \E order \in Orders(HandedOver(told)) :
       queue' = Tail(queue) \o [i \in DOMAIN order |-> Msg("RequestATL", order[i], "SUPL")]

(* ds_nif has handled an event.  A call that is asked for is started; or   *)
(* the modem is busy, and a timer may retry it; or it is not, and an       *)
(* active subscriber is denied, who stays listed.  Who that is and how     *)
(* often it is retried is DSStateMachine's business.                       *)
PerformDs(o, started) ==
  /\ ds' = o.m
  /\ \/ /\ o.ask = "REQUEST" /\ started
        /\ dsCall' = "starting" /\ UNCHANGED timers
        /\ informStatus(o.told)
     \/ /\ o.ask = "REQUEST" /\ ~started
        /\ timers' \in {timers, timers + 1} /\ UNCHANGED dsCall
        /\ informStatus(o.told)
     \/ /\ o.ask = "REQUEST" /\ ~started
        /\ \E c \in o.m.active : informStatus(o.told \cup D!Tell({c}, "DENIED"))
        /\ UNCHANGED <<dsCall, timers>>
     \/ /\ o.ask # "REQUEST"
        /\ dsCall' = IF o.ask = "RELEASE" /\ dsCall = "starting" THEN "up" ELSE dsCall
        /\ informStatus(o.told)
        /\ UNCHANGED timers

HandlingDs(type) == queue # <<>> /\ Head(queue).type = type

(* LocEngRequestSuplEs, from the modem or from a retry timer.  A           *)
(* subscriber that is still listed is not added, nor made active again.    *)
requestSuplES ==
  /\ HandlingDs("RequestSuplEs")
  /\ LET c == Head(queue).conn
     IN  \/ /\ dsClient
            /\ \E started \in BOOLEAN :
                 \E o \in D!onRsrcEvent(ds, "SUBSCRIBE", c, started) : PerformDs(o, started)
            /\ late' = IF c \in ds.inactive /\ view[c] = "opening"
                       THEN late \cup {c} ELSE late
         \/ /\ ~dsClient
            /\ view' = [view EXCEPT ![c] = AtlOpen(@, FALSE)]
            /\ queue' = Tail(queue)
            /\ UNCHANGED dsVars
  /\ UNCHANGED <<ready, nif, dsClient, asked, es, restarts>>

(* retryCallback, on the timer's thread.                                   *)
retryCallback ==
  /\ timers > 0 /\ timers' = timers - 1
  /\ \/ \E c \in ds.active : queue' = Append(queue, Msg("RequestSuplEs", c, ""))
     \/ ds.active = {} /\ UNCHANGED queue
  /\ UNCHANGED <<ready, nif, dsClient, ds, dsCall, asked, view, es, late, restarts>>

(* LocEngSuplEsOpened.                                                     *)
onDataCallOpened ==
  /\ HandlingDs("SuplEsOpened")
  /\ \E o \in D!onRsrcEvent(ds, "GRANTED", D!NULL, TRUE) : PerformDs(o, TRUE)
  /\ UNCHANGED <<ready, nif, dsClient, asked, es, late, restarts>>

(* LocEngSuplEsClosed: RELEASED, then DENIED if the state did not change.  *)
onDataCallClosed ==
  /\ HandlingDs("SuplEsClosed")
  /\ \E started \in BOOLEAN, o \in D!onRsrcEvent(ds, "RELEASED", D!NULL, TRUE) :
       \/ o.m.state # ds.state /\ PerformDs(o, started)
       \/ /\ o.m.state = ds.state
          /\ \E d \in D!onRsrcEvent(ds, "DENIED", D!NULL, TRUE) : PerformDs(d, started)
  /\ UNCHANGED <<ready, nif, dsClient, asked, es, late, restarts>>

(* Variant: internet_nif is not searched.                                  *)
searchTwo == <<"agnss", "ds">>

SearchOrder == <<"agnss", "internet", "ds">>

Subscribers(n) == IF n = "ds" THEN D!Listed(ds) ELSE A!Listed(nif[n])

(* LocEngReleaseATL: the first machine that has the connection; if none    *)
(* has it, the close fails at once.                                        *)
releaseATL ==
  /\ HandlingDs("ReleaseATL")
  /\ LET c == Head(queue).conn
         found == {i \in 1 .. Len(SearchOrder) : c \in Subscribers(SearchOrder[i])}
         n == SearchOrder[CHOOSE i \in found : \A j \in found : i <= j]
     IN  \/ /\ found # {} /\ n \in Nifs
            /\ \E o \in A!onRsrcEvent(nif[n], "UNSUBSCRIBE", c, TRUE) : Perform(n, o, view)
            /\ queue' = Tail(queue)
            /\ UNCHANGED <<ds, dsCall, timers>>
         \/ /\ found # {} /\ n = "ds"
            /\ \E o \in D!onRsrcEvent(ds, "UNSUBSCRIBE", c, TRUE) : PerformDs(o, TRUE)
            /\ UNCHANGED <<nif, asked>>
         \/ /\ found = {}
            /\ view' = [view EXCEPT ![c] = "idle"]
            /\ queue' = Tail(queue)
            /\ UNCHANGED <<nif, asked, ds, dsCall, timers>>
  /\ UNCHANGED <<ready, dsClient, es, late, restarts>>

(* LocEngAtlOpenSuccess, LocEngAtlClosed, LocEngAtlOpenFailed.             *)
onAnswer ==
  /\ Handling("Answer")
  /\ LET n == Head(queue).conn
     IN  \E o \in A!onRsrcEvent(nif[n], Head(queue).arg, A!NULL, TRUE) : Perform(n, o, view)
  /\ UNCHANGED <<ready, dsClient, dsVars, es, restarts>>

(* LocEngUp: agnss_nif and internet_nif drop their lists, ds_nif does not. *)
engineUp ==
  /\ Handling("EngineUp")
  /\ nif' = IF ready THEN [n \in Nifs |-> A!dropAllSubscribers(nif[n])] ELSE nif
  /\ UNCHANGED <<ready, dsClient, dsVars, asked, view, es, restarts>>

-----------------------------------------------------------------------------
(* loc_agps_open, loc_agps_closed and loc_agps_open_failed: whatever       *)
(* network was asked for, the answer is for AGPS_TYPE_SUPL.                *)
answer(status) ==
  queue' = Append(queue, Msg("Answer", getAgpsStateMachine("SUPL"), status))

(* The framework takes the requests in order.                              *)
framework ==
  /\ asked # <<>> /\ asked' = Tail(asked)
  /\ IF Head(asked).ask = "REQUEST" THEN answer("GRANTED") \/ answer("DENIED")
                                    ELSE answer("RELEASED")
  /\ UNCHANGED <<ready, nif, dsClient, dsVars, view, es, restarts>>

(* The modem's data services: a started call comes up or fails, a call     *)
(* that is up or being stopped ends.                                       *)
dataCall ==
  /\ Space
  /\ \/ /\ dsCall = "starting" /\ dsCall' = "up"
        /\ queue' = Append(queue, Msg("SuplEsOpened", "", ""))
     \/ /\ dsCall # "none" /\ dsCall' = "none"
        /\ queue' = Append(queue, Msg("SuplEsClosed", "", ""))
  /\ UNCHANGED <<ready, nif, dsClient, ds, timers, asked, view, es, late, restarts>>

Restarting == \E i \in 1 .. Len(queue) : queue[i].type = "EngineUp"

OnItsWay(c) == \E i \in 1 .. Len(queue) : queue[i].conn = c

(* The modem asks for a connection, of a type or for an emergency, with a  *)
(* handle that is not in use, and releases one it has or waits for.        *)
modemRequest(c, type) ==
  /\ Space /\ view[c] = "idle" /\ ~Restarting /\ ~OnItsWay(c)
  /\ view' = [view EXCEPT ![c] = "opening"]
  /\ late' = late \ {c}
  /\ \/ /\ type \in Types
        /\ queue' = Append(queue, Msg("RequestATL", c, type))
        /\ UNCHANGED es
     \/ /\ type = "SUPL_ES"
        /\ queue' = Append(queue, Msg("RequestSuplEs", c, ""))
        /\ es' = es \cup {c}
  /\ UNCHANGED <<ready, nif, dsClient, ds, dsCall, timers, asked, restarts>>

modemRelease(c) ==
  /\ Space /\ view[c] \in {"opening", "open"} /\ ~Restarting
  /\ view' = [view EXCEPT ![c] = "closing"]
  /\ queue' = Append(queue, Msg("ReleaseATL", c, ""))
  /\ UNCHANGED <<ready, nif, dsClient, dsVars, asked, es, restarts>>

modemRestart ==
  /\ Space /\ restarts < MaxRestarts /\ ~Restarting
  /\ view' = [c \in Conns |-> "idle"]
  /\ queue' = Append(queue, Msg("EngineUp", "", ""))
  /\ restarts' = restarts + 1
  /\ UNCHANGED <<ready, nif, dsClient, dsVars, asked, es>>

Next ==
  \/ agps_init \/ requestATL \/ requestSuplES \/ releaseATL \/ onAnswer \/ engineUp
  \/ retryCallback \/ onDataCallOpened \/ onDataCallClosed
  \/ framework \/ dataCall
  \/ \E c \in Conns :
       modemRelease(c) \/ \E type \in Types \cup {"SUPL_ES"} : modemRequest(c, type)
  \/ modemRestart

Spec == Init /\ [][Next]_vars

-----------------------------------------------------------------------------
Homes(c) == {n \in Nifs : c \in Subscribers(n)}

Settled(c) == ~OnItsWay(c) /\ ~Restarting

(* Once the messages about a connection are handled, its release has been  *)
(* answered, and when the modem still waits for it some machine lists it,  *)
(* whatever was started, handed over, denied or lost in between.  (Asked   *)
(* for anew before ds_nif is done with its last use it is forgotten.)      *)
RequestsServed ==
  \A c \in Conns : Settled(c) =>
    /\ view[c] # "closing"
    /\ view[c] = "opening" => Homes(c) # {} \/ c \in ds.active \/ c \in late

(* A connection that was never an emergency one is listed by a machine if  *)
(* and only if the modem waits for it or has it, and by one machine: a     *)
(* release has found the machine that the request went to.  (ds_nif keeps  *)
(* the subscribers it hands over and forgets no connection of a modem that *)
(* crashed, so an emergency connection may be listed twice.)               *)
ConnInOneMachine ==
  \A c \in Conns \ es : Settled(c) =>
    /\ Cardinality(Homes(c)) <= 1
    /\ view[c] \in {"opening", "open"} <=> Homes(c) # {}

(* What the two rest on.  The messages about a connection that was never   *)
(* an emergency one are a request, a release, or both in that order; none  *)
(* follows a restart.                                                      *)
Queued == [type : {"RequestATL"}, conn : Conns, arg : Types]
          \cup [type : {"RequestSuplEs", "ReleaseATL"}, conn : Conns, arg : {""}]
          \cup [type : {"Answer"}, conn : {"agnss"}, arg : {"GRANTED", "DENIED", "RELEASED"}]
          \cup [type : {"EngineUp", "SuplEsOpened", "SuplEsClosed"}, conn : {""}, arg : {""}]

Waiting(type, c) ==
  \E i \in 1 .. Len(queue) : queue[i].type = type /\ queue[i].conn = c

QueueSound ==
  /\ \A i \in 1 .. Len(queue) : queue[i].type = "RequestSuplEs" => queue[i].conn \in es
  /\ \A i, j \in 1 .. Len(queue) :
       i < j => /\ queue[i].conn \in Conns \ es /\ queue[j].conn = queue[i].conn =>
                     queue[i].type = "RequestATL" /\ queue[j].type = "ReleaseATL"
                /\ queue[i].type = "EngineUp" => queue[j].conn \notin Conns \ es

(* The interfaces' machines: nobody waits for a close, and an interface    *)
(* not asked for has no subscribers.                                       *)
MachinesSound ==
  \A n \in Nifs : /\ nif[n].inactive = {} /\ nif[n].state # "Releasing"
                  /\ nif[n].state = "Released" \/ ~ready => nif[n].active = {}

AtMostOne(S) == \A x, y \in S : x = y

(* What the modem knows of a connection, by the messages about it: of one  *)
(* that was never an emergency one,                                        *)
ViewSound(c) ==
  /\ Waiting("ReleaseATL", c) => view[c] \in {"closing", "idle"}
  /\ \A n \in Nifs : c \in nif[n].active /\ nif[n].state = "Pending" => view[c] # "open"
  /\ ~Restarting =>
       /\ AtMostOne(Homes(c))
       /\ Waiting("RequestATL", c) =>
            Homes(c) = {} /\ view[c] = IF Waiting("ReleaseATL", c) THEN "closing" ELSE "opening"
       /\ Waiting("ReleaseATL", c) /\ view[c] = "idle" => Homes(c) = {}
       /\ ~OnItsWay(c) => /\ view[c] # "closing"
                          /\ view[c] \in {"opening", "open"} <=> Homes(c) # {}

(* and of any: what a connection that the modem waits for rests on.        *)
Provided(c) ==
  \/ Waiting("RequestATL", c) \/ Waiting("RequestSuplEs", c)
  \/ Homes(c) # {} \/ c \in late
  \/ c \in ds.active /\ ds.state # "Acquired"

Served(c) ==
  /\ Restarting => view[c] = "idle" /\ restarts > 0
  /\ view[c] = "closing" => Waiting("ReleaseATL", c)
  /\ view[c] = "opening" => Provided(c)

RouteInv ==
  /\ ready \in BOOLEAN /\ dsClient \in BOOLEAN
  /\ ds \in D!Machine /\ D!Listed(ds) \subseteq es /\ ds.active \cap ds.inactive = {}
  /\ dsCall \in {"none", "starting", "up"} /\ timers \in Nat
  /\ nif \in [Nifs -> A!Machine] /\ queue \in Seq(Queued)
  /\ asked \in Seq([nif : Nifs, ask : A!Asks])
  /\ view \in [Conns -> {"idle", "opening", "open", "closing"}]
  /\ es \subseteq Conns /\ late \subseteq es /\ restarts \in Nat
  /\ QueueSound /\ MachinesSound
  /\ \A c \in Conns \ es : ViewSound(c)
  /\ \A c \in Conns : Served(c)

(* loc_agps_open: "It should inform ARM 9 about the data open result": when *)
(* the framework has answered everything, no connection that needs it (an  *)
(* emergency call does not) is left waiting.                               *)
OpensAnswered ==
  queue = <<>> /\ asked = <<>> => \A c \in Conns \ es : view[c] # "opening"
=============================================================================
