--------------------------- MODULE DSStateMachine ---------------------------
(***************************************************************************)
(* DSStateMachine, the emergency SUPL arbiter (ds_nif): the transition     *)
(* tables of AgpsStates with an overridden sendRsrcRequest that starts or  *)
(* stops a modem data call synchronously, retries a busy modem from a      *)
(* timer thread, and hands a client over to the ordinary SUPL interface    *)
(* (requestATL) when the call cannot be started.                           *)
(*                                                                         *)
(* Handlers run on the MsgTask thread.  A retry is a detached timer thread *)
(* that picks a subscriber and queues a new LocEngRequestSuplEs message,   *)
(* which is handled only later; the modem reports the end of a call start  *)
(* and of a call through messages of their own.                            *)
(***************************************************************************)
EXTENDS AgpsStates, Naturals, Sequences, Functions

CONSTANTS StartResults,  \* what openAndStartDataCall may return
          TimersMayFail, \* loc_timer_start may fail to create its thread
          MaxRetryChains,\* bound on concurrent retry timers and messages
          MaxGiveUps     \* bound on unsubscriptions

MAX_START_DATA_CALL_RETRIES == 4

ASSUME DSAssumption ==
  /\ Kind = "DS"
  /\ StartResults \subseteq
       {"SUCCESS", "BUSY", "UNSUPPORTED", "ERROR", "OTHER"}
  /\ TimersMayFail \in BOOLEAN
  /\ MaxRetryChains \in Nat /\ MaxGiveUps \in Nat

VARIABLES m,         \* state and subscriber list
          order,     \* the list itself: linked_list_add puts newest first
          mRetries,
          timers,    \* retry timers that have not fired
          retries,   \* LocEngRequestSuplEs messages queued by timers
          call,      \* the modem's data call
          events,    \* LocEngSuplEsOpened and LocEngSuplEsClosed messages
          overlap,   \* a call was started over an existing one
          view,      \* what each client was told last
          giveUps    \* unsubscriptions so far

vars == <<m, order, mRetries, timers, retries, call, events, overlap, view,
          giveUps>>

Views == {"idle", "opening", "open", "fallback"}

Init ==
  /\ m = NewMachine /\ order = <<>>
  /\ mRetries = 0 /\ timers = 0 /\ retries = <<>>
  /\ call = "none" /\ events = <<>> /\ overlap = FALSE
  /\ view = [i \in Clients |-> "idle"]
  /\ giveUps = 0

-----------------------------------------------------------------------------
(* DSStateMachine::informStatus for every notification: an open or close   *)
(* status for the client, or requestATL on its behalf.  RELEASED only      *)
(* closes the data call, the client hears nothing.                         *)
informStatus(v, told) ==
  [i \in Clients |->
     IF [to |-> i, status |-> "GRANTED"] \in told          THEN "open"
     ELSE IF [to |-> i, status |-> "DENIED"] \in told      THEN "fallback"
     ELSE IF [to |-> i, status |-> "UNSUBSCRIBE"] \in told THEN "idle"
     ELSE v[i]]

(* mRetries is reset wherever a DENIED is passed on.                       *)
RetriesAfter(told) ==
  IF \E n \in told : n.status = "DENIED" THEN 0 ELSE mRetries

(* The list order once the entries are those of mm.                        *)
ListOrder(mm) ==
  LET new == Listed(mm) \ Range(order)
  IN  (IF new = {} THEN <<>> ELSE <<CHOOSE s \in new : TRUE>>) \o
      SelectSeq(order, LAMBDA i : i \in Listed(mm))

(* linked_list_search for a BROADCAST_ACTIVE notification.                 *)
firstActive(mm, ord) == Head(SelectSeq(ord, LAMBDA i : i \in mm.active))

(* openAndStartDataCall returned result.  v and r are the views and the    *)
(* retry count before; s is the first active subscriber of the list.       *)
(* The handle loc_timer_start returns only decides what is logged; where   *)
(* TimersMayFail, no timer thread may come of it.                          *)
startDataCall(result, s, v, r) ==
  CASE result = "SUCCESS" ->
         /\ overlap' = (overlap \/ call # "none")
         /\ call' = "starting"
         /\ mRetries' = r /\ view' = v
         /\ UNCHANGED timers
    [] result = "BUSY" /\ r + 1 <= MAX_START_DATA_CALL_RETRIES ->
         /\ \/ timers' = timers + 1
            \/ TimersMayFail /\ UNCHANGED timers
         /\ mRetries' = r + 1 /\ view' = v
         /\ UNCHANGED <<call, overlap>>
    [] result = "OTHER" ->
         /\ mRetries' = r /\ view' = v
         /\ UNCHANGED <<call, overlap, timers>>
    [] OTHER ->
         /\ view' = informStatus(v, Tell({s}, "DENIED"))
         /\ mRetries' = 0
         /\ UNCHANGED <<call, overlap, timers>>

(* stopDataCall, which always succeeds.                                    *)
stopDataCall ==
  /\ call' = IF call \in {"starting", "up"} THEN "stopping" ELSE call
  /\ UNCHANGED <<overlap, timers>>

(* DSStateMachine::sendRsrcRequest, always called with the list as the     *)
(* handler left it.                                                        *)
sendRsrcRequest(mm, ask, result, v, r) ==
  CASE ask = "REQUEST" ->
         startDataCall(result, firstActive(mm, ListOrder(mm)), v, r)
    [] ask = "RELEASE" -> stopDataCall /\ mRetries' = r /\ view' = v
    [] OTHER -> /\ mRetries' = r /\ view' = v
                /\ UNCHANGED <<call, overlap, timers>>

(* A state object has handled an event; result is what a call start would  *)
(* return.                                                                 *)
Perform(o, result, v) ==
  /\ m' = o.m
  /\ order' = ListOrder(o.m)
  /\ sendRsrcRequest(o.m, o.ask, result, informStatus(v, o.told),
                     RetriesAfter(o.told))

(* subscribeRsrc from LocEngRequestSuplEs, whoever queued the message.     *)
subscribeRsrc(s, v) ==
  \E result \in StartResults :
    \E o \in onRsrcEvent(m, "SUBSCRIBE", s, result = "SUCCESS") :
      Perform(o, result, v)

(* The modem asks for an emergency SUPL connection.                        *)
requestSuplES(s) ==
  /\ view[s] = "idle"
  /\ timers + Len(retries) < MaxRetryChains
  /\ subscribeRsrc(s, [view EXCEPT ![s] = "opening"])
  /\ UNCHANGED <<retries, events, giveUps>>

(* The modem is done with it, or gives up waiting (LocEngReleaseATL, for a *)
(* client the other interfaces do not list).                               *)
releaseATL(s) ==
  /\ view[s] \in {"opening", "open"}
  /\ giveUps < MaxGiveUps
  /\ giveUps' = giveUps + 1
  /\ \/ /\ s \in Listed(m)
        /\ \E o \in onRsrcEvent(m, "UNSUBSCRIBE", s, TRUE) :
             Perform(o, "SUCCESS", view)
     \/ /\ s \notin Listed(m)
        /\ view' = [view EXCEPT ![s] = "idle"]
        /\ UNCHANGED <<m, order, mRetries, timers, call, overlap>>
  /\ UNCHANGED <<retries, events>>

(* delay_callback and retryCallback, on the timer thread.                  *)
retryCallback ==
  /\ timers > 0
  /\ timers' = timers - 1
  /\ \/ m.active # {} /\ retries' = Append(retries, firstActive(m, order))
     \/ m.active = {} /\ UNCHANGED retries
  /\ UNCHANGED <<m, order, mRetries, call, events, overlap, view, giveUps>>

(* The message the timer thread queued.                                    *)
retrySuplES ==
  /\ retries # <<>>
  /\ subscribeRsrc(Head(retries), view)
  /\ retries' = Tail(retries)
  /\ UNCHANGED <<events, giveUps>>

(* LocEngSuplEsOpened.                                                     *)
onDataCallOpened ==
  /\ events # <<>> /\ Head(events) = "OPENED"
  /\ \E o \in onRsrcEvent(m, "GRANTED", NULL, TRUE) :
       Perform(o, "SUCCESS", view)
  /\ events' = Tail(events)
  /\ UNCHANGED <<retries, giveUps>>

(* LocEngSuplEsClosed: RELEASED, dispatched again as DENIED when the state *)
(* did not change.                                                         *)
onDataCallClosed ==
  /\ events # <<>> /\ Head(events) = "CLOSED"
  /\ \E result \in StartResults, o \in onRsrcEvent(m, "RELEASED", NULL, TRUE) :
       \/ o.m.state # m.state /\ Perform(o, result, view)
       \/ /\ o.m.state = m.state
          /\ \E d \in onRsrcEvent(o.m, "DENIED", NULL, TRUE) :
               Perform(d, result, informStatus(view, o.told))
  /\ events' = Tail(events)
  /\ UNCHANGED <<retries, giveUps>>

-----------------------------------------------------------------------------
(* The modem's data services, outside this repository: a started call      *)
(* comes up or fails, an established call may be lost, a stopped call      *)
(* ends.  A call that is not there is not reported closed.                 *)
CallUp ==
  /\ call = "starting"
  /\ call' = "up"
  /\ events' = Append(events, "OPENED")
  /\ UNCHANGED <<m, order, mRetries, timers, retries, overlap, view, giveUps>>

CallDown ==
  /\ call \in {"starting", "up", "stopping"}
  /\ call' = "none"
  /\ events' = Append(events, "CLOSED")
  /\ UNCHANGED <<m, order, mRetries, timers, retries, overlap, view, giveUps>>

(* The ordinary SUPL interface is done with a client handed over to it.    *)
FallbackDone(s) ==
  /\ view[s] = "fallback"
  /\ view' = [view EXCEPT ![s] = "idle"]
  /\ UNCHANGED <<m, order, mRetries, timers, retries, call, events, overlap,
                 giveUps>>

Next ==
  \/ \E s \in Clients : requestSuplES(s) \/ releaseATL(s) \/ FallbackDone(s)
  \/ retryCallback \/ retrySuplES
  \/ onDataCallOpened \/ onDataCallClosed
  \/ CallUp \/ CallDown

Spec == Init /\ [][Next]_vars

-----------------------------------------------------------------------------
(* The types of the variables; the retry count stays within its limit.     *)
TypeOK ==
  /\ m \in Machine
  /\ Range(order) = Listed(m)
  /\ mRetries \in 0 .. MAX_START_DATA_CALL_RETRIES
  /\ timers \in Nat
  /\ retries \in Seq(Clients)
  /\ call \in {"none", "starting", "up", "stopping"}
  /\ events \in Seq({"OPENED", "CLOSED"})
  /\ overlap \in BOOLEAN
  /\ view \in [Clients -> Views]
  /\ giveUps \in Nat

(* There is one data call: whatever retries, late messages and losses come *)
(* in between, openAndStartDataCall is never called over a call that still *)
(* exists.                                                                 *)
OneDataCall == ~overlap

(* The machine believes in the call only while it exists or its end is on  *)
(* the way as a message.                                                   *)
AcquiredHasCall ==
  m.state = "Acquired" =>
    call \in {"up", "stopping"} \/ \E k \in DOMAIN events : events[k] = "CLOSED"

(* A started call is never orphaned: while one exists the machine is in a  *)
(* state that will stop it or be told of its end.                          *)
CallIsOwned == call # "none" => m.state # "Released"

(* What the three rest on.  The messages about a call are its opening, its *)
(* end or both, the end only of a call that is gone.                       *)
EventsFollowCall ==
  /\ call = "none" => events \in {<<>>, <<"CLOSED">>, <<"OPENED", "CLOSED">>}
  /\ call = "starting" => events = <<>>
  /\ call \in {"up", "stopping"} => events \in {<<>>, <<"OPENED">>}

(* A Released machine has no call and no message about one under way; an   *)
(* Acquired one has a call with nothing under way, or its end under way.   *)
MachineFollowsCall ==
  /\ m.state = "Released" => call = "none" /\ events = <<>>
  /\ m.state = "Acquired" =>
       (call \in {"up", "stopping"} /\ events = <<>>) \/ events = <<"CLOSED">>

CallInv ==
  /\ m.state \in States
  /\ m = [state |-> m.state, active |-> m.active, inactive |-> m.inactive]
  /\ call \in {"none", "starting", "up", "stopping"}
  /\ OneDataCall /\ EventsFollowCall /\ MachineFollowsCall

(* The three together: the machine, the call and the messages about it     *)
(* agree about what exists.                                                *)
DataCallSound == OneDataCall /\ AcquiredHasCall /\ CallIsOwned
=============================================================================
