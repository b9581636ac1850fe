-------------------------- MODULE AgpsStateMachine --------------------------
(***************************************************************************)
(* One AgpsStateMachine of the GPS HAL with ATL or BIT subscribers, that   *)
(* is agnss_nif, to which the framework's answers are given (see           *)
(* AgpsRouting), together with the clients that subscribe to it and the    *)
(* framework's connectivity service that owns the network interface.       *)
(*                                                                         *)
(* Every operation runs as one LocMsg::proc on the MsgTask thread, so a    *)
(* handler is one atomic action.  What is concurrent is everything around  *)
(* it: requests reach the service through agps_status_cb, its answers come *)
(* back later as LocEngAtlOpenSuccess, LocEngAtlClosed and                 *)
(* LocEngAtlOpenFailed messages, clients ask and give up in between, the   *)
(* interface may be lost at any time, and the modem may restart.           *)
(***************************************************************************)
EXTENDS AgpsStates, Naturals, Sequences

CONSTANTS MaxInFlight,   \* bound on undelivered requests and answers
          MaxRestarts    \* bound on modem restarts

ASSUME SubscriberAssumption == Kind \in {"ATL", "BIT"}
ASSUME BoundAssumption      == MaxInFlight \in Nat /\ MaxRestarts \in Nat

VARIABLES m,          \* the machine: state and subscriber list
          requests,   \* requests on their way to the service, oldest first
          responses,  \* answers on their way back, oldest first
          held,       \* the service has the interface up for this NIF
          view,       \* what each client was told last
          restarts    \* modem restarts so far

vars == <<m, requests, responses, held, view, restarts>>

Views   == {"idle", "opening", "open", "closing"}
Answers == {"GRANTED", "RELEASED", "DENIED"}

Init ==
  /\ m = NewMachine
  /\ requests = <<>>
  /\ responses = <<>>
  /\ held = FALSE
  /\ view = [i \in Clients |-> "idle"]
  /\ restarts = 0

InFlight == Len(requests) + Len(responses)

-----------------------------------------------------------------------------
(* Variant: the test for active subscribers is inverted.                   *)
sendTestInverted(mm, ask) ==
  IF ask # "NONE" /\ ((mm.active # {}) <=> (ask = "RELEASE"))
  THEN Append(requests, ask)
  ELSE requests

(* AgpsStateMachine::sendRsrcRequest: a REQUEST goes out only while some   *)
(* subscriber is active, a RELEASE only while none is.                     *)
sendRsrcRequest(mm, ask) ==
  IF ask # "NONE" /\ ((mm.active = {}) <=> (ask = "RELEASE"))
  THEN Append(requests, ask)
  ELSE requests

(* Variant: DENIED is not passed on.                                       *)
deniedNotPassedOn(v, told) ==
  [i \in Clients |->
     IF \E n \in told : n.to = i /\ n.status = "GRANTED" THEN "open"
     ELSE IF \E n \in told : n.to = i /\ n.status # "DENIED" THEN "idle"
     ELSE v[i]]

(* notifyRsrcStatus of the subscriber classes, as the client sees it:      *)
(* GRANTED is an open status of 1, DENIED an open status of 0, and         *)
(* UNSUBSCRIBE and RELEASED a close status.                                *)
notifyRsrcStatus(v, told) ==
  [i \in Clients |->
     IF \E n \in told : n.to = i /\ n.status = "GRANTED" THEN "open"
     ELSE IF \E n \in told : n.to = i THEN "idle"
     ELSE v[i]]

(* A state object has handled an event: its effects take place.            *)
Perform(o, v) ==
  /\ m' = o.m
  /\ requests' = sendRsrcRequest(o.m, o.ask)
  /\ view' = notifyRsrcStatus(v, o.told)

(* LocEngRequestATL, LocEngReqRelBIT (isReq).                              *)
subscribeRsrc(s) ==
  /\ view[s] = "idle"
  /\ InFlight < MaxInFlight
  /\ \E o \in onRsrcEvent(m, "SUBSCRIBE", s, TRUE) :
       Perform(o, [view EXCEPT ![s] = "opening"])
  /\ UNCHANGED <<responses, held, restarts>>

(* LocEngReleaseATL, LocEngReqRelBIT (~isReq).  An unknown ATL subscriber  *)
(* is answered with a failed close status; nobody answers an unknown BIT   *)
(* subscriber.                                                             *)
unsubscribeRsrc(s) ==
  /\ view[s] # "idle"
  /\ InFlight < MaxInFlight
  /\ \/ /\ s \in Listed(m)
        /\ \E o \in onRsrcEvent(m, "UNSUBSCRIBE", s, TRUE) :
             Perform(o, [view EXCEPT ![s] = "closing"])
     \/ /\ s \notin Listed(m)
        /\ view' = [view EXCEPT ![s] = IF Kind = "ATL" THEN "idle"
                                       ELSE "closing"]
        /\ UNCHANGED <<m, requests>>
  /\ UNCHANGED <<responses, held, restarts>>

(* LocEngAtlOpenSuccess, LocEngAtlClosed or LocEngAtlOpenFailed.           *)
onAnswer ==
  /\ responses # <<>>
  /\ \E o \in onRsrcEvent(m, Head(responses), NULL, TRUE) : Perform(o, view)
  /\ responses' = Tail(responses)
  /\ UNCHANGED <<held, restarts>>

(* loc_eng_handle_engine_up: the lists of agnss_nif and internet_nif are   *)
(* dropped, their states are not touched, nobody is notified.  ATL clients *)
(* live in the modem and start afresh; the BIT daemon does not.            *)
handleEngineUp ==
  /\ restarts < MaxRestarts
  /\ restarts' = restarts + 1
  /\ m' = dropAllSubscribers(m)
  /\ view' = IF Kind = "ATL" THEN [i \in Clients |-> "idle"] ELSE view
  /\ UNCHANGED <<requests, responses, held>>

-----------------------------------------------------------------------------
(* The connectivity service, which is not part of this repository: it      *)
(* takes the requests in order, grants or denies a REQUEST (granting one   *)
(* it already serves), answers a RELEASE of an interface that is up and    *)
(* possibly one of an interface that is down, and may lose the interface.  *)
Answer(up, answer) ==
  /\ held' = up
  /\ responses' = Append(responses, answer)

ServiceRequest ==
  /\ requests # <<>> /\ Head(requests) = "REQUEST"
  /\ \/ Answer(TRUE, "GRANTED")
     \/ ~held /\ Answer(FALSE, "DENIED")
  /\ requests' = Tail(requests)
  /\ UNCHANGED <<m, view, restarts>>

ServiceRelease ==
  /\ requests # <<>> /\ Head(requests) = "RELEASE"
  /\ \/ Answer(FALSE, "RELEASED")
     \/ ~held /\ UNCHANGED <<held, responses>>
  /\ requests' = Tail(requests)
  /\ UNCHANGED <<m, view, restarts>>

ServiceLoss ==
  /\ held
  /\ InFlight < MaxInFlight
  /\ Answer(FALSE, "RELEASED")
  /\ UNCHANGED <<m, requests, view, restarts>>

Next ==
  \/ \E s \in Clients : subscribeRsrc(s) \/ unsubscribeRsrc(s)
  \/ onAnswer
  \/ handleEngineUp
  \/ ServiceRequest
  \/ ServiceRelease
  \/ ServiceLoss

Spec == Init /\ [][Next]_vars

(* The MsgTask thread drains its queue and the service answers.            *)
FairSpec == /\ Spec
            /\ WF_vars(onAnswer)
            /\ WF_vars(ServiceRequest)
            /\ WF_vars(ServiceRelease)

-----------------------------------------------------------------------------
(* The types of the variables; no subscriber is both active and inactive.  *)
TypeOK ==
  /\ m \in Machine
  /\ m.active \cap m.inactive = {}
  /\ requests \in Seq({"REQUEST", "RELEASE"})
  /\ responses \in Seq(Answers)
  /\ held \in BOOLEAN
  /\ view \in [Clients -> Views]
  /\ restarts \in Nat

(* AgpsReleasedState::onRsrcEvent reports "subscriber list not empty!!!"   *)
(* as an error it cannot recover from: whatever answers are late and       *)
(* whoever leaves in between, the machine never rests in Released with     *)
(* subscribers on its list.                                                *)
ReleasedListEmpty == m.state = "Released" => ~hasSubscribers(m)

(* What the clients were told is what the machine believes: a client waits *)
(* for an open status exactly while it is an active entry of a machine     *)
(* without the interface, has it exactly while it is an active entry of an *)
(* Acquired machine, and waits for a close status exactly while it is      *)
(* inactive.  (The engine restart drops BIT subscribers without telling    *)
(* them.)                                                                  *)
ViewsAgree ==
  (Kind = "BIT" => restarts = 0) =>
    \A i \in Clients :
      /\ view[i] = "opening" <=>
           i \in m.active /\ m.state \in {"Pending", "Releasing"}
      /\ view[i] = "open" <=> i \in m.active /\ m.state = "Acquired"
      /\ view[i] = "closing" <=> i \in m.inactive

(* A client that was told it has the interface really has it, or the news  *)
(* that it is gone is already on the way: a stale GRANTED of an earlier    *)
(* request never opens a NIF that stays down.                              *)
OpenMeansHeld ==
  m.state = "Acquired" => held \/ \E k \in DOMAIN responses :
                                    responses[k] = "RELEASED"

(* Nobody waits for an answer that does not come: while the machine is     *)
(* Pending, a REQUEST is still unanswered or its answer is undelivered.    *)
PendingAnswerComing ==
  m.state = "Pending" =>
    \/ \E k \in DOMAIN requests : requests[k] = "REQUEST"
    \/ \E k \in DOMAIN responses : responses[k] \in {"GRANTED", "DENIED"}

(* Every client that waits for an open or a close status gets one.         *)
EveryoneAnswered ==
  \A i \in Clients : view[i] \in {"opening", "closing"} ~> view[i] \in {"idle", "open"}

-----------------------------------------------------------------------------
(* The inductive invariant of AgpsStateMachineProofs.  The subscribers     *)
(* leave at once, so the machine never waits for a close; an undelivered   *)
(* GRANTED is either still true or followed by an undelivered RELEASED.    *)
LeaveAtOnce == m.inactive = {} /\ m.state # "Releasing"

GrantIsTrue ==
  \A k \in DOMAIN responses : responses[k] = "GRANTED" =>
    held \/ \E j \in DOMAIN responses : j > k /\ responses[j] = "RELEASED"

IndInv ==
  /\ TypeOK
  /\ ReleasedListEmpty
  /\ LeaveAtOnce
  /\ ViewsAgree
  /\ OpenMeansHeld
  /\ GrantIsTrue
  /\ PendingAnswerComing
=============================================================================
