--------------------------- MODULE GpsEngineProofs ---------------------------
(***************************************************************************)
(* Proofs about the parts of the GPS HAL's engine: the emergency data call *)
(* (DSStateMachine), the routing of the modem's connections (AgpsRouting)  *)
(* and the adapters of the API base class (LocApiBase), for every set of   *)
(* clients, connections and adapters and every bound.                      *)
(***************************************************************************)
EXTENDS MCGpsEngine, SequenceTheorems, FiniteSetTheorems, TLAPS

(* A machine as the handlers make it.                                      *)
IsMachine(mm) ==
  /\ mm.state \in States
  /\ mm = [state |-> mm.state, active |-> mm.active, inactive |-> mm.inactive]

LEMMA InIsMachine ==
  ASSUME NEW mm, IsMachine(mm), NEW state \in States
  PROVE  IsMachine(In(mm, state)) /\ In(mm, state).state = state
<1>1. PICK a, i : mm = [state |-> mm.state, active |-> a, inactive |-> i]
  BY DEF IsMachine
<1>2. In(mm, state) = [state |-> state, active |-> a, inactive |-> i]
  BY <1>1 DEF In
<1> QED BY <1>2 DEF IsMachine

LEMMA DeleteIsMachine ==
  ASSUME NEW mm, IsMachine(mm), NEW ids
  PROVE  IsMachine(notifyAndDelete(mm, ids))
<1>1. PICK t, a, i : mm = [state |-> t, active |-> a, inactive |-> i] /\ t = mm.state
  BY DEF IsMachine
<1>2. notifyAndDelete(mm, ids) = [state |-> t, active |-> a \ ids, inactive |-> i \ ids]
  <2>1. [mm EXCEPT !.active = @ \ ids] = [state |-> t, active |-> a \ ids, inactive |-> i]
    BY <1>1
  <2>2. mm.inactive = i /\ mm.active = a
    BY <1>1
  <2>3. notifyAndDelete(mm, ids) = [[mm EXCEPT !.active = @ \ ids] EXCEPT !.inactive = mm.inactive \ ids]
    BY <2>1, <2>2 DEF notifyAndDelete
  <2> QED BY <2>1, <2>2, <2>3
<1> QED BY <1>1, <1>2 DEF IsMachine

(* DSSubscriber waits for the close: a handler takes the machine out of    *)
(* Released only with the start of a call, and back only when the end of   *)
(* a call is reported.                                                     *)
LEMMA SubscribeStates ==
  ASSUME NEW mm, IsMachine(mm), NEW s, NEW started \in BOOLEAN,
         NEW o \in onRsrcEvent(mm, "SUBSCRIBE", s, started)
  PROVE  /\ IsMachine(o.m)
         /\ o.m.state = IF mm.state = "Released" /\ started THEN "Pending" ELSE mm.state
         /\ o.ask = IF mm.state = "Released" THEN "REQUEST" ELSE "NONE"
<1> USE DEF IsMachine, States, Then, In, addSubscriber
<1>1. CASE mm.state = "Released"
  BY <1>1 DEF onRsrcEvent, releasedOnEvent
<1>2. CASE mm.state = "Pending"
  BY <1>2 DEF onRsrcEvent, pendingOnEvent
<1>3. CASE mm.state = "Acquired"
  BY <1>3 DEF onRsrcEvent, acquiredOnEvent
<1>4. CASE mm.state = "Releasing"
  BY <1>4 DEF onRsrcEvent, releasingOnEvent
<1> QED BY <1>1, <1>2, <1>3, <1>4

(* A subscriber that leaves stays listed, so the machine waits for the     *)
(* close in Releasing.                                                     *)
LEMMA UnsubscribeStates ==
  ASSUME NEW mm, IsMachine(mm), NEW s,
         NEW o \in onRsrcEvent(mm, "UNSUBSCRIBE", s, TRUE)
  PROVE  /\ IsMachine(o.m)
         /\ o.m.state = mm.state \/ (o.m.state = "Releasing" /\ mm.state # "Released")
         /\ o.ask \in {"NONE", "RELEASE"}
<1> USE DEF IsMachine, States
<1>a. Kind = "DS"
  BY DSAssumption
<1>0. ASSUME NEW l \in leave(mm, s)
      PROVE  IsMachine(l.m) /\ l.m.state = mm.state /\ l.ask = "NONE" /\ Listed(l.m) # {}
  <2>1. l = Then([mm EXCEPT !.active = @ \ {s}, !.inactive = @ \cup {s}],
                 Tell({s}, "UNSUBSCRIBE"), "NONE")
    BY <1>a DEF leave, waitForCloseComplete
  <2>2. l.m = [state |-> mm.state, active |-> mm.active \ {s}, inactive |-> mm.inactive \cup {s}]
    BY <2>1 DEF Then
  <2> QED BY <2>1, <2>2 DEF Then, Listed
<1>1. CASE mm.state = "Released"
  <2>1. o = Then(mm, Tell({s}, "UNSUBSCRIBE"), "NONE")
    BY <1>1 DEF onRsrcEvent, releasedOnEvent
  <2>2. o.m = mm /\ o.ask = "NONE"
    BY <2>1 DEF Then
  <2> QED BY <1>1, <2>2
<1>2. CASE mm.state \in {"Pending", "Acquired"}
  <2>1. PICK l \in leave(mm, s) : o = releaseIfUnused(l)
    BY <1>2 DEF onRsrcEvent, pendingOnEvent, acquiredOnEvent
  <2>2. o = IF l.m.active = {} THEN Then(In(l.m, "Releasing"), l.told, "RELEASE") ELSE l
    BY <1>0, <2>1 DEF releaseIfUnused, hasSubscribers, hasActiveSubscribers
  <2>3. o.m = IF l.m.active = {} THEN In(l.m, "Releasing") ELSE l.m
    BY <2>2 DEF Then
  <2>4. o.ask = IF l.m.active = {} THEN "RELEASE" ELSE "NONE"
    BY <1>0, <2>2 DEF Then
  <2>5. IsMachine(In(l.m, "Releasing")) /\ In(l.m, "Releasing").state = "Releasing"
    BY <1>0, InIsMachine
  <2> QED BY <1>0, <1>2, <2>3, <2>4, <2>5
<1>3. CASE mm.state = "Releasing"
  <2>1. PICK l \in leave(mm, s) : o = l
    BY <1>0, <1>3 DEF onRsrcEvent, releasingOnEvent, hasSubscribers
  <2> QED BY <1>0, <1>3, <2>1
<1> QED BY <1>1, <1>2, <1>3

(* The call is up: only a Pending machine acts on it.                      *)
LEMMA GrantedStates ==
  ASSUME NEW mm, IsMachine(mm), NEW o \in onRsrcEvent(mm, "GRANTED", NULL, TRUE)
  PROVE  /\ IsMachine(o.m) /\ o.ask = "NONE"
         /\ o.m.state = IF mm.state = "Pending" THEN "Acquired" ELSE mm.state
<1> USE DEF IsMachine, States, Then, In
<1>1. CASE mm.state = "Released"
  BY <1>1 DEF onRsrcEvent, releasedOnEvent
<1>2. CASE mm.state = "Pending"
  BY <1>2 DEF onRsrcEvent, pendingOnEvent
<1>3. CASE mm.state = "Acquired"
  BY <1>3 DEF onRsrcEvent, acquiredOnEvent
<1>4. CASE mm.state = "Releasing"
  BY <1>4 DEF onRsrcEvent, releasingOnEvent
<1> QED BY <1>1, <1>2, <1>3, <1>4

(* The call is gone: RELEASED and DENIED.                                  *)
LEMMA ClosedStates ==
  ASSUME NEW mm, IsMachine(mm), NEW event \in {"RELEASED", "DENIED"},
         NEW o \in onRsrcEvent(mm, event, NULL, TRUE)
  PROVE  /\ IsMachine(o.m)
         /\ mm.state = "Releasing" => o.m.state \in {"Pending", "Released"}
         /\ mm.state = "Acquired" /\ event = "RELEASED" => o.m.state = "Released"
         /\ mm.state = "Pending" /\ event = "DENIED" => o.m.state = "Released"
         /\ mm.state = "Pending" /\ event = "RELEASED" => o.m = mm
         /\ o.ask = IF o.m.state = "Pending" /\ mm.state = "Releasing" THEN "REQUEST" ELSE "NONE"
<1> USE DEF IsMachine, States
<1>0. ASSUME NEW ids, NEW state \in States
      PROVE  /\ IsMachine(In(notifyAndDelete(mm, ids), state))
             /\ In(notifyAndDelete(mm, ids), state).state = state
  <2>1. IsMachine(notifyAndDelete(mm, ids))
    BY DeleteIsMachine
  <2> QED BY <1>0, <2>1, InIsMachine
<1>a. ASSUME o = Then(mm, {}, "NONE") PROVE o.m = mm /\ o.ask = "NONE"
  BY <1>a DEF Then
<1>1. CASE mm.state = "Released"
  <2>1. o = Then(mm, {}, "NONE")
    BY <1>1 DEF onRsrcEvent, releasedOnEvent
  <2> QED BY <1>1, <1>a, <2>1
<1>b. ASSUME o = Then(In(notifyAndDelete(mm, Listed(mm)), "Released"), Tell(Listed(mm), event), "NONE")
      PROVE  IsMachine(o.m) /\ o.m.state = "Released" /\ o.ask = "NONE"
  <2>1. o.m = In(notifyAndDelete(mm, Listed(mm)), "Released") /\ o.ask = "NONE"
    BY <1>b DEF Then
  <2> QED BY <1>0, <2>1
<1>2. CASE mm.state = "Pending"
  <2>1. CASE event = "DENIED"
    <3>1. o = Then(In(notifyAndDelete(mm, Listed(mm)), "Released"), Tell(Listed(mm), event), "NONE")
      BY <1>2, <2>1 DEF onRsrcEvent, pendingOnEvent
    <3> QED BY <1>2, <1>b, <2>1, <3>1
  <2>2. CASE event = "RELEASED"
    <3>1. o = Then(mm, {}, "NONE")
      BY <1>2, <2>2 DEF onRsrcEvent, pendingOnEvent
    <3> QED BY <1>2, <1>a, <2>2, <3>1
  <2> QED BY <2>1, <2>2
<1>3. CASE mm.state = "Acquired"
  <2>1. CASE event = "RELEASED"
    <3>1. o = Then(In(notifyAndDelete(mm, Listed(mm)), "Released"), Tell(Listed(mm), event), "NONE")
      BY <1>3, <2>1 DEF onRsrcEvent, acquiredOnEvent
    <3> QED BY <1>3, <1>b, <2>1, <3>1
  <2>2. CASE event = "DENIED"
    <3>1. o = Then(mm, {}, "NONE")
      BY <1>3, <2>2 DEF onRsrcEvent, acquiredOnEvent
    <3> QED BY <1>3, <1>a, <2>2, <3>1
  <2> QED BY <2>1, <2>2
<1>4. CASE mm.state = "Releasing"
  <2>1. o = Then(In(notifyAndDelete(mm, mm.inactive),
                    IF hasActiveSubscribers(mm) THEN "Pending" ELSE "Released"),
                 Tell(mm.inactive, event), IF hasActiveSubscribers(mm) THEN "REQUEST" ELSE "NONE")
    BY <1>4 DEF onRsrcEvent, releasingOnEvent
  <2>2. /\ o.m = In(notifyAndDelete(mm, mm.inactive),
                    IF hasActiveSubscribers(mm) THEN "Pending" ELSE "Released")
        /\ o.ask = IF hasActiveSubscribers(mm) THEN "REQUEST" ELSE "NONE"
    BY <2>1 DEF Then
  <2> QED BY <1>0, <1>4, <2>2
<1> QED BY <1>1, <1>2, <1>3, <1>4

-----------------------------------------------------------------------------
(* What sendRsrcRequest does to the data call.                             *)
LEMMA CallEffect ==
  ASSUME NEW o, NEW result, NEW v, Perform(o, result, v), OneDataCall,
         o.ask \in {"NONE", "REQUEST", "RELEASE"}
  PROVE  /\ m' = o.m
         /\ o.ask = "REQUEST" /\ result = "SUCCESS" =>
              call' = "starting" /\ (call = "none" => OneDataCall')
         /\ o.ask = "RELEASE" =>
              call' = (IF call \in {"starting", "up"} THEN "stopping" ELSE call) /\ OneDataCall'
         /\ o.ask = "NONE" \/ (o.ask = "REQUEST" /\ result # "SUCCESS") =>
              call' = call /\ OneDataCall'
<1> USE DEF OneDataCall
<1>1. PICK vv, r : sendRsrcRequest(o.m, o.ask, result, vv, r) /\ m' = o.m
  BY DEF Perform
<1>2. CASE o.ask = "REQUEST"
  <2>1. PICK s : startDataCall(result, s, vv, r)
    BY <1>1, <1>2 DEF sendRsrcRequest
  <2>2. CASE result = "SUCCESS"
    <3>1. overlap' = (overlap \/ call # "none") /\ call' = "starting"
      BY <2>1, <2>2 DEF startDataCall
    <3> QED BY <1>1, <1>2, <2>2, <3>1
  <2>3. CASE result # "SUCCESS"
    <3>1. call' = call /\ overlap' = overlap
      BY <2>1, <2>3 DEF startDataCall
    <3> QED BY <1>1, <1>2, <2>3, <3>1
  <2> QED BY <2>2, <2>3
<1>3. CASE o.ask = "RELEASE"
  BY <1>1, <1>3 DEF sendRsrcRequest, stopDataCall
<1>4. CASE o.ask = "NONE"
  BY <1>1, <1>4 DEF sendRsrcRequest
<1> QED BY <1>2, <1>3, <1>4

(* subscribeRsrc: a call is started only from Released, where there is     *)
(* none.                                                                   *)
LEMMA CallSubscribe ==
  ASSUME CallInv, NEW s, NEW v, subscribeRsrc(s, v), events' = events
  PROVE  CallInv'
<1> USE DEF CallInv
<1>0. IsMachine(m)
  BY DEF IsMachine
<1>a. PICK result \in StartResults :
         \E o \in onRsrcEvent(m, "SUBSCRIBE", s, result = "SUCCESS") : Perform(o, result, v)
  BY DEF subscribeRsrc
<1>1. PICK o \in onRsrcEvent(m, "SUBSCRIBE", s, result = "SUCCESS") : Perform(o, result, v)
  BY <1>a
<1>2. /\ IsMachine(o.m)
      /\ o.m.state = IF m.state = "Released" /\ result = "SUCCESS" THEN "Pending" ELSE m.state
      /\ o.ask = IF m.state = "Released" THEN "REQUEST" ELSE "NONE"
  BY <1>0, SubscribeStates
<1>3. m' = o.m /\ IsMachine(m')
  BY <1>1, <1>2, CallEffect
<1>4. CASE m.state = "Released" /\ result = "SUCCESS"
  <2>1. call = "none" /\ events = <<>>
    BY <1>4 DEF MachineFollowsCall
  <2>2. call' = "starting" /\ OneDataCall' /\ m'.state = "Pending"
    BY <1>1, <1>2, <1>3, <1>4, <2>1, CallEffect
  <2> QED BY <1>3, <2>1, <2>2 DEF IsMachine, EventsFollowCall, MachineFollowsCall
<1>5. CASE ~(m.state = "Released" /\ result = "SUCCESS")
  <2>1. call' = call /\ OneDataCall' /\ m'.state = m.state
    BY <1>1, <1>2, <1>3, <1>5, CallEffect
  <2> QED BY <1>3, <2>1 DEF IsMachine, EventsFollowCall, MachineFollowsCall
<1> QED BY <1>4, <1>5

(* LocEngReleaseATL stops the call and waits for its end.                  *)
LEMMA CallRelease ==
  ASSUME CallInv, NEW s, releaseATL(s)
  PROVE  CallInv'
<1> USE DEF CallInv
<1>0. IsMachine(m) /\ events' = events
  BY DEF IsMachine, releaseATL
<1>1. CASE s \notin Listed(m)
  <2>1. m' = m /\ call' = call /\ overlap' = overlap
    BY <1>1 DEF releaseATL
  <2> QED BY <1>0, <2>1 DEF OneDataCall, EventsFollowCall, MachineFollowsCall
<1>2. CASE s \in Listed(m)
  <2>1. PICK o \in onRsrcEvent(m, "UNSUBSCRIBE", s, TRUE) : Perform(o, "SUCCESS", view)
    BY <1>2 DEF releaseATL
  <2>2. /\ IsMachine(o.m)
        /\ o.m.state = m.state \/ (o.m.state = "Releasing" /\ m.state # "Released")
        /\ o.ask \in {"NONE", "RELEASE"}
    BY <1>0, UnsubscribeStates
  <2>3. m' = o.m /\ IsMachine(m') /\ OneDataCall'
        /\ call' \in {call, IF call \in {"starting", "up"} THEN "stopping" ELSE call}
    BY <2>1, <2>2, CallEffect
  <2> QED BY <1>0, <2>2, <2>3 DEF IsMachine, EventsFollowCall, MachineFollowsCall
<1> QED BY <1>1, <1>2

(* LocEngSuplEsOpened.                                                     *)
LEMMA CallOpened ==
  ASSUME CallInv, onDataCallOpened
  PROVE  CallInv'
<1> USE DEF CallInv
<1>0. IsMachine(m)
  BY DEF IsMachine
<1>1. PICK o \in onRsrcEvent(m, "GRANTED", NULL, TRUE) : Perform(o, "SUCCESS", view)
  BY DEF onDataCallOpened
<1>2. /\ IsMachine(o.m) /\ o.ask = "NONE"
      /\ o.m.state = IF m.state = "Pending" THEN "Acquired" ELSE m.state
  BY <1>0, GrantedStates
<1>3. m' = o.m /\ call' = call /\ OneDataCall'
  BY <1>1, <1>2, CallEffect
<1>4. Head(events) = "OPENED" /\ events' = Tail(events) /\ events # <<>>
  BY DEF onDataCallOpened
<1>5. \/ events = <<"OPENED">> /\ events' = <<>> /\ call \in {"up", "stopping"}
      \/ events = <<"OPENED", "CLOSED">> /\ events' = <<"CLOSED">> /\ call = "none"
  <2>1. events \in {<<"OPENED">>, <<"OPENED", "CLOSED">>}
    BY <1>4 DEF EventsFollowCall
  <2>2. CASE events = <<"OPENED">>
    <3>1. Tail(events) = <<>>
      BY <2>2
    <3> QED BY <1>4, <2>2, <3>1 DEF EventsFollowCall
  <2>3. CASE events = <<"OPENED", "CLOSED">>
    <3>1. Tail(events) = <<"CLOSED">>
      BY <2>3
    <3> QED BY <1>4, <2>3, <3>1 DEF EventsFollowCall
  <2> QED BY <2>1, <2>2, <2>3
<1> QED BY <1>2, <1>3, <1>5 DEF IsMachine, EventsFollowCall, MachineFollowsCall

(* LocEngSuplEsClosed: the call it reports is gone and no other was        *)
(* started, so a waiting subscriber may have a new one.                    *)
LEMMA CallClosed ==
  ASSUME CallInv, onDataCallClosed
  PROVE  CallInv'
<1> USE DEF CallInv
<1>0. IsMachine(m)
  BY DEF IsMachine
<1>1. Head(events) = "CLOSED" /\ events' = Tail(events) /\ events # <<>>
  BY DEF onDataCallClosed
<1>2. events = <<"CLOSED">> /\ events' = <<>> /\ call = "none"
  BY <1>1 DEF EventsFollowCall
<1>3. m.state # "Released"
  BY <1>1 DEF MachineFollowsCall
<1>4. PICK result \in StartResults, o \in onRsrcEvent(m, "RELEASED", NULL, TRUE) :
         \/ o.m.state # m.state /\ Perform(o, result, view)
         \/ /\ o.m.state = m.state
            /\ \E d \in onRsrcEvent(o.m, "DENIED", NULL, TRUE) :
                 Perform(d, result, informStatus(view, o.told))
  BY DEF onDataCallClosed
<1>5. /\ IsMachine(o.m)
      /\ m.state = "Releasing" => o.m.state \in {"Pending", "Released"}
      /\ m.state = "Acquired" => o.m.state = "Released"
      /\ m.state = "Pending" => o.m = m
      /\ o.ask = IF o.m.state = "Pending" /\ m.state = "Releasing" THEN "REQUEST" ELSE "NONE"
  BY <1>0, ClosedStates
<1>6. PICK p, v : /\ Perform(p, result, v) /\ IsMachine(p.m)
                  /\ p.m.state \in {"Pending", "Released"}
                  /\ p.ask = IF p.m.state = "Pending" THEN "REQUEST" ELSE "NONE"
  <2>1. CASE m.state \in {"Releasing", "Acquired"}
    BY <1>4, <1>5, <2>1
  <2>2. CASE m.state = "Pending"
    <3>1. o.m = m
      BY <1>5, <2>2
    <3>2. PICK d \in onRsrcEvent(m, "DENIED", NULL, TRUE) :
                 Perform(d, result, informStatus(view, o.told))
      BY <1>4, <3>1
    <3>3. IsMachine(d.m) /\ d.m.state = "Released" /\ d.ask = "NONE"
      BY <1>0, <2>2, ClosedStates
    <3> QED BY <3>2, <3>3
  <2> QED BY <1>3, <2>1, <2>2 DEF States
<1>7. m' = p.m /\ call' \in {"none", "starting"} /\ OneDataCall'
      /\ (p.ask = "NONE" => call' = "none")
  BY <1>2, <1>6, CallEffect
<1> QED BY <1>2, <1>6, <1>7 DEF IsMachine, EventsFollowCall, MachineFollowsCall

(* The machine, the call and the messages about it agree about what        *)
(* exists, whatever retries, losses and late messages come in between: no  *)
(* call is started over another, an Acquired machine has its call or the   *)
(* end of it under way, and no call is left without an owner.              *)
THEOREM DataCallIsSound == Spec => []DataCallSound
<1>1. Init => CallInv
  BY DEF Init, CallInv, NewMachine, States, OneDataCall, EventsFollowCall, MachineFollowsCall
<1>2. CallInv /\ [Next]_vars => CallInv'
  <2> SUFFICES ASSUME CallInv, [Next]_vars PROVE CallInv'
    OBVIOUS
  <2> USE DEF CallInv
  <2>1. ASSUME NEW s \in Clients, requestSuplES(s) PROVE CallInv'
    BY <2>1, CallSubscribe DEF requestSuplES
  <2>2. ASSUME NEW s \in Clients, releaseATL(s) PROVE CallInv'
    BY <2>2, CallRelease
  <2>3. ASSUME m' = m, call' = call, overlap' = overlap, events' = events PROVE CallInv'
    BY <2>3 DEF OneDataCall, EventsFollowCall, MachineFollowsCall
  <2>4. CASE \/ \E s \in Clients : FallbackDone(s)
             \/ retryCallback \/ UNCHANGED vars
    BY <2>3, <2>4 DEF FallbackDone, retryCallback, vars
  <2>5. CASE retrySuplES
    BY <2>5, CallSubscribe DEF retrySuplES
  <2>6. CASE CallUp
    <3>1. /\ call = "starting" /\ call' = "up" /\ events = <<>> /\ events' = <<"OPENED">>
          /\ m' = m /\ overlap' = overlap
      BY <2>6 DEF CallUp, EventsFollowCall
    <3> QED BY <3>1 DEF OneDataCall, EventsFollowCall, MachineFollowsCall
  <2>7. CASE CallDown
    <3>1. call \in {"starting", "up", "stopping"} /\ call' = "none" /\ events' = Append(events, "CLOSED")
          /\ m' = m /\ overlap' = overlap
      BY <2>7 DEF CallDown
    <3>2. \/ events = <<>> /\ events' = <<"CLOSED">>
          \/ events = <<"OPENED">> /\ events' = <<"OPENED", "CLOSED">>
      <4>1. events = <<>> \/ events = <<"OPENED">>
        BY <3>1 DEF EventsFollowCall
      <4>2. CASE events = <<>>
        BY <3>1, <4>2
      <4>3. CASE events = <<"OPENED">>
        <5>1. Append(events, "CLOSED") = <<"OPENED", "CLOSED">>
          <6>1. events \in Seq({"OPENED", "CLOSED"}) /\ Len(events) = 1 /\ events[1] = "OPENED"
            BY <4>3
          <6>2. PICK e : e = Append(events, "CLOSED")
            OBVIOUS
          <6>3. e \in Seq({"OPENED", "CLOSED"}) /\ Len(e) = 2 /\ e[1] = "OPENED" /\ e[2] = "CLOSED"
            <7>1. PICK S : S = {"OPENED", "CLOSED"}
              OBVIOUS
            <7>2. events \in Seq(S) /\ "CLOSED" \in S
              BY <6>1, <7>1
            <7>3. /\ e \in Seq(S) /\ Len(e) = Len(events) + 1 /\ e[Len(events) + 1] = "CLOSED"
                  /\ \A i \in 1 .. Len(events) : e[i] = events[i]
              BY <6>2, <7>2, AppendProperties
            <7> QED BY <6>1, <7>1, <7>3
          <6>4. PICK f : f = <<"OPENED", "CLOSED">>
            OBVIOUS
          <6>5. f \in Seq({"OPENED", "CLOSED"}) /\ Len(f) = 2 /\ f[1] = "OPENED" /\ f[2] = "CLOSED"
            BY <6>4
          <6>6. \A i \in 1 .. 2 : e[i] = f[i]
            BY <6>3, <6>5
          <6>7. e = f
            BY <6>3, <6>5, <6>6, SeqEqual
          <6> QED BY <6>2, <6>4, <6>7
        <5> QED BY <3>1, <4>3, <5>1
      <4> QED BY <4>1, <4>2, <4>3
    <3>3. m.state = "Acquired" => events' = <<"CLOSED">>
      BY <3>1, <3>2 DEF MachineFollowsCall
    <3> QED BY <3>1, <3>2, <3>3 DEF OneDataCall, EventsFollowCall, MachineFollowsCall
  <2> QED BY <2>1, <2>2, <2>4, <2>5, <2>6, <2>7, CallOpened, CallClosed DEF Next
<1>3. CallInv => DataCallSound
  <2> SUFFICES ASSUME CallInv PROVE DataCallSound
    OBVIOUS
  <2>1. AcquiredHasCall
    <3>1. CASE events = <<"CLOSED">>
      BY <3>1 DEF AcquiredHasCall
    <3>2. CASE events # <<"CLOSED">>
      BY <3>2 DEF AcquiredHasCall, CallInv, MachineFollowsCall
    <3> QED BY <3>1, <3>2
  <2>2. OneDataCall /\ CallIsOwned
    BY DEF CallInv, CallIsOwned, MachineFollowsCall
  <2> QED BY <2>1, <2>2 DEF DataCallSound
<1> QED BY <1>1, <1>2, <1>3, PTL DEF Spec

-----------------------------------------------------------------------------
(* AgpsRouting.  The machine of an interface: ATL subscribers leave at     *)
(* once, so none waits for a close.                                        *)
AtlMachine(mm) ==
  /\ mm \in R!A!Machine /\ mm.inactive = {} /\ mm.state # "Releasing"
  /\ mm.state = "Released" => mm.active = {}

(* The connection is listed, and told so at once if the interface is up.   *)
LEMMA AtlSubscribe ==
  ASSUME NEW mm, AtlMachine(mm), NEW c \in Conns,
         NEW o \in R!A!onRsrcEvent(mm, "SUBSCRIBE", c, TRUE)
  PROVE  /\ AtlMachine(o.m) /\ o.ask \in R!A!Asks
         /\ o.m.active = mm.active \cup {c}
         /\ o.m.state = IF mm.state = "Released" THEN "Pending" ELSE mm.state
         /\ o.told = IF mm.state = "Acquired" THEN R!A!Tell({c}, "GRANTED") ELSE {}
<1> USE DEF AtlMachine, R!A!Machine, R!A!States, R!A!Asks, R!A!Then, R!A!In, R!A!addSubscriber,
            R!A!Listed
<1>1. CASE mm.state = "Released"
  BY <1>1 DEF R!A!onRsrcEvent, R!A!releasedOnEvent
<1>2. CASE mm.state = "Pending"
  BY <1>2 DEF R!A!onRsrcEvent, R!A!pendingOnEvent
<1>3. CASE mm.state = "Acquired"
  BY <1>3 DEF R!A!onRsrcEvent, R!A!acquiredOnEvent
<1> QED BY <1>1, <1>2, <1>3

(* A listed connection leaves, and maybe another with it (its freed ID may *)
(* match); an interface nobody uses is released.                           *)
AtlLeft(mm, c, o) ==
  \E ids \in SUBSET mm.active : /\ c \in ids /\ o.m.active = mm.active \ ids
                                /\ o.told = R!A!Tell(ids, "UNSUBSCRIBE")

LEMMA AtlUnsubscribe ==
  ASSUME NEW mm, AtlMachine(mm), NEW c \in mm.active,
         NEW o \in R!A!onRsrcEvent(mm, "UNSUBSCRIBE", c, TRUE)
  PROVE  /\ AtlMachine(o.m) /\ o.ask \in R!A!Asks
         /\ o.m.state \in {mm.state, "Released"}
         /\ AtlLeft(mm, c, o)
<1>0. mm \in R!A!Machine /\ mm.inactive = {} /\ mm.state \in {"Pending", "Acquired"}
  BY DEF AtlMachine, R!A!Machine, R!A!States
<1>1. PICK l \in R!A!leave(mm, c) : o = R!A!releaseIfUnused(l)
  BY <1>0 DEF R!A!onRsrcEvent, R!A!pendingOnEvent, R!A!acquiredOnEvent
<1>2. PICK t \in mm.active :
         l = R!A!Then(R!A!notifyAndDelete(mm, {c, t}), R!A!Tell({c, t}, "UNSUBSCRIBE"), "NONE")
  BY <1>0, <1>1 DEF R!A!leave, R!A!waitForCloseComplete, R!A!Listed
<1>3. /\ l.m \in R!A!Machine /\ l.m.state = mm.state /\ l.ask = "NONE"
      /\ l.told = R!A!Tell({c, t}, "UNSUBSCRIBE")
      /\ l.m.active = mm.active \ {c, t} /\ l.m.inactive = {}
  BY <1>0, <1>2 DEF R!A!Then, R!A!Machine, R!A!notifyAndDelete
<1>a. PICK ids \in SUBSET mm.active : ids = {c, t}
  OBVIOUS
<1>b. /\ c \in ids /\ l.told = R!A!Tell(ids, "UNSUBSCRIBE") /\ l.m.active = mm.active \ ids
  BY <1>3, <1>a
<1>4. CASE l.m.active = {}
  <2>1. o = R!A!Then(R!A!In(l.m, "Released"), l.told, "RELEASE")
    BY <1>1, <1>3, <1>4 DEF R!A!releaseIfUnused, R!A!hasSubscribers, R!A!Listed
  <2>2. /\ o.m \in R!A!Machine /\ o.m.state = "Released" /\ o.ask = "RELEASE" /\ o.told = l.told
        /\ o.m.active = {} /\ o.m.inactive = {}
    BY <1>3, <1>4, <2>1 DEF R!A!Then, R!A!In, R!A!Machine, R!A!States
  <2> QED BY <1>b, <1>4, <2>2 DEF AtlMachine, AtlLeft, R!A!Asks
<1>5. CASE l.m.active # {}
  <2>1. o = l
    BY <1>1, <1>3, <1>5 DEF R!A!releaseIfUnused, R!A!hasSubscribers, R!A!hasActiveSubscribers, R!A!Listed
  <2> QED BY <1>0, <1>3, <1>b, <1>5, <2>1 DEF AtlMachine, AtlLeft, R!A!Asks
<1> QED BY <1>4, <1>5

(* The framework's answer: everyone waiting is granted, or everyone is     *)
(* told the end and leaves, or nothing happens.                            *)
LEMMA AtlAnswered ==
  ASSUME NEW mm, AtlMachine(mm), NEW event \in {"GRANTED", "DENIED", "RELEASED"},
         NEW o \in R!A!onRsrcEvent(mm, event, R!A!NULL, TRUE)
  PROVE  /\ AtlMachine(o.m) /\ o.ask \in R!A!Asks
         /\ \/ o.m = mm /\ o.told = {}
            \/ /\ mm.state = "Pending" /\ o.m.state = "Acquired" /\ o.m.active = mm.active
               /\ o.told = R!A!Tell(mm.active, "GRANTED")
            \/ /\ o.m.state = "Released" /\ o.m.active = {}
               /\ o.told = R!A!Tell(mm.active, "RELEASED") /\ mm.state = "Acquired"
            \/ /\ o.m.state = "Released" /\ o.m.active = {}
               /\ o.told = R!A!Tell(mm.active, "DENIED") /\ mm.state = "Pending"
<1>0. mm \in R!A!Machine /\ mm.inactive = {} /\ mm.state \in {"Released", "Pending", "Acquired"}
  BY DEF AtlMachine, R!A!Machine, R!A!States
<1>n. ASSUME o = R!A!Then(mm, {}, "NONE")
      PROVE  AtlMachine(o.m) /\ o.ask \in R!A!Asks /\ o.m = mm /\ o.told = {}
  BY <1>n DEF R!A!Then, R!A!Asks
<1>d. ASSUME NEW st, o = R!A!Then(R!A!In(R!A!notifyAndDelete(mm, R!A!Listed(mm)), "Released"),
                          R!A!Tell(R!A!Listed(mm), st), "NONE")
      PROVE  /\ AtlMachine(o.m) /\ o.ask \in R!A!Asks /\ o.m.state = "Released" /\ o.m.active = {}
             /\ o.told = R!A!Tell(mm.active, st)
  <2>1. R!A!Listed(mm) = mm.active
    BY <1>0 DEF R!A!Listed
  <2>2. /\ o.m \in R!A!Machine /\ o.m.state = "Released" /\ o.m.active = {} /\ o.m.inactive = {}
        /\ o.ask = "NONE" /\ o.told = R!A!Tell(mm.active, st)
    BY <1>0, <1>d, <2>1 DEF R!A!Then, R!A!In, R!A!notifyAndDelete, R!A!Machine, R!A!States
  <2> QED BY <2>2 DEF AtlMachine, R!A!Asks
<1>1. CASE mm.state = "Released"
  BY <1>1, <1>n DEF R!A!onRsrcEvent, R!A!releasedOnEvent
<1>2. CASE mm.state = "Pending"
  <2>1. CASE event = "GRANTED"
    <3>1. o = R!A!Then(R!A!In(mm, "Acquired"), R!A!Tell(mm.active, "GRANTED"), "NONE")
      BY <1>2, <2>1 DEF R!A!onRsrcEvent, R!A!pendingOnEvent
    <3>2. /\ o.m \in R!A!Machine /\ o.m.state = "Acquired" /\ o.m.active = mm.active
          /\ o.m.inactive = {} /\ o.ask = "NONE" /\ o.told = R!A!Tell(mm.active, "GRANTED")
      BY <1>0, <3>1 DEF R!A!Then, R!A!In, R!A!Machine, R!A!States
    <3> QED BY <1>2, <3>2 DEF AtlMachine, R!A!Asks
  <2>2. CASE event = "DENIED"
    BY <1>2, <1>d, <2>2 DEF R!A!onRsrcEvent, R!A!pendingOnEvent
  <2>3. CASE event = "RELEASED"
    BY <1>2, <1>n, <2>3 DEF R!A!onRsrcEvent, R!A!pendingOnEvent
  <2> QED BY <2>1, <2>2, <2>3
<1>3. CASE mm.state = "Acquired"
  <2>1. CASE event = "RELEASED"
    BY <1>3, <1>d, <2>1 DEF R!A!onRsrcEvent, R!A!acquiredOnEvent
  <2>2. CASE event # "RELEASED"
    BY <1>3, <1>n, <2>2 DEF R!A!onRsrcEvent, R!A!acquiredOnEvent
  <2> QED BY <2>1, <2>2
<1> QED BY <1>0, <1>1, <1>2, <1>3

(* What the modem knows when the connections of ids are told a status.     *)
LEMMA NotifiedAll ==
  ASSUME NEW v, NEW ids, NEW st, NEW c \in Conns
  PROVE  R!Notified(v, R!A!Tell(ids, st))[c] =
           IF c \notin ids THEN v[c]
           ELSE IF st \in {"UNSUBSCRIBE", "RELEASED"} THEN "idle"
           ELSE R!AtlOpen(v[c], st = "GRANTED")
<1>1. PICK status : status = {n.status : n \in {x \in R!A!Tell(ids, st) : x.to = c}}
  OBVIOUS
<1>2. status = IF c \in ids THEN {st} ELSE {}
  <2>1. ASSUME c \in ids PROVE st \in status
    <3>1. PICK n : n = [to |-> c, status |-> st]
      OBVIOUS
    <3>2. n \in R!A!Tell(ids, st) /\ n.to = c /\ n.status = st
      BY <2>1, <3>1 DEF R!A!Tell
    <3> QED BY <1>1, <3>2
  <2>2. ASSUME NEW e \in status PROVE c \in ids /\ e = st
    BY <1>1, <2>2 DEF R!A!Tell
  <2> QED BY <2>1, <2>2
<1>3. R!Notified(v, R!A!Tell(ids, st))[c] =
        IF status \cap {"UNSUBSCRIBE", "RELEASED"} # {} THEN "idle"
        ELSE IF status # {} THEN R!AtlOpen(v[c], "GRANTED" \in status) ELSE v[c]
  BY <1>1 DEF R!Notified
<1>4. CASE c \notin ids
  BY <1>2, <1>3, <1>4
<1>5. CASE c \in ids
  <2>1. status = {st}
    BY <1>2, <1>5
  <2>2. status # {} /\ ("GRANTED" \in status) = (st = "GRANTED")
    BY <2>1
  <2>3. status \cap {"UNSUBSCRIBE", "RELEASED"} # {} <=> st \in {"UNSUBSCRIBE", "RELEASED"}
    BY <2>1
  <2> QED BY <1>3, <1>5, <2>2, <2>3
<1> QED BY <1>4, <1>5

(* Nobody is told anything.                                                *)
LEMMA NotifiedNone ==
  ASSUME NEW v, NEW c \in Conns
  PROVE  R!Notified(v, {})[c] = v[c]
<1>1. {n.status : n \in {x \in {} : x.to = c}} = {}
  OBVIOUS
<1> QED BY <1>1 DEF R!Notified

-----------------------------------------------------------------------------
(* A message names a connection if and only if it is the modem's, or a     *)
(* timer's.                                                                *)
LEMMA QueuedFields ==
  ASSUME NEW q \in R!Queued
  PROVE  /\ q.conn \in Conns <=> q.type \in {"RequestATL", "RequestSuplEs", "ReleaseATL"}
         /\ q.type = "RequestATL" => q.arg \in R!Types
         /\ q.type = "Answer" => q.conn = "agnss" /\ q.arg \in {"GRANTED", "DENIED", "RELEASED"}
<1>1. "agnss" \notin Conns /\ "" \notin Conns
  BY RouteAssumption
<1>2. CASE q \in [type : {"RequestATL"}, conn : Conns, arg : R!Types]
  BY <1>2
<1>3. CASE q \in [type : {"RequestSuplEs", "ReleaseATL"}, conn : Conns, arg : {""}]
  BY <1>3
<1>4. CASE q \in [type : {"Answer"}, conn : {"agnss"}, arg : {"GRANTED", "DENIED", "RELEASED"}]
  BY <1>1, <1>4
<1>5. CASE q \in [type : {"EngineUp", "SuplEsOpened", "SuplEsClosed"}, conn : {""}, arg : {""}]
  BY <1>1, <1>5
<1> QED BY <1>2, <1>3, <1>4, <1>5 DEF R!Queued

(* The messages about a connection that was never an emergency one.        *)
LEMMA OnItsWayIs ==
  ASSUME rQueue \in Seq(R!Queued), R!QueueSound, NEW c \in Conns \ es
  PROVE  R!OnItsWay(c) <=> R!Waiting("RequestATL", c) \/ R!Waiting("ReleaseATL", c)
<1>1. ASSUME NEW i \in 1 .. Len(rQueue), rQueue[i].conn = c
      PROVE  rQueue[i].type \in {"RequestATL", "ReleaseATL"}
  <2>1. rQueue[i] \in R!Queued
    BY ElementOfSeq
  <2>2. rQueue[i].type # "RequestSuplEs"
    BY <1>1 DEF R!QueueSound
  <2> QED BY <1>1, <2>1, <2>2, QueuedFields
<1> QED BY <1>1 DEF R!OnItsWay, R!Waiting

LEMMA OnItsWayIsPrime ==
  ASSUME rQueue' \in Seq(R!Queued), R!QueueSound', NEW c \in Conns \ es'
  PROVE  R!OnItsWay(c)' <=> R!Waiting("RequestATL", c)' \/ R!Waiting("ReleaseATL", c)'
<1>1. ASSUME NEW i \in 1 .. Len(rQueue'), rQueue'[i].conn = c
      PROVE  rQueue'[i].type \in {"RequestATL", "ReleaseATL"}
  <2>1. rQueue'[i] \in R!Queued
    BY ElementOfSeq
  <2>2. rQueue'[i].type # "RequestSuplEs"
    BY <1>1 DEF R!QueueSound
  <2> QED BY <1>1, <2>1, <2>2, QueuedFields
<1> QED BY <1>1 DEF R!OnItsWay, R!Waiting

(* The head of the queue is handled, and ds_nif may queue requests for the *)
(* connections it hands over.                                              *)
Extra(more) ==
  /\ more \in Seq(R!Queued)
  /\ \A k \in 1 .. Len(more) : more[k].type = "RequestATL" /\ more[k].conn \in es

LEMMA RouteHandled ==
  ASSUME rQueue \in Seq(R!Queued), rQueue # <<>>, R!QueueSound, es' = es,
         NEW more, Extra(more), rQueue' = Tail(rQueue) \o more
  PROVE  /\ rQueue' \in Seq(R!Queued) /\ R!QueueSound' /\ Head(rQueue) \in R!Queued
         /\ \A c, type : R!Waiting(type, c) =>
              R!Waiting(type, c)' \/ (Head(rQueue).type = type /\ Head(rQueue).conn = c)
         /\ \A c \in Conns \ es : \A type : R!Waiting(type, c)' => R!Waiting(type, c)
         /\ \A k \in 1 .. Len(more) : R!Waiting("RequestATL", more[k].conn)'
         /\ R!Waiting(Head(rQueue).type, Head(rQueue).conn)
         /\ Head(rQueue).type = "RequestSuplEs" => Head(rQueue).conn \in es
         /\ R!Restarting <=> R!Restarting' \/ Head(rQueue).type = "EngineUp"
         /\ \A c \in Conns \ es : Head(rQueue).type = "RequestATL" /\ Head(rQueue).conn = c =>
              ~R!Waiting("RequestATL", c)'
         /\ \A c \in Conns \ es : Head(rQueue).type = "ReleaseATL" /\ Head(rQueue).conn = c =>
              ~R!Waiting("RequestATL", c)' /\ ~R!Waiting("ReleaseATL", c)'
         /\ Head(rQueue).type = "EngineUp" =>
              \A c \in Conns \ es : ~R!Waiting("RequestATL", c)' /\ ~R!Waiting("ReleaseATL", c)'
<1>1. PICK n : n = Len(rQueue)
  OBVIOUS
<1>2. PICK k : k = Len(more)
  OBVIOUS
<1>3. PICK t : t = Tail(rQueue)
  OBVIOUS
<1>4. /\ n \in Nat \ {0} /\ Len(t) = n - 1 /\ t \in Seq(R!Queued)
      /\ Head(rQueue) = rQueue[1] /\ Head(rQueue) \in R!Queued
      /\ \A i \in 1 .. n - 1 : t[i] = rQueue[i + 1]
  BY <1>1, <1>3, HeadTailProperties, EmptySeq
<1>5. more \in Seq(R!Queued) /\ k \in Nat
      /\ \A i \in 1 .. k : more[i].type = "RequestATL" /\ more[i].conn \in es
  BY <1>2 DEF Extra
<1>a. n \in Nat \ {0} /\ k \in Nat
  BY <1>4, <1>5
<1>6. /\ rQueue' \in Seq(R!Queued) /\ Len(rQueue') = (n - 1) + k
      /\ \A i \in 1 .. (n - 1) + k : rQueue'[i] = IF i <= n - 1 THEN t[i] ELSE more[i - (n - 1)]
  <2>1. PICK r : r = t \o more
    OBVIOUS
  <2>2. t \in Seq(R!Queued) /\ more \in Seq(R!Queued) /\ Len(t) = n - 1 /\ Len(more) = k
    BY <1>2, <1>4, <1>5
  <2>3. /\ r \in Seq(R!Queued) /\ Len(r) = Len(t) + Len(more)
        /\ \A i \in 1 .. Len(t) + Len(more) : r[i] = IF i <= Len(t) THEN t[i] ELSE more[i - Len(t)]
    BY <2>1, <2>2, ConcatProperties
  <2>4. rQueue' = r
    BY <1>3, <2>1
  <2> QED BY <2>2, <2>3, <2>4
<1>7. /\ \A i \in 1 .. n - 1 : /\ i \in 1 .. Len(rQueue') /\ i + 1 \in 1 .. Len(rQueue)
                               /\ rQueue'[i] = rQueue[i + 1]
      /\ \A i \in 1 .. k : (n - 1) + i \in 1 .. Len(rQueue') /\ rQueue'[(n - 1) + i] = more[i]
      /\ \A i \in 1 .. Len(rQueue') : i \in 1 .. n - 1 \/ \E j \in 1 .. k : i = (n - 1) + j
  <2>1. ASSUME NEW i \in 1 .. n - 1
        PROVE  /\ i \in 1 .. Len(rQueue') /\ i + 1 \in 1 .. Len(rQueue)
               /\ rQueue'[i] = rQueue[i + 1]
    <3>1. i \in 1 .. (n - 1) + k /\ i <= n - 1 /\ i + 1 \in 1 .. n
      BY <1>a
    <3> QED BY <1>1, <1>4, <1>6, <3>1
  <2>2. ASSUME NEW i \in 1 .. k
        PROVE  (n - 1) + i \in 1 .. Len(rQueue') /\ rQueue'[(n - 1) + i] = more[i]
    <3>1. /\ (n - 1) + i \in 1 .. (n - 1) + k /\ ~((n - 1) + i <= n - 1)
          /\ ((n - 1) + i) - (n - 1) = i
      BY <1>a
    <3> QED BY <1>6, <3>1
  <2>3. ASSUME NEW i \in 1 .. Len(rQueue'), i \notin 1 .. n - 1
        PROVE  \E j \in 1 .. k : i = (n - 1) + j
    <3>1. i - (n - 1) \in 1 .. k /\ i = (n - 1) + (i - (n - 1))
      BY <1>4, <1>5, <1>6, <2>3
    <3> QED BY <3>1
  <2> QED BY <2>1, <2>2, <2>3
(* Every message of the new queue is one of the old or hands over.         *)
<1>8. ASSUME NEW i \in 1 .. Len(rQueue')
      PROVE  \/ i \in 1 .. n - 1 /\ i + 1 \in 1 .. Len(rQueue) /\ rQueue'[i] = rQueue[i + 1]
             \/ rQueue'[i].type = "RequestATL" /\ rQueue'[i].conn \in es
  <2>1. CASE i \in 1 .. n - 1
    BY <1>7, <2>1
  <2>2. CASE i \notin 1 .. n - 1
    <3>1. PICK j \in 1 .. k : i = (n - 1) + j
      BY <1>7, <2>2
    <3> QED BY <1>5, <1>7, <3>1
  <2> QED BY <2>1, <2>2
(* Every message of the old queue is the head or in the new.               *)
<1>9. ASSUME NEW i \in 1 .. Len(rQueue), i # 1
      PROVE  i - 1 \in 1 .. Len(rQueue') /\ rQueue'[i - 1] = rQueue[i]
  <2>1. i - 1 \in 1 .. n - 1 /\ (i - 1) + 1 = i
    BY <1>1, <1>4, <1>9
  <2> QED BY <1>7, <2>1
<1>10. R!QueueSound'
  <2>1. ASSUME NEW i \in 1 .. Len(rQueue'), rQueue'[i].type = "RequestSuplEs"
        PROVE  rQueue'[i].conn \in es
    BY <1>8, <2>1 DEF R!QueueSound
  <2>2. ASSUME NEW i \in 1 .. Len(rQueue'), NEW j \in 1 .. Len(rQueue'), i < j,
               rQueue'[j].conn \in Conns \ es
        PROVE  /\ rQueue'[i].conn \in Conns \ es /\ rQueue'[j].conn = rQueue'[i].conn =>
                     rQueue'[i].type = "RequestATL" /\ rQueue'[j].type = "ReleaseATL"
               /\ rQueue'[i].type # "EngineUp"
    <3>1. j \in 1 .. n - 1 /\ j + 1 \in 1 .. Len(rQueue) /\ rQueue'[j] = rQueue[j + 1]
      BY <1>8, <2>2
    <3>2. i \in 1 .. n - 1
      BY <1>4, <1>6, <2>2, <3>1
    <3>3. i + 1 \in 1 .. Len(rQueue) /\ rQueue'[i] = rQueue[i + 1] /\ i + 1 < j + 1
      BY <1>7, <2>2, <3>1, <3>2
    <3> QED BY <2>2, <3>1, <3>3 DEF R!QueueSound
  <2> QED BY <2>1, <2>2 DEF R!QueueSound
<1>11. ASSUME NEW c, NEW type, R!Waiting(type, c)
       PROVE  R!Waiting(type, c)' \/ (Head(rQueue).type = type /\ Head(rQueue).conn = c)
  <2>1. PICK i \in 1 .. Len(rQueue) : rQueue[i].type = type /\ rQueue[i].conn = c
    BY <1>11 DEF R!Waiting
  <2>2. CASE i = 1
    BY <1>4, <2>1, <2>2
  <2>3. CASE i # 1
    BY <1>9, <2>1, <2>3 DEF R!Waiting
  <2> QED BY <2>2, <2>3
<1>12. ASSUME NEW c \in Conns \ es, NEW type, R!Waiting(type, c)'
       PROVE  \E i \in 1 .. n - 1 : rQueue[i + 1].type = type /\ rQueue[i + 1].conn = c
  <2>1. PICK i \in 1 .. Len(rQueue') : rQueue'[i].type = type /\ rQueue'[i].conn = c
    BY <1>12 DEF R!Waiting
  <2> QED BY <1>8, <1>12, <2>1
<1>13. ASSUME NEW c \in Conns \ es, NEW type, R!Waiting(type, c)'
       PROVE  R!Waiting(type, c)
  <2>1. PICK i \in 1 .. n - 1 : rQueue[i + 1].type = type /\ rQueue[i + 1].conn = c
    BY <1>12, <1>13
  <2>2. i + 1 \in 1 .. Len(rQueue)
    BY <1>7
  <2> QED BY <2>1, <2>2 DEF R!Waiting
<1>14. ASSUME NEW i \in 1 .. k PROVE R!Waiting("RequestATL", more[i].conn)'
  BY <1>5, <1>7 DEF R!Waiting
<1>15. 1 \in 1 .. Len(rQueue) /\ \A i \in 1 .. n - 1 : 1 < i + 1
  BY <1>1, <1>4
<1>16. /\ R!Waiting(Head(rQueue).type, Head(rQueue).conn)
       /\ Head(rQueue).type = "RequestSuplEs" => Head(rQueue).conn \in es
  BY <1>4, <1>15 DEF R!Waiting, R!QueueSound
<1>17. R!Restarting <=> R!Restarting' \/ Head(rQueue).type = "EngineUp"
  <2>1. ASSUME R!Restarting PROVE R!Restarting' \/ Head(rQueue).type = "EngineUp"
    <3>1. PICK i \in 1 .. Len(rQueue) : rQueue[i].type = "EngineUp"
      BY <2>1 DEF R!Restarting
    <3>2. CASE i = 1
      BY <1>4, <3>1, <3>2
    <3>3. CASE i # 1
      BY <1>9, <3>1, <3>3 DEF R!Restarting
    <3> QED BY <3>2, <3>3
  <2>2. ASSUME R!Restarting' PROVE R!Restarting
    BY <1>8, <2>2 DEF R!Restarting
  <2> QED BY <1>4, <1>15, <2>1, <2>2 DEF R!Restarting
<1>18. ASSUME NEW c \in Conns \ es, NEW type, R!Waiting(type, c)'
       PROVE  /\ Head(rQueue).conn = c => Head(rQueue).type = "RequestATL" /\ type = "ReleaseATL"
              /\ Head(rQueue).type # "EngineUp"
  <2>1. PICK i \in 1 .. n - 1 : rQueue[i + 1].type = type /\ rQueue[i + 1].conn = c
    BY <1>12, <1>18
  <2>2. i + 1 \in 1 .. Len(rQueue) /\ 1 < i + 1
    BY <1>7, <1>15
  <2> QED BY <1>4, <1>15, <1>18, <2>1, <2>2 DEF R!QueueSound
<1>19. \A c \in Conns \ es : Head(rQueue).type = "RequestATL" /\ Head(rQueue).conn = c =>
         ~R!Waiting("RequestATL", c)'
  BY <1>18
<1>20. \A c \in Conns \ es : Head(rQueue).type = "ReleaseATL" /\ Head(rQueue).conn = c =>
         ~R!Waiting("RequestATL", c)' /\ ~R!Waiting("ReleaseATL", c)'
  BY <1>18
<1>21. Head(rQueue).type = "EngineUp" =>
         \A c \in Conns \ es : ~R!Waiting("RequestATL", c)' /\ ~R!Waiting("ReleaseATL", c)'
  BY <1>18
<1> QED BY <1>2, <1>4, <1>6, <1>10, <1>11, <1>13, <1>14, <1>16, <1>17, <1>19, <1>20, <1>21

(* Nothing is queued beside.                                               *)
LEMMA RoutePopped ==
  ASSUME rQueue \in Seq(R!Queued), rQueue # <<>>, rQueue' = Tail(rQueue)
  PROVE  Extra(<<>>) /\ rQueue' = Tail(rQueue) \o <<>>
<1>1. Tail(rQueue) \in Seq(R!Queued)
  BY HeadTailProperties
<1>2. Tail(rQueue) \o <<>> = Tail(rQueue)
  BY <1>1, ConcatEmptySeq
<1>3. <<>> \in Seq(R!Queued) /\ Len(<<>>) = 0 /\ 1 .. 0 = {}
  BY EmptySeq
<1> QED BY <1>2, <1>3 DEF Extra

(* A message is queued.                                                    *)
LEMMA RouteAppend ==
  ASSUME rQueue \in Seq(R!Queued), NEW q \in R!Queued, rQueue' = Append(rQueue, q),
         R!QueueSound, es \subseteq es',
         q.type = "RequestSuplEs" => q.conn \in es',
         q.conn \in Conns \ es' => /\ ~R!Restarting /\ ~R!Waiting("ReleaseATL", q.conn)
                                   /\ R!Waiting("RequestATL", q.conn) => q.type = "ReleaseATL"
  PROVE  /\ rQueue' \in Seq(R!Queued) /\ R!QueueSound'
         /\ \A c, type :
              R!Waiting(type, c)' <=> R!Waiting(type, c) \/ (q.type = type /\ q.conn = c)
         /\ R!Restarting' <=> R!Restarting \/ q.type = "EngineUp"
<1>1. PICK n : n = Len(rQueue)
  OBVIOUS
<1>2. n \in Nat /\ Len(rQueue') = n + 1 /\ rQueue' \in Seq(R!Queued)
      /\ rQueue'[n + 1] = q /\ \A i \in 1 .. n : rQueue'[i] = rQueue[i]
  BY <1>1, AppendProperties
<1>3. /\ \A i \in 1 .. n : i \in 1 .. n + 1
      /\ \A i \in 1 .. n + 1 : i \in 1 .. n \/ i = n + 1
      /\ n + 1 \in 1 .. n + 1
  BY <1>2
<1>4. ASSUME NEW c, NEW type
      PROVE  R!Waiting(type, c)' <=> R!Waiting(type, c) \/ (q.type = type /\ q.conn = c)
  BY <1>1, <1>2, <1>3 DEF R!Waiting
<1>5. R!Restarting' <=> R!Restarting \/ q.type = "EngineUp"
  BY <1>1, <1>2, <1>3 DEF R!Restarting
<1>6. ASSUME NEW i \in 1 .. n + 1, rQueue'[i].type = "RequestSuplEs"
      PROVE  rQueue'[i].conn \in es'
  <2>1. CASE i \in 1 .. n
    BY <1>1, <1>2, <1>6, <2>1 DEF R!QueueSound
  <2>2. CASE i = n + 1
    BY <1>2, <1>6, <2>2
  <2> QED BY <1>3, <2>1, <2>2
<1>7. ASSUME NEW i \in 1 .. n + 1, NEW j \in 1 .. n + 1, i < j,
             rQueue'[j].conn \in Conns \ es'
      PROVE  /\ rQueue'[i].conn \in Conns \ es' /\ rQueue'[j].conn = rQueue'[i].conn =>
                   rQueue'[i].type = "RequestATL" /\ rQueue'[j].type = "ReleaseATL"
             /\ rQueue'[i].type # "EngineUp"
  <2>1. i \in 1 .. n /\ rQueue'[i] = rQueue[i] /\ rQueue[i] \in R!Queued
    <3>1. i \in 1 .. n
      BY <1>2, <1>7
    <3> QED BY <1>1, <1>2, <3>1, ElementOfSeq
  <2>2. CASE j \in 1 .. n
    <3>1. rQueue'[j] = rQueue[j]
      BY <1>2, <2>2
    <3> QED BY <1>1, <1>7, <2>1, <2>2, <3>1 DEF R!QueueSound
  <2>3. CASE j = n + 1
    <3>1. rQueue'[j] = q
      BY <1>2, <2>3
    <3>2. ASSUME rQueue[i].conn = q.conn
          PROVE  rQueue[i].type = "RequestATL" /\ q.type = "ReleaseATL"
      <4>1. rQueue[i].type \in {"RequestATL", "RequestSuplEs", "ReleaseATL"}
        BY <1>7, <2>1, <3>1, <3>2, QueuedFields
      <4>2. R!Waiting(rQueue[i].type, q.conn)
        BY <1>1, <2>1, <3>2 DEF R!Waiting
      <4>3. rQueue[i].type # "RequestSuplEs"
        BY <1>1, <1>7, <2>1, <3>1, <3>2 DEF R!QueueSound
      <4> QED BY <1>7, <3>1, <4>1, <4>2, <4>3
    <3>3. rQueue[i].type # "EngineUp"
      BY <1>1, <1>7, <2>1, <3>1 DEF R!Restarting
    <3> QED BY <2>1, <3>1, <3>2, <3>3
  <2> QED BY <1>3, <2>2, <2>3
<1>8. R!QueueSound'
  BY <1>2, <1>6, <1>7 DEF R!QueueSound
<1> QED BY <1>2, <1>4, <1>5, <1>8

-----------------------------------------------------------------------------
(* The interfaces' machines that list a connection.                        *)
LEMMA HomesAre ==
  ASSUME R!MachinesSound, NEW c, NEW x
  PROVE  x \in R!Homes(c) <=> x \in {"agnss", "internet"} /\ c \in nif[x].active
BY DEF R!Homes, R!Subscribers, R!MachinesSound, R!Nifs, R!A!Listed

LEMMA HomesArePrime ==
  ASSUME R!MachinesSound', NEW c, NEW x
  PROVE  x \in R!Homes(c)' <=> x \in {"agnss", "internet"} /\ c \in nif'[x].active
BY DEF R!Homes, R!Subscribers, R!MachinesSound, R!Nifs, R!A!Listed

LEMMA RouteMachines ==
  ASSUME R!RouteInv, NEW n \in {"agnss", "internet"}
  PROVE  AtlMachine(nif[n]) /\ (~ready => nif[n].active = {})
<1>1. nif[n] \in R!A!Machine
  BY DEF R!RouteInv, R!Nifs
<1>2. /\ nif[n].inactive = {} /\ nif[n].state # "Releasing"
      /\ nif[n].state = "Released" \/ ~ready => nif[n].active = {}
  BY DEF R!RouteInv, R!MachinesSound, R!Nifs
<1> QED BY <1>1, <1>2 DEF AtlMachine

(* What the modem knows of a connection that was never an emergency one    *)
(* and that a step does not concern.                                       *)
LEMMA ViewKept ==
  ASSUME es \subseteq es', NEW c \in Conns \ es', R!ViewSound(c), R!MachinesSound, R!MachinesSound',
         R!QueueSound, R!QueueSound',
         rQueue \in Seq(R!Queued), rQueue' \in Seq(R!Queued),
         \A type \in {"RequestATL", "ReleaseATL"} : R!Waiting(type, c)' <=> R!Waiting(type, c),
         R!Restarting' <=> R!Restarting, rView'[c] = rView[c],
         \A n \in {"agnss", "internet"} :
            /\ c \in nif'[n].active <=> c \in nif[n].active
            /\ c \in nif[n].active /\ nif'[n].state = "Pending" => nif[n].state = "Pending"
  PROVE  R!ViewSound(c)'
<1>1. R!Homes(c)' = R!Homes(c)
  <2>1. ASSUME NEW x PROVE x \in R!Homes(c) <=> x \in R!Homes(c)'
    <3>1. x \in R!Homes(c) <=> x \in {"agnss", "internet"} /\ c \in nif[x].active
      BY HomesAre
    <3>2. x \in R!Homes(c)' <=> x \in {"agnss", "internet"} /\ c \in nif'[x].active
      BY HomesArePrime
    <3> QED BY <3>1, <3>2
  <2> QED BY <2>1
<1>3. R!OnItsWay(c)' <=> R!OnItsWay(c)
  BY OnItsWayIs, OnItsWayIsPrime
<1>4. R!Waiting("RequestATL", c)' <=> R!Waiting("RequestATL", c)
  OBVIOUS
<1>5. R!Waiting("ReleaseATL", c)' <=> R!Waiting("ReleaseATL", c)
  OBVIOUS
<1>6. R!AtMostOne(R!Homes(c))' <=> R!AtMostOne(R!Homes(c))
  BY <1>1 DEF R!AtMostOne
<1>7. \A n \in R!Nifs : c \in nif'[n].active /\ nif'[n].state = "Pending" =>
                          c \in nif[n].active /\ nif[n].state = "Pending"
  BY DEF R!Nifs
<1> QED BY <1>1, <1>3, <1>4, <1>5, <1>6, <1>7 DEF R!ViewSound, R!Nifs

(* A connection that no machine lists any more, and the modem is told so.  *)
LEMMA ViewEnded ==
  ASSUME NEW c \in Conns, R!ViewSound(c), R!MachinesSound, R!MachinesSound',
         rQueue' \in Seq(R!Queued),
         R!Waiting("RequestATL", c)' => R!Waiting("RequestATL", c),
         R!Restarting' <=> R!Restarting, rView'[c] = "idle",
         ~R!Restarting => R!Homes(c)' = {} /\ ~R!Waiting("RequestATL", c)'
  PROVE  R!ViewSound(c)'
<1>1. ~R!Restarting => R!AtMostOne(R!Homes(c)')
  BY DEF R!AtMostOne
<1> QED BY <1>1 DEF R!ViewSound, R!Nifs, R!AtMostOne

(* How a status changes what the modem knows, and what a connection that   *)
(* it waits for rests on.                                                  *)
ViewStep(c) ==
  rView'[c] \in {rView[c], "idle"} \/ (rView[c] = "opening" /\ rView'[c] = "open")

LEMMA ServedStep ==
  ASSUME NEW c, R!Served(c), ViewStep(c), R!Restarting' => R!Restarting, rRestarts' = rRestarts,
         rView'[c] = "closing" /\ R!Waiting("ReleaseATL", c) => R!Waiting("ReleaseATL", c)',
         rView'[c] = "opening" /\ R!Provided(c) => R!Provided(c)'
  PROVE  R!Served(c)'
BY DEF R!Served, ViewStep

(* The state of ds_nif, and the types of the rest.                         *)
DsTyped ==
  /\ ds \in R!D!Machine /\ R!D!Listed(ds) \subseteq es /\ ds.active \cap ds.inactive = {}
  /\ rCall \in {"none", "starting", "up"} /\ rTimers \in Nat
  /\ es \subseteq Conns /\ late \subseteq es

RouteTyped ==
  /\ ready \in BOOLEAN /\ dsClient \in BOOLEAN /\ rRestarts \in Nat
  /\ nif \in [R!Nifs -> R!A!Machine] /\ rQueue \in Seq(R!Queued)
  /\ asked \in Seq([nif : R!Nifs, ask : R!A!Asks])
  /\ rView \in [Conns -> {"idle", "opening", "open", "closing"}]
  /\ R!QueueSound /\ R!MachinesSound

LEMMA RouteParts ==
  R!RouteInv <=> /\ DsTyped /\ RouteTyped
                 /\ \A c \in Conns \ es : R!ViewSound(c)
                 /\ \A c \in Conns : R!Served(c)
BY DEF R!RouteInv, DsTyped, RouteTyped

LEMMA RoutePartsPrime ==
  ASSUME DsTyped', RouteTyped', \A c \in Conns \ es' : R!ViewSound(c)',
         \A c \in Conns : R!Served(c)'
  PROVE  R!RouteInv'
BY DEF R!RouteInv, DsTyped, RouteTyped

(* Messages that come or go without a machine, a view or the list of       *)
(* emergency connections changing.                                         *)
LEMMA RouteIdle ==
  ASSUME R!RouteInv, nif' = nif, ds' = ds, es' = es, late' = late, rView' = rView,
         rRestarts' = rRestarts, ready' \in BOOLEAN, ready => ready', dsClient' \in BOOLEAN,
         rCall' \in {"none", "starting", "up"}, rTimers' \in Nat,
         asked' \in Seq([nif : R!Nifs, ask : R!A!Asks]),
         rQueue' \in Seq(R!Queued), R!QueueSound', R!Restarting' <=> R!Restarting,
         \A c, type : R!Waiting(type, c) => R!Waiting(type, c)',
         \A c \in Conns \ es : \A type \in {"RequestATL", "ReleaseATL"} :
            R!Waiting(type, c)' => R!Waiting(type, c)
  PROVE  R!RouteInv'
<1>1. /\ DsTyped /\ RouteTyped /\ \A c \in Conns \ es : R!ViewSound(c)
      /\ \A c \in Conns : R!Served(c)
  BY RouteParts
<1>2. DsTyped'
  BY <1>1 DEF DsTyped
<1>3. R!MachinesSound /\ R!MachinesSound' /\ R!QueueSound /\ rQueue \in Seq(R!Queued)
  BY <1>1 DEF RouteTyped, R!MachinesSound, R!Nifs
<1>4. RouteTyped'
  BY <1>1, <1>3 DEF RouteTyped
<1>5. ASSUME NEW c \in Conns \ es' PROVE R!ViewSound(c)'
  <2>1. c \in Conns \ es /\ R!ViewSound(c)
    BY <1>1
  <2>2. \A type \in {"RequestATL", "ReleaseATL"} : R!Waiting(type, c)' <=> R!Waiting(type, c)
    BY <2>1
  <2> QED BY <1>3, <2>1, <2>2, ViewKept
<1>6. ASSUME NEW c \in Conns PROVE R!Served(c)'
  <2>1. R!Provided(c) => R!Provided(c)'
    <3>1. R!Homes(c)' = R!Homes(c)
      BY DEF R!Homes, R!Subscribers
    <3> QED BY <3>1 DEF R!Provided
  <2>2. R!Served(c) /\ ViewStep(c)
    BY <1>1 DEF ViewStep
  <2> QED BY <2>1, <2>2, ServedStep
<1> QED BY <1>2, <1>4, <1>5, <1>6, RoutePartsPrime

-----------------------------------------------------------------------------
(* ds_nif, whose subscribers stay listed until the call is closed.         *)
DsMachine(mm) == mm \in R!D!Machine /\ mm.active \cap mm.inactive = {}

(* A request lists its connection, as an active one unless it is listed    *)
(* already.                                                                *)
LEMMA DsSubscribe ==
  ASSUME NEW mm, DsMachine(mm), NEW c \in Conns, NEW started \in BOOLEAN,
         NEW o \in R!D!onRsrcEvent(mm, "SUBSCRIBE", c, started)
  PROVE  /\ DsMachine(o.m) /\ R!D!Listed(o.m) \subseteq R!D!Listed(mm) \cup {c}
         /\ mm.active \subseteq o.m.active /\ c \in mm.inactive \cup o.m.active
         /\ o.m.state = "Acquired" <=> mm.state = "Acquired"
         /\ o.told = IF mm.state = "Acquired" THEN R!D!Tell({c}, "GRANTED") ELSE {}
<1> USE DEF DsMachine
<1>1. PICK a : a = R!D!addSubscriber(mm, c)
  OBVIOUS
<1>2. /\ DsMachine(a) /\ a.state = mm.state /\ R!D!Listed(a) \subseteq R!D!Listed(mm) \cup {c}
      /\ mm.active \subseteq a.active /\ c \in mm.inactive \cup a.active
  BY <1>1 DEF R!D!addSubscriber, R!D!Machine, R!D!Listed
<1>3. mm.state \in R!D!States
  BY DEF R!D!Machine
<1>4. CASE mm.state = "Released"
  <2>1. o = R!D!Then(R!D!In(a, IF started THEN "Pending" ELSE mm.state), {}, "REQUEST")
    BY <1>1, <1>4 DEF R!D!onRsrcEvent, R!D!releasedOnEvent
  <2>2. o.m = [a EXCEPT !.state = IF started THEN "Pending" ELSE "Released"] /\ o.told = {}
    BY <1>4, <2>1 DEF R!D!Then, R!D!In
  <2> QED BY <1>2, <1>4, <2>2 DEF R!D!Machine, R!D!Listed, R!D!States
<1>5. CASE mm.state \in {"Pending", "Releasing"}
  <2>1. o = R!D!Then(a, {}, "NONE")
    BY <1>1, <1>5 DEF R!D!onRsrcEvent, R!D!pendingOnEvent, R!D!releasingOnEvent
  <2> QED BY <1>2, <1>5, <2>1 DEF R!D!Then
<1>6. CASE mm.state = "Acquired"
  <2>1. o = R!D!Then(a, R!D!Tell({c}, "GRANTED"), "NONE")
    BY <1>1, <1>6 DEF R!D!onRsrcEvent, R!D!acquiredOnEvent
  <2> QED BY <1>2, <1>6, <2>1 DEF R!D!Then
<1> QED BY <1>3, <1>4, <1>5, <1>6 DEF R!D!States

(* A connection that is given up is told at once and waits, inactive.      *)
LEMMA DsUnsubscribe ==
  ASSUME NEW mm, DsMachine(mm), NEW c \in R!D!Listed(mm),
         NEW o \in R!D!onRsrcEvent(mm, "UNSUBSCRIBE", c, TRUE)
  PROVE  /\ DsMachine(o.m) /\ R!D!Listed(o.m) \subseteq R!D!Listed(mm)
         /\ mm.active \ {c} \subseteq o.m.active
         /\ o.m.state = "Acquired" => mm.state = "Acquired"
         /\ o.told = R!D!Tell({c}, "UNSUBSCRIBE")
<1> USE DEF DsMachine
<1>1. PICK l : l = R!D!Then([mm EXCEPT !.active = @ \ {c}, !.inactive = @ \cup {c}],
                            R!D!Tell({c}, "UNSUBSCRIBE"), "NONE")
  OBVIOUS
<1>2. R!D!leave(mm, c) = {l}
  BY <1>1 DEF R!D!leave, R!D!waitForCloseComplete
<1>3. /\ DsMachine(l.m) /\ R!D!Listed(l.m) \subseteq R!D!Listed(mm) /\ l.m.state = mm.state
      /\ mm.active \ {c} \subseteq l.m.active /\ l.m.inactive # {}
      /\ l.told = R!D!Tell({c}, "UNSUBSCRIBE")
  BY <1>1 DEF R!D!Then, R!D!Machine, R!D!Listed
<1>4. mm.state \in R!D!States
  BY DEF R!D!Machine
<1>5. CASE mm.state = "Released"
  <2>1. o = R!D!Then(mm, R!D!Tell({c}, "UNSUBSCRIBE"), "NONE")
    BY <1>5 DEF R!D!onRsrcEvent, R!D!releasedOnEvent
  <2> QED BY <1>5, <2>1 DEF R!D!Then
<1>6. CASE mm.state \in {"Pending", "Acquired"}
  <2>1. o = R!D!releaseIfUnused(l)
    BY <1>2, <1>6 DEF R!D!onRsrcEvent, R!D!pendingOnEvent, R!D!acquiredOnEvent
  <2>2. R!D!hasSubscribers(l.m)
    BY <1>3 DEF R!D!hasSubscribers, R!D!Listed
  <2>3. CASE o = l
    BY <1>3, <2>3
  <2>4. CASE o = R!D!Then(R!D!In(l.m, "Releasing"), l.told, "RELEASE")
    <3>1. o.m = [l.m EXCEPT !.state = "Releasing"] /\ o.told = l.told
      BY <2>4 DEF R!D!Then, R!D!In
    <3> QED BY <1>3, <3>1 DEF R!D!Machine, R!D!Listed, R!D!States
  <2> QED BY <2>1, <2>2, <2>3, <2>4 DEF R!D!releaseIfUnused
<1>7. CASE mm.state = "Releasing"
  <2>1. R!D!hasSubscribers(l.m)
    BY <1>3 DEF R!D!hasSubscribers, R!D!Listed
  <2>2. o = l
    BY <1>2, <1>7, <2>1 DEF R!D!onRsrcEvent, R!D!releasingOnEvent
  <2> QED BY <1>3, <2>2
<1> QED BY <1>4, <1>5, <1>6, <1>7 DEF R!D!States

(* The call is up: those who wait are told.                                *)
LEMMA DsGranted ==
  ASSUME NEW mm, DsMachine(mm), NEW o \in R!D!onRsrcEvent(mm, "GRANTED", R!D!NULL, TRUE)
  PROVE  /\ DsMachine(o.m) /\ o.m.active = mm.active /\ o.m.inactive = mm.inactive
         /\ \/ o.m.state = mm.state /\ o.told = {}
            \/ o.told = R!D!Tell(mm.active, "GRANTED")
<1> USE DEF DsMachine
<1>1. mm.state \in R!D!States
  BY DEF R!D!Machine
<1>2. CASE mm.state = "Pending"
  <2>1. o = R!D!Then(R!D!In(mm, "Acquired"), R!D!Tell(mm.active, "GRANTED"), "NONE")
    BY <1>2 DEF R!D!onRsrcEvent, R!D!pendingOnEvent
  <2>2. o.m = [mm EXCEPT !.state = "Acquired"] /\ o.told = R!D!Tell(mm.active, "GRANTED")
    BY <2>1 DEF R!D!Then, R!D!In
  <2> QED BY <2>2 DEF R!D!Machine, R!D!States
<1>3. CASE mm.state # "Pending"
  <2>1. o = R!D!Then(mm, {}, "NONE")
    BY <1>1, <1>3 DEF R!D!onRsrcEvent, R!D!releasedOnEvent, R!D!acquiredOnEvent,
       R!D!releasingOnEvent, R!D!States
  <2> QED BY <2>1 DEF R!D!Then
<1> QED BY <1>2, <1>3

(* The call is gone: the active connections of a machine that had not yet  *)
(* acquired it stay, or all are denied.                                    *)
LEMMA DsClosed ==
  ASSUME NEW mm, DsMachine(mm), NEW event \in {"RELEASED", "DENIED"},
         NEW o \in R!D!onRsrcEvent(mm, event, R!D!NULL, TRUE)
  PROVE  /\ DsMachine(o.m) /\ R!D!Listed(o.m) \subseteq R!D!Listed(mm)
         /\ o.m.state = "Acquired" => mm.state = "Acquired"
         /\ \E ids \in SUBSET R!D!Listed(mm) :
              /\ o.told = R!D!Tell(ids, event)
              /\ \/ mm.active \subseteq o.m.active \/ mm.state = "Acquired"
                 \/ event = "DENIED" /\ ids = R!D!Listed(mm)
<1> USE DEF DsMachine
<1>1. mm.state \in R!D!States
  BY DEF R!D!Machine
<1>2. R!D!Tell({}, event) = {}
  BY DEF R!D!Tell
<1>3. ASSUME o = R!D!Then(mm, {}, "NONE")
      PROVE  /\ DsMachine(o.m) /\ o.m = mm /\ o.told = R!D!Tell({}, event)
  BY <1>2, <1>3 DEF R!D!Then
<1>4. CASE mm.state = "Released"
  BY <1>3, <1>4 DEF R!D!onRsrcEvent, R!D!releasedOnEvent
<1>5. ASSUME o = R!D!Then(R!D!In(R!D!notifyAndDelete(mm, R!D!Listed(mm)), "Released"),
                          R!D!Tell(R!D!Listed(mm), event), "NONE")
      PROVE  /\ DsMachine(o.m) /\ R!D!Listed(o.m) \subseteq R!D!Listed(mm)
             /\ o.m.state # "Acquired" /\ o.told = R!D!Tell(R!D!Listed(mm), event)
  <2>1. /\ o.m = [state |-> "Released", active |-> mm.active \ R!D!Listed(mm),
                  inactive |-> mm.inactive \ R!D!Listed(mm)]
        /\ o.told = R!D!Tell(R!D!Listed(mm), event)
    BY <1>5 DEF R!D!Then, R!D!In, R!D!notifyAndDelete, R!D!Machine
  <2> QED BY <2>1 DEF R!D!Machine, R!D!Listed, R!D!States
<1>6. CASE mm.state = "Pending"
  <2>1. CASE event = "RELEASED"
    BY <1>3, <1>6, <2>1 DEF R!D!onRsrcEvent, R!D!pendingOnEvent
  <2>2. CASE event = "DENIED"
    BY <1>5, <1>6, <2>2 DEF R!D!onRsrcEvent, R!D!pendingOnEvent
  <2> QED BY <2>1, <2>2
<1>7. CASE mm.state = "Acquired"
  <2>1. CASE event = "DENIED"
    BY <1>3, <1>7, <2>1 DEF R!D!onRsrcEvent, R!D!acquiredOnEvent
  <2>2. CASE event = "RELEASED"
    BY <1>5, <1>7, <2>2 DEF R!D!onRsrcEvent, R!D!acquiredOnEvent
  <2> QED BY <2>1, <2>2
<1>8. CASE mm.state = "Releasing"
  <2>1. PICK st \in {"Pending", "Released"}, ask \in {"REQUEST", "NONE"} :
           o = R!D!Then(R!D!In(R!D!notifyAndDelete(mm, mm.inactive), st),
                        R!D!Tell(mm.inactive, event), ask)
    BY <1>8 DEF R!D!onRsrcEvent, R!D!releasingOnEvent
  <2>2. /\ o.m = [state |-> st, active |-> mm.active \ mm.inactive,
                  inactive |-> mm.inactive \ mm.inactive]
        /\ o.told = R!D!Tell(mm.inactive, event)
    BY <2>1 DEF R!D!Then, R!D!In, R!D!notifyAndDelete, R!D!Machine
  <2> QED BY <2>2 DEF R!D!Machine, R!D!Listed, R!D!States
<1> QED BY <1>1, <1>4, <1>6, <1>7, <1>8 DEF R!D!States

(* What the modem knows of a connection, when it is told and when not.     *)
LEMMA NotifiedStep ==
  ASSUME NEW v, NEW told, NEW c \in Conns
  PROVE  LET w == R!Notified(v, told)[c]
         IN  /\ (\A n \in told : n.to # c) => w = v[c]
             /\ w \in {v[c], "idle"} \/ (v[c] = "opening" /\ w = "open")
             /\ [to |-> c, status |-> "UNSUBSCRIBE"] \in told => w = "idle"
             /\ [to |-> c, status |-> "GRANTED"] \in told => w # "opening"
<1> DEFINE w == R!Notified(v, told)[c]
<1> SUFFICES /\ (\A n \in told : n.to # c) => w = v[c]
             /\ w \in {v[c], "idle"} \/ (v[c] = "opening" /\ w = "open")
             /\ [to |-> c, status |-> "UNSUBSCRIBE"] \in told => w = "idle"
             /\ [to |-> c, status |-> "GRANTED"] \in told => w # "opening"
  OBVIOUS
<1>1. PICK status : status = {n.status : n \in {x \in told : x.to = c}}
  OBVIOUS
<1>2. w = IF status \cap {"UNSUBSCRIBE", "RELEASED"} # {} THEN "idle"
          ELSE IF status # {} THEN R!AtlOpen(v[c], "GRANTED" \in status) ELSE v[c]
  BY <1>1 DEF R!Notified
<1> HIDE DEF w
<1>3. ASSUME NEW st, [to |-> c, status |-> st] \in told PROVE st \in status
  <2>1. PICK n : n = [to |-> c, status |-> st]
    OBVIOUS
  <2>2. n \in told /\ n.to = c /\ n.status = st
    BY <1>3, <2>1
  <2> QED BY <1>1, <2>2
<1>4. (\A n \in told : n.to # c) => status = {}
  BY <1>1
<1>5. R!AtlOpen(v[c], TRUE) = (IF v[c] = "opening" THEN "open" ELSE v[c])
      /\ R!AtlOpen(v[c], FALSE) = (IF v[c] = "opening" THEN "idle" ELSE v[c])
  BY DEF R!AtlOpen
<1>6. "GRANTED" \in status \/ "GRANTED" \notin status
  OBVIOUS
<1>7. CASE status \cap {"UNSUBSCRIBE", "RELEASED"} # {}
  BY <1>2, <1>4, <1>7
<1>8. CASE status \cap {"UNSUBSCRIBE", "RELEASED"} = {} /\ "GRANTED" \in status
  <2>1. w = R!AtlOpen(v[c], TRUE)
    <3>1. ("GRANTED" \in status) = TRUE /\ status # {}
      BY <1>8
    <3> QED BY <1>2, <1>8, <3>1
  <2>2. [to |-> c, status |-> "UNSUBSCRIBE"] \notin told
    BY <1>3, <1>8
  <2> QED BY <1>4, <1>5, <1>8, <2>1, <2>2
<1>9. CASE status \cap {"UNSUBSCRIBE", "RELEASED"} = {} /\ "GRANTED" \notin status /\ status # {}
  <2>1. w = R!AtlOpen(v[c], FALSE)
    <3>1. ("GRANTED" \in status) = FALSE
      BY <1>9
    <3> QED BY <1>2, <1>9, <3>1
  <2>2. [to |-> c, status |-> "UNSUBSCRIBE"] \notin told
    BY <1>3, <1>9
  <2> QED BY <1>4, <1>5, <1>9, <2>1, <2>2
<1>10. CASE status = {}
  BY <1>2, <1>3, <1>10
<1> QED BY <1>7, <1>8, <1>9, <1>10

(* ds_nif tells its subscribers, and hands over those it denies.           *)
LEMMA RouteInforms ==
  ASSUME R!RouteInv, rQueue # <<>>, NEW told, \A n \in told : n.to \in es, R!informStatus(told)
  PROVE  /\ rView' \in [Conns -> {"idle", "opening", "open", "closing"}]
         /\ \A c \in Conns : /\ ViewStep(c) /\ (c \notin es => rView'[c] = rView[c])
                             /\ [to |-> c, status |-> "UNSUBSCRIBE"] \in told => rView'[c] = "idle"
                             /\ [to |-> c, status |-> "GRANTED"] \in told => rView'[c] # "opening"
         /\ \E more : /\ Extra(more) /\ rQueue' = Tail(rQueue) \o more
                      /\ \A c : [to |-> c, status |-> "DENIED"] \in told =>
                           \E k \in 1 .. Len(more) : more[k].conn = c
<1>1. /\ rView \in [Conns -> {"idle", "opening", "open", "closing"}] /\ es \subseteq Conns
  BY DEF R!RouteInv
<1>2. PICK heard : heard = {n \in told : n.status \in {"GRANTED", "UNSUBSCRIBE"}}
  OBVIOUS
<1>3. rView' = R!Notified(rView, heard)
  BY <1>2 DEF R!informStatus
<1>4. ASSUME NEW c, NEW st \in {"GRANTED", "UNSUBSCRIBE"}, [to |-> c, status |-> st] \in told
      PROVE  [to |-> c, status |-> st] \in heard
  <2>1. PICK n : n = [to |-> c, status |-> st]
    OBVIOUS
  <2>2. n \in told /\ n.status = st
    BY <1>4, <2>1
  <2> QED BY <1>2, <2>1, <2>2
<1>5. ASSUME NEW c \in Conns
      PROVE  /\ ViewStep(c) /\ (c \notin es => rView'[c] = rView[c])
             /\ [to |-> c, status |-> "UNSUBSCRIBE"] \in told => rView'[c] = "idle"
             /\ [to |-> c, status |-> "GRANTED"] \in told => rView'[c] # "opening"
  <2>1. PICK w : w = R!Notified(rView, heard)[c]
    OBVIOUS
  <2>2. /\ (\A n \in heard : n.to # c) => w = rView[c]
        /\ w \in {rView[c], "idle"} \/ (rView[c] = "opening" /\ w = "open")
        /\ [to |-> c, status |-> "UNSUBSCRIBE"] \in heard => w = "idle"
        /\ [to |-> c, status |-> "GRANTED"] \in heard => w # "opening"
    <3> DEFINE known == R!Notified(rView, heard)[c]
    <3>1. /\ (\A n \in heard : n.to # c) => known = rView[c]
          /\ known \in {rView[c], "idle"} \/ (rView[c] = "opening" /\ known = "open")
          /\ [to |-> c, status |-> "UNSUBSCRIBE"] \in heard => known = "idle"
          /\ [to |-> c, status |-> "GRANTED"] \in heard => known # "opening"
      BY NotifiedStep, Zenon
    <3>2. w = known
      BY <2>1
    <3> HIDE DEF known
    <3> QED BY <3>1, <3>2
  <2>3. c \notin es => \A n \in heard : n.to # c
    BY <1>2
  <2> QED BY <1>3, <1>4, <2>1, <2>2, <2>3 DEF ViewStep
<1>6. rView' \in [Conns -> {"idle", "opening", "open", "closing"}]
  BY <1>1, <1>3 DEF R!Notified, R!AtlOpen
<1>7. PICK S0 : S0 = R!HandedOver(told)
  OBVIOUS
<1>8. S0 \subseteq es /\ \A c : [to |-> c, status |-> "DENIED"] \in told => c \in S0
  <2>1. S0 \subseteq es
    BY <1>7 DEF R!HandedOver
  <2>2. ASSUME NEW c, [to |-> c, status |-> "DENIED"] \in told PROVE c \in S0
    <3>1. PICK n : n = [to |-> c, status |-> "DENIED"]
      OBVIOUS
    <3>2. n \in told /\ n.status = "DENIED" /\ n.to = c
      BY <2>2, <3>1
    <3> QED BY <1>7, <3>2 DEF R!HandedOver
  <2> QED BY <2>1, <2>2
<1>9. PICK f \in R!Orders(S0) :
         rQueue' = Tail(rQueue) \o [i \in DOMAIN f |-> R!Msg("RequestATL", f[i], "SUPL")]
  BY <1>7 DEF R!informStatus
<1>10. PICK n \in 0 .. R!Cardinality(S0) : f \in [1 .. n -> S0]
  BY <1>9 DEF R!Orders
<1>11. n \in Nat /\ \A c \in S0 : \E i \in 1 .. n : f[i] = c
  BY <1>9, <1>10 DEF R!Orders
<1>12. PICK more : more = [i \in 1 .. n |-> R!Msg("RequestATL", f[i], "SUPL")]
  OBVIOUS
<1>13. ASSUME NEW i \in 1 .. n
       PROVE  more[i] \in R!Queued /\ more[i].type = "RequestATL" /\ more[i].conn = f[i] /\ f[i] \in es
  <2>1. f[i] \in S0 /\ f[i] \in Conns
    BY <1>1, <1>8, <1>10
  <2>2. more[i] = [type |-> "RequestATL", conn |-> f[i], arg |-> "SUPL"]
    BY <1>12 DEF R!Msg
  <2> QED BY <1>8, <2>1, <2>2 DEF R!Queued, R!Types
<1>14. more \in Seq(R!Queued) /\ Len(more) = n
  BY <1>11, <1>12, <1>13
<1>15. rQueue' = Tail(rQueue) \o more
  BY <1>9, <1>10, <1>12
<1>16. Extra(more)
  BY <1>13, <1>14 DEF Extra
<1>17. \A c : [to |-> c, status |-> "DENIED"] \in told => \E k \in 1 .. Len(more) : more[k].conn = c
  BY <1>8, <1>11, <1>13, <1>14
<1> QED BY <1>5, <1>6, <1>15, <1>16, <1>17

(* ds_nif has handled a message: whoever it denies is handed over, and     *)
(* nobody else whom it has not answered loses the place in its list.       *)
LEMMA RouteDs ==
  ASSUME R!RouteInv, rQueue # <<>>, NEW c, c = Head(rQueue).conn,
         Head(rQueue).type \in {"RequestSuplEs", "SuplEsOpened", "SuplEsClosed", "ReleaseATL"},
         NEW o, NEW started, R!PerformDs(o, started), DsMachine(o.m), R!D!Listed(o.m) \subseteq es,
         \A n \in o.told : n.to \in es,
         ready' = ready, dsClient' = dsClient, nif' = nif, asked' = asked, es' = es,
         rRestarts' = rRestarts, late \subseteq late', late' \subseteq es,
         Head(rQueue).type = "ReleaseATL" =>
            c \in es /\ [to |-> c, status |-> "UNSUBSCRIBE"] \in o.told,
         Head(rQueue).type = "RequestSuplEs" =>
            \/ c \in late' \/ rView[c] # "opening"
            \/ c \in o.m.active /\ o.m.state # "Acquired"
            \/ [to |-> c, status |-> "GRANTED"] \in o.told,
         \A d : d \in ds.active /\ ds.state # "Acquired" =>
            \/ d \in o.m.active /\ o.m.state # "Acquired"
            \/ \E st \in {"GRANTED", "UNSUBSCRIBE", "DENIED"} : [to |-> d, status |-> st] \in o.told
  PROVE  R!RouteInv'
<1>1. /\ DsTyped /\ RouteTyped /\ \A d \in Conns \ es : R!ViewSound(d)
      /\ \A d \in Conns : R!Served(d)
  BY RouteParts
<1>2. \E told : o.told \subseteq told /\ (\A n \in told : n.to \in es) /\ R!informStatus(told)
  <2>1. CASE R!informStatus(o.told)
    BY <2>1
  <2>2. ASSUME NEW x \in o.m.active, R!informStatus(o.told \cup R!D!Tell({x}, "DENIED"))
        PROVE  \E told : o.told \subseteq told /\ (\A n \in told : n.to \in es) /\ R!informStatus(told)
    <3>1. x \in es
      BY DEF R!D!Listed
    <3>2. \A n \in R!D!Tell({x}, "DENIED") : n.to = x
      BY DEF R!D!Tell
    <3>3. PICK told : told = o.told \cup R!D!Tell({x}, "DENIED")
      OBVIOUS
    <3>4. o.told \subseteq told /\ \A n \in told : n.to \in es
      BY <3>1, <3>2, <3>3
    <3> QED BY <2>2, <3>3, <3>4
  <2> QED BY <2>1, <2>2 DEF R!PerformDs
<1>3. PICK told : o.told \subseteq told /\ (\A n \in told : n.to \in es) /\ R!informStatus(told)
  BY <1>2
<1>4. /\ ds' = o.m /\ rCall' \in {"none", "starting", "up"} /\ rTimers' \in Nat
  BY <1>1 DEF R!PerformDs, DsTyped
<1>5. /\ rView' \in [Conns -> {"idle", "opening", "open", "closing"}]
      /\ \A d \in Conns : /\ ViewStep(d) /\ (d \notin es => rView'[d] = rView[d])
                          /\ [to |-> d, status |-> "UNSUBSCRIBE"] \in told => rView'[d] = "idle"
                          /\ [to |-> d, status |-> "GRANTED"] \in told => rView'[d] # "opening"
      /\ \E more : /\ Extra(more) /\ rQueue' = Tail(rQueue) \o more
                   /\ \A d : [to |-> d, status |-> "DENIED"] \in told =>
                        \E k \in 1 .. Len(more) : more[k].conn = d
  BY <1>3, RouteInforms
<1>6. PICK more : /\ Extra(more) /\ rQueue' = Tail(rQueue) \o more
                  /\ \A d : [to |-> d, status |-> "DENIED"] \in told =>
                       \E k \in 1 .. Len(more) : more[k].conn = d
  BY <1>5
<1>7. rQueue \in Seq(R!Queued) /\ R!QueueSound /\ R!MachinesSound
  BY <1>1 DEF RouteTyped
<1>8. /\ rQueue' \in Seq(R!Queued) /\ R!QueueSound'
      /\ \A d, type : R!Waiting(type, d) =>
           R!Waiting(type, d)' \/ (Head(rQueue).type = type /\ c = d)
      /\ \A d \in Conns \ es : \A type : R!Waiting(type, d)' => R!Waiting(type, d)
      /\ \A k \in 1 .. Len(more) : R!Waiting("RequestATL", more[k].conn)'
      /\ R!Restarting' <=> R!Restarting
      /\ Head(rQueue).type = "RequestSuplEs" => c \in es
  BY <1>6, <1>7, RouteHandled
<1>9. DsTyped'
  BY <1>1, <1>4 DEF DsTyped, DsMachine
<1>10. R!MachinesSound'
  BY <1>7 DEF R!MachinesSound, R!Nifs
<1>11. RouteTyped'
  BY <1>1, <1>5, <1>8, <1>10 DEF RouteTyped
<1>12. ASSUME NEW d \in Conns \ es' PROVE R!ViewSound(d)'
  <2>1. /\ d \in Conns \ es /\ rView'[d] = rView[d] /\ R!ViewSound(d)
        /\ c = d => Head(rQueue).type \notin {"RequestATL", "ReleaseATL"}
    BY <1>1, <1>5
  <2>2. \A type \in {"RequestATL", "ReleaseATL"} : R!Waiting(type, d)' <=> R!Waiting(type, d)
    BY <1>8, <2>1
  <2> QED BY <1>7, <1>8, <1>10, <2>1, <2>2, ViewKept
<1>13. ASSUME NEW d \in Conns PROVE R!Served(d)'
  <2>1. R!Served(d) /\ ViewStep(d)
    BY <1>1, <1>5
  <2>2. ASSUME rView'[d] = "closing", R!Waiting("ReleaseATL", d) PROVE R!Waiting("ReleaseATL", d)'
    <3>1. CASE c = d /\ Head(rQueue).type = "ReleaseATL"
      BY <1>3, <1>5, <2>2, <3>1
    <3>2. CASE ~(c = d /\ Head(rQueue).type = "ReleaseATL")
      BY <1>8, <2>2, <3>2
    <3> QED BY <3>1, <3>2
  <2>3. ASSUME rView'[d] = "opening", R!Provided(d) PROVE R!Provided(d)'
    <3>1. rView[d] = "opening"
      BY <2>1, <2>3 DEF ViewStep
    <3>2. \A st \in {"GRANTED", "UNSUBSCRIBE"} : [to |-> d, status |-> st] \notin o.told
      BY <1>3, <1>5, <2>3
    <3>3. CASE [to |-> d, status |-> "DENIED"] \in o.told
      <4>1. PICK k \in 1 .. Len(more) : more[k].conn = d
        BY <1>3, <1>6, <3>3
      <4> QED BY <1>8, <4>1 DEF R!Provided
    <3>4. CASE [to |-> d, status |-> "DENIED"] \notin o.told
      <4>1. CASE R!Waiting("RequestATL", d)
        BY <1>8, <4>1 DEF R!Provided
      <4>2. CASE R!Waiting("RequestSuplEs", d)
        <5>1. CASE c = d /\ Head(rQueue).type = "RequestSuplEs"
          BY <1>4, <3>1, <3>2, <5>1 DEF R!Provided
        <5>2. CASE ~(c = d /\ Head(rQueue).type = "RequestSuplEs")
          BY <1>8, <4>2, <5>2 DEF R!Provided
        <5> QED BY <5>1, <5>2
      <4>3. CASE R!Homes(d) # {}
        <5>1. R!Homes(d)' = R!Homes(d)
          <6>1. ASSUME NEW x PROVE x \in R!Homes(d) <=> x \in R!Homes(d)'
            <7>1. x \in R!Homes(d) <=> x \in {"agnss", "internet"} /\ d \in nif[x].active
              BY <1>7, HomesAre
            <7>2. x \in R!Homes(d)' <=> x \in {"agnss", "internet"} /\ d \in nif'[x].active
              BY <1>10, HomesArePrime
            <7> QED BY <7>1, <7>2
          <6> QED BY <6>1
        <5> QED BY <4>3, <5>1 DEF R!Provided
      <4>4. CASE d \in late
        BY <4>4 DEF R!Provided
      <4>5. CASE d \in ds.active /\ ds.state # "Acquired"
        <5>1. d \in o.m.active /\ o.m.state # "Acquired"
          BY <3>2, <3>4, <4>5
        <5> QED BY <1>4, <5>1 DEF R!Provided
      <4> QED BY <2>3, <4>1, <4>2, <4>3, <4>4, <4>5 DEF R!Provided
    <3> QED BY <3>3, <3>4
  <2> QED BY <1>8, <2>1, <2>2, <2>3, ServedStep
<1> QED BY <1>9, <1>11, <1>12, <1>13, RoutePartsPrime

(* LocEngRequestSuplEs.                                                    *)
LEMMA RouteRequestDs ==
  ASSUME R!RouteInv, R!requestSuplES
  PROVE  R!RouteInv'
<1>1. PICK c : c = Head(rQueue).conn
  OBVIOUS
<1>2. /\ rQueue # <<>> /\ Head(rQueue).type = "RequestSuplEs"
      /\ ready' = ready /\ nif' = nif /\ dsClient' = dsClient /\ asked' = asked /\ es' = es
      /\ rRestarts' = rRestarts
  BY DEF R!requestSuplES, R!HandlingDs
<1>3. /\ DsTyped /\ RouteTyped /\ \A d \in Conns \ es : R!ViewSound(d)
      /\ \A d \in Conns : R!Served(d)
  BY RouteParts
<1>4. rQueue \in Seq(R!Queued) /\ R!QueueSound /\ R!MachinesSound /\ es \subseteq Conns
      /\ rView \in [Conns -> {"idle", "opening", "open", "closing"}]
  BY <1>3 DEF RouteTyped, DsTyped
<1>5. c \in es /\ c \in Conns
  <2>1. 1 \in 1 .. Len(rQueue) /\ Head(rQueue) = rQueue[1]
    BY <1>2, <1>4, HeadTailProperties, EmptySeq
  <2> QED BY <1>1, <1>2, <1>4, <2>1 DEF R!QueueSound
<1>6. ASSUME NEW started \in BOOLEAN, NEW o \in R!D!onRsrcEvent(ds, "SUBSCRIBE", c, started),
             R!PerformDs(o, started),
             late' = IF c \in ds.inactive /\ rView[c] = "opening" THEN late \cup {c} ELSE late
      PROVE  R!RouteInv'
  <2>1. DsMachine(ds) /\ R!D!Listed(ds) \subseteq es /\ late \subseteq es
    BY <1>3 DEF DsTyped, DsMachine
  <2>2. /\ DsMachine(o.m) /\ R!D!Listed(o.m) \subseteq R!D!Listed(ds) \cup {c}
        /\ ds.active \subseteq o.m.active /\ c \in ds.inactive \cup o.m.active
        /\ o.m.state = "Acquired" <=> ds.state = "Acquired"
        /\ o.told = IF ds.state = "Acquired" THEN R!D!Tell({c}, "GRANTED") ELSE {}
    BY <1>5, <1>6, <2>1, DsSubscribe
  <2>3. /\ \A n \in R!D!Tell({c}, "GRANTED") : n.to = c
        /\ [to |-> c, status |-> "GRANTED"] \in R!D!Tell({c}, "GRANTED")
    BY DEF R!D!Tell
  <2>4. \A n \in o.told : n.to \in es
    BY <1>5, <2>2, <2>3
  <2>5. late \subseteq late' /\ late' \subseteq es
    BY <1>5, <1>6, <2>1
  <2>6. \/ c \in late' \/ rView[c] # "opening"
        \/ c \in o.m.active /\ o.m.state # "Acquired"
        \/ [to |-> c, status |-> "GRANTED"] \in o.told
    <3>1. CASE c \in ds.inactive
      BY <1>6, <3>1
    <3>2. CASE c \notin ds.inactive /\ ds.state = "Acquired"
      BY <2>2, <2>3, <3>2
    <3>3. CASE c \notin ds.inactive /\ ds.state # "Acquired"
      BY <2>2, <3>3
    <3> QED BY <3>1, <3>2, <3>3
  <2>7. R!D!Listed(o.m) \subseteq es
    BY <1>5, <2>1, <2>2
  <2>8. \A d : d \in ds.active /\ ds.state # "Acquired" => d \in o.m.active /\ o.m.state # "Acquired"
    BY <2>2
  <2> QED BY <1>1, <1>2, <1>6, <2>2, <2>4, <2>5, <2>6, <2>7, <2>8, RouteDs
<1>7. ASSUME rView' = [rView EXCEPT ![c] = R!AtlOpen(@, FALSE)], rQueue' = Tail(rQueue),
             UNCHANGED <<ds, rCall, rTimers, late>>
      PROVE  R!RouteInv'
  <2>1. /\ rView' \in [Conns -> {"idle", "opening", "open", "closing"}]
        /\ rView'[c] = IF rView[c] = "opening" THEN "idle" ELSE rView[c]
        /\ \A d \in Conns : d # c => rView'[d] = rView[d]
    BY <1>4, <1>5, <1>7 DEF R!AtlOpen
  <2>2. Extra(<<>>) /\ rQueue' = Tail(rQueue) \o <<>>
    BY <1>2, <1>4, <1>7, RoutePopped
  <2>3. /\ rQueue' \in Seq(R!Queued) /\ R!QueueSound'
        /\ \A d, type : R!Waiting(type, d) =>
             R!Waiting(type, d)' \/ (Head(rQueue).type = type /\ c = d)
        /\ \A d \in Conns \ es : \A type : R!Waiting(type, d)' => R!Waiting(type, d)
        /\ R!Restarting' <=> R!Restarting
    BY <1>1, <1>2, <1>4, <2>2, RouteHandled
  <2>4. DsTyped'
    BY <1>2, <1>3, <1>7 DEF DsTyped
  <2>5. R!MachinesSound'
    BY <1>2, <1>4 DEF R!MachinesSound, R!Nifs
  <2>6. RouteTyped'
    BY <1>2, <1>3, <2>1, <2>3, <2>5 DEF RouteTyped
  <2>7. ASSUME NEW d \in Conns \ es' PROVE R!ViewSound(d)'
    <3>1. d \in Conns \ es /\ d # c /\ rView'[d] = rView[d] /\ R!ViewSound(d)
      BY <1>2, <1>3, <1>5, <2>1
    <3>2. \A type \in {"RequestATL", "ReleaseATL"} : R!Waiting(type, d)' <=> R!Waiting(type, d)
      BY <2>3, <3>1
    <3> QED BY <1>2, <1>4, <2>3, <2>5, <3>1, <3>2, ViewKept
  <2>8. ASSUME NEW d \in Conns PROVE R!Served(d)'
    <3>1. R!Served(d) /\ ViewStep(d)
      BY <1>3, <2>1 DEF ViewStep
    <3>2. R!Waiting("ReleaseATL", d) => R!Waiting("ReleaseATL", d)'
      BY <1>2, <2>3
    <3>3. ASSUME rView'[d] = "opening", R!Provided(d) PROVE R!Provided(d)'
      <4>1. d # c
        BY <2>1, <3>3
      <4>2. R!Homes(d)' = R!Homes(d)
        BY <1>2, <1>7 DEF R!Homes, R!Subscribers
      <4> QED BY <1>7, <2>3, <3>3, <4>1, <4>2 DEF R!Provided
    <3> QED BY <1>2, <2>3, <3>1, <3>2, <3>3, ServedStep
  <2> QED BY <2>4, <2>6, <2>7, <2>8, RoutePartsPrime
<1> QED BY <1>1, <1>6, <1>7 DEF R!requestSuplES, R!dsVars

(* LocEngSuplEsOpened and LocEngSuplEsClosed.                              *)
LEMMA RouteCall ==
  ASSUME R!RouteInv, R!onDataCallOpened \/ R!onDataCallClosed
  PROVE  R!RouteInv'
<1>1. PICK c : c = Head(rQueue).conn
  OBVIOUS
<1>2. /\ rQueue # <<>> /\ Head(rQueue).type \in {"SuplEsOpened", "SuplEsClosed"}
      /\ ready' = ready /\ nif' = nif /\ dsClient' = dsClient /\ asked' = asked /\ es' = es
      /\ rRestarts' = rRestarts /\ late' = late
  BY DEF R!onDataCallOpened, R!onDataCallClosed, R!HandlingDs
<1>3. DsMachine(ds) /\ R!D!Listed(ds) \subseteq es /\ late \subseteq es
  BY DEF R!RouteInv, DsMachine
<1>4. ASSUME NEW ids \in SUBSET es, NEW event
      PROVE  \A n \in R!D!Tell(ids, event) : n.to \in es
  BY DEF R!D!Tell
<1>5. ASSUME NEW o \in R!D!onRsrcEvent(ds, "GRANTED", R!D!NULL, TRUE), R!PerformDs(o, TRUE)
      PROVE  R!RouteInv'
  <2>1. /\ DsMachine(o.m) /\ o.m.active = ds.active /\ o.m.inactive = ds.inactive
        /\ \/ o.m.state = ds.state /\ o.told = {}
           \/ o.told = R!D!Tell(ds.active, "GRANTED")
    BY <1>3, <1>5, DsGranted
  <2>2. ds.active \subseteq es /\ R!D!Listed(o.m) \subseteq es
    BY <1>3, <2>1 DEF R!D!Listed
  <2>3. \A n \in o.told : n.to \in es
    BY <1>4, <2>1, <2>2
  <2>4. \A d : d \in ds.active => [to |-> d, status |-> "GRANTED"] \in R!D!Tell(ds.active, "GRANTED")
    BY DEF R!D!Tell
  <2>5. \A d : d \in ds.active /\ ds.state # "Acquired" =>
          \/ d \in o.m.active /\ o.m.state # "Acquired"
          \/ \E st \in {"GRANTED", "UNSUBSCRIBE", "DENIED"} : [to |-> d, status |-> st] \in o.told
    BY <2>1, <2>4
  <2> QED BY <1>1, <1>2, <1>3, <1>5, <2>1, <2>2, <2>3, <2>5, RouteDs
<1>6. ASSUME NEW started \in BOOLEAN, NEW event \in {"RELEASED", "DENIED"},
             NEW o \in R!D!onRsrcEvent(ds, event, R!D!NULL, TRUE), R!PerformDs(o, started)
      PROVE  R!RouteInv'
  <2>1. /\ DsMachine(o.m) /\ R!D!Listed(o.m) \subseteq R!D!Listed(ds)
        /\ o.m.state = "Acquired" => ds.state = "Acquired"
        /\ \E ids \in SUBSET R!D!Listed(ds) :
             /\ o.told = R!D!Tell(ids, event)
             /\ \/ ds.active \subseteq o.m.active \/ ds.state = "Acquired"
                \/ event = "DENIED" /\ ids = R!D!Listed(ds)
    BY <1>3, <1>6, DsClosed
  <2>2. PICK ids \in SUBSET R!D!Listed(ds) :
             /\ o.told = R!D!Tell(ids, event)
             /\ \/ ds.active \subseteq o.m.active \/ ds.state = "Acquired"
                \/ event = "DENIED" /\ ids = R!D!Listed(ds)
    BY <2>1
  <2>3. (\A n \in o.told : n.to \in es) /\ R!D!Listed(o.m) \subseteq es
    BY <1>3, <1>4, <2>1, <2>2
  <2>4. \A d \in ids : [to |-> d, status |-> event] \in R!D!Tell(ids, event)
    BY DEF R!D!Tell
  <2>5. \A d : d \in ds.active /\ ds.state # "Acquired" =>
          \/ d \in o.m.active /\ o.m.state # "Acquired"
          \/ \E st \in {"GRANTED", "UNSUBSCRIBE", "DENIED"} : [to |-> d, status |-> st] \in o.told
    <3>1. CASE ds.active \subseteq o.m.active \/ ds.state = "Acquired"
      BY <2>1, <3>1
    <3>2. CASE event = "DENIED" /\ ids = R!D!Listed(ds)
      BY <2>2, <2>4, <3>2 DEF R!D!Listed
    <3> QED BY <2>2, <3>1, <3>2
  <2> QED BY <1>1, <1>2, <1>3, <1>6, <2>1, <2>3, <2>5, RouteDs
<1> QED BY <1>5, <1>6 DEF R!onDataCallOpened, R!onDataCallClosed

(* A machine has handled an event: what changes beside the lists.          *)
LEMMA RoutePerform ==
  ASSUME R!RouteInv, NEW n \in {"agnss", "internet"}, NEW o, AtlMachine(o.m), o.ask \in R!A!Asks,
         R!Perform(n, o, rView), ready' = ready, ready \/ o.m.active = {}
  PROVE  /\ nif' \in [R!Nifs -> R!A!Machine] /\ nif'[n] = o.m
         /\ \A k \in {"agnss", "internet"} : k # n => nif'[k] = nif[k]
         /\ asked' \in Seq([nif : R!Nifs, ask : R!A!Asks])
         /\ rView' = R!Notified(rView, o.told)
         /\ rView' \in [Conns -> {"idle", "opening", "open", "closing"}]
         /\ R!MachinesSound'
<1>1. /\ nif \in [R!Nifs -> R!A!Machine] /\ asked \in Seq([nif : R!Nifs, ask : R!A!Asks])
      /\ rView \in [Conns -> {"idle", "opening", "open", "closing"}] /\ n \in R!Nifs
  BY DEF R!RouteInv, R!Nifs
<1>2. nif' = [nif EXCEPT ![n] = o.m] /\ rView' = R!Notified(rView, o.told)
  BY DEF R!Perform
<1>3. o.m \in R!A!Machine
  BY DEF AtlMachine
<1>4. nif' \in [R!Nifs -> R!A!Machine] /\ nif'[n] = o.m
      /\ \A k \in R!Nifs : k # n => nif'[k] = nif[k]
  BY <1>1, <1>2, <1>3
<1>5. asked' \in Seq([nif : R!Nifs, ask : R!A!Asks])
  <2>1. PICK q : q = [nif |-> n, ask |-> o.ask]
    OBVIOUS
  <2>2. PICK S : S = [nif : R!Nifs, ask : R!A!Asks]
    OBVIOUS
  <2>3. q \in S /\ asked \in Seq(S)
    BY <1>1, <2>1, <2>2
  <2>4. asked' = Append(asked, q) \/ asked' = asked
    BY <2>1 DEF R!Perform
  <2>5. asked' \in Seq(S)
    BY <2>3, <2>4, AppendProperties
  <2> QED BY <2>2, <2>5
<1>6. rView' \in [Conns -> {"idle", "opening", "open", "closing"}]
  BY <1>1, <1>2 DEF R!Notified, R!AtlOpen
<1>7. R!MachinesSound'
  <2>1. ASSUME NEW k \in R!Nifs
        PROVE  /\ nif'[k].inactive = {} /\ nif'[k].state # "Releasing"
               /\ nif'[k].state = "Released" \/ ~ready' => nif'[k].active = {}
    <3>1. CASE k = n
      BY <1>4, <3>1 DEF AtlMachine
    <3>2. CASE k # n
      <4>1. nif'[k] = nif[k]
        BY <1>4, <3>2
      <4> QED BY <4>1 DEF R!RouteInv, R!MachinesSound
    <3> QED BY <3>1, <3>2
  <2> QED BY <2>1 DEF R!MachinesSound, R!Nifs
<1> QED BY <1>2, <1>4, <1>5, <1>6, <1>7 DEF R!Nifs

(* The interfaces' machines have handled a message.                        *)
LEMMA RouteNif ==
  ASSUME R!RouteInv, rQueue # <<>>, rQueue' = Tail(rQueue), NEW c, c = Head(rQueue).conn,
         Head(rQueue).type \in {"RequestATL", "ReleaseATL", "Answer"},
         ready' = ready, dsClient' = dsClient, ds' = ds, rCall' = rCall, rTimers' = rTimers,
         late' = late, es' = es, rRestarts' = rRestarts, nif' \in [R!Nifs -> R!A!Machine],
         asked' \in Seq([nif : R!Nifs, ask : R!A!Asks]),
         rView' \in [Conns -> {"idle", "opening", "open", "closing"}], R!MachinesSound',
         \A d \in Conns \ es : R!ViewSound(d)',
         \A d \in Conns : ViewStep(d),
         \A d \in Conns : d = c /\ Head(rQueue).type = "ReleaseATL" => rView'[d] # "closing",
         \A d \in Conns : rView'[d] = "opening" /\ R!Homes(d) # {} => R!Homes(d)' # {},
         \A d \in Conns : rView'[d] = "opening" /\ d = c /\ Head(rQueue).type = "RequestATL" =>
                            R!Homes(d)' # {}
  PROVE  R!RouteInv'
<1>1. /\ DsTyped /\ RouteTyped /\ \A d \in Conns : R!Served(d)
  BY RouteParts
<1>2. rQueue \in Seq(R!Queued) /\ R!QueueSound
  BY <1>1 DEF RouteTyped
<1>3. Extra(<<>>) /\ rQueue' = Tail(rQueue) \o <<>>
  BY <1>2, RoutePopped
<1>4. /\ rQueue' \in Seq(R!Queued) /\ R!QueueSound'
      /\ \A d, type : R!Waiting(type, d) =>
           R!Waiting(type, d)' \/ (Head(rQueue).type = type /\ c = d)
      /\ R!Restarting' <=> R!Restarting
  BY <1>2, <1>3, RouteHandled
<1>5. DsTyped'
  BY <1>1 DEF DsTyped
<1>6. RouteTyped'
  BY <1>1, <1>4 DEF RouteTyped
<1>7. ASSUME NEW d \in Conns PROVE R!Served(d)'
  <2>1. R!Served(d) /\ ViewStep(d)
    BY <1>1
  <2>2. rView'[d] = "closing" /\ R!Waiting("ReleaseATL", d) => R!Waiting("ReleaseATL", d)'
    BY <1>4
  <2>3. ASSUME rView'[d] = "opening", R!Provided(d) PROVE R!Provided(d)'
    <3>1. CASE R!Waiting("RequestATL", d)
      BY <1>4, <2>3, <3>1 DEF R!Provided
    <3>2. CASE R!Waiting("RequestSuplEs", d)
      BY <1>4, <3>2 DEF R!Provided
    <3>3. CASE R!Homes(d) # {}
      BY <2>3, <3>3 DEF R!Provided
    <3> QED BY <2>3, <3>1, <3>2, <3>3 DEF R!Provided
  <2> QED BY <1>4, <2>1, <2>2, <2>3, ServedStep
<1> QED BY <1>5, <1>6, <1>7, RoutePartsPrime

(* What is known of the messages when the head is handled.                 *)
LEMMA RouteHead ==
  ASSUME R!RouteInv, rQueue # <<>>, rQueue' = Tail(rQueue), es' = es
  PROVE  /\ rQueue \in Seq(R!Queued) /\ R!QueueSound /\ R!MachinesSound
         /\ rQueue' \in Seq(R!Queued) /\ R!QueueSound' /\ Head(rQueue) \in R!Queued
         /\ rView \in [Conns -> {"idle", "opening", "open", "closing"}]
         /\ \A d \in Conns \ es : R!ViewSound(d)
         /\ \A d \in Conns : R!Served(d)
         /\ R!Restarting <=> R!Restarting' \/ Head(rQueue).type = "EngineUp"
         /\ R!Waiting(Head(rQueue).type, Head(rQueue).conn)
         /\ \A d \in Conns \ es : \A type :
              R!Waiting(type, d)' =>
                /\ R!Waiting(type, d)
                /\ Head(rQueue).type # "EngineUp" \/ type \notin {"RequestATL", "ReleaseATL"}
         /\ \A d \in Conns \ es : \A type :
              R!Waiting(type, d) => R!Waiting(type, d)' \/ (Head(rQueue).type = type /\ Head(rQueue).conn = d)
         /\ \A d \in Conns \ es : Head(rQueue).type = "RequestATL" /\ Head(rQueue).conn = d =>
              ~R!Waiting("RequestATL", d)'
         /\ \A d \in Conns \ es : Head(rQueue).type = "ReleaseATL" /\ Head(rQueue).conn = d =>
              ~R!Waiting("RequestATL", d)' /\ ~R!Waiting("ReleaseATL", d)'
<1>1. /\ rQueue \in Seq(R!Queued) /\ R!QueueSound /\ R!MachinesSound
      /\ rView \in [Conns -> {"idle", "opening", "open", "closing"}]
      /\ \A d \in Conns \ es : R!ViewSound(d)
      /\ \A d \in Conns : R!Served(d)
  BY RouteParts DEF RouteTyped
<1>2. Extra(<<>>) /\ rQueue' = Tail(rQueue) \o <<>>
  BY <1>1, RoutePopped
<1>3. /\ rQueue' \in Seq(R!Queued) /\ R!QueueSound' /\ Head(rQueue) \in R!Queued
      /\ \A c, type : R!Waiting(type, c) =>
           R!Waiting(type, c)' \/ (Head(rQueue).type = type /\ Head(rQueue).conn = c)
      /\ \A c \in Conns \ es : \A type : R!Waiting(type, c)' => R!Waiting(type, c)
      /\ R!Waiting(Head(rQueue).type, Head(rQueue).conn)
      /\ R!Restarting <=> R!Restarting' \/ Head(rQueue).type = "EngineUp"
      /\ \A c \in Conns \ es : Head(rQueue).type = "RequestATL" /\ Head(rQueue).conn = c =>
           ~R!Waiting("RequestATL", c)'
      /\ \A c \in Conns \ es : Head(rQueue).type = "ReleaseATL" /\ Head(rQueue).conn = c =>
           ~R!Waiting("RequestATL", c)' /\ ~R!Waiting("ReleaseATL", c)'
      /\ Head(rQueue).type = "EngineUp" =>
           \A c \in Conns \ es : ~R!Waiting("RequestATL", c)' /\ ~R!Waiting("ReleaseATL", c)'
  BY <1>1, <1>2, RouteHandled
<1>4. ASSUME NEW d \in Conns \ es, NEW type, R!Waiting(type, d)'
      PROVE  /\ R!Waiting(type, d)
             /\ Head(rQueue).type # "EngineUp" \/ type \notin {"RequestATL", "ReleaseATL"}
  BY <1>3, <1>4
<1> QED BY <1>1, <1>3, <1>4

(* LocEngRequestATL: the machine of its type lists the connection, or its  *)
(* open fails.                                                             *)
LEMMA RouteRequest ==
  ASSUME R!RouteInv, R!requestATL
  PROVE  R!RouteInv'
<1>1. PICK c : c = Head(rQueue).conn
  OBVIOUS
<1>2. PICK n : n = R!getAgpsStateMachine(Head(rQueue).arg)
  OBVIOUS
<1>3. /\ rQueue # <<>> /\ Head(rQueue).type = "RequestATL" /\ rQueue' = Tail(rQueue)
      /\ ready' = ready /\ dsClient' = dsClient /\ rRestarts' = rRestarts /\ es' = es
      /\ ds' = ds /\ rCall' = rCall /\ rTimers' = rTimers /\ late' = late
  BY DEF R!requestATL, R!Handling, R!dsVars
<1>4. /\ rQueue \in Seq(R!Queued) /\ R!QueueSound /\ R!MachinesSound
      /\ rQueue' \in Seq(R!Queued) /\ R!QueueSound' /\ Head(rQueue) \in R!Queued
      /\ rView \in [Conns -> {"idle", "opening", "open", "closing"}]
      /\ \A d \in Conns \ es : R!ViewSound(d)
      /\ \A d \in Conns : R!Served(d)
      /\ R!Restarting' <=> R!Restarting
  BY <1>3, RouteHead
<1>5. c \in Conns /\ Head(rQueue).arg \in R!Types
  BY <1>1, <1>3, <1>4, QueuedFields
<1>6. ASSUME c \notin es
      PROVE  /\ R!Waiting("RequestATL", c) /\ ~R!Waiting("RequestATL", c)'
             /\ R!Waiting("ReleaseATL", c)' <=> R!Waiting("ReleaseATL", c)
             /\ R!OnItsWay(c)' <=> R!Waiting("ReleaseATL", c)'
  <2>1. c \in Conns \ es
    BY <1>5, <1>6
  <2>2. /\ R!Waiting("RequestATL", c) /\ ~R!Waiting("RequestATL", c)'
        /\ R!Waiting("ReleaseATL", c)' <=> R!Waiting("ReleaseATL", c)
    BY <1>1, <1>3, <2>1, RouteHead
  <2>3. R!OnItsWay(c)' <=> R!Waiting("RequestATL", c)' \/ R!Waiting("ReleaseATL", c)'
    BY <1>3, <1>4, <2>1, OnItsWayIsPrime
  <2> QED BY <2>2, <2>3
<1>7. ASSUME NEW d \in Conns \ es, d # c
      PROVE  \A type \in {"RequestATL", "ReleaseATL"} : R!Waiting(type, d)' <=> R!Waiting(type, d)
  BY <1>1, <1>3, <1>7, RouteHead
<1>8. R!Restarting => rView[c] = "idle"
  BY <1>4, <1>5 DEF R!Served
<1>9. ASSUME c \notin es, ~R!Restarting
      PROVE  /\ R!Homes(c) = {}
             /\ rView[c] = IF R!Waiting("ReleaseATL", c) THEN "closing" ELSE "opening"
  BY <1>4, <1>5, <1>6, <1>9 DEF R!ViewSound
<1>10. ASSUME c \notin es, R!Waiting("ReleaseATL", c) PROVE rView[c] \in {"closing", "idle"}
  BY <1>4, <1>5, <1>10 DEF R!ViewSound
<1>11. CASE ready /\ \E o \in R!A!onRsrcEvent(nif[n], "SUBSCRIBE", c, TRUE) : R!Perform(n, o, rView)
  <2>1. PICK o \in R!A!onRsrcEvent(nif[n], "SUBSCRIBE", c, TRUE) : R!Perform(n, o, rView)
    BY <1>11
  <2>2. n \in {"agnss", "internet"}
    BY <1>2, <1>5 DEF R!getAgpsStateMachine, R!Types
  <2>3. AtlMachine(nif[n])
    BY <2>2, RouteMachines
  <2>4. /\ AtlMachine(o.m) /\ o.ask \in R!A!Asks
        /\ o.m.active = nif[n].active \cup {c}
        /\ o.m.state = IF nif[n].state = "Released" THEN "Pending" ELSE nif[n].state
        /\ o.told = IF nif[n].state = "Acquired" THEN R!A!Tell({c}, "GRANTED") ELSE {}
    BY <1>5, <2>1, <2>3, AtlSubscribe
  <2>5. /\ nif' \in [R!Nifs -> R!A!Machine] /\ nif'[n] = o.m
        /\ \A k \in {"agnss", "internet"} : k # n => nif'[k] = nif[k]
        /\ asked' \in Seq([nif : R!Nifs, ask : R!A!Asks])
        /\ rView' = R!Notified(rView, o.told)
        /\ rView' \in [Conns -> {"idle", "opening", "open", "closing"}]
        /\ R!MachinesSound'
    BY <1>3, <1>11, <2>1, <2>2, <2>4, RoutePerform
  <2>6. \A d \in Conns : d # c => rView'[d] = rView[d]
    BY <2>4, <2>5, NotifiedAll, NotifiedNone
  <2>7. rView'[c] = IF nif[n].state = "Acquired" THEN R!AtlOpen(rView[c], TRUE) ELSE rView[c]
    <3>1. CASE nif[n].state = "Acquired"
      <4>1. R!Notified(rView, R!A!Tell({c}, "GRANTED"))[c] =
              IF c \notin {c} THEN rView[c]
              ELSE IF "GRANTED" \in {"UNSUBSCRIBE", "RELEASED"} THEN "idle"
              ELSE R!AtlOpen(rView[c], "GRANTED" = "GRANTED")
        BY <1>5, NotifiedAll
      <4>2. R!AtlOpen(rView[c], "GRANTED" = "GRANTED") = R!AtlOpen(rView[c], TRUE)
        BY DEF R!AtlOpen
      <4> QED BY <2>4, <2>5, <3>1, <4>1, <4>2
    <3>2. CASE nif[n].state # "Acquired"
      BY <1>5, <2>4, <2>5, <3>2, NotifiedNone
    <3> QED BY <3>1, <3>2
  <2>8. \A x : /\ x \in R!Homes(c) <=> x \in {"agnss", "internet"} /\ c \in nif[x].active
               /\ x \in R!Homes(c)' <=> x \in {"agnss", "internet"} /\ c \in nif'[x].active
    BY <1>4, <2>5, HomesAre, HomesArePrime
  <2>9. n \in R!Homes(c)'
    BY <2>2, <2>4, <2>5, <2>8
  <2>10. ASSUME NEW d \in Conns \ es, d # c PROVE R!ViewSound(d)'
    <3>1. \A k \in {"agnss", "internet"} :
            /\ d \in nif'[k].active <=> d \in nif[k].active
            /\ d \in nif[k].active /\ nif'[k].state = "Pending" => nif[k].state = "Pending"
      <4> SUFFICES ASSUME NEW k \in {"agnss", "internet"}
                   PROVE  /\ d \in nif'[k].active <=> d \in nif[k].active
                          /\ d \in nif[k].active /\ nif'[k].state = "Pending" => nif[k].state = "Pending"
        OBVIOUS
      <4>1. CASE k = n
        BY <2>3, <2>4, <2>5, <2>10, <4>1 DEF AtlMachine
      <4>2. CASE k # n
        BY <2>5, <4>2
      <4> QED BY <4>1, <4>2
    <3> QED BY <1>3, <1>4, <1>7, <2>5, <2>6, <2>10, <3>1, ViewKept
  <2>11. ASSUME c \notin es PROVE R!ViewSound(c)'
    <3>1. ASSUME ~R!Restarting PROVE R!Homes(c)' = {n}
      <4>1. \A k \in {"agnss", "internet"} : c \notin nif[k].active
        BY <1>9, <2>8, <2>11, <3>1
      <4>2. \A x \in {"agnss", "internet"} : c \in nif'[x].active <=> x = n
        BY <2>2, <2>4, <2>5, <4>1
      <4> QED BY <2>2, <2>8, <4>2
    <3>2. \A k \in R!Nifs : nif'[k].state = "Pending" /\ c \in nif'[k].active => rView'[c] # "open"
      <4> SUFFICES ASSUME NEW k \in R!Nifs, nif'[k].state = "Pending", c \in nif'[k].active
                   PROVE  rView'[c] # "open"
        OBVIOUS
      <4>1. CASE R!Restarting
        BY <1>8, <2>7, <4>1 DEF R!AtlOpen
      <4>2. CASE ~R!Restarting
        <5>1. k = n
          BY <2>8, <3>1, <4>2 DEF R!Nifs
        <5>2. rView'[c] = rView[c]
          BY <2>4, <2>5, <2>7, <5>1
        <5> QED BY <1>9, <2>11, <4>2, <5>2
      <4> QED BY <4>1, <4>2
    <3>3. R!Waiting("ReleaseATL", c)' => rView'[c] \in {"closing", "idle"}
      BY <1>6, <1>10, <2>7, <2>11 DEF R!AtlOpen
    <3>4. ASSUME ~R!Restarting
          PROVE  /\ R!AtMostOne(R!Homes(c)') /\ R!Homes(c)' # {}
                 /\ R!Waiting("ReleaseATL", c)' => rView'[c] = "closing"
                 /\ ~R!OnItsWay(c)' => rView'[c] \in {"opening", "open"}
      <4>1. rView[c] = IF R!Waiting("ReleaseATL", c)' THEN "closing" ELSE "opening"
        BY <1>6, <1>9, <2>11, <3>4
      <4> QED BY <1>6, <2>7, <2>11, <3>1, <3>4, <4>1 DEF R!AtMostOne, R!AtlOpen
    <3> QED BY <1>4, <1>6, <2>11, <3>2, <3>3, <3>4 DEF R!ViewSound, R!Nifs, R!AtMostOne
  <2>12. ASSUME NEW d \in Conns PROVE ViewStep(d)
    BY <2>6, <2>7 DEF ViewStep, R!AtlOpen
  <2>13. ASSUME NEW d \in Conns, R!Homes(d) # {} PROVE R!Homes(d)' # {}
    <3>1. PICK x : x \in R!Homes(d)
      BY <2>13
    <3>2. x \in {"agnss", "internet"} /\ d \in nif[x].active
      BY <1>4, <3>1, HomesAre
    <3>3. d \in nif'[x].active
      BY <2>4, <2>5, <3>2
    <3>4. x \in R!Homes(d)'
      BY <2>5, <3>2, <3>3, HomesArePrime
    <3> QED BY <3>4
  <2>14. \A d \in Conns \ es : R!ViewSound(d)'
    BY <2>10, <2>11
  <2> QED BY <1>1, <1>3, <2>5, <2>9, <2>12, <2>13, <2>14, RouteNif
<1>12. CASE nif' = nif /\ asked' = asked /\ rView' = [rView EXCEPT ![c] = R!AtlOpen(@, FALSE)]
  <2>1. R!MachinesSound'
    BY <1>3, <1>4, <1>12 DEF R!MachinesSound, R!Nifs
  <2>2. /\ rView' \in [Conns -> {"idle", "opening", "open", "closing"}]
        /\ rView'[c] = R!AtlOpen(rView[c], FALSE) /\ \A d \in Conns : d # c => rView'[d] = rView[d]
    BY <1>4, <1>5, <1>12 DEF R!AtlOpen
  <2>3. ASSUME NEW d \in Conns \ es, d # c PROVE R!ViewSound(d)'
    BY <1>3, <1>4, <1>7, <1>12, <2>1, <2>2, <2>3, ViewKept
  <2>4. ASSUME NEW d PROVE R!Homes(d)' = R!Homes(d)
    BY <1>3, <1>12 DEF R!Homes, R!Subscribers
  <2>5. ASSUME c \notin es PROVE R!ViewSound(c)'
    <3>1. rView'[c] = "open" => rView[c] = "open"
      BY <2>2 DEF R!AtlOpen
    <3>2. \A k \in R!Nifs : c \in nif[k].active /\ nif[k].state = "Pending" => rView[c] # "open"
      BY <1>4, <1>5, <2>5 DEF R!ViewSound, R!Nifs
    <3>3. R!Waiting("ReleaseATL", c)' => rView'[c] \in {"closing", "idle"}
      BY <1>6, <1>10, <2>2, <2>5 DEF R!AtlOpen
    <3>4. ASSUME ~R!Restarting
          PROVE  /\ R!Homes(c)' = {}
                 /\ ~R!OnItsWay(c)' => rView'[c] = "idle"
      <4>1. R!Homes(c) = {} /\ (~R!Waiting("ReleaseATL", c) => rView[c] = "opening")
        BY <1>9, <2>5, <3>4
      <4> QED BY <1>6, <2>2, <2>4, <2>5, <4>1 DEF R!AtlOpen
    <3> QED BY <1>4, <1>6, <1>12, <2>5, <3>1, <3>2, <3>3, <3>4 DEF R!ViewSound, R!Nifs, R!AtMostOne
  <2>6. ASSUME NEW d \in Conns PROVE ViewStep(d)
    BY <2>2 DEF ViewStep, R!AtlOpen
  <2>7. rView'[c] # "opening"
    BY <2>2 DEF R!AtlOpen
  <2>8. \A d \in Conns \ es : R!ViewSound(d)'
    BY <2>3, <2>5
  <2>9. nif' \in [R!Nifs -> R!A!Machine] /\ asked' \in Seq([nif : R!Nifs, ask : R!A!Asks])
    BY <1>12, RouteParts DEF RouteTyped
  <2> QED BY <1>1, <1>3, <2>1, <2>2, <2>4, <2>6, <2>7, <2>8, <2>9, RouteNif
<1> QED BY <1>1, <1>2, <1>11, <1>12 DEF R!requestATL

(* Which machines list a connection, by its search in their order.         *)
Listing(c) == {i \in 1 .. Len(R!SearchOrder) : c \in R!Subscribers(R!SearchOrder[i])}
FirstListing(c) == R!SearchOrder[CHOOSE i \in Listing(c) : \A j \in Listing(c) : i <= j]

LEMMA SearchFinds ==
  ASSUME R!MachinesSound, NEW c
  PROVE  /\ Listing(c) = {} => R!Homes(c) = {}
         /\ Listing(c) # {} =>
              \/ FirstListing(c) \in {"agnss", "internet"} /\ c \in nif[FirstListing(c)].active
              \/ FirstListing(c) = "ds" /\ c \in R!D!Listed(ds)
<1>a. PICK found : found = Listing(c)
  OBVIOUS
<1>b. PICK n : n = FirstListing(c)
  OBVIOUS
<1>c. found = {i \in 1 .. Len(R!SearchOrder) : c \in R!Subscribers(R!SearchOrder[i])}
  BY <1>a DEF Listing
<1>d. PICK k : k = CHOOSE i \in found : \A j \in found : i <= j
  OBVIOUS
<1>e. n = R!SearchOrder[k]
  BY <1>a, <1>b, <1>d DEF FirstListing
<1>1. /\ Len(R!SearchOrder) = 3 /\ R!SearchOrder[1] = "agnss" /\ R!SearchOrder[2] = "internet"
      /\ R!SearchOrder[3] = "ds"
  BY DEF R!SearchOrder
<1>2. /\ R!Subscribers("agnss") = nif["agnss"].active /\ R!Subscribers("internet") = nif["internet"].active
      /\ R!Subscribers("ds") = R!D!Listed(ds)
  BY DEF R!Subscribers, R!MachinesSound, R!Nifs, R!A!Listed
<1>3. /\ found \subseteq {1, 2, 3}
      /\ 1 \in found <=> c \in nif["agnss"].active
      /\ 2 \in found <=> c \in nif["internet"].active
      /\ 3 \in found <=> c \in R!D!Listed(ds)
  <2>1. 1 .. 3 = {1, 2, 3}
    OBVIOUS
  <2> QED BY <1>1, <1>2, <1>c, <2>1
<1>4. found = {} => R!Homes(c) = {}
  BY <1>3, HomesAre
<1>5. ASSUME found # {}
      PROVE  \/ n \in {"agnss", "internet"} /\ c \in nif[n].active
             \/ n = "ds" /\ c \in R!D!Listed(ds)
  <2>1. \E i \in found : \A j \in found : i <= j
    <3>1. CASE 1 \in found
      BY <1>3, <3>1
    <3>2. CASE 1 \notin found /\ 2 \in found
      BY <1>3, <3>2
    <3>3. CASE 1 \notin found /\ 2 \notin found
      <4>1. found = {3}
        BY <1>3, <1>5, <3>3
      <4> QED BY <4>1
    <3> QED BY <3>1, <3>2, <3>3
  <2>3. k \in found
    BY <1>d, <2>1
  <2>5. CASE k = 1
    BY <1>1, <1>3, <1>e, <2>3, <2>5
  <2>6. CASE k = 2
    BY <1>1, <1>3, <1>e, <2>3, <2>6
  <2>7. CASE k = 3
    BY <1>1, <1>3, <1>e, <2>3, <2>7
  <2> QED BY <1>3, <2>3, <2>5, <2>6, <2>7
<1> QED BY <1>4, <1>5, <1>a, <1>b

(* LocEngReleaseATL: the connection leaves the machine that has it.        *)
LEMMA RouteRelease ==
  ASSUME R!RouteInv, R!releaseATL
  PROVE  R!RouteInv'
<1>1. PICK c : c = Head(rQueue).conn
  OBVIOUS
<1>2. PICK found : found = Listing(c)
  OBVIOUS
<1>a. PICK n : n = FirstListing(c)
  OBVIOUS
<1>3. /\ rQueue # <<>> /\ Head(rQueue).type = "ReleaseATL"
      /\ ready' = ready /\ dsClient' = dsClient /\ rRestarts' = rRestarts
      /\ es' = es /\ late' = late
  BY DEF R!releaseATL, R!HandlingDs
<1>4. /\ rQueue \in Seq(R!Queued) /\ R!MachinesSound
      /\ rView \in [Conns -> {"idle", "opening", "open", "closing"}]
      /\ DsMachine(ds) /\ R!D!Listed(ds) \subseteq es /\ late \subseteq es
  BY RouteParts DEF RouteTyped, DsTyped, DsMachine
<1>5. c \in Conns
  <2>1. Head(rQueue) \in R!Queued
    BY <1>3, <1>4, HeadTailProperties
  <2> QED BY <1>1, <1>3, <2>1, QueuedFields
<1>6. /\ found = {} => R!Homes(c) = {}
      /\ found # {} => \/ n \in {"agnss", "internet"} /\ c \in nif[n].active
                       \/ n = "ds" /\ c \in R!D!Listed(ds)
  BY <1>2, <1>4, <1>a, SearchFinds
<1>7. CASE /\ found # {} /\ n = "ds" /\ nif' = nif /\ asked' = asked
           /\ \E o \in R!D!onRsrcEvent(ds, "UNSUBSCRIBE", c, TRUE) : R!PerformDs(o, TRUE)
  <2>1. PICK o \in R!D!onRsrcEvent(ds, "UNSUBSCRIBE", c, TRUE) : R!PerformDs(o, TRUE)
    BY <1>7
  <2>2. c \in R!D!Listed(ds) /\ c \in es
    BY <1>4, <1>6, <1>7
  <2>3. /\ DsMachine(o.m) /\ R!D!Listed(o.m) \subseteq R!D!Listed(ds)
        /\ ds.active \ {c} \subseteq o.m.active
        /\ o.m.state = "Acquired" => ds.state = "Acquired"
        /\ o.told = R!D!Tell({c}, "UNSUBSCRIBE")
    BY <1>4, <2>1, <2>2, DsUnsubscribe
  <2>4. /\ \A x \in o.told : x.to = c
        /\ [to |-> c, status |-> "UNSUBSCRIBE"] \in o.told
    BY <2>3 DEF R!D!Tell
  <2>5. \A d : d \in ds.active /\ ds.state # "Acquired" =>
          \/ d \in o.m.active /\ o.m.state # "Acquired"
          \/ \E st \in {"GRANTED", "UNSUBSCRIBE", "DENIED"} : [to |-> d, status |-> st] \in o.told
    BY <2>3, <2>4
  <2>6. R!D!Listed(o.m) \subseteq es /\ \A x \in o.told : x.to \in es
    BY <1>4, <2>2, <2>3, <2>4
  <2> QED BY <1>1, <1>3, <1>4, <1>7, <2>1, <2>2, <2>3, <2>4, <2>5, <2>6, RouteDs
<1>8. ASSUME rQueue' = Tail(rQueue), UNCHANGED <<ds, rCall, rTimers>>
      PROVE  /\ R!QueueSound /\ rQueue' \in Seq(R!Queued) /\ R!QueueSound'
             /\ \A d \in Conns \ es : R!ViewSound(d)
             /\ R!Restarting' <=> R!Restarting
             /\ ~(c \notin es /\ R!Waiting("RequestATL", c)')
             /\ \A d \in Conns \ es : d # c =>
                  \A type \in {"RequestATL", "ReleaseATL"} : R!Waiting(type, d)' <=> R!Waiting(type, d)
             /\ \A d \in Conns \ es : R!Waiting("RequestATL", d)' => R!Waiting("RequestATL", d)
  BY <1>1, <1>3, <1>5, <1>8, RouteHead
<1>9. CASE /\ found # {} /\ n \in R!Nifs /\ rQueue' = Tail(rQueue) /\ UNCHANGED <<ds, rCall, rTimers>>
           /\ \E o \in R!A!onRsrcEvent(nif[n], "UNSUBSCRIBE", c, TRUE) : R!Perform(n, o, rView)
  <2>1. PICK o \in R!A!onRsrcEvent(nif[n], "UNSUBSCRIBE", c, TRUE) : R!Perform(n, o, rView)
    BY <1>9
  <2>2. n \in {"agnss", "internet"} /\ c \in nif[n].active
    BY <1>6, <1>9 DEF R!Nifs
  <2>3. AtlMachine(nif[n]) /\ ready
    <3>1. ready \in BOOLEAN
      BY DEF R!RouteInv
    <3> QED BY <2>2, <3>1, RouteMachines
  <2>4. /\ AtlMachine(o.m) /\ o.ask \in R!A!Asks
        /\ o.m.state \in {nif[n].state, "Released"}
        /\ AtlLeft(nif[n], c, o)
    BY <2>1, <2>2, <2>3, AtlUnsubscribe
  <2>5. PICK ids \in SUBSET nif[n].active : /\ c \in ids /\ o.m.active = nif[n].active \ ids
                                           /\ o.told = R!A!Tell(ids, "UNSUBSCRIBE")
    BY <2>4 DEF AtlLeft
  <2>6. /\ nif' \in [R!Nifs -> R!A!Machine] /\ nif'[n] = o.m
        /\ \A k \in {"agnss", "internet"} : k # n => nif'[k] = nif[k]
        /\ asked' \in Seq([nif : R!Nifs, ask : R!A!Asks])
        /\ rView' = R!Notified(rView, o.told)
        /\ rView' \in [Conns -> {"idle", "opening", "open", "closing"}]
        /\ R!MachinesSound'
    BY <1>3, <2>1, <2>2, <2>3, <2>4, RoutePerform
  <2>7. \A d \in Conns : rView'[d] = IF d \in ids THEN "idle" ELSE rView[d]
    BY <2>5, <2>6, NotifiedAll
  <2>8. ASSUME NEW d, d \notin ids, NEW k \in {"agnss", "internet"}
        PROVE  /\ d \in nif'[k].active <=> d \in nif[k].active
               /\ d \in nif[k].active /\ nif'[k].state = "Pending" => nif[k].state = "Pending"
    <3>1. CASE k = n
      BY <2>4, <2>5, <2>6, <2>8, <3>1
    <3>2. CASE k # n
      BY <2>6, <3>2
    <3> QED BY <3>1, <3>2
  <2>9. ASSUME NEW d \in Conns \ es, d \notin ids PROVE R!ViewSound(d)'
    <3>1. rView'[d] = rView[d] /\ d # c
      BY <2>5, <2>7, <2>9
    <3>2. \A type \in {"RequestATL", "ReleaseATL"} : R!Waiting(type, d)' <=> R!Waiting(type, d)
      BY <1>8, <1>9, <3>1
    <3> QED BY <1>3, <1>4, <1>8, <1>9, <2>6, <2>8, <2>9, <3>1, <3>2, ViewKept
  <2>10. ASSUME NEW d \in Conns \ es, d \in ids PROVE R!ViewSound(d)'
    <3>1. rView'[d] = "idle" /\ d \in nif[n].active /\ d \notin nif'[n].active
      BY <2>2, <2>5, <2>6, <2>7, <2>10
    <3>2. n \in R!Homes(d)
      BY <1>4, <2>2, <3>1, HomesAre
    <3>3. ASSUME ~R!Restarting
          PROVE  R!Homes(d)' = {} /\ ~R!Waiting("RequestATL", d)
      <4>1. /\ \A x, y \in R!Homes(d) : x = y
            /\ R!Waiting("RequestATL", d) => R!Homes(d) = {}
        BY <1>8, <1>9, <3>3 DEF R!ViewSound, R!AtMostOne
      <4>2. ASSUME NEW x \in R!Homes(d)' PROVE FALSE
        <5>1. x \in {"agnss", "internet"} /\ d \in nif'[x].active
          BY <2>6, <4>2, HomesArePrime
        <5>2. x # n
          BY <2>2, <3>1, <5>1
        <5>3. x \in R!Homes(d)
          BY <1>4, <2>6, <5>1, <5>2, HomesAre
        <5> QED BY <3>2, <4>1, <5>2, <5>3
      <4> QED BY <3>2, <4>1, <4>2
    <3>4. R!Waiting("RequestATL", d)' => R!Waiting("RequestATL", d)
      BY <1>8, <1>9
    <3> QED BY <1>4, <1>8, <1>9, <2>6, <3>1, <3>3, <3>4, ViewEnded
  <2>11. ASSUME NEW d \in Conns, rView'[d] = "opening", R!Homes(d) # {} PROVE R!Homes(d)' # {}
    <3>1. d \notin ids
      BY <2>7, <2>11
    <3>2. PICK x : x \in R!Homes(d)
      BY <2>11
    <3>3. x \in {"agnss", "internet"} /\ d \in nif[x].active
      BY <1>4, <3>2, HomesAre
    <3>4. x \in R!Homes(d)'
      BY <2>6, <2>8, <3>1, <3>3, HomesArePrime
    <3> QED BY <3>4
  <2>12. \A d \in Conns \ es : R!ViewSound(d)'
    BY <2>9, <2>10
  <2>13. \A d \in Conns : ViewStep(d)
    BY <2>7 DEF ViewStep
  <2>14. rView'[c] # "closing"
    BY <1>5, <2>5, <2>7
  <2> QED BY <1>1, <1>3, <1>9, <2>6, <2>11, <2>12, <2>13, <2>14, RouteNif
<1>10. CASE /\ found = {} /\ nif' = nif /\ asked' = asked /\ rView' = [rView EXCEPT ![c] = "idle"]
            /\ rQueue' = Tail(rQueue) /\ UNCHANGED <<ds, rCall, rTimers>>
  <2>1. R!MachinesSound'
    BY <1>3, <1>4, <1>10 DEF R!MachinesSound, R!Nifs
  <2>2. /\ rView' \in [Conns -> {"idle", "opening", "open", "closing"}]
        /\ rView'[c] = "idle" /\ \A d \in Conns : d # c => rView'[d] = rView[d]
    BY <1>4, <1>5, <1>10
  <2>3. ASSUME NEW d \in Conns \ es, d # c PROVE R!ViewSound(d)'
    <3>1. \A type \in {"RequestATL", "ReleaseATL"} : R!Waiting(type, d)' <=> R!Waiting(type, d)
      BY <1>8, <1>10, <2>3
    <3> QED BY <1>3, <1>4, <1>8, <1>10, <2>1, <2>2, <2>3, <3>1, ViewKept
  <2>4. ASSUME NEW d PROVE R!Homes(d)' = R!Homes(d)
    BY <1>10 DEF R!Homes, R!Subscribers
  <2>5. ASSUME c \notin es PROVE R!ViewSound(c)'
    <3>1. R!Homes(c)' = {}
      BY <1>6, <1>10, <2>4
    <3>2. R!ViewSound(c)
      BY <1>5, <1>8, <1>10, <2>5
    <3> QED BY <1>4, <1>5, <1>8, <1>10, <2>1, <2>2, <2>5, <3>1, <3>2, ViewEnded
  <2>6. \A d \in Conns \ es : R!ViewSound(d)'
    BY <2>3, <2>5
  <2>7. \A d \in Conns : ViewStep(d)
    BY <2>2 DEF ViewStep
  <2>8. nif' \in [R!Nifs -> R!A!Machine] /\ asked' \in Seq([nif : R!Nifs, ask : R!A!Asks])
    BY <1>10, RouteParts DEF RouteTyped
  <2> QED BY <1>1, <1>3, <1>10, <2>1, <2>2, <2>4, <2>6, <2>7, <2>8, RouteNif
<1> QED BY <1>1, <1>2, <1>a, <1>7, <1>9, <1>10 DEF R!releaseATL, Listing, FirstListing

(* LocEngAtlOpenSuccess, LocEngAtlClosed, LocEngAtlOpenFailed: those who   *)
(* wait are granted, or all of a machine's connections end.                *)
LEMMA RouteAnswer ==
  ASSUME R!RouteInv, R!onAnswer
  PROVE  R!RouteInv'
<1>1. /\ rQueue # <<>> /\ Head(rQueue).type = "Answer" /\ rQueue' = Tail(rQueue)
      /\ ready' = ready /\ dsClient' = dsClient /\ rRestarts' = rRestarts /\ es' = es
      /\ ds' = ds /\ rCall' = rCall /\ rTimers' = rTimers /\ late' = late
  BY DEF R!onAnswer, R!Handling, R!dsVars
<1>2. /\ rQueue \in Seq(R!Queued) /\ R!QueueSound /\ R!MachinesSound
      /\ rQueue' \in Seq(R!Queued) /\ R!QueueSound' /\ Head(rQueue) \in R!Queued
      /\ rView \in [Conns -> {"idle", "opening", "open", "closing"}]
      /\ \A d \in Conns \ es : R!ViewSound(d)
      /\ \A d \in Conns : R!Served(d)
      /\ R!Restarting' <=> R!Restarting
  BY <1>1, RouteHead
<1>3. PICK n : n = Head(rQueue).conn
  OBVIOUS
<1>4. PICK event : event = Head(rQueue).arg
  OBVIOUS
<1>5. n = "agnss" /\ event \in {"GRANTED", "DENIED", "RELEASED"}
  BY <1>1, <1>2, <1>3, <1>4, QueuedFields
<1>6. ASSUME NEW d \in Conns \ es
      PROVE  \A type \in {"RequestATL", "ReleaseATL"} : R!Waiting(type, d)' <=> R!Waiting(type, d)
  BY <1>1, RouteHead
<1>7. PICK o \in R!A!onRsrcEvent(nif[n], event, R!A!NULL, TRUE) : R!Perform(n, o, rView)
  BY <1>3, <1>4 DEF R!onAnswer
<1>8. AtlMachine(nif[n]) /\ (~ready => nif[n].active = {})
  BY <1>5, RouteMachines
<1>9. /\ AtlMachine(o.m) /\ o.ask \in R!A!Asks
      /\ \/ o.m = nif[n] /\ o.told = {}
         \/ /\ nif[n].state = "Pending" /\ o.m.state = "Acquired" /\ o.m.active = nif[n].active
            /\ o.told = R!A!Tell(nif[n].active, "GRANTED")
         \/ /\ o.m.state = "Released" /\ o.m.active = {}
            /\ o.told = R!A!Tell(nif[n].active, "RELEASED") /\ nif[n].state = "Acquired"
         \/ /\ o.m.state = "Released" /\ o.m.active = {}
            /\ o.told = R!A!Tell(nif[n].active, "DENIED") /\ nif[n].state = "Pending"
  BY <1>5, <1>7, <1>8, AtlAnswered
<1>10. ready \/ o.m.active = {}
  <2>1. ready \in BOOLEAN
    BY DEF R!RouteInv
  <2> QED BY <1>8, <1>9, <2>1
<1>11. /\ nif' \in [R!Nifs -> R!A!Machine] /\ nif'[n] = o.m
       /\ \A k \in {"agnss", "internet"} : k # n => nif'[k] = nif[k]
       /\ asked' \in Seq([nif : R!Nifs, ask : R!A!Asks])
       /\ rView' = R!Notified(rView, o.told)
       /\ rView' \in [Conns -> {"idle", "opening", "open", "closing"}]
       /\ R!MachinesSound'
  BY <1>1, <1>5, <1>7, <1>9, <1>10, RoutePerform
(* What a connection is told.                                              *)
<1>12. ASSUME NEW d \in Conns, o.m = nif[n] \/ d \notin nif[n].active PROVE rView'[d] = rView[d]
  <2>1. CASE o.told = {}
    BY <1>11, <2>1, NotifiedNone
  <2>2. ASSUME NEW st, o.told = R!A!Tell(nif[n].active, st), d \notin nif[n].active
        PROVE  rView'[d] = rView[d]
    BY <1>11, <2>2, NotifiedAll
  <2>3. o.told = {} \/ d \notin nif[n].active
    BY <1>9, <1>12
  <2> QED BY <1>9, <2>1, <2>2, <2>3
<1>13. ASSUME NEW d \in Conns, d \in nif[n].active, o.told = R!A!Tell(nif[n].active, "GRANTED")
       PROVE  rView'[d] = IF rView[d] = "opening" THEN "open" ELSE rView[d]
  <2>1. R!Notified(rView, R!A!Tell(nif[n].active, "GRANTED"))[d] =
          IF d \notin nif[n].active THEN rView[d]
          ELSE IF "GRANTED" \in {"UNSUBSCRIBE", "RELEASED"} THEN "idle"
          ELSE R!AtlOpen(rView[d], "GRANTED" = "GRANTED")
    BY NotifiedAll
  <2>2. R!AtlOpen(rView[d], "GRANTED" = "GRANTED") = IF rView[d] = "opening" THEN "open" ELSE rView[d]
    BY DEF R!AtlOpen
  <2> QED BY <1>11, <1>13, <2>1, <2>2
<1>14. ASSUME NEW d \in Conns, d \in nif[n].active, o.told = R!A!Tell(nif[n].active, "RELEASED")
       PROVE  rView'[d] = "idle"
  <2>1. R!Notified(rView, R!A!Tell(nif[n].active, "RELEASED"))[d] =
          IF d \notin nif[n].active THEN rView[d]
          ELSE IF "RELEASED" \in {"UNSUBSCRIBE", "RELEASED"} THEN "idle"
          ELSE R!AtlOpen(rView[d], "RELEASED" = "GRANTED")
    BY NotifiedAll
  <2> QED BY <1>11, <1>14, <2>1
<1>15. ASSUME NEW d \in Conns, d \in nif[n].active, o.told = R!A!Tell(nif[n].active, "DENIED")
       PROVE  rView'[d] = IF rView[d] = "opening" THEN "idle" ELSE rView[d]
  <2>1. R!Notified(rView, R!A!Tell(nif[n].active, "DENIED"))[d] =
          IF d \notin nif[n].active THEN rView[d]
          ELSE IF "DENIED" \in {"UNSUBSCRIBE", "RELEASED"} THEN "idle"
          ELSE R!AtlOpen(rView[d], "DENIED" = "GRANTED")
    BY NotifiedAll
  <2>2. R!AtlOpen(rView[d], "DENIED" = "GRANTED") = IF rView[d] = "opening" THEN "idle" ELSE rView[d]
    BY DEF R!AtlOpen
  <2> QED BY <1>11, <1>15, <2>1, <2>2
<1>16. ASSUME NEW d \in Conns \ es, o.m = nif[n] \/ d \notin nif[n].active PROVE R!ViewSound(d)'
  <2>1. rView'[d] = rView[d]
    BY <1>12, <1>16
  <2>2. \A k \in {"agnss", "internet"} :
          /\ d \in nif'[k].active <=> d \in nif[k].active
          /\ d \in nif[k].active /\ nif'[k].state = "Pending" => nif[k].state = "Pending"
    <3>1. /\ d \in o.m.active <=> d \in nif[n].active
          /\ d \in nif[n].active /\ o.m.state = "Pending" => nif[n].state = "Pending"
      BY <1>9, <1>16
    <3> QED BY <1>11, <3>1
  <2> QED BY <1>1, <1>2, <1>6, <1>11, <1>16, <2>1, <2>2, ViewKept
<1>17. ASSUME NEW d \in Conns \ es, d \in nif[n].active, o.m # nif[n] PROVE R!ViewSound(d)'
  <2>0. \A x : /\ x \in R!Homes(d) <=> x \in {"agnss", "internet"} /\ d \in nif[x].active
               /\ x \in R!Homes(d)' <=> x \in {"agnss", "internet"} /\ d \in nif'[x].active
    BY <1>2, <1>11, HomesAre, HomesArePrime
  <2>1. n \in R!Homes(d)
    BY <1>5, <1>17, <2>0
  <2>2. R!ViewSound(d) /\ R!Served(d)
    BY <1>2, <1>17
  <2>3. ASSUME ~R!Restarting
        PROVE  /\ \A x, y \in R!Homes(d) : x = y
               /\ ~R!Waiting("RequestATL", d)
               /\ R!Waiting("ReleaseATL", d) => rView[d] \in {"closing", "idle"}
               /\ R!Waiting("ReleaseATL", d) => rView[d] # "idle"
               /\ ~R!Waiting("ReleaseATL", d) => rView[d] \in {"opening", "open"}
    <3>1. R!OnItsWay(d) <=> R!Waiting("RequestATL", d) \/ R!Waiting("ReleaseATL", d)
      BY <1>2, <1>17, OnItsWayIs
    <3> QED BY <2>1, <2>2, <2>3, <3>1 DEF R!ViewSound, R!AtMostOne
  <2>4. R!OnItsWay(d)' <=> R!Waiting("RequestATL", d)' \/ R!Waiting("ReleaseATL", d)'
    BY <1>1, <1>2, <1>17, OnItsWayIsPrime
  <2>5. /\ R!Waiting("RequestATL", d)' <=> R!Waiting("RequestATL", d)
        /\ R!Waiting("ReleaseATL", d)' <=> R!Waiting("ReleaseATL", d)
    BY <1>6, <1>17
  <2>6. /\ R!Restarting => rView[d] = "idle"
        /\ R!Waiting("ReleaseATL", d) => rView[d] \in {"closing", "idle"}
    BY <2>2 DEF R!ViewSound, R!Served
  <2>8. CASE /\ nif[n].state = "Pending" /\ o.m.state = "Acquired" /\ o.m.active = nif[n].active
             /\ o.told = R!A!Tell(nif[n].active, "GRANTED")
    <3>1. rView'[d] = IF rView[d] = "opening" THEN "open" ELSE rView[d]
      BY <1>13, <1>17, <2>8
    <3>2. R!Homes(d)' = R!Homes(d)
      <4>1. \A x \in {"agnss", "internet"} : nif'[x].active = nif[x].active
        BY <1>11, <2>8
      <4> QED BY <2>0, <4>1
    <3>3. \A k \in R!Nifs : d \in nif'[k].active /\ nif'[k].state = "Pending" => rView'[d] # "open"
      <4> SUFFICES ASSUME NEW k \in R!Nifs, d \in nif'[k].active, nif'[k].state = "Pending"
                   PROVE  rView'[d] # "open"
        OBVIOUS
      <4>1. CASE R!Restarting
        BY <2>6, <3>1, <4>1
      <4>2. CASE ~R!Restarting
        <5>1. k # n
          BY <1>11, <2>8
        <5>2. k \in R!Homes(d)
          BY <2>0, <3>2 DEF R!Nifs
        <5> QED BY <2>1, <2>3, <4>2, <5>1, <5>2
      <4> QED BY <4>1, <4>2
    <3>4. ~R!Restarting =>
            /\ R!AtMostOne(R!Homes(d)') /\ ~R!Waiting("RequestATL", d)'
            /\ ~(R!Waiting("ReleaseATL", d)' /\ rView'[d] = "idle")
            /\ ~R!OnItsWay(d)' => rView'[d] \in {"opening", "open"} /\ R!Homes(d)' # {}
      BY <2>1, <2>3, <2>4, <2>5, <3>1, <3>2 DEF R!AtMostOne
    <3>5. R!Waiting("ReleaseATL", d)' => rView'[d] \in {"closing", "idle"}
      BY <2>5, <2>6, <3>1
    <3> QED BY <1>2, <3>3, <3>4, <3>5 DEF R!ViewSound, R!Nifs, R!AtMostOne
  <2>9. ASSUME ~R!Restarting, o.m.active = {}
        PROVE  R!Homes(d)' = {}
    <3>1. ASSUME NEW x \in R!Homes(d)' PROVE FALSE
      <4>1. x # n
        BY <1>5, <1>11, <2>0, <2>9, <3>1
      <4>2. x \in R!Homes(d)
        BY <1>11, <2>0, <3>1, <4>1
      <4> QED BY <2>1, <2>3, <2>9, <4>1, <4>2
    <3> QED BY <3>1
  <2>10. CASE o.m.active = {} /\ o.told = R!A!Tell(nif[n].active, "RELEASED")
    <3>1. rView'[d] = "idle"
      BY <1>14, <1>17, <2>10
    <3> QED BY <1>2, <1>11, <1>17, <2>2, <2>3, <2>5, <2>9, <2>10, <3>1, ViewEnded
  <2>11. CASE /\ o.m.active = {} /\ o.told = R!A!Tell(nif[n].active, "DENIED") /\ nif[n].state = "Pending"
    <3>1. rView'[d] = IF rView[d] = "opening" THEN "idle" ELSE rView[d]
      BY <1>15, <1>17, <2>11
    <3>2. rView[d] # "open"
      BY <1>5, <1>17, <2>2, <2>11 DEF R!ViewSound, R!Nifs
    <3>3. rView'[d] # "open"
      BY <3>1, <3>2
    <3>4. ~R!Restarting =>
            /\ R!Homes(d)' = {} /\ ~R!Waiting("RequestATL", d)'
            /\ ~R!OnItsWay(d)' => rView'[d] = "idle"
      BY <2>3, <2>4, <2>5, <2>9, <2>11, <3>1, <3>2
    <3>5. R!Waiting("ReleaseATL", d)' => rView'[d] \in {"closing", "idle"}
      BY <2>5, <2>6, <3>1
    <3>6. ~R!Restarting /\ R!Waiting("ReleaseATL", d)' /\ rView'[d] = "idle" => R!Homes(d)' = {}
      BY <3>4
    <3> QED BY <1>2, <3>3, <3>4, <3>5, <3>6 DEF R!ViewSound, R!Nifs, R!AtMostOne
  <2> QED BY <1>9, <1>17, <2>8, <2>10, <2>11
<1>18. \A d \in Conns \ es : R!ViewSound(d)'
  BY <1>16, <1>17
<1>19. ASSUME NEW d \in Conns PROVE ViewStep(d)
  <2>1. CASE o.m = nif[n] \/ d \notin nif[n].active
    BY <1>12, <2>1 DEF ViewStep
  <2>2. CASE o.m # nif[n] /\ d \in nif[n].active
    BY <1>9, <1>13, <1>14, <1>15, <2>2 DEF ViewStep
  <2> QED BY <2>1, <2>2
<1>20. ASSUME NEW d \in Conns, rView'[d] = "opening", R!Homes(d) # {} PROVE R!Homes(d)' # {}
  <2>1. PICK x : x \in R!Homes(d)
    BY <1>20
  <2>2. x \in {"agnss", "internet"} /\ d \in nif[x].active
    BY <1>2, <2>1, HomesAre
  <2>3. o.m = nif[n] \/ d \notin nif[n].active
    BY <1>9, <1>13, <1>14, <1>15, <1>20
  <2>4. d \in nif'[x].active
    BY <1>11, <2>2, <2>3
  <2>5. x \in R!Homes(d)'
    BY <1>11, <2>2, <2>4, HomesArePrime
  <2> QED BY <2>5
<1> QED BY <1>1, <1>3, <1>11, <1>18, <1>19, <1>20, RouteNif

(* LocEngUp: the interfaces' machines have dropped their lists.            *)
LEMMA RouteEngineUp ==
  ASSUME R!RouteInv, R!engineUp
  PROVE  R!RouteInv'
<1>1. /\ rQueue # <<>> /\ Head(rQueue).type = "EngineUp" /\ rQueue' = Tail(rQueue)
      /\ ready' = ready /\ dsClient' = dsClient /\ rRestarts' = rRestarts /\ es' = es
      /\ ds' = ds /\ rCall' = rCall /\ rTimers' = rTimers /\ late' = late
      /\ asked' = asked /\ rView' = rView
      /\ nif' = IF ready THEN [n \in R!Nifs |-> R!A!dropAllSubscribers(nif[n])] ELSE nif
  BY DEF R!engineUp, R!Handling, R!dsVars
<1>2. /\ DsTyped /\ RouteTyped
  BY RouteParts
<1>3. /\ rQueue' \in Seq(R!Queued) /\ R!QueueSound' /\ R!MachinesSound
      /\ \A d \in Conns : R!Served(d)
      /\ R!Restarting /\ (R!Restarting' => R!Restarting)
      /\ \A d \in Conns \ es : ~R!Waiting("RequestATL", d)' /\ ~R!Waiting("ReleaseATL", d)'
  BY <1>1, RouteHead
<1>4. nif \in [R!Nifs -> R!A!Machine]
  BY <1>2 DEF RouteTyped
<1>5. ASSUME NEW n \in R!Nifs
      PROVE  nif'[n] \in R!A!Machine /\ nif'[n].active = {} /\ nif'[n].inactive = {}
             /\ nif'[n].state = nif[n].state
  <2>1. CASE ready
    BY <1>1, <1>4, <2>1 DEF R!A!dropAllSubscribers, R!A!Machine
  <2>2. CASE ~ready
    BY <1>1, <1>3, <1>4, <2>2 DEF R!MachinesSound
  <2> QED BY <2>1, <2>2
<1>6. nif' \in [R!Nifs -> R!A!Machine]
  <2>1. CASE ready
    BY <1>1, <1>5, <2>1
  <2>2. CASE ~ready
    BY <1>1, <1>4, <2>2
  <2> QED BY <2>1, <2>2
<1>7. R!MachinesSound'
  BY <1>3, <1>5 DEF R!MachinesSound, R!Nifs
<1>8. ASSUME NEW d \in Conns PROVE rView'[d] = "idle" /\ rRestarts' > 0
  BY <1>1, <1>3 DEF R!Served
<1>9. ASSUME NEW d \in Conns \ es' PROVE R!ViewSound(d)'
  <2>1. \A x : x \in R!Homes(d)' <=> x \in {"agnss", "internet"} /\ d \in nif'[x].active
    BY <1>7, HomesArePrime
  <2>2. R!Homes(d)' = {}
    BY <1>5, <2>1 DEF R!Nifs
  <2>3. rView'[d] = "idle"
    BY <1>8
  <2> QED BY <1>1, <1>3, <2>2, <2>3 DEF R!ViewSound, R!Nifs, R!AtMostOne
<1>10. ASSUME NEW d \in Conns PROVE R!Served(d)'
  BY <1>8 DEF R!Served
<1>11. DsTyped'
  BY <1>1, <1>2 DEF DsTyped
<1>12. RouteTyped'
  BY <1>1, <1>2, <1>3, <1>6, <1>7 DEF RouteTyped
<1> QED BY <1>9, <1>10, <1>11, <1>12, RoutePartsPrime

(* A message that names no connection, or an emergency one, is queued.     *)
LEMMA RouteQueued ==
  ASSUME R!RouteInv, NEW q \in R!Queued, rQueue' = Append(rQueue, q), q.conn \notin Conns \ es,
         q.type # "EngineUp", q.type = "RequestSuplEs" => q.conn \in es,
         nif' = nif, ds' = ds, es' = es, late' = late, rView' = rView, rRestarts' = rRestarts,
         ready' = ready, dsClient' = dsClient,
         rCall' \in {"none", "starting", "up"}, rTimers' \in Nat,
         asked' \in Seq([nif : R!Nifs, ask : R!A!Asks])
  PROVE  R!RouteInv'
<1>1. RouteTyped
  BY RouteParts
<1>2. rQueue \in Seq(R!Queued) /\ R!QueueSound /\ ready \in BOOLEAN /\ dsClient \in BOOLEAN
  BY <1>1 DEF RouteTyped
<1>3. /\ rQueue' \in Seq(R!Queued) /\ R!QueueSound'
      /\ \A c, type :
           R!Waiting(type, c)' <=> R!Waiting(type, c) \/ (q.type = type /\ q.conn = c)
      /\ R!Restarting' <=> R!Restarting
  BY <1>2, RouteAppend
<1>4. \A c, type : R!Waiting(type, c) => R!Waiting(type, c)'
  BY <1>3
<1>5. \A c \in Conns \ es : \A type \in {"RequestATL", "ReleaseATL"} :
        R!Waiting(type, c)' => R!Waiting(type, c)
  BY <1>3
<1> QED BY <1>2, <1>3, <1>4, <1>5, RouteIdle

(* The framework answers a request.                                        *)
LEMMA RouteFramework ==
  ASSUME R!RouteInv, R!framework
  PROVE  R!RouteInv'
<1>1. /\ ready' = ready /\ dsClient' = dsClient /\ rRestarts' = rRestarts /\ es' = es
      /\ ds' = ds /\ rCall' = rCall /\ rTimers' = rTimers /\ late' = late
      /\ nif' = nif /\ rView' = rView /\ asked # <<>> /\ asked' = Tail(asked)
  BY DEF R!framework, R!dsVars
<1>2. DsTyped /\ RouteTyped
  BY RouteParts
<1>3. PICK st \in {"GRANTED", "DENIED", "RELEASED"} :
         rQueue' = Append(rQueue, R!Msg("Answer", "agnss", st))
  BY DEF R!framework, R!answer, R!getAgpsStateMachine
<1>4. PICK q : q = R!Msg("Answer", "agnss", st)
  OBVIOUS
<1>5. q \in R!Queued /\ q.type = "Answer" /\ q.conn = "agnss" /\ "agnss" \notin Conns
  BY <1>4, RouteAssumption DEF R!Msg, R!Queued
<1>6. asked' \in Seq([nif : R!Nifs, ask : R!A!Asks])
  <2>1. PICK S : S = [nif : R!Nifs, ask : R!A!Asks]
    OBVIOUS
  <2>2. asked' \in Seq(S)
    BY <1>1, <1>2, <2>1, HeadTailProperties DEF RouteTyped
  <2> QED BY <2>1, <2>2
<1>7. rCall' \in {"none", "starting", "up"} /\ rTimers' \in Nat
  BY <1>1, <1>2 DEF DsTyped
<1> QED BY <1>1, <1>3, <1>4, <1>5, <1>6, <1>7, RouteQueued

(* The modem's data services tell of the call.                             *)
LEMMA RouteService ==
  ASSUME R!RouteInv, R!dataCall
  PROVE  R!RouteInv'
<1>1. /\ ready' = ready /\ dsClient' = dsClient /\ rRestarts' = rRestarts /\ es' = es
      /\ ds' = ds /\ rTimers' = rTimers /\ late' = late
      /\ nif' = nif /\ rView' = rView /\ asked' = asked
      /\ rCall' \in {"none", "starting", "up"}
  BY DEF R!dataCall
<1>2. DsTyped /\ RouteTyped
  BY RouteParts
<1>3. PICK type \in {"SuplEsOpened", "SuplEsClosed"} :
         rQueue' = Append(rQueue, R!Msg(type, "", ""))
  BY DEF R!dataCall
<1>4. PICK q : q = R!Msg(type, "", "")
  OBVIOUS
<1>5. /\ q \in R!Queued /\ q.type \in {"SuplEsOpened", "SuplEsClosed"} /\ q.conn = ""
      /\ "" \notin Conns
  BY <1>4, RouteAssumption DEF R!Msg, R!Queued
<1>6. rTimers' \in Nat /\ asked' \in Seq([nif : R!Nifs, ask : R!A!Asks])
  BY <1>1, <1>2 DEF DsTyped, RouteTyped
<1> QED BY <1>1, <1>3, <1>4, <1>5, <1>6, RouteQueued

(* A retry timer fires: an active subscriber of ds_nif asks again.         *)
LEMMA RouteRetry ==
  ASSUME R!RouteInv, R!retryCallback
  PROVE  R!RouteInv'
<1>1. /\ ready' = ready /\ dsClient' = dsClient /\ rRestarts' = rRestarts /\ es' = es
      /\ ds' = ds /\ rCall' = rCall /\ late' = late
      /\ nif' = nif /\ rView' = rView /\ asked' = asked
      /\ rTimers > 0 /\ rTimers' = rTimers - 1
  BY DEF R!retryCallback
<1>2. DsTyped /\ RouteTyped
  BY RouteParts
<1>3. /\ rCall' \in {"none", "starting", "up"} /\ rTimers' \in Nat
      /\ asked' \in Seq([nif : R!Nifs, ask : R!A!Asks])
  <2>1. rTimers \in Nat
    BY <1>2 DEF DsTyped
  <2>2. rTimers' \in Nat
    BY <1>1, <2>1
  <2> QED BY <1>1, <1>2, <2>2 DEF DsTyped, RouteTyped
<1>4. ASSUME NEW c \in ds.active, rQueue' = Append(rQueue, R!Msg("RequestSuplEs", c, ""))
      PROVE  R!RouteInv'
  <2>1. PICK q : q = R!Msg("RequestSuplEs", c, "")
    OBVIOUS
  <2>2. c \in es /\ c \in Conns
    BY <1>2 DEF DsTyped, R!D!Listed
  <2>3. q \in R!Queued /\ q.type = "RequestSuplEs" /\ q.conn = c
    BY <2>1, <2>2 DEF R!Msg, R!Queued
  <2> QED BY <1>1, <1>3, <1>4, <2>1, <2>2, <2>3, RouteQueued
<1>5. ASSUME rQueue' = rQueue PROVE R!RouteInv'
  <2>1. R!QueueSound' /\ rQueue' \in Seq(R!Queued) /\ (R!Restarting' <=> R!Restarting)
    BY <1>1, <1>2, <1>5 DEF RouteTyped, R!QueueSound, R!Restarting
  <2>2. \A d, type : R!Waiting(type, d)' <=> R!Waiting(type, d)
    BY <1>5 DEF R!Waiting
  <2>3. ready' \in BOOLEAN /\ dsClient' \in BOOLEAN
    BY <1>1, <1>2 DEF RouteTyped
  <2> QED BY <1>1, <1>3, <2>1, <2>2, <2>3, RouteIdle
<1> QED BY <1>4, <1>5 DEF R!retryCallback

(* loc_eng_agps_init.                                                      *)
LEMMA RouteReady ==
  ASSUME R!RouteInv, R!agps_init
  PROVE  R!RouteInv'
<1>1. /\ ready' = TRUE /\ dsClient' \in BOOLEAN /\ nif' = nif /\ rQueue' = rQueue /\ es' = es
      /\ ds' = ds /\ rCall' = rCall /\ rTimers' = rTimers /\ late' = late
      /\ asked' = asked /\ rView' = rView /\ rRestarts' = rRestarts
  BY DEF R!agps_init, R!dsVars
<1>2. DsTyped /\ RouteTyped
  BY RouteParts
<1>3. R!QueueSound' /\ rQueue' \in Seq(R!Queued) /\ (R!Restarting' <=> R!Restarting)
  BY <1>1, <1>2 DEF RouteTyped, R!QueueSound, R!Restarting
<1>4. \A d, type : R!Waiting(type, d)' <=> R!Waiting(type, d)
  BY <1>1 DEF R!Waiting
<1>5. /\ rCall' \in {"none", "starting", "up"} /\ rTimers' \in Nat
      /\ asked' \in Seq([nif : R!Nifs, ask : R!A!Asks])
  BY <1>1, <1>2 DEF DsTyped, RouteTyped
<1> QED BY <1>1, <1>3, <1>4, <1>5, RouteIdle

(* No step of another part touches the routing.                            *)
LEMMA RouteQuiet ==
  ASSUME R!RouteInv, UNCHANGED routing
  PROVE  R!RouteInv'
<1>1. /\ ready' = ready /\ dsClient' = dsClient /\ nif' = nif /\ rQueue' = rQueue /\ es' = es
      /\ ds' = ds /\ rCall' = rCall /\ rTimers' = rTimers /\ late' = late
      /\ asked' = asked /\ rView' = rView /\ rRestarts' = rRestarts
  BY DEF routing
<1>2. DsTyped /\ RouteTyped
  BY RouteParts
<1>3. R!QueueSound' /\ rQueue' \in Seq(R!Queued) /\ (R!Restarting' <=> R!Restarting)
  BY <1>1, <1>2 DEF RouteTyped, R!QueueSound, R!Restarting
<1>4. \A d, type : R!Waiting(type, d)' <=> R!Waiting(type, d)
  BY <1>1 DEF R!Waiting
<1>5. /\ ready' \in BOOLEAN /\ dsClient' \in BOOLEAN
      /\ rCall' \in {"none", "starting", "up"} /\ rTimers' \in Nat
      /\ asked' \in Seq([nif : R!Nifs, ask : R!A!Asks])
  BY <1>1, <1>2 DEF DsTyped, RouteTyped
<1> QED BY <1>1, <1>3, <1>4, <1>5, RouteIdle

(* The modem asks for or gives up a connection: what changes for others.   *)
LEMMA RouteOthers ==
  ASSUME R!RouteInv, NEW c \in Conns, NEW q \in R!Queued, rQueue' = Append(rQueue, q), q.conn = c,
         q.type \in {"RequestATL", "RequestSuplEs", "ReleaseATL"},
         ready' = ready, dsClient' = dsClient, nif' = nif, ds' = ds, rCall' = rCall,
         rTimers' = rTimers, asked' = asked, rRestarts' = rRestarts, ~R!Restarting,
         es \subseteq es', es' \subseteq es \cup {c}, late \ {c} \subseteq late', late' \subseteq late,
         rView' \in [Conns -> {"idle", "opening", "open", "closing"}],
         \A d \in Conns : d # c => rView'[d] = rView[d],
         q.type = "RequestSuplEs" => c \in es',
         c \notin es' => /\ ~R!Waiting("ReleaseATL", c)
                         /\ R!Waiting("RequestATL", c) => q.type = "ReleaseATL",
         rView'[c] = "opening" => q.type \in {"RequestATL", "RequestSuplEs"},
         rView'[c] = "closing" => q.type = "ReleaseATL",
         c \notin es' => R!ViewSound(c)'
  PROVE  R!RouteInv'
<1>1. /\ DsTyped /\ RouteTyped /\ \A d \in Conns \ es : R!ViewSound(d)
      /\ \A d \in Conns : R!Served(d)
  BY RouteParts
<1>2. rQueue \in Seq(R!Queued) /\ R!QueueSound /\ R!MachinesSound
  BY <1>1 DEF RouteTyped
<1>3. /\ rQueue' \in Seq(R!Queued) /\ R!QueueSound'
      /\ \A d, type :
           R!Waiting(type, d)' <=> R!Waiting(type, d) \/ (q.type = type /\ q.conn = d)
      /\ R!Restarting' <=> R!Restarting
  BY <1>2, RouteAppend
<1>4. DsTyped'
  BY <1>1 DEF DsTyped
<1>5. R!MachinesSound'
  BY <1>2 DEF R!MachinesSound, R!Nifs
<1>6. RouteTyped'
  BY <1>1, <1>3, <1>5 DEF RouteTyped
<1>7. ASSUME NEW d \in Conns \ es', d # c PROVE R!ViewSound(d)'
  <2>1. R!ViewSound(d) /\ rView'[d] = rView[d]
    BY <1>1, <1>7
  <2>2. \A type \in {"RequestATL", "ReleaseATL"} : R!Waiting(type, d)' <=> R!Waiting(type, d)
    BY <1>3, <1>7
  <2> QED BY <1>2, <1>3, <1>5, <1>7, <2>1, <2>2, ViewKept
<1>8. ASSUME NEW d \in Conns, d # c PROVE R!Served(d)'
  <2>1. R!Served(d) /\ ViewStep(d)
    BY <1>1, <1>8 DEF ViewStep
  <2>2. R!Homes(d)' = R!Homes(d)
    BY DEF R!Homes, R!Subscribers
  <2>3. R!Waiting("ReleaseATL", d) => R!Waiting("ReleaseATL", d)'
    BY <1>3
  <2>4. R!Provided(d) => R!Provided(d)'
    BY <1>3, <1>8, <2>2 DEF R!Provided
  <2> QED BY <1>3, <2>1, <2>3, <2>4, ServedStep
<1>9. R!Served(c)'
  <2>1. R!Waiting(q.type, c)' /\ ~R!Restarting'
    BY <1>3
  <2> QED BY <2>1 DEF R!Served, R!Provided
<1>10. ASSUME NEW d \in Conns \ es' PROVE R!ViewSound(d)'
  BY <1>7, <1>10
<1>11. ASSUME NEW d \in Conns PROVE R!Served(d)'
  BY <1>8, <1>9
<1> QED BY <1>4, <1>6, <1>10, <1>11, RoutePartsPrime

LEMMA RouteModem ==
  ASSUME R!RouteInv, NEW c \in Conns,
         R!modemRelease(c) \/ \E type \in R!Types \cup {"SUPL_ES"} : R!modemRequest(c, type)
  PROVE  R!RouteInv'
<1>1. /\ ready' = ready /\ dsClient' = dsClient /\ rRestarts' = rRestarts /\ ds' = ds
      /\ rCall' = rCall /\ rTimers' = rTimers
      /\ nif' = nif /\ asked' = asked /\ ~R!Restarting
  BY DEF R!modemRelease, R!modemRequest, R!dsVars
<1>2. /\ DsTyped /\ RouteTyped /\ \A d \in Conns \ es : R!ViewSound(d)
  BY RouteParts
<1>3. /\ rQueue \in Seq(R!Queued) /\ R!QueueSound /\ R!MachinesSound
      /\ rView \in [Conns -> {"idle", "opening", "open", "closing"}]
  BY <1>2 DEF RouteTyped
<1>4. R!Homes(c)' = R!Homes(c)
  BY <1>1 DEF R!Homes, R!Subscribers
<1>5. c \notin es => R!ViewSound(c)
  BY <1>2
<1>6. ASSUME R!modemRelease(c) PROVE R!RouteInv'
  <2>1. /\ rView[c] \in {"opening", "open"} /\ rView' = [rView EXCEPT ![c] = "closing"]
        /\ rQueue' = Append(rQueue, R!Msg("ReleaseATL", c, "")) /\ es' = es /\ late' = late
    BY <1>6 DEF R!modemRelease, R!dsVars
  <2>2. PICK q : q = R!Msg("ReleaseATL", c, "")
    OBVIOUS
  <2>3. q \in R!Queued /\ q.type = "ReleaseATL" /\ q.conn = c
    BY <2>2 DEF R!Msg, R!Queued
  <2>4. c \notin es => ~R!Waiting("ReleaseATL", c)
    BY <1>5, <2>1 DEF R!ViewSound
  <2>5. /\ rView' \in [Conns -> {"idle", "opening", "open", "closing"}]
        /\ rView'[c] = "closing" /\ \A d \in Conns : d # c => rView'[d] = rView[d]
    BY <1>3, <2>1
  <2>6. ASSUME c \notin es PROVE R!ViewSound(c)'
    <3>1. /\ \A d, type :
               R!Waiting(type, d)' <=> R!Waiting(type, d) \/ (q.type = type /\ q.conn = d)
          /\ R!Restarting' <=> R!Restarting
      BY <1>1, <1>3, <2>1, <2>2, <2>3, <2>4, <2>6, RouteAppend
    <3>2. R!Waiting("ReleaseATL", c)' /\ (R!Waiting("RequestATL", c)' <=> R!Waiting("RequestATL", c))
      BY <2>3, <3>1
    <3>3. R!OnItsWay(c)'
      BY <3>2 DEF R!OnItsWay, R!Waiting
    <3>4. /\ \A x, y \in R!Homes(c) : x = y
          /\ R!Waiting("RequestATL", c) => R!Homes(c) = {}
      BY <1>1, <1>5, <2>6 DEF R!ViewSound, R!AtMostOne
    <3> QED BY <1>1, <1>4, <2>5, <3>1, <3>2, <3>3, <3>4 DEF R!ViewSound, R!Nifs, R!AtMostOne
  <2> QED BY <1>1, <2>1, <2>2, <2>3, <2>4, <2>5, <2>6, RouteOthers
<1>7. ASSUME NEW type \in R!Types \cup {"SUPL_ES"}, R!modemRequest(c, type) PROVE R!RouteInv'
  <2>1. /\ rView[c] = "idle" /\ ~R!OnItsWay(c) /\ rView' = [rView EXCEPT ![c] = "opening"]
        /\ late' = late \ {c}
        /\ \/ type \in R!Types /\ rQueue' = Append(rQueue, R!Msg("RequestATL", c, type)) /\ es' = es
           \/ rQueue' = Append(rQueue, R!Msg("RequestSuplEs", c, "")) /\ es' = es \cup {c}
    BY <1>7 DEF R!modemRequest
  <2>2. /\ rView' \in [Conns -> {"idle", "opening", "open", "closing"}]
        /\ rView'[c] = "opening" /\ \A d \in Conns : d # c => rView'[d] = rView[d]
    BY <1>3, <2>1
  <2>3. ~R!Waiting("RequestATL", c) /\ ~R!Waiting("ReleaseATL", c)
    BY <2>1 DEF R!OnItsWay, R!Waiting
  <2>4. CASE type \in R!Types /\ rQueue' = Append(rQueue, R!Msg("RequestATL", c, type)) /\ es' = es
    <3>1. PICK q : q = R!Msg("RequestATL", c, type)
      OBVIOUS
    <3>2. q \in R!Queued /\ q.type = "RequestATL" /\ q.conn = c
      BY <2>4, <3>1 DEF R!Msg, R!Queued
    <3>3. ASSUME c \notin es PROVE R!ViewSound(c)'
      <4>1. /\ \A d, t :
                 R!Waiting(t, d)' <=> R!Waiting(t, d) \/ (q.type = t /\ q.conn = d)
            /\ R!Restarting' <=> R!Restarting
        BY <1>1, <1>3, <2>3, <2>4, <3>1, <3>2, RouteAppend
      <4>2. R!Waiting("RequestATL", c)' /\ ~R!Waiting("ReleaseATL", c)'
        BY <2>3, <3>2, <4>1
      <4>3. R!OnItsWay(c)'
        BY <4>2 DEF R!OnItsWay, R!Waiting
      <4>4. R!Homes(c) = {} /\ \A n \in R!Nifs : c \notin nif[n].active
        <5>1. R!Homes(c) = {}
          BY <1>1, <1>5, <2>1, <3>3 DEF R!ViewSound
        <5> QED BY <1>3, <5>1, HomesAre DEF R!Nifs
      <4> QED BY <1>1, <1>4, <2>2, <4>1, <4>2, <4>3, <4>4 DEF R!ViewSound, R!Nifs, R!AtMostOne
    <3> QED BY <1>1, <2>1, <2>2, <2>3, <2>4, <3>1, <3>2, <3>3, RouteOthers
  <2>5. CASE rQueue' = Append(rQueue, R!Msg("RequestSuplEs", c, "")) /\ es' = es \cup {c}
    <3>1. PICK q : q = R!Msg("RequestSuplEs", c, "")
      OBVIOUS
    <3>2. q \in R!Queued /\ q.type = "RequestSuplEs" /\ q.conn = c
      BY <3>1 DEF R!Msg, R!Queued
    <3> QED BY <1>1, <2>1, <2>2, <2>5, <3>1, <3>2, RouteOthers
  <2> QED BY <2>1, <2>4, <2>5
<1> QED BY <1>6, <1>7

(* The modem restarts, and has forgotten every connection.                 *)
LEMMA RouteRestart ==
  ASSUME R!RouteInv, R!modemRestart
  PROVE  R!RouteInv'
<1>1. /\ ready' = ready /\ dsClient' = dsClient /\ rRestarts' = rRestarts + 1 /\ es' = es
      /\ ds' = ds /\ rCall' = rCall /\ rTimers' = rTimers /\ late' = late
      /\ nif' = nif /\ asked' = asked /\ ~R!Restarting /\ rView' = [c \in Conns |-> "idle"]
      /\ rQueue' = Append(rQueue, R!Msg("EngineUp", "", ""))
  BY DEF R!modemRestart, R!dsVars
<1>2. DsTyped /\ RouteTyped
  BY RouteParts
<1>3. PICK q : q = R!Msg("EngineUp", "", "")
  OBVIOUS
<1>4. q \in R!Queued /\ q.type = "EngineUp" /\ q.conn = "" /\ "" \notin Conns
  BY <1>3, RouteAssumption DEF R!Msg, R!Queued
<1>5. rQueue' \in Seq(R!Queued) /\ R!QueueSound' /\ R!Restarting'
  BY <1>1, <1>2, <1>3, <1>4, RouteAppend DEF RouteTyped
<1>6. R!MachinesSound'
  BY <1>1, <1>2 DEF RouteTyped, R!MachinesSound, R!Nifs
<1>7. rRestarts' \in Nat /\ rRestarts' > 0
  <2>1. rRestarts \in Nat
    BY <1>2 DEF RouteTyped
  <2>2. rRestarts' = rRestarts + 1
    BY <1>1
  <2> QED BY <2>1, <2>2
<1>8. DsTyped'
  BY <1>1, <1>2 DEF DsTyped
<1>9. RouteTyped'
  BY <1>1, <1>2, <1>5, <1>6, <1>7 DEF RouteTyped
<1>10. ASSUME NEW d \in Conns PROVE R!Served(d)' /\ R!ViewSound(d)'
  <2>1. rView'[d] = "idle"
    BY <1>1
  <2> QED BY <1>5, <1>7, <2>1 DEF R!Served, R!ViewSound, R!Nifs
<1> QED BY <1>8, <1>9, <1>10, RoutePartsPrime

(* Once the messages about a connection are handled, its release has been  *)
(* answered, and if the modem still waits for it some machine lists it or  *)
(* it was asked for anew before ds_nif was done with it.  A connection     *)
(* that was never an emergency one is then listed if and only if the modem *)
(* waits for it or has it, and by one machine: LocEngReleaseATL, which     *)
(* names a connection only, finds the machine that the request went to.    *)
THEOREM OneMachinePerConn == MCSpec => []ConnInOneMachine
<1> DEFINE all == <<part, vars, hal, base, routing, config, nmea>>
<1>1. MCInit => R!RouteInv
  <2> SUFFICES ASSUME MCInit PROVE R!RouteInv
    OBVIOUS
  <2>1. R!Init
    BY DEF MCInit
  <2>2. /\ ready = FALSE /\ nif = [n \in R!Nifs |-> R!A!NewMachine] /\ dsClient = FALSE
        /\ ds = R!D!NewMachine /\ rCall = "none" /\ rTimers = 0 /\ es = {} /\ late = {}
        /\ rQueue = <<>> /\ asked = <<>> /\ rView = [c \in Conns |-> "idle"] /\ rRestarts = 0
    BY <2>1 DEF R!Init
  <2>3. /\ R!A!NewMachine \in R!A!Machine /\ R!A!NewMachine.active = {}
        /\ R!A!NewMachine.inactive = {} /\ R!A!NewMachine.state = "Released"
    BY DEF R!A!NewMachine, R!A!Machine, R!A!States
  <2>4. R!MachinesSound
    BY <2>2, <2>3 DEF R!MachinesSound
  <2>5. R!QueueSound /\ ~R!Restarting
    BY <2>2 DEF R!QueueSound, R!Restarting
  <2>6. ASSUME NEW c \in Conns PROVE R!ViewSound(c) /\ R!Served(c)
    <3>1. ~R!Waiting("RequestATL", c) /\ ~R!Waiting("ReleaseATL", c) /\ rView[c] = "idle"
      BY <2>2 DEF R!Waiting
    <3>2. R!Homes(c) = {}
      BY <2>2, <2>3, <2>4, HomesAre DEF R!Nifs
    <3>3. \A n \in R!Nifs : c \notin nif[n].active
      BY <2>2, <2>3
    <3> QED BY <2>5, <3>1, <3>2, <3>3 DEF R!ViewSound, R!Served, R!AtMostOne
  <2>7. rQueue \in Seq(R!Queued) /\ asked \in Seq([nif : R!Nifs, ask : R!A!Asks])
    BY <2>2
  <2>8. nif \in [R!Nifs -> R!A!Machine]
    BY <2>2, <2>3
  <2>9. rView \in [Conns -> {"idle", "opening", "open", "closing"}]
    BY <2>2
  <2>10. RouteTyped
    BY <2>2, <2>4, <2>5, <2>7, <2>8, <2>9 DEF RouteTyped
  <2>11. DsTyped
    BY <2>2 DEF DsTyped, R!D!NewMachine, R!D!Machine, R!D!States, R!D!Listed
  <2> QED BY <2>6, <2>10, <2>11, RouteParts
<1>2. R!RouteInv /\ [MCNext]_all => R!RouteInv'
  <2> SUFFICES ASSUME R!RouteInv, [MCNext]_all PROVE R!RouteInv'
    OBVIOUS
  <2>1. R!Next \/ UNCHANGED routing
    BY DEF MCNext
  <2>2. CASE R!Next
    BY <2>2, RouteReady, RouteRequest, RouteRequestDs, RouteRelease, RouteAnswer, RouteEngineUp,
       RouteRetry, RouteCall, RouteFramework, RouteService, RouteModem, RouteRestart DEF R!Next
  <2> QED BY <2>1, <2>2, RouteQuiet
<1>3. R!RouteInv => ConnInOneMachine
  <2> SUFFICES ASSUME R!RouteInv PROVE R!ConnInOneMachine /\ R!RequestsServed
    BY DEF ConnInOneMachine
  <2>1. /\ \A c \in Conns \ es : R!ViewSound(c)
        /\ \A c \in Conns : R!Served(c)
    BY RouteParts
  <2>2. ASSUME NEW c \in Conns \ es, R!Settled(c)
        PROVE  /\ R!Cardinality(R!Homes(c)) <= 1
               /\ rView[c] \in {"opening", "open"} <=> R!Homes(c) # {}
    <3>1. /\ \A x, y \in R!Homes(c) : x = y
          /\ rView[c] \in {"opening", "open"} <=> R!Homes(c) # {}
      BY <2>1, <2>2 DEF R!ViewSound, R!AtMostOne, R!Settled
    <3>2. Cardinality(R!Homes(c)) <= 1
      <4>1. CASE R!Homes(c) = {}
        BY <4>1, FS_EmptySet
      <4>2. CASE R!Homes(c) # {}
        <5>1. PICK x : R!Homes(c) = {x}
          BY <3>1, <4>2
        <5> QED BY <5>1, FS_Singleton
      <4> QED BY <4>1, <4>2
    <3>3. R!Cardinality(R!Homes(c)) = Cardinality(R!Homes(c))
      BY DEF Cardinality, R!Cardinality, IsFiniteSet, R!IsFiniteSet
    <3> QED BY <3>1, <3>2, <3>3
  <2>3. ASSUME NEW c \in Conns, R!Settled(c)
        PROVE  /\ rView[c] # "closing"
               /\ rView[c] = "opening" => R!Homes(c) # {} \/ c \in ds.active \/ c \in late
    <3>1. \A type : ~R!Waiting(type, c)
      BY <2>3 DEF R!Settled, R!OnItsWay, R!Waiting
    <3> QED BY <2>1, <3>1 DEF R!Served, R!Provided
  <2>4. R!ConnInOneMachine
    BY <2>2 DEF R!ConnInOneMachine
  <2>5. R!RequestsServed
    BY <2>3 DEF R!RequestsServed
  <2> QED BY <2>4, <2>5
<1> QED BY <1>1, <1>2, <1>3, PTL DEF MCSpec

(***************************************************************************)
(* LocApiBase                                                              *)
(***************************************************************************)

(* A message more in the queue loses nothing that the others promise.       *)
LEMMA BaseAppended ==
  ASSUME NEW q \in Seq(B!Message), NEW x \in B!Message, NEW r, r = Append(q, x)
  PROVE  /\ r \in Seq(B!Message)
         /\ \A a : B!Registering(q, a) => B!Registering(r, a)
         /\ B!Opening(q) => B!Opening(r)
         /\ \E k \in 1 .. Len(r) : r[k] = x
<1>1. /\ r \in Seq(B!Message) /\ Len(r) = Len(q) + 1 /\ Len(q) \in Nat
      /\ \A k \in 1 .. Len(q) : r[k] = q[k]
      /\ r[Len(q) + 1] = x
  BY AppendProperties, LenProperties
<1>2. \A k \in 1 .. Len(q) : k \in 1 .. Len(r) /\ r[k] = q[k]
  BY <1>1
<1>3. Len(q) + 1 \in 1 .. Len(r)
  BY <1>1
<1>4. ASSUME NEW a, B!Registering(q, a)
      PROVE  B!Registering(r, a)
  BY <1>2, <1>4 DEF B!Registering
<1>5. B!Opening(q) => B!Opening(r)
  BY <1>2 DEF B!Opening
<1> QED BY <1>1, <1>3, <1>4, <1>5

LEMMA BaseTailed ==
  ASSUME NEW q \in Seq(B!Message), q # <<>>, NEW r, r = Tail(q)
  PROVE  /\ r \in Seq(B!Message) /\ Head(q) = q[1] /\ Head(q) \in B!Message
         /\ \A k \in 1 .. Len(q) : k # 1 => k - 1 \in 1 .. Len(r) /\ r[k - 1] = q[k]
<1>1. /\ r \in Seq(B!Message) /\ Len(r) = Len(q) - 1 /\ Len(q) \in Nat /\ Len(q) # 0
      /\ \A k \in 1 .. Len(r) : r[k] = q[k + 1]
      /\ Head(q) = q[1] /\ Head(q) \in B!Message
  BY HeadTailProperties, LenProperties, EmptySeq
<1>2. ASSUME NEW k \in 1 .. Len(q), k # 1
      PROVE  k - 1 \in 1 .. Len(r) /\ r[k - 1] = q[k]
  <2>1. k - 1 \in 1 .. Len(r) /\ (k - 1) + 1 = k
    BY <1>1, <1>2
  <2> QED BY <1>1, <2>1
<1> QED BY <1>1, <1>2

(* The invariant before and after a step, its parts by name.                *)
LEMMA BaseParts ==
  ASSUME B!BaseInv
  PROVE  B!BaseTypeOK /\ B!ArraySound /\ B!HandleSound /\ B!WalkSound
BY DEF B!BaseInv

(* The array, from one full up to n, holds adapters only; at rest those of   *)
(* 1 .. n, and a walk from its beginning finds them all.                     *)
LEMMA BaseArray ==
  ASSUME B!BaseTypeOK, B!ArraySound
  PROVE  /\ mLocAdapters \in [B!Slots -> BaseAdapters \cup {NULL}]
         /\ B!Present \subseteq BaseAdapters
<1>1. PICK n \in 0 .. BaseSlots, full \in [B!Slots -> BaseAdapters \cup {NULL}] :
        /\ client.step # "idle" => client.last = n /\ client.at \in 1 .. n
        /\ client.step = "idle" => mLocAdapters = full
        /\ client.step = "fill" => mLocAdapters = [full EXCEPT ![client.at] = NULL]
        /\ client.step = "clear" =>
             mLocAdapters = [full EXCEPT ![client.at] = IF client.at = n THEN NULL ELSE full[n]]
  BY DEF B!ArraySound, B!NULL, NULL
<1>2. n \in Nat /\ n <= BaseSlots /\ BaseSlots \in Nat
  BY <1>1, BaseAssumption
<1>3. mLocAdapters \in [B!Slots -> BaseAdapters \cup {NULL}]
  <2>1. CASE client.step = "idle"
    BY <1>1, <2>1
  <2>2. CASE client.step = "fill"
    BY <1>1, <2>2
  <2>3. CASE client.step = "clear"
    <3>1. n \in B!Slots
      BY <1>1, <1>2, <2>3 DEF B!Slots
    <3>2. (IF client.at = n THEN NULL ELSE full[n]) \in BaseAdapters \cup {NULL}
      BY <3>1
    <3> QED BY <1>1, <2>3, <3>2
  <2> QED BY <2>1, <2>2, <2>3 DEF B!BaseTypeOK
<1> QED BY <1>3 DEF B!Present, B!NULL, NULL

LEMMA BasePacked ==
  ASSUME B!ArraySound, client.step = "idle"
  PROVE  \E n \in Nat :
           /\ n <= BaseSlots /\ BaseSlots \in Nat
           /\ \A k \in B!Slots : mLocAdapters[k] # NULL <=> k <= n
           /\ \A k \in B!Slots, j \in 1 .. n : mLocAdapters[k] = mLocAdapters[j] => k = j
           /\ mLocAdapters \in [B!Slots -> BaseAdapters \cup {NULL}]
<1>1. PICK n \in 0 .. BaseSlots, full \in [B!Slots -> BaseAdapters \cup {NULL}] :
        mLocAdapters = full /\ B!Packed(full, n)
  BY DEF B!ArraySound, B!NULL, NULL
<1>2. n \in Nat /\ n <= BaseSlots /\ BaseSlots \in Nat
  BY <1>1, BaseAssumption
<1> QED BY <1>1, <1>2 DEF B!Packed, B!NULL, NULL

LEMMA BaseWalked ==
  ASSUME B!BaseTypeOK, B!ArraySound, client.step = "idle"
  PROVE  B!Walked = B!Present
<1>1. PICK n \in Nat :
        /\ n <= BaseSlots /\ BaseSlots \in Nat
        /\ \A k \in B!Slots : mLocAdapters[k] # NULL <=> k <= n
  BY BasePacked
<1>2. ASSUME NEW a \in B!Present
      PROVE  a \in B!Walked
  <2>1. PICK k \in B!Slots : mLocAdapters[k] = a /\ a # NULL
    BY DEF B!Present, B!NULL, NULL
  <2>2. k <= n
    BY <1>1, <2>1
  <2>3. \A j \in 1 .. k : j \in B!Slots /\ j <= n
    BY <1>1, <2>2 DEF B!Slots
  <2>4. \A j \in 1 .. k : mLocAdapters[j] # NULL
    BY <1>1, <2>3
  <2>5. a \in BaseAdapters
    BY BaseArray
  <2> QED BY <2>1, <2>4, <2>5 DEF B!Walked, B!NULL, NULL
<1>3. B!Walked \subseteq B!Present
  BY BaseAssumption DEF B!Walked, B!Present, B!NULL, NULL
<1> QED BY <1>2, <1>3

(* Messages come behind the others and the adapters stay, except that those  *)
(* may join whose events one of the messages registers.                      *)
LEMMA BaseHandleKept ==
  ASSUME B!HandleSound, api' = api, excluded' = excluded, aModem' = aModem,
         client.step = "idle",
         \A a : B!Registering(aQueue, a) => B!Registering(aQueue', a),
         B!Opening(aQueue) => B!Opening(aQueue'),
         \A a \in B!Present' : \/ a \in B!Present
                               \/ B!Registering(aQueue', a) /\ B!Opening(aQueue')
  PROVE  B!HandleSound'
<1> SUFFICES ASSUME B!Real, aModem.up, NEW a \in B!Present'
             PROVE  /\ BaseEvents[a] \ excluded \subseteq aModem.mask
                         \/ B!Registering(aQueue', a)
                    /\ aModem.open \/ B!Opening(aQueue')
  <2>1. B!Real' <=> B!Real
    BY DEF B!Real
  <2>2. \A a : B!Registering(aQueue, a)' <=> B!Registering(aQueue', a)
    BY DEF B!Registering
  <2>3. B!Opening(aQueue)' <=> B!Opening(aQueue')
    BY DEF B!Opening
  <2> QED BY <2>1, <2>2, <2>3 DEF B!HandleSound
<1> QED BY DEF B!HandleSound

LEMMA BaseHandleSame ==
  ASSUME B!HandleSound, api' = api, excluded' = excluded, aModem' = aModem,
         aQueue' = aQueue, client' = client, mLocAdapters' = mLocAdapters
  PROVE  B!HandleSound'
<1>1. B!Present' = B!Present
  BY DEF B!Present
<1>2. CASE client.step = "idle"
  BY <1>1, <1>2, BaseHandleKept
<1>3. CASE client.step # "idle"
  BY <1>3 DEF B!HandleSound
<1> QED BY <1>2, <1>3

LEMMA BaseWalkSame ==
  ASSUME B!WalkSound, upcall' = upcall, client' = client, mLocAdapters' = mLocAdapters,
         enabled \subseteq enabled'
  PROVE  B!WalkSound'
<1>1. B!Present' = B!Present
  BY DEF B!Present
<1> QED BY <1>1 DEF B!WalkSound

LEMMA BaseArraySame ==
  ASSUME B!ArraySound, client' = client, mLocAdapters' = mLocAdapters
  PROVE  B!ArraySound'
BY DEF B!ArraySound, B!Packed

(* The handle of a modem that is up has the events it is opened for.         *)
BaseModems == [up : BOOLEAN, open : BOOLEAN, mask : SUBSET B!AllEvents]

LEMMA BaseOpened ==
  ASSUME NEW h \in BaseModems, NEW e \in SUBSET B!AllEvents, NEW r, r = B!opened(h, e)
  PROVE  /\ r \in BaseModems /\ r.up = h.up
         /\ h.up => r.open /\ r.mask = h.mask \cup (e \ excluded)
<1>1. h.mask \cup (e \ excluded) \in SUBSET B!AllEvents /\ h.up \in BOOLEAN
  BY DEF BaseModems
<1>2. CASE h.up
  <2>1. r = [h EXCEPT !.open = TRUE, !.mask = h.mask \cup (e \ excluded)]
    BY <1>2 DEF B!opened
  <2> QED BY <1>1, <1>2, <2>1 DEF BaseModems
<1>3. CASE ~h.up
  BY <1>3 DEF B!opened
<1> QED BY <1>2, <1>3

LEMMA BaseClosed ==
  ASSUME NEW h \in BaseModems, NEW r, r = B!closed(h)
  PROVE  r \in BaseModems /\ r.up = h.up
<1>1. r = [h EXCEPT !.open = FALSE, !.mask = {}]
  BY DEF B!closed
<1> QED BY <1>1 DEF BaseModems

(* The MsgTask thread takes a message.                                       *)
LEMMA BaseProc ==
  ASSUME B!BaseInv, B!proc
  PROVE  B!BaseInv'
<1>1. /\ aQueue # <<>> /\ aQueue' = Tail(aQueue)
      /\ UNCHANGED <<api, excluded, mLocAdapters, client, upcall, enabled>>
  BY DEF B!proc
<1>2. /\ B!BaseTypeOK /\ B!ArraySound /\ B!HandleSound /\ B!WalkSound
      /\ aQueue \in Seq(B!Message) /\ aModem \in BaseModems
  BY BaseParts DEF B!BaseTypeOK, BaseModems
<1>3. PICK x : x = Head(aQueue)
  OBVIOUS
<1>4. /\ aQueue' \in Seq(B!Message) /\ x = aQueue[1] /\ x \in B!Message
      /\ \A k \in 1 .. Len(aQueue) : k # 1 => k - 1 \in 1 .. Len(aQueue') /\ aQueue'[k - 1] = aQueue[k]
  BY <1>1, <1>2, <1>3, BaseTailed
<1>5. x.type \in {"Open", "Ssr", "EngineUp", "EngineDown"} /\ x.mask \in SUBSET B!AllEvents
  BY <1>4 DEF B!Message
<1>6. aModem' = CASE B!Real /\ x.type = "Open" -> B!opened(aModem, x.mask)
                  [] B!Real /\ x.type = "Ssr"  -> B!opened(B!closed(aModem), B!getEvtMask)
                  [] OTHER -> aModem
  BY <1>3 DEF B!proc
<1>7. B!getEvtMask \in SUBSET B!AllEvents
  BY DEF B!getEvtMask, B!Walked, B!AllEvents
<1>8. B!Present' = B!Present
  BY <1>1 DEF B!Present
<1>9. ASSUME aModem' \in BaseModems, B!HandleSound'
      PROVE  B!BaseInv'
  <2>1. B!BaseTypeOK'
    BY <1>1, <1>2, <1>4, <1>9 DEF B!BaseTypeOK, BaseModems, B!AllEvents, B!Message
  <2> QED BY <1>1, <1>2, <1>9, <2>1, BaseArraySame, BaseWalkSame DEF B!BaseInv
<1>10. CASE ~B!Real
  <2>1. aModem' = aModem
    BY <1>6, <1>10
  <2>2. B!HandleSound'
    BY <1>1, <1>10 DEF B!HandleSound, B!Real
  <2> QED BY <1>2, <1>9, <2>1, <2>2
<1>11. CASE B!Real /\ x.type \in {"EngineUp", "EngineDown"}
  <2>1. aModem' = aModem
    BY <1>6, <1>11
  <2>2. B!HandleSound'
    <3>1. ASSUME NEW a, B!Registering(aQueue, a)
          PROVE  B!Registering(aQueue', a)
      <4>1. PICK k \in 1 .. Len(aQueue) :
              \/ aQueue[k].type = "Ssr"
              \/ aQueue[k].type = "Open" /\ BaseEvents[a] \ excluded \subseteq aQueue[k].mask
        BY <3>1 DEF B!Registering
      <4>2. k # 1
        BY <1>4, <1>11, <4>1
      <4> QED BY <1>4, <4>1, <4>2 DEF B!Registering
    <3>2. ASSUME B!Opening(aQueue)
          PROVE  B!Opening(aQueue')
      <4>1. PICK k \in 1 .. Len(aQueue) : aQueue[k].type \in {"Open", "Ssr"}
        BY <3>2 DEF B!Opening
      <4>2. k # 1
        BY <1>4, <1>11, <4>1
      <4> QED BY <1>4, <4>1, <4>2 DEF B!Opening
    <3>3. CASE client.step = "idle"
      BY <1>1, <1>2, <1>8, <2>1, <3>1, <3>2, <3>3, BaseHandleKept
    <3>4. CASE client.step # "idle"
      BY <1>1, <3>4 DEF B!HandleSound
    <3> QED BY <3>3, <3>4
  <2> QED BY <1>2, <1>9, <2>1, <2>2
<1>12. ASSUME B!Real,
              aModem'.up /\ client.step = "idle" =>
                \A a \in B!Present :
                  /\ \/ BaseEvents[a] \ excluded \subseteq aModem'.mask
                     \/ B!Registering(aQueue', a)
                  /\ aModem'.open
       PROVE  B!HandleSound'
  <2>1. \A a : B!Registering(aQueue, a)' <=> B!Registering(aQueue', a)
    BY <1>1 DEF B!Registering
  <2> QED BY <1>1, <1>8, <1>12, <2>1 DEF B!HandleSound
<1>13. CASE B!Real /\ x.type = "Ssr"
  <2>1. PICK h, e : h = B!closed(aModem) /\ e = B!getEvtMask
    OBVIOUS
  <2>2. aModem' = B!opened(h, e)
    BY <1>6, <1>13, <2>1
  <2>3. h \in BaseModems /\ e \in SUBSET B!AllEvents
    BY <1>2, <1>7, <2>1, BaseClosed
  <2>4. /\ aModem' \in BaseModems
        /\ aModem'.up => aModem'.open /\ aModem'.mask = h.mask \cup (e \ excluded)
    <3>1. PICK r : r = aModem'
      OBVIOUS
    <3>2. r \in BaseModems /\ (r.up => r.open /\ r.mask = h.mask \cup (e \ excluded))
      BY <2>2, <2>3, <3>1, BaseOpened
    <3> QED BY <3>1, <3>2
  <2>5. B!HandleSound'
    <3> SUFFICES ASSUME aModem'.up, client.step = "idle", NEW a \in B!Present
                 PROVE  BaseEvents[a] \ excluded \subseteq aModem'.mask /\ aModem'.open
      BY <1>12, <1>13
    <3>1. a \in B!Walked
      BY <1>2, BaseWalked
    <3>2. BaseEvents[a] \ excluded \subseteq e \ excluded
      BY <2>1, <3>1 DEF B!getEvtMask
    <3> QED BY <2>4, <3>2
  <2> QED BY <1>9, <2>4, <2>5
<1>14. CASE B!Real /\ x.type = "Open"
  <2>1. aModem' = B!opened(aModem, x.mask)
    BY <1>6, <1>14
  <2>2. /\ aModem' \in BaseModems /\ aModem'.up = aModem.up
        /\ aModem'.up => aModem'.open /\ aModem'.mask = aModem.mask \cup (x.mask \ excluded)
    <3>1. PICK r : r = aModem'
      OBVIOUS
    <3>2. /\ r \in BaseModems /\ r.up = aModem.up
          /\ r.up => r.open /\ r.mask = aModem.mask \cup (x.mask \ excluded)
      BY <1>2, <1>5, <2>1, <3>1, BaseOpened
    <3> QED BY <3>1, <3>2
  <2>3. B!HandleSound'
    <3> SUFFICES ASSUME aModem'.up, client.step = "idle", NEW a \in B!Present
                 PROVE  /\ \/ BaseEvents[a] \ excluded \subseteq aModem'.mask
                           \/ B!Registering(aQueue', a)
                        /\ aModem'.open
      BY <1>12, <1>14
    <3>1. BaseEvents[a] \ excluded \subseteq aModem.mask \/ B!Registering(aQueue, a)
      BY <1>2, <1>14, <2>2 DEF B!HandleSound
    <3>2. CASE BaseEvents[a] \ excluded \subseteq aModem.mask
      BY <2>2, <3>2
    <3>3. CASE B!Registering(aQueue, a)
      <4>1. PICK k \in 1 .. Len(aQueue) :
              \/ aQueue[k].type = "Ssr"
              \/ aQueue[k].type = "Open" /\ BaseEvents[a] \ excluded \subseteq aQueue[k].mask
        BY <3>3 DEF B!Registering
      <4>2. CASE k = 1
        <5>1. BaseEvents[a] \ excluded \subseteq x.mask
          BY <1>4, <1>14, <4>1, <4>2
        <5> QED BY <2>2, <5>1
      <4>3. CASE k # 1
        <5>1. B!Registering(aQueue', a)
          BY <1>4, <4>1, <4>3 DEF B!Registering
        <5> QED BY <2>2, <5>1
      <4> QED BY <4>2, <4>3
    <3> QED BY <3>1, <3>2, <3>3
  <2> QED BY <1>9, <2>2, <2>3
<1> QED BY <1>5, <1>10, <1>11, <1>13, <1>14

(* A walk is not disturbed by what joins the array or handles requests.      *)
LEMMA BaseWalkKept ==
  ASSUME B!WalkSound, upcall' = upcall, client' = client,
         \A k \in B!Slots : mLocAdapters[k] # NULL => mLocAdapters'[k] = mLocAdapters[k],
         B!BaseTypeOK, enabled \subseteq enabled'
  PROVE  B!WalkSound'
<1>1. B!Present \subseteq B!Present'
  BY DEF B!Present, B!NULL, NULL
<1>2. SUFFICES ASSUME upcall.kind # "none", upcall.undisturbed
               PROVE  B!WalkSound'
  BY DEF B!WalkSound
<1>3. \A k \in 1 .. upcall.i - 1 : k \in B!Slots
  BY BaseAssumption DEF B!BaseTypeOK, B!Slots
<1>4. CASE /\ upcall.kind = "request" /\ Len(upcall.told) = 1
           /\ upcall.i = BaseSlots + 1
  BY <1>1, <1>2, <1>4 DEF B!WalkSound
<1>5. CASE ~(/\ upcall.kind = "request" /\ Len(upcall.told) = 1
             /\ upcall.i = BaseSlots + 1)
  <2>1. \A k \in 1 .. upcall.i - 1 : mLocAdapters[k] # NULL
    BY <1>2, <1>5 DEF B!WalkSound, B!NULL, NULL
  <2>2. \A k \in 1 .. upcall.i - 1 : mLocAdapters'[k] = mLocAdapters[k]
    BY <1>3, <2>1
  <2>3. client.step = "idle" /\ upcall.from \subseteq B!Present'
    BY <1>1, <1>2 DEF B!WalkSound
  <2>4. \A k \in 1 .. upcall.i - 1 : mLocAdapters'[k] # NULL
    BY <2>1, <2>2
  <2>5. CASE upcall.kind # "request"
    <3>1. /\ Len(upcall.told) = upcall.i - 1
          /\ \A k \in 1 .. upcall.i - 1 : upcall.told[k] = mLocAdapters'[k]
      BY <1>2, <2>2, <2>5 DEF B!WalkSound
    <3> QED BY <2>3, <2>4, <2>5, <3>1 DEF B!WalkSound, B!NULL, NULL
  <2>6. CASE upcall.kind = "request"
    <3>1. /\ upcall.told = <<>> /\ upcall.from \subseteq enabled
          /\ \A k \in 1 .. upcall.i - 1 : mLocAdapters[k] \notin upcall.from
      BY <1>2, <1>5, <2>6 DEF B!WalkSound
    <3>2. \A k \in 1 .. upcall.i - 1 : mLocAdapters'[k] \notin upcall.from
      BY <2>2, <3>1
    <3> QED BY <2>3, <2>4, <2>6, <3>1, <3>2 DEF B!WalkSound, B!NULL, NULL
  <2> QED BY <2>5, <2>6
<1> QED BY <1>4, <1>5

(* An adapter joins.                                                         *)
LEMMA BaseAdd ==
  ASSUME B!BaseInv, NEW a \in BaseAdapters, B!addAdapter(a)
  PROVE  B!BaseInv'
<1>1. /\ client.step = "idle" /\ \A k \in B!Slots : mLocAdapters[k] # a
      /\ UNCHANGED <<api, excluded, client, aModem, upcall, enabled>>
  BY DEF B!addAdapter
<1>2. /\ B!BaseTypeOK /\ B!ArraySound /\ B!HandleSound /\ B!WalkSound
      /\ aQueue \in Seq(B!Message)
  BY BaseParts DEF B!BaseTypeOK
<1>3. PICK free : free = {k \in B!Slots : mLocAdapters[k] = NULL}
  OBVIOUS
<1>4. PICK slot : slot = CHOOSE k \in free : \A j \in free : k <= j
  OBVIOUS
<1>5. \/ /\ free # {}
         /\ mLocAdapters' = [mLocAdapters EXCEPT ![slot] = a]
         /\ aQueue' = Append(aQueue, B!Open(BaseEvents[a]))
      \/ UNCHANGED <<mLocAdapters, aQueue>>
  BY <1>3, <1>4 DEF B!addAdapter, B!NULL, NULL
<1>6. CASE UNCHANGED <<mLocAdapters, aQueue>>
  <2>1. B!BaseTypeOK'
    BY <1>1, <1>2, <1>6 DEF B!BaseTypeOK, B!Message, B!AllEvents
  <2> QED BY <1>1, <1>2, <1>6, <2>1, BaseHandleSame, BaseArraySame, BaseWalkSame DEF B!BaseInv
<1>7. CASE /\ free # {}
           /\ mLocAdapters' = [mLocAdapters EXCEPT ![slot] = a]
           /\ aQueue' = Append(aQueue, B!Open(BaseEvents[a]))
  <2>1. PICK n \in Nat :
          /\ n <= BaseSlots /\ BaseSlots \in Nat
          /\ \A k \in B!Slots : mLocAdapters[k] # NULL <=> k <= n
          /\ \A k \in B!Slots, j \in 1 .. n : mLocAdapters[k] = mLocAdapters[j] => k = j
          /\ mLocAdapters \in [B!Slots -> BaseAdapters \cup {NULL}]
    BY <1>1, <1>2, BasePacked
  <2>2. slot = n + 1 /\ slot \in B!Slots
    <3>1. n + 1 \in free /\ \A j \in free : n + 1 <= j
      BY <1>3, <1>7, <2>1 DEF B!Slots
    <3>2. \A k \in free : k \in Int
      BY <1>3 DEF B!Slots
    <3>3. \A k \in free : (\A j \in free : k <= j) => k = n + 1
      BY <3>1, <3>2
    <3> QED BY <1>3, <1>4, <3>1, <3>3
  <2>3. a # NULL
    BY BaseAssumption
  <2>4. PICK x : x = B!Open(BaseEvents[a])
    OBVIOUS
  <2>5. /\ x \in B!Message /\ x.type = "Open" /\ x.mask = BaseEvents[a]
    BY <2>4 DEF B!Open, B!Message, B!AllEvents
  <2>6. /\ aQueue' \in Seq(B!Message)
        /\ \A c : B!Registering(aQueue, c) => B!Registering(aQueue', c)
        /\ B!Opening(aQueue) => B!Opening(aQueue')
        /\ \E k \in 1 .. Len(aQueue') : aQueue'[k] = x
    <3>1. PICK r : r = aQueue' /\ r = Append(aQueue, x)
      BY <1>7, <2>4
    <3>2. /\ r \in Seq(B!Message)
          /\ \A c : B!Registering(aQueue, c) => B!Registering(r, c)
          /\ B!Opening(aQueue) => B!Opening(r)
          /\ \E k \in 1 .. Len(r) : r[k] = x
      <4>1. aQueue \in Seq(B!Message) /\ x \in B!Message
        BY <1>2, <2>5
      <4> QED BY <3>1, <4>1, BaseAppended
    <3> QED BY <3>1, <3>2
  <2>7. B!Registering(aQueue', a) /\ B!Opening(aQueue')
    BY <2>5, <2>6 DEF B!Registering, B!Opening
  <2>8. B!BaseTypeOK'
    BY <1>1, <1>2, <2>6 DEF B!BaseTypeOK, B!Message, B!AllEvents
  <2>9. /\ \A k \in B!Slots : mLocAdapters'[k] = IF k = n + 1 THEN a ELSE mLocAdapters[k]
        /\ mLocAdapters' \in [B!Slots -> BaseAdapters \cup {NULL}]
    BY <1>7, <2>1, <2>2
  <2>10. B!ArraySound'
    <3>1. n + 1 \in 0 .. BaseSlots
      BY <2>1, <2>2 DEF B!Slots
    <3>2. ASSUME NEW k \in B!Slots
          PROVE  /\ mLocAdapters'[k] # NULL <=> k <= n + 1
                 /\ \A j \in 1 .. n + 1 : mLocAdapters'[k] = mLocAdapters'[j] => k = j
      <4>1. k \in Int
        BY DEF B!Slots
      <4>2. mLocAdapters'[k] # NULL <=> k <= n + 1
        BY <2>1, <2>3, <2>9, <4>1
      <4>3. ASSUME NEW j \in 1 .. n + 1, mLocAdapters'[k] = mLocAdapters'[j]
            PROVE  k = j
        <5>1. j \in B!Slots
          BY <2>1, <2>2 DEF B!Slots
        <5>2. mLocAdapters[k] # a /\ mLocAdapters[j] # a
          BY <1>1, <5>1
        <5>3. CASE j = n + 1 \/ k = n + 1
          BY <2>9, <4>3, <5>1, <5>2, <5>3
        <5>4. CASE j # n + 1 /\ k # n + 1
          <6>1. j \in 1 .. n
            BY <2>1, <5>4
          <6> QED BY <2>1, <2>9, <4>3, <5>1, <5>4, <6>1
        <5> QED BY <5>3, <5>4
      <4> QED BY <4>2, <4>3
    <3>3. B!Packed(mLocAdapters', n + 1)
      BY <3>2 DEF B!Packed, B!NULL, NULL
    <3>4. B!Packed(mLocAdapters, n + 1)' <=> B!Packed(mLocAdapters', n + 1)
      BY DEF B!Packed
    <3>5. \E p \in 0 .. BaseSlots, full \in [B!Slots -> BaseAdapters \cup {NULL}] :
            B!Packed(full, p) /\ mLocAdapters' = full
      BY <2>9, <3>1, <3>3
    <3> QED BY <1>1, <3>5 DEF B!ArraySound, B!Packed, B!NULL, NULL
  <2>11. B!HandleSound'
    <3>1. ASSUME NEW c \in B!Present', c \notin B!Present
          PROVE  c = a
      <4>1. PICK k \in B!Slots : mLocAdapters'[k] = c /\ c # NULL
        BY DEF B!Present, B!NULL, NULL
      <4> QED BY <2>9, <3>1, <4>1 DEF B!Present, B!NULL, NULL
    <3> QED BY <1>1, <1>2, <2>6, <2>7, <3>1, BaseHandleKept
  <2>12. B!WalkSound'
    <3>1. \A k \in B!Slots : mLocAdapters[k] # NULL => mLocAdapters'[k] = mLocAdapters[k]
      BY <2>1, <2>9
    <3> QED BY <1>1, <1>2, <3>1, BaseWalkKept
  <2> QED BY <2>8, <2>10, <2>11, <2>12 DEF B!BaseInv
<1> QED BY <1>5, <1>6, <1>7

(* It takes requests from now on.                                            *)
LEMMA BaseEnable ==
  ASSUME B!BaseInv, NEW a \in BaseAdapters, B!setAgpsEnabled(a)
  PROVE  B!BaseInv'
<1>1. /\ enabled' = enabled \cup {a}
      /\ UNCHANGED <<api, excluded, mLocAdapters, client, aQueue, aModem, upcall>>
  BY DEF B!setAgpsEnabled
<1>2. B!BaseTypeOK /\ B!ArraySound /\ B!HandleSound /\ B!WalkSound
  BY BaseParts
<1>3. B!BaseTypeOK'
  BY <1>1, <1>2 DEF B!BaseTypeOK, B!Message, B!AllEvents
<1> QED BY <1>1, <1>2, <1>3, BaseHandleSame, BaseArraySame, BaseWalkSame DEF B!BaseInv

(* While an adapter leaves, no promise holds but those about the array.      *)
LEMMA BaseLeaving ==
  ASSUME client'.step # "idle", upcall'.kind = "none" \/ ~upcall'.undisturbed
  PROVE  B!HandleSound' /\ B!WalkSound'
BY DEF B!HandleSound, B!WalkSound

LEMMA BaseRemove ==
  ASSUME B!BaseInv, NEW a \in BaseAdapters, B!removeAdapter(a)
  PROVE  B!BaseInv'
<1>1. /\ client.step = "idle" /\ enabled' = enabled \ {a}
      /\ upcall' = [upcall EXCEPT !.undisturbed = FALSE]
      /\ UNCHANGED <<api, excluded, aQueue, aModem>>
  BY DEF B!removeAdapter
<1>2. B!BaseTypeOK /\ B!ArraySound /\ B!HandleSound /\ B!WalkSound
  BY BaseParts
<1>3. PICK j \in B!Slots :
        /\ mLocAdapters[j] = a
        /\ mLocAdapters' = [mLocAdapters EXCEPT ![j] = NULL]
        /\ client' = [step |-> "fill", of |-> a, at |-> j, last |-> B!LastSlot(j)]
  BY DEF B!removeAdapter, B!NULL, NULL
<1>4. PICK n \in Nat :
        /\ n <= BaseSlots /\ BaseSlots \in Nat
        /\ \A k \in B!Slots : mLocAdapters[k] # NULL <=> k <= n
        /\ \A k \in B!Slots, i \in 1 .. n : mLocAdapters[k] = mLocAdapters[i] => k = i
        /\ mLocAdapters \in [B!Slots -> BaseAdapters \cup {NULL}]
  BY <1>1, <1>2, BasePacked
<1>5. j <= n /\ j \in Nat /\ j >= 1
  BY <1>3, <1>4, BaseAssumption DEF B!Slots
<1>6. B!LastSlot(j) = n
  <2>1. n \in j .. BaseSlots
    BY <1>4, <1>5
  <2>2. \A k \in j + 1 .. n : mLocAdapters[k] # NULL
    BY <1>4, <1>5 DEF B!Slots
  <2>3. n = BaseSlots \/ mLocAdapters[n + 1] = NULL
    BY <1>4, <1>5 DEF B!Slots
  <2>4. ASSUME NEW i \in j .. BaseSlots, \A k \in j + 1 .. i : mLocAdapters[k] # NULL,
               i = BaseSlots \/ mLocAdapters[i + 1] = NULL
        PROVE  i = n
    <3>1. i \in B!Slots
      BY <1>4, <1>5 DEF B!Slots
    <3>2. i <= n
      <4>1. CASE i = j
        BY <1>5, <4>1
      <4>2. CASE i # j
        <5>1. i \in j + 1 .. i
          BY <1>5, <4>2
        <5>2. mLocAdapters[i] # NULL
          BY <2>4, <5>1
        <5> QED BY <1>4, <3>1, <5>2
      <4> QED BY <4>1, <4>2
    <3>3. ~(i < n)
      <4> SUFFICES ASSUME i < n PROVE FALSE
        OBVIOUS
      <4>1. i # BaseSlots /\ i + 1 \in B!Slots /\ i + 1 <= n
        BY <1>4, <1>5 DEF B!Slots
      <4>2. mLocAdapters[i + 1] # NULL
        BY <1>4, <4>1
      <4> QED BY <2>4, <4>1, <4>2
    <3> QED BY <1>4, <1>5, <3>2, <3>3
  <2> QED BY <2>1, <2>2, <2>3, <2>4 DEF B!LastSlot, B!NULL, NULL
<1>7. /\ client'.step = "fill" /\ client'.at = j /\ client'.last = n
  BY <1>3, <1>6
<1>8. B!BaseTypeOK'
  <2>1. upcall' \in [kind : B!Kinds \cup {"none", "engineUp", "engineDown"},
                     i : 0 .. BaseSlots + 1, told : Seq(BaseAdapters),
                     from : SUBSET BaseAdapters, undisturbed : BOOLEAN]
        /\ upcall'.kind = upcall.kind /\ upcall'.i = upcall.i
    BY <1>1, <1>2 DEF B!BaseTypeOK
  <2> QED BY <1>1, <1>2, <1>7, <2>1 DEF B!BaseTypeOK, B!Message, B!AllEvents, B!Kinds
<1>9. B!ArraySound'
  <2>1. n \in 0 .. BaseSlots /\ j \in 1 .. n
    BY <1>4, <1>5
  <2>2. B!Packed(mLocAdapters, n)
    BY <1>4 DEF B!Packed, B!NULL, NULL
  <2>3. \E p \in 0 .. BaseSlots, full \in [B!Slots -> BaseAdapters \cup {NULL}] :
          /\ B!Packed(full, p) /\ client'.last = p /\ client'.at \in 1 .. p
          /\ mLocAdapters' = [full EXCEPT ![client'.at] = NULL]
    BY <1>3, <1>4, <1>7, <2>1, <2>2
  <2> QED BY <1>7, <2>3 DEF B!ArraySound, B!Packed, B!NULL, NULL
<1>10. ~upcall'.undisturbed
  BY <1>1, <1>2 DEF B!BaseTypeOK
<1> QED BY <1>7, <1>8, <1>9, <1>10, BaseLeaving DEF B!BaseInv

LEMMA BaseFill ==
  ASSUME B!BaseInv, B!fillHole
  PROVE  B!BaseInv'
<1>1. /\ client.step = "fill" /\ client' = [client EXCEPT !.step = "clear"]
      /\ mLocAdapters' = [mLocAdapters EXCEPT ![client.at] = mLocAdapters[client.last]]
      /\ UNCHANGED <<api, excluded, aQueue, aModem, upcall, enabled>>
  BY DEF B!fillHole
<1>2. B!BaseTypeOK /\ B!ArraySound /\ B!HandleSound /\ B!WalkSound
  BY BaseParts
<1>3. PICK n \in 0 .. BaseSlots, full \in [B!Slots -> BaseAdapters \cup {NULL}] :
        /\ B!Packed(full, n)
        /\ client.last = n /\ client.at \in 1 .. n
        /\ mLocAdapters = [full EXCEPT ![client.at] = NULL]
  BY <1>1, <1>2 DEF B!ArraySound, B!NULL, NULL
<1>4. client'.step = "clear" /\ client'.at = client.at /\ client'.last = n
  BY <1>1, <1>2, <1>3
<1>5. client.at \in B!Slots /\ n \in B!Slots
  BY <1>3, BaseAssumption DEF B!Slots
<1>6. mLocAdapters' = [full EXCEPT ![client.at] = IF client.at = n THEN NULL ELSE full[n]]
  <2>1. mLocAdapters[n] = IF client.at = n THEN NULL ELSE full[n]
    BY <1>3, <1>5
  <2> QED BY <1>1, <1>3, <1>5, <2>1
<1>7. B!ArraySound'
  <2>1. \E p \in 0 .. BaseSlots, array \in [B!Slots -> BaseAdapters \cup {NULL}] :
          /\ B!Packed(array, p) /\ client'.last = p /\ client'.at \in 1 .. p
          /\ mLocAdapters' = [array EXCEPT ![client'.at] = IF client'.at = p THEN NULL ELSE array[p]]
    BY <1>3, <1>4, <1>6
  <2> QED BY <1>4, <2>1 DEF B!ArraySound, B!Packed, B!NULL, NULL
<1>8. B!BaseTypeOK'
  BY <1>1, <1>2, <1>4 DEF B!BaseTypeOK, B!Message, B!AllEvents
<1>9. upcall'.kind = "none" \/ ~upcall'.undisturbed
  BY <1>1, <1>2 DEF B!WalkSound
<1> QED BY <1>4, <1>7, <1>8, <1>9, BaseLeaving DEF B!BaseInv

(* The array is packed again without the adapter that has left.              *)
LEMMA BaseLeft ==
  ASSUME B!ArraySound, client.step = "clear", NEW left, client'.step = "idle",
         left = [mLocAdapters EXCEPT ![client.last] = NULL], mLocAdapters' = left
  PROVE  /\ B!ArraySound'
         /\ left \in [B!Slots -> BaseAdapters \cup {NULL}]
         /\ client.last = 1 => \A k \in B!Slots : left[k] = NULL
<1>1. PICK n \in 0 .. BaseSlots, full \in [B!Slots -> BaseAdapters \cup {NULL}], at \in {client.at} :
        /\ B!Packed(full, n)
        /\ client.last = n /\ at \in 1 .. n
        /\ mLocAdapters = [full EXCEPT ![at] = IF at = n THEN NULL ELSE full[n]]
  BY DEF B!ArraySound, B!NULL, NULL
<1>2. /\ at \in B!Slots /\ n \in B!Slots /\ n - 1 \in 0 .. BaseSlots /\ n \in Nat /\ n >= 1
      /\ \A k \in B!Slots : k \in Int
  BY <1>1, BaseAssumption DEF B!Slots
<1>3. /\ \A k \in B!Slots : full[k] # NULL <=> k <= n
      /\ \A k \in B!Slots, j \in 1 .. n : full[k] = full[j] => k = j
  BY <1>1 DEF B!Packed, B!NULL, NULL
<1>4. /\ \A k \in B!Slots : left[k] = IF k = n THEN NULL ELSE IF k = at THEN full[n] ELSE full[k]
      /\ left \in [B!Slots -> BaseAdapters \cup {NULL}]
  BY <1>1, <1>2
<1>5. ASSUME NEW k \in B!Slots
      PROVE  /\ left[k] # NULL <=> k <= n - 1
             /\ \A j \in 1 .. n - 1 : left[k] = left[j] => k = j
  <2>1. left[k] # NULL <=> k <= n - 1
    <3>1. CASE k = n
      BY <1>2, <1>4, <3>1
    <3>2. CASE k # n
      <4>1. full[n] # NULL /\ at <= n
        BY <1>1, <1>2, <1>3
      <4> QED BY <1>2, <1>3, <1>4, <3>2, <4>1
    <3> QED BY <3>1, <3>2
  <2>2. ASSUME NEW j \in 1 .. n - 1, left[k] = left[j]
        PROVE  k = j
    <3>1. j \in B!Slots /\ j # n /\ j \in 1 .. n /\ n \in 1 .. n
      BY <1>1, <1>2, BaseAssumption DEF B!Slots
    <3>2. left[j] # NULL
      <4>1. CASE j = at
        BY <1>2, <1>3, <1>4, <3>1, <4>1
      <4>2. CASE j # at
        BY <1>2, <1>3, <1>4, <3>1, <4>2
      <4> QED BY <4>1, <4>2
    <3>3. k # n
      BY <1>4, <2>2, <3>2
    <3>4. PICK f, g : /\ f = IF k = at THEN n ELSE k
                      /\ g = IF j = at THEN n ELSE j
      OBVIOUS
    <3>5. left[k] = full[f] /\ left[j] = full[g] /\ f \in B!Slots /\ g \in 1 .. n
      BY <1>2, <1>4, <3>1, <3>3, <3>4
    <3>6. f = g
      BY <1>3, <2>2, <3>5
    <3> QED BY <3>1, <3>3, <3>4, <3>6
  <2> QED BY <2>1, <2>2
<1>6. B!Packed(left, n - 1)
  BY <1>5 DEF B!Packed, B!NULL, NULL
<1>7. \E p \in 0 .. BaseSlots, array \in [B!Slots -> BaseAdapters \cup {NULL}] :
        B!Packed(array, p) /\ mLocAdapters' = array
  BY <1>2, <1>4, <1>6
<1>8. B!ArraySound'
  BY <1>7 DEF B!ArraySound, B!Packed, B!NULL, NULL
<1>9. ASSUME client.last = 1, NEW k \in B!Slots
      PROVE  left[k] = NULL
  <2>1. n = 1
    BY <1>1, <1>9
  <2>2. k = n \/ full[k] = NULL
    BY <1>2, <1>3, <2>1 DEF B!Slots
  <2>3. at = n
    BY <1>1, <2>1
  <2> QED BY <1>4, <2>2, <2>3
<1> QED BY <1>4, <1>8, <1>9

LEMMA BaseClear ==
  ASSUME B!BaseInv, B!clearLast
  PROVE  B!BaseInv'
<1>1. PICK left, bits :
        /\ left = [mLocAdapters EXCEPT ![client.last] = NULL]
        /\ bits = UNION {BaseEvents[a] : a \in BaseAdapters \cap {left[i] : i \in B!Slots}}
  OBVIOUS
<1>2. /\ client.step = "clear" /\ mLocAdapters' = left /\ client' = B!Idle
      /\ \/ /\ client.last = 1
            /\ aModem' = IF B!Real THEN B!closed(aModem) ELSE aModem
            /\ aQueue' = aQueue
         \/ aQueue' = Append(aQueue, B!Open(bits \ excluded)) /\ aModem' = aModem
      /\ upcall' = [upcall EXCEPT !.undisturbed = FALSE]
      /\ UNCHANGED <<api, excluded, enabled>>
  BY <1>1 DEF B!clearLast, B!NULL, NULL
<1>3. /\ B!BaseTypeOK /\ B!ArraySound /\ B!HandleSound /\ B!WalkSound
      /\ aQueue \in Seq(B!Message) /\ aModem \in BaseModems
  BY BaseParts DEF B!BaseTypeOK, BaseModems
<1>4. client'.step = "idle"
  BY <1>2 DEF B!Idle
<1>5. /\ B!ArraySound'
      /\ left \in [B!Slots -> BaseAdapters \cup {NULL}]
      /\ client.last = 1 => \A k \in B!Slots : left[k] = NULL
  BY <1>1, <1>2, <1>3, <1>4, BaseLeft
<1>6. ASSUME aQueue' \in Seq(B!Message), aModem' \in BaseModems
      PROVE  B!BaseTypeOK' /\ B!WalkSound'
  <2>1. /\ upcall' \in [kind : B!Kinds \cup {"none", "engineUp", "engineDown"},
                        i : 0 .. BaseSlots + 1, told : Seq(BaseAdapters),
                        from : SUBSET BaseAdapters, undisturbed : BOOLEAN]
        /\ upcall'.kind = upcall.kind /\ upcall'.i = upcall.i /\ ~upcall'.undisturbed
    BY <1>2, <1>3 DEF B!BaseTypeOK
  <2>2. B!BaseTypeOK'
    BY <1>2, <1>3, <1>4, <1>6, <2>1 DEF B!BaseTypeOK, B!Message, B!AllEvents, BaseModems, B!Kinds
  <2> QED BY <2>1, <2>2 DEF B!WalkSound
<1>7. CASE /\ client.last = 1
           /\ aModem' = IF B!Real THEN B!closed(aModem) ELSE aModem
           /\ aQueue' = aQueue
  <2>1. aModem' \in BaseModems
    <3>1. PICK r : r = aModem'
      OBVIOUS
    <3>2. r \in BaseModems
      BY <1>3, <1>7, <3>1, BaseClosed
    <3> QED BY <3>1, <3>2
  <2>2. B!Present' = {}
    BY <1>2, <1>5, <1>7 DEF B!Present, B!NULL, NULL
  <2>3. B!HandleSound'
    BY <2>2 DEF B!HandleSound
  <2> QED BY <1>3, <1>5, <1>6, <1>7, <2>1, <2>3 DEF B!BaseInv
<1>8. CASE aQueue' = Append(aQueue, B!Open(bits \ excluded)) /\ aModem' = aModem
  <2>1. PICK x : x = B!Open(bits \ excluded)
    OBVIOUS
  <2>2. /\ x \in B!Message /\ x.type = "Open" /\ x.mask = bits \ excluded
    <3>1. bits \ excluded \in SUBSET B!AllEvents
      BY <1>1 DEF B!AllEvents
    <3> QED BY <2>1, <3>1 DEF B!Open, B!Message
  <2>3. aQueue' \in Seq(B!Message) /\ \E k \in 1 .. Len(aQueue') : aQueue'[k] = x
    <3>1. PICK r : r = aQueue' /\ r = Append(aQueue, x)
      BY <1>8, <2>1
    <3>2. r \in Seq(B!Message) /\ \E k \in 1 .. Len(r) : r[k] = x
      <4>1. aQueue \in Seq(B!Message) /\ x \in B!Message
        BY <1>3, <2>2
      <4> QED BY <3>1, <4>1, BaseAppended
    <3> QED BY <3>1, <3>2
  <2>4. B!HandleSound'
    <3>1. B!Opening(aQueue')
      BY <2>2, <2>3 DEF B!Opening
    <3>2. ASSUME NEW a \in B!Present'
          PROVE  B!Registering(aQueue', a)
      <4>1. a \in BaseAdapters \cap {left[i] : i \in B!Slots}
        BY <1>2, <1>5 DEF B!Present, B!NULL, NULL
      <4>2. BaseEvents[a] \ excluded \subseteq bits \ excluded
        BY <1>1, <4>1
      <4> QED BY <2>2, <2>3, <4>2 DEF B!Registering
    <3>3. B!Opening(aQueue)' /\ \A a \in B!Present' : B!Registering(aQueue, a)'
      BY <1>2, <3>1, <3>2 DEF B!Opening, B!Registering
    <3> QED BY <3>3 DEF B!HandleSound
  <2> QED BY <1>3, <1>5, <1>6, <1>8, <2>3, <2>4 DEF B!BaseInv
<1> QED BY <1>2, <1>7, <1>8

(* The modem calls up: the walk begins.                                      *)
LEMMA BaseStarts ==
  ASSUME B!BaseTypeOK, B!ArraySound, NEW kind \in B!Kinds \cup {"engineUp", "engineDown"},
         B!startCall(kind)
  PROVE  /\ B!WalkSound' /\ B!ArraySound'
         /\ upcall' \in [kind : B!Kinds \cup {"none", "engineUp", "engineDown"},
                         i : 0 .. BaseSlots + 1, told : Seq(BaseAdapters),
                         from : SUBSET BaseAdapters, undisturbed : BOOLEAN]
         /\ upcall'.i = 1
         /\ B!Present' = B!Present
         /\ UNCHANGED <<api, excluded, mLocAdapters, client, enabled>>
         /\ aQueue' = aQueue \o B!Before(kind)
<1>1. /\ upcall' = [kind |-> kind, i |-> 1, told |-> <<>>,
                    from |-> IF kind = "request" THEN B!Present \cap enabled ELSE B!Present,
                    undisturbed |-> client.step = "idle"]
      /\ UNCHANGED <<api, excluded, mLocAdapters, client, enabled>>
      /\ aQueue' = aQueue \o B!Before(kind)
  BY DEF B!startCall
<1>2. PICK from : from = IF kind = "request" THEN B!Present \cap enabled ELSE B!Present
  OBVIOUS
<1>3. /\ upcall'.kind = kind /\ upcall'.i = 1 /\ upcall'.told = <<>> /\ upcall'.from = from
      /\ upcall'.undisturbed <=> client.step = "idle"
  BY <1>1, <1>2
<1>4. B!Present' = B!Present
  BY <1>1 DEF B!Present
<1>5. from \in SUBSET BaseAdapters /\ <<>> \in Seq(BaseAdapters) /\ 1 \in 0 .. BaseSlots + 1
  BY <1>2, BaseArray, BaseAssumption, EmptySeq
<1>6. upcall' \in [kind : B!Kinds \cup {"none", "engineUp", "engineDown"},
                   i : 0 .. BaseSlots + 1, told : Seq(BaseAdapters),
                   from : SUBSET BaseAdapters, undisturbed : BOOLEAN]
  <2>1. PICK idle \in BOOLEAN : idle = (client.step = "idle")
    OBVIOUS
  <2>2. upcall' = [kind |-> kind, i |-> 1, told |-> <<>>, from |-> from, undisturbed |-> idle]
    BY <1>1, <1>2, <2>1
  <2> QED BY <1>5, <2>2
<1>7. B!WalkSound'
  <2> SUFFICES ASSUME client.step = "idle" PROVE B!WalkSound'
    BY <1>3 DEF B!WalkSound
  <2>1. client'.step = "idle" /\ upcall'.from \subseteq B!Present'
    BY <1>1, <1>2, <1>3, <1>4
  <2>2. Len(upcall'.told) = upcall'.i - 1 /\ \A k \in 1 .. upcall'.i - 1 : FALSE
    BY <1>3
  <2>3. kind = "request" => upcall'.from \subseteq enabled'
    BY <1>1, <1>2, <1>3
  <2> QED BY <1>3, <2>1, <2>2, <2>3 DEF B!WalkSound
<1> QED BY <1>1, <1>2, <1>3, <1>4, <1>6, <1>7, BaseArraySame

LEMMA BaseReport ==
  ASSUME B!BaseInv, B!reportUp \/ B!engineDown
  PROVE  B!BaseInv'
<1>1. PICK kind \in B!Kinds \cup {"engineDown"} :
        /\ B!startCall(kind)
        /\ \/ aModem' = aModem
           \/ aModem' = [B!closed(aModem) EXCEPT !.up = FALSE]
  BY DEF B!reportUp, B!engineDown
<1>2. /\ B!BaseTypeOK /\ B!ArraySound /\ B!HandleSound
      /\ aQueue \in Seq(B!Message) /\ aModem \in BaseModems
  BY BaseParts DEF B!BaseTypeOK, BaseModems
<1>3. /\ B!WalkSound' /\ B!ArraySound' /\ B!Present' = B!Present
      /\ upcall' \in [kind : B!Kinds \cup {"none", "engineUp", "engineDown"},
                      i : 0 .. BaseSlots + 1, told : Seq(BaseAdapters),
                      from : SUBSET BaseAdapters, undisturbed : BOOLEAN]
      /\ upcall'.i = 1
      /\ UNCHANGED <<api, excluded, mLocAdapters, client, enabled>>
      /\ aQueue' = aQueue \o B!Before(kind)
  BY <1>1, <1>2, BaseStarts
<1>4. aQueue' = aQueue
  <2>1. B!Before(kind) = <<>>
    BY DEF B!Before, B!Kinds
  <2> QED BY <1>2, <1>3, <2>1, ConcatEmptySeq
<1>5. aModem' \in BaseModems /\ (aModem' = aModem \/ ~aModem'.up)
  <2>1. PICK h, r : h = B!closed(aModem) /\ r = [h EXCEPT !.up = FALSE]
    OBVIOUS
  <2>2. h \in BaseModems
    BY <1>2, <2>1, BaseClosed
  <2>3. r \in BaseModems /\ ~r.up
    BY <2>1, <2>2 DEF BaseModems
  <2> QED BY <1>1, <1>2, <2>1, <2>3
<1>6. B!BaseTypeOK'
  BY <1>2, <1>3, <1>4, <1>5 DEF B!BaseTypeOK, B!Message, B!AllEvents, BaseModems, B!Kinds
<1>7. B!HandleSound'
  <2>1. CASE aModem' = aModem
    BY <1>2, <1>3, <1>4, <2>1, BaseHandleSame
  <2>2. CASE ~aModem'.up
    BY <2>2 DEF B!HandleSound
  <2> QED BY <1>5, <2>1, <2>2
<1> QED BY <1>3, <1>6, <1>7 DEF B!BaseInv

(* The modem comes back: the first message reopens the handle.               *)
LEMMA BaseEngineUp ==
  ASSUME B!BaseInv, B!engineUp
  PROVE  B!BaseInv'
<1>1. B!startCall("engineUp") /\ aModem' = [aModem EXCEPT !.up = TRUE]
  BY DEF B!engineUp
<1>2. /\ B!BaseTypeOK /\ B!ArraySound
      /\ aQueue \in Seq(B!Message) /\ aModem \in BaseModems
  BY BaseParts DEF B!BaseTypeOK, BaseModems
<1>3. /\ B!WalkSound' /\ B!ArraySound'
      /\ upcall' \in [kind : B!Kinds \cup {"none", "engineUp", "engineDown"},
                      i : 0 .. BaseSlots + 1, told : Seq(BaseAdapters),
                      from : SUBSET BaseAdapters, undisturbed : BOOLEAN]
      /\ upcall'.i = 1
      /\ UNCHANGED <<api, excluded, mLocAdapters, client, enabled>>
      /\ aQueue' = aQueue \o B!Before("engineUp")
  BY <1>1, <1>2, BaseStarts
<1>4. PICK x : x = B!Ssr
  OBVIOUS
<1>5. x \in B!Message /\ x.type = "Ssr"
  BY <1>4 DEF B!Ssr, B!Message, B!AllEvents, B!NULL, NULL
<1>6. aQueue' = Append(aQueue, x)
  <2>1. aQueue' = aQueue \o <<x>>
    BY <1>3, <1>4 DEF B!Before
  <2> QED BY <1>2, <1>5, <2>1, AppendIsConcat
<1>7. aQueue' \in Seq(B!Message) /\ \E k \in 1 .. Len(aQueue') : aQueue'[k] = x
  <2>1. PICK r : r = aQueue' /\ r = Append(aQueue, x)
    BY <1>6
  <2>2. r \in Seq(B!Message) /\ \E k \in 1 .. Len(r) : r[k] = x
    <3>1. aQueue \in Seq(B!Message) /\ x \in B!Message
      BY <1>2, <1>5
    <3> QED BY <2>1, <3>1, BaseAppended
  <2> QED BY <2>1, <2>2
<1>8. aModem' \in BaseModems
  BY <1>1, <1>2 DEF BaseModems
<1>9. B!BaseTypeOK'
  BY <1>2, <1>3, <1>7, <1>8 DEF B!BaseTypeOK, B!Message, B!AllEvents, BaseModems, B!Kinds
<1>10. B!HandleSound'
  <2>1. B!Opening(aQueue)' /\ \A a : B!Registering(aQueue, a)'
    BY <1>5, <1>7 DEF B!Opening, B!Registering
  <2> QED BY <2>1 DEF B!HandleSound
<1> QED BY <1>3, <1>9, <1>10 DEF B!BaseInv

(* One turn of the loop.                                                     *)
LEMMA BaseCall ==
  ASSUME B!BaseInv, B!callAdapter
  PROVE  B!BaseInv'
<1>1. PICK a, i : a = mLocAdapters[i] /\ i = upcall.i
  OBVIOUS
<1>2. /\ upcall.kind # "none" /\ i <= BaseSlots /\ a # NULL
      /\ upcall' = [upcall EXCEPT !.i = IF upcall.kind = "request" /\ a \in enabled
                                        THEN BaseSlots + 1 ELSE upcall.i + 1,
                                  !.told = IF upcall.kind # "request" \/ a \in enabled
                                           THEN Append(upcall.told, a) ELSE upcall.told]
      /\ aQueue' = IF upcall.kind \in {"engineUp", "engineDown"}
                   THEN Append(aQueue, B!Told(upcall.kind = "engineUp", a)) ELSE aQueue
      /\ UNCHANGED <<api, excluded, mLocAdapters, client, aModem, enabled>>
  BY <1>1 DEF B!callAdapter, B!Going, B!handles, B!NULL, NULL
<1>3. /\ B!BaseTypeOK /\ B!ArraySound /\ B!HandleSound /\ B!WalkSound
      /\ aQueue \in Seq(B!Message) /\ aModem \in BaseModems
  BY BaseParts DEF B!BaseTypeOK, BaseModems
<1>4. i \in B!Slots /\ i + 1 \in 0 .. BaseSlots + 1 /\ BaseSlots + 1 \in 0 .. BaseSlots + 1
  BY <1>1, <1>2, <1>3, BaseAssumption DEF B!BaseTypeOK, B!Slots
<1>5. a \in BaseAdapters
  BY <1>1, <1>2, <1>3, <1>4, BaseArray
<1>6. PICK told : told = IF upcall.kind # "request" \/ a \in enabled
                         THEN Append(upcall.told, a) ELSE upcall.told
  OBVIOUS
<1>7. PICK j : j = IF upcall.kind = "request" /\ a \in enabled THEN BaseSlots + 1 ELSE i + 1
  OBVIOUS
<1>8. /\ upcall.told \in Seq(BaseAdapters) /\ told \in Seq(BaseAdapters)
      /\ j \in 0 .. BaseSlots + 1 /\ j >= 1
  BY <1>3, <1>4, <1>5, <1>6, <1>7, BaseAssumption DEF B!BaseTypeOK, B!Slots
<1>9. /\ upcall' = [upcall EXCEPT !.i = j, !.told = told]
  BY <1>1, <1>2, <1>6, <1>7
<1>10. /\ upcall' \in [kind : B!Kinds \cup {"none", "engineUp", "engineDown"},
                       i : 0 .. BaseSlots + 1, told : Seq(BaseAdapters),
                       from : SUBSET BaseAdapters, undisturbed : BOOLEAN]
       /\ upcall'.i = j /\ upcall'.told = told /\ upcall'.kind = upcall.kind
       /\ upcall'.from = upcall.from /\ upcall'.undisturbed = upcall.undisturbed
  BY <1>3, <1>8, <1>9 DEF B!BaseTypeOK
<1>11. /\ aQueue' \in Seq(B!Message)
       /\ \A c : B!Registering(aQueue, c) => B!Registering(aQueue', c)
       /\ B!Opening(aQueue) => B!Opening(aQueue')
  <2>1. CASE upcall.kind \in {"engineUp", "engineDown"}
    <3>1. PICK x, r : /\ x = B!Told(upcall.kind = "engineUp", a)
                      /\ r = aQueue' /\ r = Append(aQueue, x)
      BY <1>2, <2>1
    <3>2. x \in B!Message
      BY <1>5, <3>1 DEF B!Told, B!Message, B!AllEvents
    <3>3. /\ r \in Seq(B!Message)
          /\ \A c : B!Registering(aQueue, c) => B!Registering(r, c)
          /\ B!Opening(aQueue) => B!Opening(r)
      <4>1. aQueue \in Seq(B!Message)
        BY <1>3
      <4> QED BY <3>1, <3>2, <4>1, BaseAppended
    <3> QED BY <3>1, <3>3
  <2>2. CASE upcall.kind \notin {"engineUp", "engineDown"}
    BY <1>2, <1>3, <2>2
  <2> QED BY <2>1, <2>2
<1>12. B!BaseTypeOK'
  BY <1>2, <1>3, <1>8, <1>10, <1>11 DEF B!BaseTypeOK, B!Message, B!AllEvents, BaseModems, B!Kinds
<1>13. B!Present' = B!Present
  BY <1>2 DEF B!Present
<1>14. B!HandleSound'
  <2>1. CASE client.step = "idle"
    BY <1>2, <1>3, <1>11, <1>13, <2>1, BaseHandleKept
  <2>2. CASE client.step # "idle"
    BY <1>2, <2>2 DEF B!HandleSound
  <2> QED BY <2>1, <2>2
<1>15. B!WalkSound'
  <2> SUFFICES ASSUME upcall.undisturbed PROVE B!WalkSound'
    BY <1>10 DEF B!WalkSound
  <2>1. client'.step = "idle" /\ upcall'.from \subseteq B!Present'
    BY <1>2, <1>3, <1>10, <1>13 DEF B!WalkSound
  <2>2. /\ \A k \in 1 .. i - 1 : mLocAdapters[k] # NULL
        /\ IF upcall.kind # "request"
           THEN /\ Len(upcall.told) = i - 1
                /\ \A k \in 1 .. i - 1 : upcall.told[k] = mLocAdapters[k]
           ELSE /\ upcall.told = <<>> /\ upcall.from \subseteq enabled
                /\ \A k \in 1 .. i - 1 : mLocAdapters[k] \notin upcall.from
    <3>1. upcall.i # BaseSlots + 1
      BY <1>1, <1>4, BaseAssumption DEF B!Slots
    <3> QED BY <1>1, <1>2, <1>3, <3>1 DEF B!WalkSound, B!NULL, NULL
  <2>3. \A k \in 1 .. i : k \in 1 .. i - 1 \/ k = i
    BY <1>4 DEF B!Slots
  <2>4. CASE upcall.kind # "request"
    <3>1. j = i + 1 /\ j - 1 = i /\ told = Append(upcall.told, a)
      BY <1>4, <1>6, <1>7, <2>4 DEF B!Slots
    <3>2. /\ Len(told) = i
          /\ \A k \in 1 .. i - 1 : told[k] = upcall.told[k]
          /\ told[i] = a
      <4>1. Len(upcall.told) = i - 1 /\ (i - 1) + 1 = i
        BY <1>4, <2>2, <2>4 DEF B!Slots
      <4> QED BY <1>5, <1>8, <3>1, <4>1, AppendProperties
    <3>3. \A k \in 1 .. i : mLocAdapters[k] # NULL /\ told[k] = mLocAdapters[k]
      BY <1>1, <1>2, <2>2, <2>3, <2>4, <3>2
    <3>4. /\ \A k \in 1 .. upcall'.i - 1 : mLocAdapters'[k] # NULL
          /\ Len(upcall'.told) = upcall'.i - 1
          /\ \A k \in 1 .. upcall'.i - 1 : upcall'.told[k] = mLocAdapters'[k]
      BY <1>2, <1>10, <3>1, <3>2, <3>3
    <3> QED BY <1>10, <2>1, <2>4, <3>4 DEF B!WalkSound, B!NULL, NULL
  <2>5. CASE upcall.kind = "request" /\ a \in enabled
    <3>1. j = BaseSlots + 1 /\ told = Append(<<>>, a)
      BY <1>6, <1>7, <2>2, <2>5
    <3>2. Len(told) = 1
      BY <3>1
    <3> QED BY <1>10, <2>1, <2>5, <3>1, <3>2 DEF B!WalkSound
  <2>6. CASE upcall.kind = "request" /\ a \notin enabled
    <3>1. j = i + 1 /\ j - 1 = i /\ told = <<>>
      BY <1>4, <1>6, <1>7, <2>2, <2>6 DEF B!Slots
    <3>2. \A k \in 1 .. i : mLocAdapters[k] # NULL /\ mLocAdapters[k] \notin upcall.from
      BY <1>1, <1>2, <2>2, <2>3, <2>6
    <3>3. /\ \A k \in 1 .. upcall'.i - 1 : mLocAdapters'[k] # NULL
          /\ upcall'.told = <<>> /\ upcall'.from \subseteq enabled'
          /\ \A k \in 1 .. upcall'.i - 1 : mLocAdapters'[k] \notin upcall'.from
      BY <1>2, <1>10, <2>2, <2>6, <3>1, <3>2
    <3> QED BY <1>10, <2>1, <2>6, <3>3 DEF B!WalkSound, B!NULL, NULL
  <2> QED BY <2>4, <2>5, <2>6
<1> QED BY <1>2, <1>3, <1>12, <1>14, <1>15, BaseArraySame DEF B!BaseInv

LEMMA BaseEnd ==
  ASSUME B!BaseInv, B!endCall
  PROVE  B!BaseInv'
<1>1. /\ upcall' = B!NoUpcall
      /\ UNCHANGED <<api, excluded, mLocAdapters, client, aQueue, aModem, enabled>>
  BY DEF B!endCall
<1>2. B!BaseTypeOK /\ B!ArraySound /\ B!HandleSound
  BY BaseParts
<1>3. /\ upcall' \in [kind : B!Kinds \cup {"none", "engineUp", "engineDown"},
                      i : 0 .. BaseSlots + 1, told : Seq(BaseAdapters),
                      from : SUBSET BaseAdapters, undisturbed : BOOLEAN]
      /\ upcall'.kind = "none"
  <2>1. 0 \in 0 .. BaseSlots + 1 /\ <<>> \in Seq(BaseAdapters)
    BY BaseAssumption, EmptySeq
  <2> QED BY <1>1, <2>1 DEF B!NoUpcall
<1>4. B!BaseTypeOK'
  BY <1>1, <1>2, <1>3 DEF B!BaseTypeOK, B!Message, B!AllEvents, B!Kinds
<1>5. B!WalkSound'
  BY <1>3 DEF B!WalkSound
<1> QED BY <1>1, <1>2, <1>4, <1>5, BaseHandleSame, BaseArraySame DEF B!BaseInv

LEMMA BaseInit == B!Init => B!BaseInv
<1> SUFFICES ASSUME B!Init PROVE B!BaseInv
  OBVIOUS
<1>1. /\ mLocAdapters = [k \in B!Slots |-> NULL] /\ client = B!Idle /\ aQueue = <<>>
      /\ aModem = [up |-> TRUE, open |-> FALSE, mask |-> {}]
      /\ upcall = B!NoUpcall /\ enabled = {}
  BY DEF B!Init, B!NULL, NULL
<1>2. client.step = "idle" /\ upcall.kind = "none"
  BY <1>1 DEF B!Idle, B!NoUpcall
<1>3. B!BaseTypeOK
  <2>1. upcall \in [kind : B!Kinds \cup {"none", "engineUp", "engineDown"},
                    i : 0 .. BaseSlots + 1, told : Seq(BaseAdapters),
                    from : SUBSET BaseAdapters, undisturbed : BOOLEAN]
    <3>1. 0 \in 0 .. BaseSlots + 1 /\ <<>> \in Seq(BaseAdapters)
      BY BaseAssumption, EmptySeq
    <3> QED BY <1>1, <3>1 DEF B!NoUpcall
  <2>2. aQueue \in Seq(B!Message)
    BY <1>1, EmptySeq
  <2> QED BY <1>1, <1>2, <2>1, <2>2 DEF B!BaseTypeOK
<1>4. B!ArraySound
  <2>1. 0 \in 0 .. BaseSlots /\ B!Packed(mLocAdapters, 0)
        /\ mLocAdapters \in [B!Slots -> BaseAdapters \cup {NULL}]
    BY <1>1, BaseAssumption DEF B!Packed, B!Slots, B!NULL, NULL
  <2>2. \E p \in 0 .. BaseSlots, full \in [B!Slots -> BaseAdapters \cup {NULL}] :
          B!Packed(full, p) /\ mLocAdapters = full
    BY <2>1
  <2> QED BY <1>2, <2>2 DEF B!ArraySound, B!NULL, NULL
<1>5. B!HandleSound
  <2>1. B!Present = {}
    BY <1>1 DEF B!Present, B!NULL, NULL
  <2> QED BY <2>1 DEF B!HandleSound
<1>6. B!WalkSound
  BY <1>2 DEF B!WalkSound
<1> QED BY <1>3, <1>4, <1>5, <1>6 DEF B!BaseInv

LEMMA BaseQuiet ==
  ASSUME B!BaseInv, UNCHANGED base
  PROVE  B!BaseInv'
<1>1. UNCHANGED <<api, excluded, mLocAdapters, client, aQueue, aModem, upcall, enabled>>
  BY DEF base
<1>2. B!BaseTypeOK /\ B!ArraySound /\ B!HandleSound /\ B!WalkSound
  BY BaseParts
<1>3. B!BaseTypeOK'
  BY <1>1, <1>2 DEF B!BaseTypeOK, B!Message, B!AllEvents
<1> QED BY <1>1, <1>2, <1>3, BaseHandleSame, BaseArraySame, BaseWalkSame DEF B!BaseInv

(* A walk that has ended has called each adapter once.                       *)
LEMMA BaseDelivered ==
  ASSUME B!BaseInv
  PROVE  B!CallsDelivered
<1>1. B!BaseTypeOK /\ B!ArraySound /\ B!WalkSound
  BY BaseParts
<1> SUFFICES ASSUME upcall.kind # "none", ~B!Going, upcall.undisturbed
             PROVE  B!CallsDelivered
  BY DEF B!CallsDelivered
<1>2. ASSUME \A k, j \in 1 .. Len(upcall.told) : upcall.told[k] = upcall.told[j] => k = j,
             upcall.kind = "request" => /\ Len(upcall.told) <= 1
                                        /\ Len(upcall.told) = 0 => upcall.from = {}
                                        /\ Len(upcall.told) \in Nat,
             upcall.kind # "request" => upcall.from \subseteq
                                          {upcall.told[k] : k \in 1 .. Len(upcall.told)}
      PROVE  B!CallsDelivered
  <2>1. PICK told : told = {upcall.told[k] : k \in 1 .. Len(upcall.told)}
    OBVIOUS
  <2>2. upcall.kind = "request" /\ upcall.from # {} => told # {}
    <3> SUFFICES ASSUME upcall.kind = "request", upcall.from # {} PROVE told # {}
      OBVIOUS
    <3>0. PICK z : z = Len(upcall.told)
      OBVIOUS
    <3>1. z = 1
      <4>1. z <= 1 /\ z \in Nat
        BY <1>2, <3>0
      <4>2. z # 0
        BY <1>2, <3>0
      <4> QED BY <4>1, <4>2
    <3>2. upcall.told[1] \in told
      BY <2>1, <3>0, <3>1
    <3> QED BY <3>2
  <2>3. CASE upcall.kind = "request"
    <3>1. Len(upcall.told) <= 1 /\ (upcall.from # {} => told # {})
      BY <1>2, <2>2, <2>3
    <3> QED BY <1>2, <2>1, <2>3, <3>1 DEF B!CallsDelivered
  <2>4. CASE upcall.kind # "request"
    BY <1>2, <2>1, <2>4 DEF B!CallsDelivered
  <2> QED BY <2>3, <2>4
<1>3. PICK i : i = upcall.i
  OBVIOUS
<1>4. /\ i \in 1 .. BaseSlots + 1 /\ BaseSlots \in Nat
      /\ i = BaseSlots + 1 \/ mLocAdapters[i] = NULL
  BY <1>1, <1>3, BaseAssumption DEF B!BaseTypeOK, B!Going, B!NULL, NULL
<1>5. client.step = "idle" /\ upcall.from \subseteq B!Present
  BY <1>1 DEF B!WalkSound
<1>6. CASE upcall.kind = "request" /\ Len(upcall.told) = 1
  BY <1>2, <1>6
<1>7. CASE ~(upcall.kind = "request" /\ Len(upcall.told) = 1)
  <2>1. /\ \A k \in 1 .. i - 1 : mLocAdapters[k] # NULL
        /\ upcall.kind # "request" =>
             /\ Len(upcall.told) = i - 1
             /\ \A k \in 1 .. i - 1 : upcall.told[k] = mLocAdapters[k]
        /\ upcall.kind = "request" =>
             /\ upcall.told = <<>>
             /\ \A k \in 1 .. i - 1 : mLocAdapters[k] \notin upcall.from
    BY <1>1, <1>3, <1>7 DEF B!WalkSound, B!NULL, NULL
  <2>2. PICK n \in Nat :
          /\ n <= BaseSlots
          /\ \A k \in B!Slots : mLocAdapters[k] # NULL <=> k <= n
          /\ \A k \in B!Slots, j \in 1 .. n : mLocAdapters[k] = mLocAdapters[j] => k = j
    BY <1>1, <1>5, BasePacked
  <2>3. n <= i - 1
    <3>1. CASE i = BaseSlots + 1
      BY <1>4, <2>2, <3>1
    <3>2. CASE i # BaseSlots + 1
      <4>1. i \in B!Slots /\ mLocAdapters[i] = NULL
        BY <1>4, <3>2 DEF B!Slots
      <4> QED BY <1>4, <2>2, <4>1
    <3> QED BY <3>1, <3>2
  <2>4. i - 1 <= n
    <3>1. CASE i = 1
      BY <2>2, <3>1
    <3>2. CASE i # 1
      <4>1. i - 1 \in B!Slots /\ i - 1 \in 1 .. i - 1
        BY <1>4, <3>2 DEF B!Slots
      <4> QED BY <2>1, <2>2, <4>1
    <3> QED BY <3>1, <3>2
  <2>5. n = i - 1 /\ \A k \in 1 .. n : k \in B!Slots
    BY <1>4, <2>2, <2>3, <2>4 DEF B!Slots
  <2>6. \A a \in B!Present : \E k \in 1 .. n : mLocAdapters[k] = a
    <3> SUFFICES ASSUME NEW a \in B!Present PROVE \E k \in 1 .. n : mLocAdapters[k] = a
      OBVIOUS
    <3>1. PICK k \in B!Slots : mLocAdapters[k] = a /\ a # NULL
      BY DEF B!Present, B!NULL, NULL
    <3>2. k <= n /\ k \in 1 .. BaseSlots
      BY <2>2, <3>1 DEF B!Slots
    <3> QED BY <2>2, <3>1, <3>2
  <2>7. CASE upcall.kind = "request"
    <3>1. Len(upcall.told) = 0
      BY <2>1, <2>7
    <3>2. upcall.from = {}
      BY <1>5, <2>1, <2>5, <2>6, <2>7
    <3> QED BY <1>2, <2>7, <3>1, <3>2
  <2>8. CASE upcall.kind # "request"
    <3>1. /\ Len(upcall.told) = n
          /\ \A k \in 1 .. n : upcall.told[k] = mLocAdapters[k]
      BY <2>1, <2>5, <2>8
    <3>2. upcall.from \subseteq {upcall.told[k] : k \in 1 .. Len(upcall.told)}
      BY <1>5, <2>6, <3>1
    <3>3. \A k, j \in 1 .. n : upcall.told[k] = upcall.told[j] => k = j
      BY <2>2, <2>5, <3>1
    <3> QED BY <1>2, <2>8, <3>1, <3>2, <3>3
  <2> QED BY <2>7, <2>8
<1> QED BY <1>6, <1>7

(* Whatever the order in which adapters come and go and the modem crashes    *)
(* and comes back: the events of every adapter are registered, every walk    *)
(* that nothing disturbs calls each adapter once or a request's handler      *)
(* alone, and an adapter that learns of a new engine finds the handle open.  *)
THEOREM AdaptersAreServed == MCSpec => []AdaptersServed
<1> DEFINE all == <<part, vars, hal, base, routing, config, nmea>>
<1>1. MCInit => B!BaseInv
  BY BaseInit DEF MCInit
<1>2. B!BaseInv /\ [MCNext]_all => B!BaseInv'
  <2> SUFFICES ASSUME B!BaseInv, [MCNext]_all PROVE B!BaseInv'
    OBVIOUS
  <2>1. B!Next \/ UNCHANGED base
    BY DEF MCNext
  <2>2. CASE B!Next
    BY <2>2, BaseProc, BaseAdd, BaseEnable, BaseRemove, BaseFill, BaseClear, BaseReport,
       BaseEngineUp, BaseCall, BaseEnd DEF B!Next
  <2> QED BY <2>1, <2>2, BaseQuiet
<1>3. B!BaseInv => AdaptersServed
  <2> SUFFICES ASSUME B!BaseInv
               PROVE  B!EventsRegistered /\ B!CallsDelivered /\ B!UpFindsHandle
    BY DEF AdaptersServed
  <2>1. B!Settled => ~B!Opening(aQueue) /\ \A a : ~B!Registering(aQueue, a)
    BY DEF B!Settled, B!Opening, B!Registering
  <2>2. B!Settled => \A a \in B!Present : /\ BaseEvents[a] \ excluded \subseteq aModem.mask
                                          /\ aModem.open
    BY <2>1, BaseParts DEF B!HandleSound, B!Settled
  <2> QED BY <2>2, BaseDelivered DEF B!EventsRegistered, B!UpFindsHandle
<1> QED BY <1>1, <1>2, <1>3, PTL DEF MCSpec
=============================================================================
