----------------------- MODULE AgpsStateMachineProofs -----------------------
(***************************************************************************)
(* Proofs about AgpsStateMachine for every set of clients, every kind of   *)
(* subscriber it serves and every bound.                                   *)
(***************************************************************************)
EXTENDS AgpsStateMachine, TLAPS

(* A new or known subscriber is listed; only a Released machine asks for   *)
(* the interface; only an Acquired one grants at once.                     *)
Subscribed(mm, s, o) ==
  /\ o.m \in Machine
  /\ o.m.active = IF s \in Listed(mm) THEN mm.active ELSE mm.active \cup {s}
  /\ o.m.inactive = mm.inactive
  /\ o.m.state = IF mm.state = "Released" THEN "Pending" ELSE mm.state
  /\ o.ask = IF mm.state = "Released" THEN "REQUEST" ELSE "NONE"
  /\ o.told = IF mm.state = "Acquired" THEN Tell({s}, "GRANTED") ELSE {}

(* What RSRC_SUBSCRIBE does in each of the four states.                    *)
LEMMA SubscribeOutcome ==
  ASSUME NEW mm \in Machine, NEW s \in Clients,
         NEW o \in onRsrcEvent(mm, "SUBSCRIBE", s, TRUE)
  PROVE  Subscribed(mm, s, o)
<1> USE DEF Subscribed
<1>1. CASE mm.state = "Released"
  BY <1>1, SMTT(30) DEF onRsrcEvent, releasedOnEvent, Then, In, addSubscriber, Machine,
              States, Listed
<1>2. CASE mm.state = "Pending"
  BY <1>2 DEF onRsrcEvent, pendingOnEvent, Then, addSubscriber, Machine,
              States, Listed
<1>3. CASE mm.state = "Acquired"
  BY <1>3 DEF onRsrcEvent, acquiredOnEvent, Then, addSubscriber, Machine,
              States, Listed
<1>4. CASE mm.state = "Releasing"
  BY <1>4 DEF onRsrcEvent, releasingOnEvent, Then, addSubscriber, Machine,
              States, Listed
<1> QED BY <1>1, <1>2, <1>3, <1>4 DEF Machine, States

(* What becomes of a listed subscriber that leaves, and of the list.       *)
Left(mm, s, o) ==
  \E t \in Listed(mm) : /\ o.told = Tell({s, t}, "UNSUBSCRIBE")
                        /\ o.m.active = mm.active \ {s, t}
                        /\ o.m.inactive = mm.inactive \ {s, t}

(* What the first half of RSRC_UNSUBSCRIBE does to the list.               *)
LEMMA LeaveOutcome ==
  ASSUME NEW mm \in Machine, NEW s \in Listed(mm), NEW o \in leave(mm, s)
  PROVE  /\ o.m \in Machine /\ o.m.state = mm.state /\ o.ask = "NONE"
         /\ Left(mm, s, o)
<1>1. PICK t \in Listed(mm) :
        o = Then(notifyAndDelete(mm, {s, t}), Tell({s, t}, "UNSUBSCRIBE"), "NONE")
  BY SubscriberAssumption DEF leave, waitForCloseComplete
<1>2. /\ o.m \in Machine /\ o.m.state = mm.state /\ o.ask = "NONE"
      /\ o.told = Tell({s, t}, "UNSUBSCRIBE")
      /\ o.m.active = mm.active \ {s, t}
      /\ o.m.inactive = mm.inactive \ {s, t}
  BY <1>1 DEF Then, Machine, notifyAndDelete
<1> QED BY <1>2 DEF Left

(* The state a machine is left in when a subscriber has gone, and the      *)
(* release that follows when nobody uses the interface any more.           *)
Unsubscribed(mm, s, o) ==
  /\ Left(mm, s, o)
  /\ o.m \in Machine
  /\ o.m.state = IF Listed(o.m) = {} THEN "Released"
                 ELSE IF o.m.active = {} THEN "Releasing"
                 ELSE mm.state
  /\ o.ask = IF o.m.active = {} /\ mm.state # "Releasing"
             THEN "RELEASE" ELSE "NONE"

(* What RSRC_UNSUBSCRIBE from a listed subscriber does.                    *)
LEMMA UnsubscribeOutcome ==
  ASSUME NEW mm \in Machine, mm.state # "Released", NEW s \in Listed(mm),
         NEW o \in onRsrcEvent(mm, "UNSUBSCRIBE", s, TRUE)
  PROVE  Unsubscribed(mm, s, o)
<1> USE DEF Unsubscribed
<1>1. CASE mm.state \in {"Pending", "Acquired"}
  <2>1. PICK l \in leave(mm, s) : o = releaseIfUnused(l)
    BY <1>1 DEF onRsrcEvent, pendingOnEvent, acquiredOnEvent
  <2>2. /\ l.m \in Machine /\ l.m.state = mm.state /\ l.ask = "NONE"
        /\ Left(mm, s, l)
    BY <2>1, LeaveOutcome
  <2>a. ASSUME o.told = l.told, o.m.active = l.m.active,
               o.m.inactive = l.m.inactive
        PROVE  Left(mm, s, o)
    BY <2>2, <2>a DEF Left
  <2>3. CASE Listed(l.m) = {}
    BY <1>1, <2>1, <2>2, <2>a, <2>3
       DEF releaseIfUnused, hasSubscribers, Then, In, Machine, States, Listed
  <2>4. CASE Listed(l.m) # {} /\ l.m.active = {}
    BY <1>1, <2>1, <2>2, <2>a, <2>4
       DEF releaseIfUnused, hasSubscribers, hasActiveSubscribers, Then, In,
           Machine, States, Listed
  <2>5. CASE Listed(l.m) # {} /\ l.m.active # {}
    BY <1>1, <2>1, <2>2, <2>a, <2>5
       DEF releaseIfUnused, hasSubscribers, hasActiveSubscribers, Listed
  <2> QED BY <2>3, <2>4, <2>5
<1>2. CASE mm.state = "Releasing"
  <2>1. PICK l \in leave(mm, s) :
          o = IF hasSubscribers(l.m) THEN l
              ELSE Then(In(l.m, "Released"), l.told, "NONE")
    BY <1>2 DEF onRsrcEvent, releasingOnEvent
  <2>2. /\ l.m \in Machine /\ l.m.state = mm.state /\ l.ask = "NONE"
        /\ Left(mm, s, l)
    BY <2>1, LeaveOutcome
  <2>a. ASSUME o.told = l.told, o.m.active = l.m.active,
               o.m.inactive = l.m.inactive
        PROVE  Left(mm, s, o)
    BY <2>2, <2>a DEF Left
  <2>3. CASE Listed(l.m) = {}
    BY <1>2, <2>1, <2>2, <2>a, <2>3
       DEF hasSubscribers, Then, In, Machine, States, Listed
  <2>4. CASE Listed(l.m) # {}
    BY <1>2, <2>1, <2>2, <2>a, <2>4 DEF hasSubscribers
  <2> QED BY <2>3, <2>4
<1> QED BY <1>1, <1>2 DEF Machine, States

(* The three answers of the service, in each state.                        *)
Granted(mm, o) ==
  /\ o.m \in Machine /\ o.ask = "NONE"
  /\ o.m.active = mm.active /\ o.m.inactive = mm.inactive
  /\ o.m.state = IF mm.state = "Pending" THEN "Acquired" ELSE mm.state
  /\ o.told = IF mm.state = "Pending" THEN Tell(mm.active, "GRANTED") ELSE {}

(* RSRC_GRANTED matters only to the Pending state.                         *)
LEMMA GrantedOutcome ==
  ASSUME NEW mm \in Machine, NEW o \in onRsrcEvent(mm, "GRANTED", NULL, TRUE)
  PROVE  Granted(mm, o)
BY DEF Granted, onRsrcEvent, releasedOnEvent, pendingOnEvent, acquiredOnEvent,
       releasingOnEvent, Then, In, Machine, States

Closed(mm, answer, o) ==
  \/ /\ mm.state = "Releasing"
     /\ o.m \in Machine
     /\ o.m.active = mm.active \ mm.inactive /\ o.m.inactive = {}
     /\ o.told = Tell(mm.inactive, answer)
     /\ IF mm.active # {} THEN o.m.state = "Pending" /\ o.ask = "REQUEST"
                          ELSE o.m.state = "Released" /\ o.ask = "NONE"
  \/ /\ mm.state = IF answer = "DENIED" THEN "Pending" ELSE "Acquired"
     /\ o.m \in Machine /\ o.ask = "NONE" /\ o.m.state = "Released"
     /\ o.m.active = {} /\ o.m.inactive = {}
     /\ o.told = Tell(Listed(mm), answer)
  \/ /\ mm.state # "Releasing"
     /\ mm.state # IF answer = "DENIED" THEN "Pending" ELSE "Acquired"
     /\ o.m = mm /\ o.told = {} /\ o.ask = "NONE"

(* What RSRC_RELEASED and RSRC_DENIED do in each of the four states.       *)
LEMMA ClosedOutcome ==
  ASSUME NEW mm \in Machine, NEW answer \in {"RELEASED", "DENIED"},
         NEW o \in onRsrcEvent(mm, answer, NULL, TRUE)
  PROVE  Closed(mm, answer, o)
<1> USE DEF Closed
<1>1. CASE mm.state = "Released"
  BY <1>1 DEF onRsrcEvent, releasedOnEvent, Then
<1>2. CASE mm.state = "Pending"
  <2>1. CASE answer = "RELEASED"
    BY <1>2, <2>1 DEF onRsrcEvent, pendingOnEvent, Then
  <2>2. CASE answer = "DENIED"
    <3>1. o = Then(In(notifyAndDelete(mm, Listed(mm)), "Released"),
                   Tell(Listed(mm), answer), "NONE")
      BY <1>2, <2>2 DEF onRsrcEvent, pendingOnEvent
    <3> QED BY <1>2, <2>2, <3>1
            DEF Then, In, notifyAndDelete, Listed, Machine, States
  <2> QED BY <2>1, <2>2
<1>3. CASE mm.state = "Acquired"
  <2>1. CASE answer = "DENIED"
    BY <1>3, <2>1 DEF onRsrcEvent, acquiredOnEvent, Then
  <2>2. CASE answer = "RELEASED"
    <3>1. o = Then(In(notifyAndDelete(mm, Listed(mm)), "Released"),
                   Tell(Listed(mm), answer), "NONE")
      BY <1>3, <2>2 DEF onRsrcEvent, acquiredOnEvent
    <3> QED BY <1>3, <2>2, <3>1
            DEF Then, In, notifyAndDelete, Listed, Machine, States
  <2> QED BY <2>1, <2>2
<1>4. CASE mm.state = "Releasing"
  <2>1. o = Then(In(notifyAndDelete(mm, mm.inactive),
                    IF mm.active # {} THEN "Pending" ELSE "Released"),
                 Tell(mm.inactive, answer),
                 IF mm.active # {} THEN "REQUEST" ELSE "NONE")
    BY <1>4 DEF onRsrcEvent, releasingOnEvent, hasActiveSubscribers
  <2> QED BY <1>4, <2>1 DEF Then, In, notifyAndDelete, Machine, States
<1> QED BY <1>1, <1>2, <1>3, <1>4 DEF Machine, States

-----------------------------------------------------------------------------
(* The machine, the list and the type invariant.                           *)

(* notifyRsrcStatus leaves every client with a view.                       *)
LEMMA ViewType ==
  ASSUME NEW v \in [Clients -> Views], NEW told
  PROVE  notifyRsrcStatus(v, told) \in [Clients -> Views]
BY DEF notifyRsrcStatus, Views

(* sendRsrcRequest queues nothing but requests and releases.               *)
LEMMA RequestType ==
  ASSUME NEW mm, NEW ask \in Asks, requests \in Seq({"REQUEST", "RELEASE"})
  PROVE  sendRsrcRequest(mm, ask) \in Seq({"REQUEST", "RELEASE"})
BY DEF sendRsrcRequest, Asks

(* The type invariant holds of the initial states and is kept by every     *)
(* step.                                                                   *)
LEMMA TypeInit == Init => TypeOK
<1> SUFFICES ASSUME Init PROVE TypeOK
  OBVIOUS
<1>1. m \in Machine /\ m.active \cap m.inactive = {}
  BY DEF Init, NewMachine, Machine, States
<1>2. requests \in Seq({"REQUEST", "RELEASE"}) /\ responses \in Seq(Answers)
  BY DEF Init
<1>3. held \in BOOLEAN /\ view \in [Clients -> Views] /\ restarts \in Nat
  BY DEF Init, Views
<1> QED BY <1>1, <1>2, <1>3 DEF TypeOK

ListInv == TypeOK /\ ReleasedListEmpty /\ LeaveAtOnce

(* subscribeRsrc keeps the types and leaves no list behind in Released.    *)
LEMMA ListSubscribe ==
  ASSUME ListInv, NEW s \in Clients, subscribeRsrc(s)
  PROVE  ListInv'
<1> USE DEF ListInv
<1>0. /\ responses' = responses /\ held' = held /\ restarts' = restarts
      /\ [view EXCEPT ![s] = "opening"] \in [Clients -> Views]
  BY DEF subscribeRsrc, TypeOK, Views
<1>2. ASSUME NEW o \in onRsrcEvent(m, "SUBSCRIBE", s, TRUE),
             Perform(o, [view EXCEPT ![s] = "opening"])
      PROVE  ListInv'
  <2>1. m \in Machine
    BY DEF TypeOK
  <2>a. Subscribed(m, s, o)
    BY <1>2, <2>1, SubscribeOutcome
  <2>2. /\ m' \in Machine /\ m'.inactive = m.inactive
        /\ m'.active = IF s \in Listed(m) THEN m.active ELSE m.active \cup {s}
        /\ m'.state = IF m.state = "Released" THEN "Pending" ELSE m.state
        /\ o.ask \in Asks
    BY <1>2, <2>a DEF Subscribed, Perform, Asks
  <2>3. view' \in [Clients -> Views] /\ requests' \in Seq({"REQUEST", "RELEASE"})
    BY <1>0, <1>2, <2>2, ViewType, RequestType DEF Perform, TypeOK
  <2>4. TypeOK'
    BY <1>0, <2>2, <2>3 DEF TypeOK, Listed
  <2>5. ReleasedListEmpty' /\ LeaveAtOnce'
    BY <2>2 DEF ReleasedListEmpty, LeaveAtOnce, hasSubscribers, Listed
  <2> QED BY <2>4, <2>5
<1> QED BY <1>2 DEF subscribeRsrc

(* The same for unsubscribeRsrc, whoever else the freed receiver matches.  *)
LEMMA ListUnsubscribe ==
  ASSUME ListInv, NEW s \in Clients, unsubscribeRsrc(s)
  PROVE  ListInv'
<1> USE DEF ListInv
<1>0. /\ responses' = responses /\ held' = held /\ restarts' = restarts
      /\ [view EXCEPT ![s] = "closing"] \in [Clients -> Views]
  BY DEF unsubscribeRsrc, TypeOK, Views
<1>1. CASE /\ UNCHANGED <<m, requests>>
           /\ view' = [view EXCEPT ![s] = IF Kind = "ATL" THEN "idle"
                                          ELSE "closing"]
  <2>1. view' \in [Clients -> Views]
    BY <1>1 DEF TypeOK, Views
  <2> QED BY <1>0, <1>1, <2>1
          DEF TypeOK, ReleasedListEmpty, LeaveAtOnce, hasSubscribers, Listed
<1>2. ASSUME s \in Listed(m), NEW o \in onRsrcEvent(m, "UNSUBSCRIBE", s, TRUE),
             Perform(o, [view EXCEPT ![s] = "closing"])
      PROVE  ListInv'
  <2>1. m \in Machine /\ m.state # "Released"
    BY <1>2 DEF TypeOK, ReleasedListEmpty, hasSubscribers
  <2>a. Unsubscribed(m, s, o) /\ m' = o.m
    BY <1>2, <2>1, UnsubscribeOutcome DEF Perform
  <2>2. /\ m' \in Machine
        /\ m'.state = IF Listed(m') = {} THEN "Released"
                      ELSE IF m'.active = {} THEN "Releasing"
                      ELSE m.state
        /\ o.ask \in Asks
    BY <2>a DEF Unsubscribed, Asks
  <2>3. /\ m'.active \cap m'.inactive = {}
        /\ m'.inactive = {}
    BY <2>a DEF Unsubscribed, Left, TypeOK, LeaveAtOnce
  <2>4. view' \in [Clients -> Views] /\ requests' \in Seq({"REQUEST", "RELEASE"})
    BY <1>0, <1>2, <2>2, ViewType, RequestType DEF Perform, TypeOK
  <2>5. TypeOK'
    BY <1>0, <2>2, <2>3, <2>4 DEF TypeOK
  <2>6. ReleasedListEmpty' /\ LeaveAtOnce'
    BY <2>1, <2>2, <2>3 DEF ReleasedListEmpty, LeaveAtOnce, hasSubscribers, Listed
  <2> QED BY <2>5, <2>6
<1> QED BY <1>1, <1>2 DEF unsubscribeRsrc

(* The same for an answer of the service, however late it is.              *)
LEMMA ListAnswer ==
  ASSUME ListInv, onAnswer
  PROVE  ListInv'
<1> USE DEF ListInv
<1>0. /\ m \in Machine /\ Head(responses) \in Answers
      /\ responses' \in Seq(Answers) /\ held' = held /\ restarts' = restarts
  BY DEF onAnswer, TypeOK, Answers
<1>1. PICK o \in onRsrcEvent(m, Head(responses), NULL, TRUE) : Perform(o, view)
  BY DEF onAnswer
<1>2. /\ m' \in Machine /\ o.ask \in Asks
      /\ m'.active \cap m'.inactive = {}
      /\ ReleasedListEmpty' /\ LeaveAtOnce'
  <2>1. CASE Head(responses) = "GRANTED"
    <3>1. Granted(m, o) /\ m' = o.m
      BY <1>0, <1>1, <2>1, GrantedOutcome DEF Perform
    <3> QED BY <3>1
       DEF Granted, Asks, TypeOK, ReleasedListEmpty, LeaveAtOnce,
           hasSubscribers, Listed
  <2>2. CASE Head(responses) \in {"RELEASED", "DENIED"}
    <3>1. Closed(m, Head(responses), o) /\ m' = o.m
      BY <1>0, <1>1, <2>2, ClosedOutcome DEF Perform
    <3>2. CASE m' = m /\ o.ask = "NONE"
      BY <1>0, <3>2 DEF Asks, TypeOK, ReleasedListEmpty, LeaveAtOnce,
                        hasSubscribers, Listed
    <3>3. CASE /\ m' \in Machine /\ m'.state = "Released" /\ o.ask = "NONE"
               /\ m'.active = {} /\ m'.inactive = {}
      BY <3>3 DEF Asks, ReleasedListEmpty, LeaveAtOnce, hasSubscribers, Listed
    <3>4. CASE /\ m.state = "Releasing" /\ m' \in Machine
               /\ m'.active = m.active \ m.inactive /\ m'.inactive = {}
               /\ IF m.active # {}
                  THEN m'.state = "Pending" /\ o.ask = "REQUEST"
                  ELSE m'.state = "Released" /\ o.ask = "NONE"
      BY <3>4 DEF Asks, ReleasedListEmpty, LeaveAtOnce, hasSubscribers, Listed
    <3> QED BY <3>1, <3>2, <3>3, <3>4 DEF Closed
  <2> QED BY <1>0, <2>1, <2>2 DEF Answers
<1>3. view' \in [Clients -> Views] /\ requests' \in Seq({"REQUEST", "RELEASE"})
  BY <1>1, <1>2, ViewType, RequestType DEF Perform, TypeOK
<1> QED BY <1>0, <1>2, <1>3 DEF TypeOK

(* The same for every step.                                                *)
LEMMA ListStep == ListInv /\ [Next]_vars => ListInv'
<1> SUFFICES ASSUME ListInv, [Next]_vars PROVE ListInv'
  OBVIOUS
<1>1. CASE handleEngineUp
  <2>1. /\ m' \in Machine /\ m'.state = m.state
        /\ m'.active = {} /\ m'.inactive = {}
    BY <1>1 DEF ListInv, TypeOK, handleEngineUp, dropAllSubscribers, Machine
  <2>2. /\ UNCHANGED <<requests, responses, held>>
        /\ view' \in [Clients -> Views] /\ restarts' \in Nat
    BY <1>1 DEF ListInv, TypeOK, handleEngineUp, Views
  <2> QED BY <2>1, <2>2 DEF ListInv, TypeOK, ReleasedListEmpty, LeaveAtOnce,
                            hasSubscribers, Listed
<1>2. CASE ServiceRequest \/ ServiceRelease \/ ServiceLoss
  <2>1. /\ UNCHANGED <<m, view, restarts>> /\ held' \in BOOLEAN
        /\ requests' \in Seq({"REQUEST", "RELEASE"})
        /\ responses' \in Seq(Answers)
    <3>1. /\ UNCHANGED <<m, view, restarts>>
          /\ requests' = requests \/ (requests # <<>> /\ requests' = Tail(requests))
          /\ \/ held' = held /\ responses' = responses
             \/ \E up \in BOOLEAN, a \in Answers :
                  held' = up /\ responses' = Append(responses, a)
      BY <1>2 DEF ServiceRequest, ServiceRelease, ServiceLoss, Answer, Answers
    <3>2. held' \in BOOLEAN
      BY <3>1 DEF ListInv, TypeOK
    <3>3. requests' \in Seq({"REQUEST", "RELEASE"})
      BY <3>1 DEF ListInv, TypeOK
    <3>4. responses' \in Seq(Answers)
      BY <3>1 DEF ListInv, TypeOK
    <3> QED BY <3>1, <3>2, <3>3, <3>4
  <2> QED BY <2>1 DEF ListInv, TypeOK, ReleasedListEmpty, LeaveAtOnce,
                      hasSubscribers, Listed
<1>3. CASE UNCHANGED vars
  BY <1>3 DEF ListInv, TypeOK, ReleasedListEmpty, LeaveAtOnce, hasSubscribers,
              Listed, vars
<1> QED BY <1>1, <1>2, <1>3, ListSubscribe, ListUnsubscribe, ListAnswer DEF Next

-----------------------------------------------------------------------------
(* What is in flight.                                                      *)

(* All but the first element of a queue survive the removal of its head    *)
(* ...                                                                     *)
LEMMA TailKeeps ==
  ASSUME NEW S, NEW q \in Seq(S), q # <<>>, NEW k \in DOMAIN q, k # 1
  PROVE  k - 1 \in DOMAIN Tail(q) /\ Tail(q)[k - 1] = q[k]
OBVIOUS

(* ... nothing else is in the queue afterwards ...                         *)
LEMMA TailComesFrom ==
  ASSUME NEW S, NEW q \in Seq(S), q # <<>>, NEW k \in DOMAIN Tail(q)
  PROVE  k + 1 \in DOMAIN q /\ Tail(q)[k] = q[k + 1]
OBVIOUS

(* ... and what is appended comes after everything else.                   *)
LEMMA AppendKeeps ==
  ASSUME NEW S, NEW q \in Seq(S), NEW x
  PROVE  /\ \A k \in DOMAIN q : k \in DOMAIN Append(q, x)
                               /\ Append(q, x)[k] = q[k]
         /\ Len(q) + 1 \in DOMAIN Append(q, x) /\ Append(q, x)[Len(q) + 1] = x
         /\ \A k \in DOMAIN Append(q, x) : k \in DOMAIN q \/ k = Len(q) + 1
         /\ \A k \in DOMAIN q : k < Len(q) + 1
OBVIOUS

ChannelInv == OpenMeansHeld /\ GrantIsTrue /\ PendingAnswerComing

(* A step that leaves the service and the answers alone, and becomes       *)
(* Pending only by sending a REQUEST.                                      *)
LEMMA ChannelQuiet ==
  ASSUME ChannelInv, responses' = responses, held' = held,
         m'.state = "Acquired" => m.state = "Acquired",
         m'.state = "Pending" =>
           \/ m.state = "Pending" /\ requests' = requests
           \/ \E k \in DOMAIN requests' : requests'[k] = "REQUEST"
  PROVE  ChannelInv'
BY DEF ChannelInv, OpenMeansHeld, GrantIsTrue, PendingAnswerComing

(* subscribeRsrc leaves an unanswered REQUEST behind whenever it enters    *)
(* Pending.                                                                *)
LEMMA ChannelSubscribe ==
  ASSUME ListInv, ChannelInv, NEW s \in Clients, subscribeRsrc(s)
  PROVE  ChannelInv'
<1>0. responses' = responses /\ held' = held
  BY DEF subscribeRsrc
<1>2. ASSUME NEW o \in onRsrcEvent(m, "SUBSCRIBE", s, TRUE),
             Perform(o, [view EXCEPT ![s] = "opening"])
      PROVE  ChannelInv'
  <2>1. m \in Machine /\ requests \in Seq({"REQUEST", "RELEASE"})
    BY DEF ListInv, TypeOK
  <2>2. Subscribed(m, s, o) /\ m' = o.m /\ requests' = sendRsrcRequest(o.m, o.ask)
    BY <1>2, <2>1, SubscribeOutcome DEF Perform
  <2>3. m'.state = "Acquired" => m.state = "Acquired"
    BY <2>2 DEF Subscribed
  <2>4. CASE m.state = "Released"
    <3>1. m'.active # {} /\ o.ask = "REQUEST"
      BY <2>2, <2>4 DEF Subscribed, ListInv, ReleasedListEmpty, hasSubscribers,
                        Listed
    <3>2. requests' = Append(requests, "REQUEST")
      BY <2>2, <3>1 DEF sendRsrcRequest
    <3>3. \E k \in DOMAIN requests' : requests'[k] = "REQUEST"
      BY <2>1, <3>2, AppendKeeps
    <3> QED BY <1>0, <2>3, <3>3, ChannelQuiet
  <2>5. CASE m.state # "Released"
    <3>1. m'.state = m.state /\ requests' = requests
      BY <2>2, <2>5 DEF Subscribed, sendRsrcRequest
    <3> QED BY <1>0, <3>1, ChannelQuiet
  <2> QED BY <2>4, <2>5
<1> QED BY <1>2 DEF subscribeRsrc

(* unsubscribeRsrc never enters Pending or Acquired.                       *)
LEMMA ChannelUnsubscribe ==
  ASSUME ListInv, ChannelInv, NEW s \in Clients, unsubscribeRsrc(s)
  PROVE  ChannelInv'
<1>0. responses' = responses /\ held' = held
  BY DEF unsubscribeRsrc
<1>1. CASE UNCHANGED <<m, requests>>
  BY <1>0, <1>1, ChannelQuiet
<1>2. ASSUME s \in Listed(m), NEW o \in onRsrcEvent(m, "UNSUBSCRIBE", s, TRUE),
             Perform(o, [view EXCEPT ![s] = "closing"])
      PROVE  ChannelInv'
  <2>1. m \in Machine /\ m.state # "Released"
    BY <1>2
       DEF ListInv, TypeOK, ReleasedListEmpty, hasSubscribers
  <2>2. /\ Unsubscribed(m, s, o) /\ m' = o.m
        /\ requests' = sendRsrcRequest(o.m, o.ask)
    BY <1>2, <2>1, UnsubscribeOutcome DEF Perform
  <2>3. CASE m'.active = {}
    <3>1. m'.state \in {"Released", "Releasing"}
      BY <2>2, <2>3 DEF Unsubscribed
    <3> QED BY <1>0, <3>1, ChannelQuiet
  <2>4. CASE m'.active # {}
    <3>1. m'.state \in {m.state, "Released"} /\ requests' = requests
      BY <2>2, <2>4 DEF Unsubscribed, sendRsrcRequest
    <3> QED BY <1>0, <3>1, ChannelQuiet
  <2> QED BY <2>3, <2>4
<1> QED BY <1>1, <1>2 DEF unsubscribeRsrc

(* The machine follows the answers: GRANTED opens it with the interface    *)
(* up or its loss queued behind, and it leaves Pending with the answer it  *)
(* waited for.                                                             *)
LEMMA ChannelAnswer ==
  ASSUME ListInv, ChannelInv, onAnswer
  PROVE  ChannelInv'
<1>0. /\ m \in Machine /\ responses \in Seq(Answers) /\ responses # <<>>
      /\ requests \in Seq({"REQUEST", "RELEASE"})
      /\ Head(responses) \in Answers /\ Head(responses) = responses[1]
      /\ 1 \in DOMAIN responses
      /\ responses' = Tail(responses) /\ held' = held
  BY DEF ListInv, onAnswer, TypeOK, Answers
<1>1. PICK o \in onRsrcEvent(m, Head(responses), NULL, TRUE) : Perform(o, view)
  BY DEF onAnswer
<1>2. m' = o.m /\ requests' = sendRsrcRequest(o.m, o.ask)
  BY <1>1 DEF Perform
<1>3. GrantIsTrue'
  <2> SUFFICES ASSUME NEW k \in DOMAIN responses', responses'[k] = "GRANTED",
                      ~held
               PROVE  \E j \in DOMAIN responses' :
                        j > k /\ responses'[j] = "RELEASED"
    BY <1>0 DEF GrantIsTrue
  <2>1. k + 1 \in DOMAIN responses /\ responses[k + 1] = "GRANTED" /\ k \in Nat
    BY <1>0, TailComesFrom
  <2>2. PICK j \in DOMAIN responses : j > k + 1 /\ responses[j] = "RELEASED"
    BY <2>1 DEF ChannelInv, GrantIsTrue
  <2>3. j - 1 \in DOMAIN responses' /\ responses'[j - 1] = "RELEASED" /\ j - 1 > k
    BY <1>0, <2>1, <2>2, TailKeeps
  <2> QED BY <2>3
<1>4. CASE Head(responses) = "GRANTED"
  <2>1. Granted(m, o)
    BY <1>0, <1>1, <1>4, GrantedOutcome
  <2>2. m'.state # "Pending"
    BY <1>2, <2>1 DEF Granted
  <2>3. ASSUME m'.state = "Acquired", ~held
        PROVE  \E k \in DOMAIN responses' : responses'[k] = "RELEASED"
    <3>1. m.state \in {"Pending", "Acquired"}
      BY <1>2, <2>1, <2>3 DEF Granted
    <3>2. PICK k \in DOMAIN responses : k # 1 /\ responses[k] = "RELEASED"
      BY <1>0, <1>4, <2>3 DEF ChannelInv, GrantIsTrue
    <3> QED BY <1>0, <3>2, TailKeeps
  <2> QED BY <1>0, <1>3, <2>2, <2>3
          DEF ChannelInv, OpenMeansHeld, PendingAnswerComing
<1>5. CASE Head(responses) \in {"RELEASED", "DENIED"}
  <2>1. Closed(m, Head(responses), o)
    BY <1>0, <1>1, <1>5, ClosedOutcome
  <2>2. ASSUME m'.state = "Acquired", ~held
        PROVE  \E k \in DOMAIN responses' : responses'[k] = "RELEASED"
    <3>1. m.state = "Acquired" /\ Head(responses) = "DENIED"
      BY <1>2, <1>5, <2>1, <2>2 DEF Closed
    <3>2. PICK k \in DOMAIN responses : k # 1 /\ responses[k] = "RELEASED"
      BY <1>0, <2>2, <3>1 DEF ChannelInv, OpenMeansHeld
    <3> QED BY <1>0, <3>2, TailKeeps
  <2>3. ASSUME m'.state = "Pending"
        PROVE  \/ \E k \in DOMAIN requests' : requests'[k] = "REQUEST"
               \/ \E k \in DOMAIN responses' :
                    responses'[k] \in {"GRANTED", "DENIED"}
    <3>1. CASE m.state = "Releasing"
      <4>1. m'.active # {} /\ o.ask = "REQUEST"
        BY <1>2, <2>1, <2>3, <3>1 DEF Closed, ListInv, TypeOK
      <4>2. requests' = Append(requests, "REQUEST")
        BY <1>2, <4>1 DEF sendRsrcRequest
      <4> QED BY <1>0, <4>2, AppendKeeps
    <3>2. CASE m.state # "Releasing"
      <4>1. m.state = "Pending" /\ Head(responses) = "RELEASED" /\ o.ask = "NONE"
        BY <1>2, <1>5, <2>1, <2>3, <3>2 DEF Closed
      <4>2. requests' = requests
        BY <1>2, <4>1 DEF sendRsrcRequest
      <4>3. CASE \E k \in DOMAIN requests : requests[k] = "REQUEST"
        BY <4>2, <4>3
      <4>4. CASE \E k \in DOMAIN responses :
                   responses[k] \in {"GRANTED", "DENIED"}
        <5>1. PICK k \in DOMAIN responses :
                     responses[k] \in {"GRANTED", "DENIED"} /\ k # 1
          BY <1>0, <4>1, <4>4
        <5> QED BY <1>0, <5>1, TailKeeps
      <4> QED BY <4>1, <4>3, <4>4 DEF ChannelInv, PendingAnswerComing
    <3> QED BY <3>1, <3>2
  <2> QED BY <1>0, <1>3, <2>2, <2>3
          DEF ChannelInv, OpenMeansHeld, PendingAnswerComing
<1> QED BY <1>0, <1>4, <1>5 DEF Answers

(* The steps of the connectivity service.                                  *)
LEMMA ChannelService ==
  ASSUME ListInv, ChannelInv, ServiceRequest \/ ServiceRelease \/ ServiceLoss
  PROVE  ChannelInv'
<1>0. /\ requests \in Seq({"REQUEST", "RELEASE"}) /\ responses \in Seq(Answers)
      /\ held \in BOOLEAN /\ m' = m
  BY DEF ListInv, TypeOK, ServiceRequest, ServiceRelease, ServiceLoss
<1>1. CASE held' /\ responses' = Append(responses, "GRANTED")
  <2>1. responses'[Len(responses) + 1] = "GRANTED"
        /\ Len(responses) + 1 \in DOMAIN responses'
    BY <1>0, <1>1, AppendKeeps
  <2> QED BY <1>1, <2>1
          DEF ChannelInv, OpenMeansHeld, GrantIsTrue, PendingAnswerComing
<1>2. CASE ~held /\ ~held' /\ responses' = Append(responses, "DENIED")
  <2>1. /\ responses'[Len(responses) + 1] = "DENIED"
        /\ Len(responses) + 1 \in DOMAIN responses'
        /\ \A k \in DOMAIN responses :
             k \in DOMAIN responses' /\ responses'[k] = responses[k]
        /\ \A k \in DOMAIN responses' :
             k \in DOMAIN responses \/ k = Len(responses) + 1
    BY <1>0, <1>2, AppendKeeps
  <2>2. OpenMeansHeld'
    BY <1>0, <1>2, <2>1 DEF ChannelInv, OpenMeansHeld
  <2>3. GrantIsTrue'
    BY <1>2, <2>1 DEF ChannelInv, GrantIsTrue
  <2>4. PendingAnswerComing'
    BY <2>1 DEF PendingAnswerComing
  <2> QED BY <2>2, <2>3, <2>4 DEF ChannelInv
<1>3. CASE /\ ~held' /\ responses' = Append(responses, "RELEASED")
           /\ \/ requests' = requests
              \/ /\ requests # <<>> /\ Head(requests) = "RELEASE"
                 /\ requests' = Tail(requests)
  <2>1. /\ responses'[Len(responses) + 1] = "RELEASED"
        /\ Len(responses) + 1 \in DOMAIN responses'
        /\ \A k \in DOMAIN responses : /\ k \in DOMAIN responses'
                                      /\ responses'[k] = responses[k]
                                      /\ k < Len(responses) + 1
        /\ \A k \in DOMAIN responses' :
             k \in DOMAIN responses \/ k = Len(responses) + 1
    BY <1>0, <1>3, AppendKeeps
  <2>2. OpenMeansHeld'
    BY <2>1 DEF OpenMeansHeld
  <2>3. GrantIsTrue'
    <3> SUFFICES ASSUME NEW k \in DOMAIN responses', responses'[k] = "GRANTED"
                 PROVE  \E j \in DOMAIN responses' :
                          j > k /\ responses'[j] = "RELEASED"
      BY DEF GrantIsTrue
    <3>1. k \in DOMAIN responses /\ k \in Nat
      BY <1>0, <2>1
    <3>2. Len(responses) + 1 > k
      BY <1>0, <2>1, <3>1
    <3> QED BY <2>1, <3>2
  <2>4. ASSUME m'.state = "Pending",
               \E k \in DOMAIN requests : requests[k] = "REQUEST"
        PROVE  \E k \in DOMAIN requests' : requests'[k] = "REQUEST"
    <3>1. PICK k \in DOMAIN requests : requests[k] = "REQUEST"
      BY <2>4
    <3>2. CASE requests' = requests
      BY <3>1, <3>2
    <3>3. CASE requests # <<>> /\ Head(requests) = "RELEASE"
               /\ requests' = Tail(requests)
      <4>1. k # 1
        BY <1>0, <3>1, <3>3
      <4> QED BY <1>0, <3>1, <3>3, <4>1, TailKeeps
    <3> QED BY <1>3, <3>2, <3>3
  <2>5. PendingAnswerComing'
    BY <1>0, <2>1, <2>4 DEF ChannelInv, PendingAnswerComing
  <2> QED BY <2>2, <2>3, <2>5 DEF ChannelInv
<1>4. CASE /\ UNCHANGED <<held, responses>>
           /\ requests # <<>> /\ Head(requests) = "RELEASE"
           /\ requests' = Tail(requests)
  <2>1. ASSUME NEW k \in DOMAIN requests, requests[k] = "REQUEST"
        PROVE  \E j \in DOMAIN requests' : requests'[j] = "REQUEST"
    <3>1. k # 1
      BY <1>0, <1>4, <2>1
    <3> QED BY <1>0, <1>4, <2>1, <3>1, TailKeeps
  <2> QED BY <1>0, <1>4, <2>1
          DEF ChannelInv, OpenMeansHeld, GrantIsTrue, PendingAnswerComing
<1> QED BY <1>0, <1>1, <1>2, <1>3, <1>4
        DEF ServiceRequest, ServiceRelease, ServiceLoss, Answer

(* The facts about what is in flight are kept by every step.               *)
LEMMA ChannelStep == ListInv /\ ChannelInv /\ [Next]_vars => ChannelInv'
<1> SUFFICES ASSUME ListInv, ChannelInv, [Next]_vars PROVE ChannelInv'
  OBVIOUS
<1>1. CASE handleEngineUp
  <2>1. /\ m'.state = m.state
        /\ UNCHANGED <<requests, responses, held>>
    BY <1>1 DEF ListInv, TypeOK, handleEngineUp, dropAllSubscribers, Machine
  <2> QED BY <2>1, ChannelQuiet
<1>2. CASE UNCHANGED vars
  BY <1>2, ChannelQuiet DEF vars
<1> QED BY <1>1, <1>2, ChannelSubscribe, ChannelUnsubscribe, ChannelAnswer,
           ChannelService DEF Next

-----------------------------------------------------------------------------
(* What the clients were told.                                             *)

(* What a set of notifications with one status does to a client.           *)
LEMMA Notified ==
  ASSUME NEW v \in [Clients -> Views], NEW ids, NEW status, NEW i \in Clients
  PROVE  /\ notifyRsrcStatus(v, {})[i] = v[i]
         /\ notifyRsrcStatus(v, Tell(ids, status))[i] =
              IF i \in ids THEN IF status = "GRANTED" THEN "open" ELSE "idle"
              ELSE v[i]
<1>1. notifyRsrcStatus(v, {})[i] = v[i]
  BY DEF notifyRsrcStatus
<1>2. \A n \in Tell(ids, status) : n.to \in ids /\ n.status = status
  BY DEF Tell
<1>3. ASSUME i \in ids
      PROVE  \E n \in Tell(ids, status) : n.to = i /\ n.status = status
  <2>1. [to |-> i, status |-> status] \in Tell(ids, status)
    BY <1>3 DEF Tell
  <2> QED BY <2>1
<1>4. CASE i \in ids
  BY <1>2, <1>3, <1>4 DEF notifyRsrcStatus
<1>5. CASE i \notin ids
  BY <1>2, <1>5 DEF notifyRsrcStatus
<1> QED BY <1>1, <1>4, <1>5

(* ViewsAgree without its condition.                                       *)
Agree ==
  \A i \in Clients :
    /\ view[i] = "opening" <=>
         i \in m.active /\ m.state \in {"Pending", "Releasing"}
    /\ view[i] = "open" <=> i \in m.active /\ m.state = "Acquired"
    /\ view[i] = "closing" <=> i \in m.inactive

(* The clients that are idle are the ones that are not listed.             *)
LEMMA IdleIsUnlisted ==
  ASSUME ListInv, Agree, NEW i \in Clients
  PROVE  view[i] = "idle" <=> i \notin Listed(m)
BY DEF ListInv, TypeOK, ReleasedListEmpty, hasSubscribers, Listed, Agree,
       Machine, States, Views

(* subscribeRsrc keeps the clients and the machine in agreement.           *)
LEMMA AgreeSubscribe ==
  ASSUME ListInv, Agree, NEW s \in Clients, subscribeRsrc(s)
  PROVE  Agree'
<1>0. /\ m \in Machine /\ view \in [Clients -> Views] /\ view[s] = "idle"
      /\ s \notin Listed(m)
      /\ [view EXCEPT ![s] = "opening"] \in [Clients -> Views]
  BY IdleIsUnlisted DEF ListInv, TypeOK, subscribeRsrc, Views
<1> DEFINE w == [view EXCEPT ![s] = "opening"]
<1>w. /\ w \in [Clients -> Views]
      /\ \A i \in Clients : w[i] = IF i = s THEN "opening" ELSE view[i]
  BY <1>0 DEF Views
<1> HIDE DEF w
<1>2. ASSUME NEW o \in onRsrcEvent(m, "SUBSCRIBE", s, TRUE),
             Perform(o, [view EXCEPT ![s] = "opening"])
      PROVE  Agree'
  <2>1. /\ Subscribed(m, s, o) /\ m' = o.m
        /\ view' = notifyRsrcStatus([view EXCEPT ![s] = "opening"], o.told)
    BY <1>0, <1>2, SubscribeOutcome DEF Perform
  <2>2. ASSUME NEW i \in Clients
        PROVE  view'[i] = IF i # s THEN view[i]
                          ELSE IF m.state = "Acquired" THEN "open"
                          ELSE "opening"
    <3>1. CASE m.state = "Acquired"
      <4>1. view' = notifyRsrcStatus(w, Tell({s}, "GRANTED"))
        BY <2>1, <3>1 DEF Subscribed, w
      <4>2. view'[i] = IF i \in {s} THEN "open" ELSE w[i]
        BY <1>w, <4>1, Notified
      <4> QED BY <1>w, <3>1, <4>2
    <3>2. CASE m.state # "Acquired"
      <4>1. view' = notifyRsrcStatus(w, {})
        BY <2>1, <3>2 DEF Subscribed, w
      <4>2. view'[i] = w[i]
        BY <1>w, <4>1, Notified
      <4> QED BY <1>w, <3>2, <4>2
    <3> QED BY <3>1, <3>2
  <2>3. /\ m'.active = m.active \cup {s} /\ m'.inactive = m.inactive
        /\ m'.state = IF m.state = "Released" THEN "Pending" ELSE m.state
        /\ m.state = "Released" => m.active = {}
        /\ s \notin m.active /\ s \notin m.inactive /\ m.state \in States
    BY <1>0, <2>1
       DEF Subscribed, ListInv, ReleasedListEmpty, hasSubscribers, Listed,
           Machine
  <2> QED BY <2>2, <2>3 DEF Agree, States
<1> QED BY <1>2 DEF subscribeRsrc

(* The same for unsubscribeRsrc.                                           *)
LEMMA AgreeUnsubscribe ==
  ASSUME ListInv, Agree, NEW s \in Clients, unsubscribeRsrc(s)
  PROVE  Agree'
<1>0. /\ m \in Machine /\ view \in [Clients -> Views] /\ s \in Listed(m)
      /\ [view EXCEPT ![s] = "closing"] \in [Clients -> Views]
      /\ m.state # "Released"
  BY IdleIsUnlisted
     DEF ListInv, TypeOK, unsubscribeRsrc, Views, ReleasedListEmpty,
         hasSubscribers
<1> DEFINE w == [view EXCEPT ![s] = "closing"]
<1>w. /\ w \in [Clients -> Views]
      /\ \A i \in Clients : w[i] = IF i = s THEN "closing" ELSE view[i]
  BY <1>0 DEF Views
<1> HIDE DEF w
<1>1. PICK o \in onRsrcEvent(m, "UNSUBSCRIBE", s, TRUE) :
             Perform(o, [view EXCEPT ![s] = "closing"])
  BY <1>0 DEF unsubscribeRsrc
<1>2. /\ Unsubscribed(m, s, o) /\ m' = o.m
      /\ view' = notifyRsrcStatus([view EXCEPT ![s] = "closing"], o.told)
  BY <1>0, <1>1, UnsubscribeOutcome DEF Perform
<1>3. PICK t \in Listed(m) : /\ o.told = Tell({s, t}, "UNSUBSCRIBE")
                             /\ m'.active = m.active \ {s, t}
                             /\ m'.inactive = m.inactive \ {s, t}
  BY <1>2 DEF Unsubscribed, Left
<1>4. ASSUME NEW i \in Clients
      PROVE  view'[i] = IF i \in {s, t} THEN "idle" ELSE view[i]
  <2>1. view' = notifyRsrcStatus(w, Tell({s, t}, "UNSUBSCRIBE"))
    BY <1>2, <1>3 DEF w
  <2>2. view'[i] = IF i \in {s, t} THEN "idle" ELSE w[i]
    BY <1>w, <2>1, Notified
  <2> QED BY <1>w, <2>2
<1>5. m'.state = IF m'.active = {} THEN "Released" ELSE m.state
  BY <1>2, <1>3 DEF Unsubscribed, Listed, ListInv, LeaveAtOnce
<1> QED BY <1>3, <1>4, <1>5 DEF Agree

(* The same for an answer of the service.                                  *)
LEMMA AgreeAnswer ==
  ASSUME ListInv, Agree, onAnswer
  PROVE  Agree'
<1>0. /\ m \in Machine /\ view \in [Clients -> Views]
      /\ Head(responses) \in Answers /\ m.active \cap m.inactive = {}
  BY DEF ListInv, TypeOK, onAnswer, Answers
<1>1. PICK o \in onRsrcEvent(m, Head(responses), NULL, TRUE) : Perform(o, view)
  BY DEF onAnswer
<1>2. m' = o.m /\ view' = notifyRsrcStatus(view, o.told)
  BY <1>1 DEF Perform
<1>3. CASE Head(responses) = "GRANTED"
  <2>1. Granted(m, o)
    BY <1>0, <1>1, <1>3, GrantedOutcome
  <2>2. /\ m'.active = m.active /\ m'.inactive = m.inactive
        /\ m'.state = IF m.state = "Pending" THEN "Acquired" ELSE m.state
    BY <1>2, <2>1 DEF Granted
  <2>3. ASSUME NEW i \in Clients
        PROVE  view'[i] = IF m.state = "Pending" /\ i \in m.active THEN "open"
                          ELSE view[i]
    BY <1>0, <1>2, <2>1, Notified DEF Granted
  <2> QED BY <1>0, <2>2, <2>3 DEF Agree
<1>4. CASE Head(responses) \in {"RELEASED", "DENIED"}
  <2>1. Closed(m, Head(responses), o)
    BY <1>0, <1>1, <1>4, ClosedOutcome
  <2>2. CASE m.state = "Releasing"
    <3>1. /\ m'.active = m.active /\ m'.inactive = {}
          /\ o.told = Tell(m.inactive, Head(responses))
          /\ m'.state = IF m.active # {} THEN "Pending" ELSE "Released"
      BY <1>0, <1>2, <2>1, <2>2 DEF Closed
    <3>2. ASSUME NEW i \in Clients
          PROVE  view'[i] = IF i \in m.inactive THEN "idle" ELSE view[i]
      BY <1>0, <1>2, <1>4, <3>1, Notified
    <3> QED BY <1>0, <2>2, <3>1, <3>2 DEF Agree
  <2>3. CASE m.state = IF Head(responses) = "DENIED" THEN "Pending"
                       ELSE "Acquired"
    <3>1. /\ m'.active = {} /\ m'.inactive = {} /\ m'.state = "Released"
          /\ o.told = Tell(Listed(m), Head(responses))
      BY <1>2, <2>1, <2>3 DEF Closed
    <3>2. ASSUME NEW i \in Clients
          PROVE  view'[i] = IF i \in Listed(m) THEN "idle" ELSE view[i]
      BY <1>0, <1>2, <1>4, <3>1, Notified
    <3>3. \A i \in Clients : view'[i] = "idle"
      BY <3>2, IdleIsUnlisted
    <3> QED BY <3>1, <3>3 DEF Agree
  <2>4. CASE m' = m /\ o.told = {}
    <3>1. ASSUME NEW i \in Clients PROVE view'[i] = view[i]
      BY <1>0, <1>2, <2>4, Notified
    <3> QED BY <2>4, <3>1 DEF Agree
  <2> QED BY <1>2, <2>1, <2>2, <2>3, <2>4 DEF Closed
<1> QED BY <1>0, <1>3, <1>4 DEF Answers

(* The agreement is kept by every step, as long as no BIT list was         *)
(* dropped.                                                                *)
LEMMA ViewsStep == ListInv /\ ViewsAgree /\ [Next]_vars => ViewsAgree'
<1> SUFFICES ASSUME ListInv, ViewsAgree, [Next]_vars, Kind = "BIT" => restarts' = 0
             PROVE  Agree'
  BY DEF ViewsAgree, Agree
<1>0. restarts \in Nat /\ (restarts' = restarts \/ restarts' = restarts + 1)
  BY DEF ListInv, TypeOK, Next, vars, subscribeRsrc, unsubscribeRsrc, onAnswer,
         handleEngineUp, ServiceRequest, ServiceRelease, ServiceLoss
<1>1. Agree
  BY <1>0 DEF ViewsAgree, Agree
<1>2. CASE handleEngineUp
  <2>1. Kind = "ATL"
    BY <1>0, <1>2, SubscriberAssumption DEF handleEngineUp
  <2>2. m'.active = {} /\ m'.inactive = {} /\ view' = [i \in Clients |-> "idle"]
    BY <1>2, <2>1 DEF handleEngineUp, dropAllSubscribers, ListInv, TypeOK, Machine
  <2> QED BY <2>2 DEF Agree
<1>3. CASE ServiceRequest \/ ServiceRelease \/ ServiceLoss \/ UNCHANGED vars
  <2>1. m' = m /\ view' = view
    BY <1>3 DEF ServiceRequest, ServiceRelease, ServiceLoss, vars
  <2> QED BY <1>1, <2>1 DEF Agree
<1> QED BY <1>1, <1>2, <1>3, AgreeSubscribe, AgreeUnsubscribe, AgreeAnswer
        DEF Next

-----------------------------------------------------------------------------
(* The three groups of facts make up the inductive invariant.              *)
LEMMA IndInvParts == IndInv <=> ListInv /\ ChannelInv /\ ViewsAgree
BY DEF IndInv, ListInv, ChannelInv

(* The inductive invariant holds initially and is kept by every step.      *)
THEOREM InductiveInvariant == Spec => []IndInv
<1>1. Init => IndInv
  <2> SUFFICES ASSUME Init PROVE IndInv
    OBVIOUS
  <2>1. ListInv
    BY TypeInit DEF Init, ListInv, ReleasedListEmpty, LeaveAtOnce, NewMachine,
                    hasSubscribers, Listed
  <2>2. ChannelInv
    BY DEF Init, ChannelInv, OpenMeansHeld, GrantIsTrue, PendingAnswerComing,
           NewMachine
  <2>3. ViewsAgree
    BY DEF Init, ViewsAgree, NewMachine
  <2> QED BY <2>1, <2>2, <2>3, IndInvParts
<1>2. IndInv /\ [Next]_vars => IndInv'
  BY ListStep, ChannelStep, ViewsStep, IndInvParts
     DEF IndInv, ListInv, ChannelInv
<1> QED BY <1>1, <1>2, PTL DEF Spec

(* Type correctness.                                                       *)
THEOREM TypeCorrect == Spec => []TypeOK
BY InductiveInvariant, PTL DEF IndInv

(* The error AgpsReleasedState::onRsrcEvent logs for a non-empty list is   *)
(* unreachable on agnss_nif, internet_nif and wifi_nif.                    *)
THEOREM ReleasedIsEmpty == Spec => []ReleasedListEmpty
BY InductiveInvariant, PTL DEF IndInv

(* What notifyRsrcStatus has told the clients is what the list and the     *)
(* state of the machine say.                                               *)
THEOREM ClientsAgree == Spec => []ViewsAgree
BY InductiveInvariant, PTL DEF IndInv

(* Whoever was granted the interface has it, or its loss is on the way:    *)
(* an answer to an earlier request cannot fool AgpsPendingState.           *)
THEOREM GrantedIsHeld == Spec => []OpenMeansHeld
BY InductiveInvariant, PTL DEF IndInv

(* AgpsPendingState always has an answer to wait for.                      *)
THEOREM PendingIsAnswered == Spec => []PendingAnswerComing
BY InductiveInvariant, PTL DEF IndInv
=============================================================================
