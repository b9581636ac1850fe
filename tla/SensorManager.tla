---------------------------- MODULE SensorManager ----------------------------
(***************************************************************************)
(* libshims/gui/SensorManager.cpp: the client of the sensor service.  A     *)
(* call holds mLock throughout, connects when it must (assertStateLocked:   *)
(* find the service, link to its death, read its sensors) and then answers. *)
(* The constructor connects without mLock, before there are calls.  The     *)
(* service may die and come back at any moment; the notice of its death     *)
(* needs mLock too.  An incarnation of the service is its number.           *)
(***************************************************************************)
EXTENDS Integers, FiniteSets

CONSTANTS Sensors,        \* [type, wakeUp] of the sensors the service has
          WakeUpTypes,    \* the types of getDefaultSensor that wake up
          MaxLives        \* bound on the incarnations of the service

VARIABLES service,        \* [up, life] of the sensor service
          mSensorServer,  \* the incarnation the manager talks to; 0 is NULL
          mSensors,       \* what it read from it; mSensorList points into it
          call,           \* the call that holds mLock, or the constructor
          tries,          \* attempts of getService in this call
          notices,        \* deaths still to be told
          missed,         \* the service died before linkToDeath
          answer          \* what the last call returned

smvars == <<service, mSensorServer, mSensors, call, tries, notices, missed, answer>>

Types == {s.type : s \in Sensors}
MaxTries == 4

SmInit == /\ service = [up |-> FALSE, life |-> 1]
          /\ mSensorServer = 0 /\ mSensors = {} /\ tries = 0 /\ notices = {}
          /\ call = [op |-> "construct", at |-> "find", type |-> 0, got |-> {}]
          /\ missed = FALSE /\ answer = [op |-> "none", type |-> 0, sensors |-> {}]

Alive == service.up /\ service.life = mSensorServer

Locked == call.op \notin {"none", "construct"}

\* getSensorList, getDefaultSensor or createEventQueue takes mLock.
Begin(op, type) ==
    /\ call.at = "free"
    /\ call' = [op |-> op, type |-> type, got |-> {},
                at |-> IF mSensorServer = 0 THEN "find" ELSE "ready"]
    /\ tries' = 0
    /\ UNCHANGED <<service, mSensorServer, mSensors, notices, missed, answer>>

End(a) == /\ call' = [op |-> "none", at |-> "free", type |-> 0, got |-> {}]
          /\ answer' = a /\ tries' = 0
NoAnswer == [op |-> "failed", type |-> 0, sensors |-> {}]

\* getService, tried four times.
getService ==
    /\ call.at = "find"
    /\ IF service.up
       THEN /\ mSensorServer' = service.life
            /\ call' = [call EXCEPT !.at = "link"] /\ UNCHANGED <<tries, answer>>
       ELSE /\ IF tries + 1 < MaxTries
               THEN tries' = tries + 1 /\ UNCHANGED <<call, answer>>
               ELSE End(NoAnswer)
            /\ UNCHANGED mSensorServer
    /\ UNCHANGED <<service, mSensors, notices, missed>>

\* linkToDeath fails on a service that is dead; the result is not looked at.
linkToDeath ==
    /\ call.at = "link"
    /\ call' = [call EXCEPT !.at = "read"]
    /\ missed' = (missed \/ ~Alive)
    /\ UNCHANGED <<service, mSensorServer, mSensors, tries, notices, answer>>

\* getSensorList of the service; a dead one gives no sensors.  Beside the
\* constructor sensorManagerDied may have cleared mSensorServer, a null pointer.
readSensors ==
    /\ call.at = "read"
    /\ \/ /\ mSensorServer # 0
          /\ call' = [call EXCEPT !.at = "store", !.got = IF Alive THEN Sensors ELSE {}]
       \/ mSensorServer = 0 /\ call' = [call EXCEPT !.at = "crashed"]
    /\ UNCHANGED <<service, mSensorServer, mSensors, tries, notices, missed, answer>>

storeSensors ==
    /\ call.at = "store"
    /\ mSensors' = call.got
    /\ call' = [call EXCEPT !.at = "fill"]
    /\ UNCHANGED <<service, mSensorServer, tries, notices, missed, answer>>

\* mSensorList is filled, or it has been freed meanwhile and is a null pointer.
fillList ==
    /\ call.at = "fill"
    /\ \/ call' = [call EXCEPT !.at = "ready"]
       \/ mSensors # call.got /\ call' = [call EXCEPT !.at = "crashed"]
    /\ UNCHANGED <<service, mSensorServer, mSensors, tries, notices, missed, answer>>

constructed ==
    /\ call.at = "ready" /\ call.op = "construct"
    /\ End([op |-> "none", type |-> 0, sensors |-> {}])
    /\ UNCHANGED <<service, mSensorServer, mSensors, notices, missed>>

\* The candidates of getDefaultSensor.
DefaultSensors(type) ==
    {s \in mSensors : s.type = type /\ s.wakeUp = (type \in WakeUpTypes)}

getSensorList ==
    /\ call.at = "ready" /\ call.op = "list"
    /\ End([op |-> "list", type |-> 0, sensors |-> mSensors])
    /\ UNCHANGED <<service, mSensorServer, mSensors, notices, missed>>

getDefaultSensor ==
    /\ call.at = "ready" /\ call.op = "default"
    /\ \/ \E s \in DefaultSensors(call.type) :
             End([op |-> "default", type |-> call.type, sensors |-> {s}])
       \/ DefaultSensors(call.type) = {} /\ End(NoAnswer)
    /\ UNCHANGED <<service, mSensorServer, mSensors, notices, missed>>

\* createEventQueue goes round its loop, mLock held, while it gets no connection:
\* forever, if the service is dead, since sensorManagerDied waits for mLock.
createEventQueue ==
    /\ call.at = "ready" /\ call.op = "queue"
    /\ Alive
    /\ End([op |-> "queue", type |-> 0, sensors |-> {}])
    /\ UNCHANGED <<service, mSensorServer, mSensors, notices, missed>>

\* Variant: only the sensors are forgotten.
diedKeepsServer ==
    /\ ~Locked /\ call.at # "crashed" /\ notices # {}
    /\ notices' = {} /\ mSensors' = {}
    /\ UNCHANGED <<service, mSensorServer, call, tries, missed, answer>>

\* sensorManagerDied, which waits for mLock.
sensorManagerDied ==
    /\ ~Locked /\ call.at # "crashed" /\ notices # {}
    /\ \E n \in notices : notices' = notices \ {n}
    /\ mSensorServer' = 0 /\ mSensors' = {}
    /\ UNCHANGED <<service, call, tries, missed, answer>>

ServiceDies ==
    /\ service.up /\ service.life < MaxLives
    /\ service' = [up |-> FALSE, life |-> service.life + 1]
    /\ notices' = IF Alive /\ call.at # "link" THEN notices \cup {service.life} ELSE notices
    /\ UNCHANGED <<mSensorServer, mSensors, call, tries, missed, answer>>

ServiceStarts ==
    /\ ~service.up
    /\ service' = [service EXCEPT !.up = TRUE]
    /\ UNCHANGED <<mSensorServer, mSensors, call, tries, notices, missed, answer>>

SmNext ==
    \/ Begin("list", 0) \/ Begin("queue", 0) \/ \E t \in Types : Begin("default", t)
    \/ getService \/ linkToDeath \/ readSensors \/ storeSensors \/ fillList \/ constructed
    \/ getSensorList \/ getDefaultSensor \/ createEventQueue
    \/ sensorManagerDied \/ ServiceDies \/ ServiceStarts

SmSpec == SmInit /\ [][SmNext]_smvars

---------------------------------------------------------------------------
\* While a manager talks to a dead service the notice of its death is on its
\* way (not more: createEventQueue may keep it waiting forever), unless the
\* service died between getService and linkToDeath; and while the service it
\* talks to lives, what calls look up are the sensors of that service, whatever
\* notice came in between, with mLock or beside the constructor without.
DeathIsNoticed ==
    /\ mSensorServer # 0 /\ ~Alive /\ ~missed /\ call.at # "link" => mSensorServer \in notices
    /\ call.at \in {"free", "ready"} /\ Alive => mSensors = Sensors

\* The inductive invariant behind DeathIsNoticed: no notice comes before the
\* link, and an incarnation that is dead does not come back.
SmTypeOK == /\ service \in [up : BOOLEAN, life : Nat \ {0}]
            /\ mSensorServer \in Nat /\ mSensorServer <= service.life
            /\ notices \subseteq {mSensorServer} \ {0}
            /\ call \in [op : {"none", "construct", "list", "queue", "default"},
                         at : {"free", "find", "link", "read", "store", "fill", "ready",
                               "crashed"},
                         type : Types \cup {0}, got : SUBSET Sensors]
SmInv == /\ SmTypeOK
         /\ mSensorServer # 0 /\ ~Alive /\ ~missed /\ call.at # "link"
                => mSensorServer \in notices
         /\ call.op = "none" <=> call.at = "free"
         /\ call.at = "find" => mSensorServer = 0
         /\ call.at = "link" => mSensorServer # 0 /\ notices = {}
         /\ ~service.up => mSensorServer < service.life
         /\ call.at = "store" /\ Alive => call.got = Sensors
         /\ call.at \in {"free", "fill", "ready"} /\ Alive => mSensors = Sensors
=============================================================================
