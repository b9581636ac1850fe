----------------------------- MODULE MCGpsEngine ------------------------------
(***************************************************************************)
(* The parts of the GPS HAL's engine on small instances.  DSStateMachine is *)
(* extended, the others are instantiated beside it.  They share no state:   *)
(* part says which of them a behaviour is about.                            *)
(***************************************************************************)
EXTENDS DSStateMachine, Integers, FiniteSets, TLC

CONSTANTS Conns, RouteQueue, RouteRestarts,               \* of AgpsRouting
          HalDevices, HalQueue, HalCrashes, HalUpdates,   \* of LocHal
          BaseAdapters, BaseEvents, BaseSlots,            \* of LocApiBase
          BaseQueue, BaseCrashes, BaseCalls

\* A connection handle is a number: neither an interface nor no subscriber.
ASSUME RouteAssumption ==
    /\ Conns \cap {"agnss", "internet", "ds", "", NULL} = {}
    /\ RouteQueue \in Nat /\ RouteRestarts \in Nat

ASSUME BaseAssumption == NULL \notin BaseAdapters /\ BaseSlots \in Nat

VARIABLES part,
    device, eng, fw, worker, hQueue, hModem, given, network, unsure, updates, hCrashes,
    api, excluded, mLocAdapters, client, aQueue, aModem, upcall, enabled, aCrashes, aCalls,
    ready, nif, dsClient, ds, rCall, rTimers, rQueue, asked, rView, es, late, rRestarts,
    files, platform, qca, apart, reading, conf, valid, configAlreadyRead, tries, gTarget,
    caller, trimmed, cCalls,
    provider, svUsed, svDop, fixCriteria, muted, svCount, fixCount, out, last, listed

hal     == <<device, eng, fw, worker, hQueue, hModem, given, network, unsure, updates,
             hCrashes>>
base    == <<api, excluded, mLocAdapters, client, aQueue, aModem, upcall, enabled,
             aCrashes, aCalls>>
routing == <<ready, nif, dsClient, ds, rCall, rTimers, rQueue, asked, rView, es, late,
             rRestarts>>
config  == <<files, platform, qca, apart, reading, conf, valid, configAlreadyRead, tries,
             gTarget, caller, trimmed, cCalls>>
nmea    == <<provider, svUsed, svDop, fixCriteria, muted, svCount, fixCount, out, last,
             listed>>

\* A modem of its own with both extensions missing but the sensor properties;
\* a modem on another chip; a target without GNSS.
Device(g, c, n, e, s) == [gnss |-> g, csfb |-> c, nlp |-> n, ext |-> e, sap |-> s]

MCDevices == {Device("MSM", TRUE, FALSE, FALSE, TRUE),
              Device("GSS", TRUE, FALSE, TRUE, FALSE),
              Device("NONE", FALSE, TRUE, TRUE, TRUE)}

H == INSTANCE LocHal WITH
       queue <- hQueue, modem <- hModem, crashes <- hCrashes, Devices <- HalDevices,
       MaxQueue <- HalQueue, MaxCrashes <- HalCrashes, MaxUpdates <- HalUpdates

MCEvents == "a" :> {"report"} @@ "b" :> {"request"} @@ "c" :> {"report", "request"}

B == INSTANCE LocApiBase WITH
       queue <- aQueue, modem <- aModem, crashes <- aCrashes, calls <- aCalls,
       Adapters <- BaseAdapters, mEvtMask <- BaseEvents, MAX_ADAPTERS <- BaseSlots,
       MaxQueue <- BaseQueue, MaxCrashes <- BaseCrashes, MaxCalls <- BaseCalls

R == INSTANCE AgpsRouting WITH
       dsCall <- rCall, timers <- rTimers, queue <- rQueue, view <- rView, restarts <- rRestarts, MaxQueue <- RouteQueue,
       MaxRestarts <- RouteRestarts

\* Lines that repeat, contradict or leave out a value.
Line(n, t, v) == [name |-> n, text |-> t, num |-> v]
F == INSTANCE LocCfg WITH
       calls <- cCalls, MaxLines <- 1, QCA1530_DETECT_TIMEOUT <- 2, MaxCalls <- 2,
       Lines <- {Line("CAPABILITIES", "hex", 23), Line("CAPABILITIES", "dec", 5),
                 Line("GYRO_BIAS_RANDOM_WALK", "dec", 1),
                 Line("GYRO_BIAS_RANDOM_WALK", "hex", 2),
                 Line("GYRO_BIAS_RANDOM_WALK", "bare", 3),
                 Line("DEBUG_LEVEL", "dec", 2), Line("DEBUG_LEVEL", "hex", 515),
                 Line("TIMESTAMP", "dec", 1)}

\* Satellite reports: none; mixed systems, more than four of one; all of one.
SvReport(l, u, d) == [list |-> l, used |-> u, dop |-> d]
N == INSTANCE Nmea WITH
       MaxReports <- 2, MaxFixes <- 2,
       SvReports <- {SvReport(<<>>, {}, FALSE),
                     SvReport(<<3, 70, 9, 40, 5, 71, 8, 1, 72>>, {3, 5, 8, 9}, TRUE),
                     SvReport(<<70, 71, 72, 73, 7, 74, 75>>, {7}, FALSE),
                     SvReport(<<1, 2, 3, 4, 33>>, {}, TRUE)}

MCInit ==
    /\ part \in {"ds", "hal", "base", "routing", "config", "nmea"}
    /\ Init /\ R!Init
    /\ F!Init /\ (part # "config" =>
         files = [i \in 1 .. 2 |-> <<>>] /\ qca = "no" /\ apart = 4
         /\ platform = [baseband |-> "msm", hw |-> "other", soc |-> "other", mdm |-> FALSE])
    /\ H!Init /\ (part # "hal" => device.gnss = "MSM")
    /\ B!Init /\ (part # "base" => excluded = {} /\ api = "real")
    /\ N!Init /\ (part # "nmea" => provider = "AP")

MCNext ==
    /\ UNCHANGED part
    /\ \/ /\ part = "ds" /\ Next
          /\ UNCHANGED <<hal, base, routing, config, nmea>>
       \/ /\ part = "hal" /\ H!Next
          /\ UNCHANGED <<vars, base, routing, config, nmea>>
       \/ /\ part = "base" /\ B!Next
          /\ UNCHANGED <<vars, hal, routing, config, nmea>>
       \/ /\ part = "routing" /\ R!Next
          /\ UNCHANGED <<vars, hal, base, config, nmea>>
       \/ /\ part = "config" /\ F!Next
          /\ UNCHANGED <<vars, hal, base, routing, nmea>>
       \/ /\ part = "nmea" /\ N!Next
          /\ UNCHANGED <<vars, hal, base, routing, config>>
       \/ UNCHANGED <<vars, hal, base, routing, config, nmea>>   \* a bound is reached

MCSpec == MCInit /\ [][MCNext]_<<part, vars, hal, base, routing, config, nmea>>

\* LocApiBase: the events of every adapter are registered with the modem, a walk
\* over the array calls each adapter once, and an adapter told that the engine is
\* up can reach it.
AdaptersServed == part = "base" => B!EventsRegistered /\ B!CallsDelivered /\ B!UpFindsHandle

\* LocHal: after a restart the modem has the whole configuration again, and it
\* knows the availability of data that the framework told last.
ModemInformed == part = "hal" => H!ConfigRestored /\ H!DataStatusKnown

\* AgpsRouting: a release finds the machine that the request went to, no
\* connection is in two, and every release and every waiting request is served.
ConnInOneMachine == part = "routing" => R!ConnInOneMachine /\ R!RequestsServed

\* LocCfg: values are those of the last line that gives them, in either file.
ConfigAsWritten == part = "config" => F!ConfigAsWritten

\* Nmea: satellites and DOP of a fix come from one report, and are used once;
\* the satellites in view are listed completely.
SentencesCoherent == part = "nmea" => N!PositionCoherent /\ N!SatellitesListed

\* AgpsRouting: the answers of the framework reach the arbiter that asked.
OpensAnswered == part = "routing" => R!OpensAnswered
=============================================================================
