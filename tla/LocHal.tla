-------------------------------- MODULE LocHal ------------------------------
(***************************************************************************)
(* The GPS HAL as the framework sees it (loc.cpp) and what its calls leave *)
(* in the engine (loc_eng.cpp, loc_eng_xtra.cpp) and in the modem: the     *)
(* interface and its extensions, initialisation and cleanup, the           *)
(* configuration messages, the AGPS servers, the availability of data and  *)
(* the injections.  Sessions, network requests and AGPS interfaces have    *)
(* modules of their own.                                                   *)
(*                                                                         *)
(* Three threads: the framework's, the MsgTask's, and the one the modem    *)
(* calls back on.  The modem may crash at any time; what reaches it while  *)
(* its handle is closed is lost.                                           *)
(***************************************************************************)
EXTENDS Naturals, Sequences, FiniteSets, SequencesExt

CONSTANTS Devices,      \* the platforms considered: the target's gnss type,
                        \* ro.baseband is csfb, persist.gps.qc_nlp_in_use, the
                        \* LBS library has AGPS and CPI extensions, a sensor
                        \* property is valid in the configuration
          MaxQueue,     \* bound on queued messages, for framework and modem
          MaxCrashes,   \* bound on modem crashes
          MaxUpdates    \* bound on framework calls that may be repeated

VARIABLES device,      \* the platform
          eng,         \* loc_eng_data, loc_eng's and loc.cpp's globals
          fw,          \* where the framework's thread is
          worker,      \* the MsgTask inside loc_eng_reinit, with agpsStatus read
          queue,
          modem,       \* what it has been told since it booted
          given,       \* servers the framework has set
          network,     \* the availability of data the framework told last
          unsure,      \* the modem may not know the last availability
          updates, crashes

vars == <<device, eng, fw, worker, queue, modem, given, network, unsure, updates, crashes>>

Servers == {"SUPL", "C2K"}
Unknown == "unknown"

(* GPS_CAPABILITY_*: what get_gps_interface offers on a target without a   *)
(* modem of its own.                                                       *)
get_gps_interface(gnss) ==
  CASE gnss = "NONE" -> {}
    [] gnss \in {"GSS", "QCA1530"} -> {"SCHEDULING"}
    [] OTHER -> {"SCHEDULING", "MSB", "MSA"}

(* isAPQ and is1530 are both false.                                        *)
HasModem == device.gnss \notin {"GSS", "QCA1530"}

NewModem == [phase |-> "up", open |-> FALSE, conf |-> {}, data |-> Unknown,
             servers |-> {}, got |-> {}, mode |-> "STANDALONE"]

Init ==
  /\ device \in Devices
  /\ eng = [interface |-> {}, adapter |-> FALSE, agpsEnabled |-> FALSE,
            cpiEnabled |-> FALSE, agps |-> FALSE, xtra |-> FALSE,
            buffered |-> {}, agpsStatus |-> FALSE, loc_cb |-> FALSE]
  /\ fw = "idle" /\ worker = <<>>
  /\ queue = <<>>
  /\ modem = NewModem
  /\ given = {} /\ network = FALSE /\ unsure = FALSE
  /\ updates = 0 /\ crashes = 0

Msg(type, arg) == [type |-> type, arg |-> arg]
Send(msgs)     == queue' = queue \o msgs
Space          == Len(queue) < MaxQueue

-----------------------------------------------------------------------------
(* gps.c and get_gps_interface.                                            *)
openDevice ==
  /\ fw = "idle" /\ eng.interface = {}
  /\ eng' = [eng EXCEPT !.interface = get_gps_interface(device.gnss)]
  /\ UNCHANGED <<device, fw, worker, queue, modem, given, network, unsure, updates, crashes>>

(* loc_get_extension: the RIL interface is for fusion targets only.        *)
loc_get_extension(name) ==
  eng.interface # {} /\ (name = "AGPS_RIL" => device.csfb)

(* loc_eng_init: memset(&loc_eng_data, 0), the callbacks.                  *)
cleared(e) == [e EXCEPT !.agps = FALSE, !.xtra = FALSE, !.buffered = {}]

(* loc_init: the adapter is made, which queues the opening of the handle;  *)
(* LocEngInit is queued; only then do AGPS and CPI requests count.  A      *)
(* second call finds the adapter and keeps the engine as it is.            *)
loc_init ==
  /\ fw = "idle" /\ eng.interface # {} /\ ~eng.loc_cb
  /\ \/ /\ ~eng.adapter /\ Space
        /\ eng' = [cleared(eng) EXCEPT !.adapter = TRUE, !.loc_cb = TRUE]
        /\ Send(<<Msg("Open", "")>>)
        /\ fw' = "sendInit"
     \/ /\ eng.adapter
        /\ eng' = [eng EXCEPT !.loc_cb = TRUE]
        /\ fw' = "setEnabled"
        /\ UNCHANGED queue
  /\ UNCHANGED <<device, worker, modem, given, network, unsure, updates, crashes>>

sendInit ==
  /\ fw = "sendInit"
  /\ Send(<<Msg("Init", "")>>)
  /\ fw' = "setEnabled"
  /\ UNCHANGED <<device, eng, worker, modem, given, network, unsure, updates, crashes>>

setEnabled ==
  /\ fw = "setEnabled"
  /\ eng' = [eng EXCEPT !.agpsEnabled = ~device.ext, !.cpiEnabled = ~device.ext]
  /\ fw' = "idle"
  /\ UNCHANGED <<device, worker, queue, modem, given, network, unsure, updates, crashes>>

(* loc_cleanup; a running session is stopped (LocEngSession).  Nothing     *)
(* else is undone.                                                         *)
loc_cleanup ==
  /\ fw = "idle" /\ eng.loc_cb /\ updates < MaxUpdates
  /\ eng' = [eng EXCEPT !.loc_cb = FALSE]
  /\ updates' = updates + 1
  /\ UNCHANGED <<device, fw, worker, queue, modem, given, network, unsure, crashes>>

loc_xtra_init ==
  /\ fw = "idle" /\ loc_get_extension("XTRA") /\ ~eng.xtra
  /\ eng' = [eng EXCEPT !.xtra = TRUE]
  /\ UNCHANGED <<device, fw, worker, queue, modem, given, network, unsure, updates, crashes>>

-----------------------------------------------------------------------------
(* resolve_in_addr and loc_eng_set_server: the URL of a SUPL server is     *)
(* sent as it is; the address of another one only if it can be resolved.   *)
loc_eng_set_server(type, resolved) ==
  IF type = "SUPL" \/ resolved THEN <<Msg("SetServer", type)>> ELSE <<>>

(* loc_eng_agps_reinit: "Set server addresses which came before init".     *)
loc_eng_agps_reinit(e, resolved) ==
  (IF "SUPL" \in e.buffered THEN loc_eng_set_server("SUPL", resolved) ELSE <<>>)
  \o (IF "C2K" \in e.buffered THEN loc_eng_set_server("C2K", resolved) ELSE <<>>)

(* loc_eng_agps_init; the machines it makes are in AgpsRouting.            *)
loc_agps_init ==
  /\ fw = "idle" /\ Space /\ loc_get_extension("AGPS")
  /\ eng.adapter /\ ~eng.agps
  /\ eng' = [eng EXCEPT !.agps = TRUE]
  /\ \E resolved \in BOOLEAN :
       Send((IF HasModem /\ eng.agpsEnabled
             THEN <<Msg("DataClientInit", "")>> ELSE <<>>)
            \o IF HasModem THEN loc_eng_agps_reinit(eng, resolved) ELSE <<>>)
  /\ UNCHANGED <<device, fw, worker, modem, given, network, unsure, updates, crashes>>

(* loc_agps_set_server: loc_eng_set_server_proxy.                          *)
loc_agps_set_server(type) ==
  /\ fw = "idle" /\ Space /\ loc_get_extension("AGPS")
  /\ type \notin given
  /\ given' = given \cup {type}
  /\ \/ /\ eng.adapter
        /\ \E resolved \in BOOLEAN : Send(loc_eng_set_server(type, resolved))
        /\ UNCHANGED eng
     \/ /\ ~eng.adapter
        /\ eng' = [eng EXCEPT !.buffered = @ \cup {type}]
        /\ UNCHANGED queue
  /\ UNCHANGED <<device, fw, worker, modem, network, unsure, updates, crashes>>

stored(available) == eng' = [eng EXCEPT !.agpsStatus = available]

(* loc_eng_agps_ril_update_network_availability: agpsStatus is stored ...  *)
update_network_availability(available, apn) ==
  /\ fw = "idle" /\ loc_get_extension("AGPS_RIL") /\ updates < MaxUpdates
  /\ stored(available)
  /\ network' = available
  /\ fw' = IF eng.adapter /\ apn THEN "sendData" ELSE "idle"
  /\ unsure' = (worker # <<>> \/ (eng.adapter /\ ~apn))
  /\ updates' = updates + 1
  /\ UNCHANGED <<device, worker, queue, modem, given, crashes>>

(* ... and sent if there is an adapter and an APN.                         *)
sendData ==
  /\ fw = "sendData" /\ Space
  /\ Send(<<Msg("EnableData", network)>>)
  /\ fw' = "idle"
  /\ UNCHANGED <<device, eng, worker, modem, given, network, unsure, updates, crashes>>

(* loc_inject_time, loc_inject_location, loc_xtra_inject_data and          *)
(* loc_eng_xtra_request_server.  The position is for the CPI extension     *)
(* unless a network provider of its own is in use.                         *)
Injections == {"SetTime", "InjectLocation", "InjectXtraData", "RequestXtraServer"}

injected(kind) ==
  kind = "InjectLocation" => ~device.nlp /\ ~eng.cpiEnabled

inject(kind) ==
  /\ fw = "idle" /\ Space /\ eng.adapter /\ updates < MaxUpdates
  /\ injected(kind)
  /\ Send(<<Msg("Inject", kind)>>)
  /\ updates' = updates + 1
  /\ UNCHANGED <<device, eng, fw, worker, modem, given, network, unsure, crashes>>

(* loc_set_position_mode and loc_eng_set_position_mode: any other mode is  *)
(* standalone, and so is every mode where assistance is not offered.       *)
positionMode(mode) ==
  IF HasModem /\ mode \in {"MS_BASED", "MS_ASSISTED"} THEN mode
  ELSE "STANDALONE"

set_position_mode(mode) ==
  /\ fw = "idle" /\ Space /\ eng.adapter /\ updates < MaxUpdates
  /\ Send(<<Msg("PositionMode", positionMode(mode))>>)
  /\ updates' = updates + 1
  /\ UNCHANGED <<device, eng, fw, worker, modem, given, network, unsure, crashes>>

Framework ==
  \/ openDevice \/ loc_init \/ sendInit \/ setEnabled \/ loc_cleanup
  \/ loc_xtra_init \/ loc_agps_init \/ sendData
  \/ \E type \in Servers : loc_agps_set_server(type)
  \/ \E available, apn \in BOOLEAN : update_network_availability(available, apn)
  \/ \E kind \in Injections : inject(kind)
  \/ \E mode \in {"MS_BASED", "OTHER"} : set_position_mode(mode)

-----------------------------------------------------------------------------
(* The messages of loc_eng_reinit, in their order; the sensor properties   *)
(* only if one of them is valid.                                           *)
Config ==
  <<"SuplVer", "LppConfig", "SensorControlConfig", "AGlonassProtocol">>
  \o (IF device.sap THEN <<"SensorProperties">> ELSE <<>>)
  \o <<"SensorPerfControlConfig">>

(* Variant: the modem is configured at initialisation only.                *)
initOnly == {"Init"}

(* The messages LocEngInit and LocEngUp.                                   *)
Reinits == {"Init", "EngineUp"}

(* Their handling by loc_eng_reinit, which queues the configuration and    *)
(* reads agpsStatus ...                                                    *)
loc_eng_reinit ==
  /\ worker = <<>> /\ queue # <<>> /\ Head(queue).type \in Reinits
  /\ Send([i \in 1 .. Len(Config) |-> Msg("Config", Config[i])])
  /\ worker' = <<eng.agpsStatus>>
  /\ UNCHANGED <<device, eng, fw, modem, given, network, unsure, updates, crashes>>

(* ... sends it, and after a restart the servers are set again.            *)
finishReinit ==
  /\ worker # <<>>
  /\ \E resolved \in BOOLEAN :
       queue' = Tail(queue) \o <<Msg("EnableData", worker[1])>>
                \o IF Head(queue).type = "EngineUp" /\ eng.agps
                   THEN loc_eng_agps_reinit(eng, resolved) ELSE <<>>
  /\ worker' = <<>>
  /\ UNCHANGED <<device, eng, fw, modem, given, network, unsure, updates, crashes>>

(* The modem as the LocApi reaches it.                                     *)
Reached(m, msg) ==
  IF msg.type \in {"Open", "Ssr"} THEN [m EXCEPT !.open = m.phase # "down"]
  ELSE IF ~m.open THEN m
  ELSE CASE msg.type = "Config"       -> [m EXCEPT !.conf = @ \cup {msg.arg}]
         [] msg.type = "EnableData"   -> [m EXCEPT !.data = msg.arg]
         [] msg.type = "SetServer"    -> [m EXCEPT !.servers = @ \cup {msg.arg}]
         [] msg.type = "PositionMode" -> [m EXCEPT !.mode = msg.arg]
         [] msg.type = "Inject"       -> [m EXCEPT !.got = @ \cup {msg.arg}]
         [] OTHER -> m

(* Every other message is handled by one call down to the modem, or one    *)
(* callback up (EngineDown, RequestXtra, RequestTime, DataClientInit: what *)
(* they do is modelled elsewhere or is not state).                         *)
proc ==
  /\ worker = <<>> /\ queue # <<>> /\ Head(queue).type \notin Reinits
  /\ modem' = Reached(modem, Head(queue))
  /\ queue' = Tail(queue)
  /\ UNCHANGED <<device, eng, fw, worker, given, network, unsure, updates, crashes>>

-----------------------------------------------------------------------------
(* The modem asks for XTRA data or the time; it is heard only with         *)
(* mAgpsEnabled (LocEngAdapter::requestXtraData, requestTime).             *)
modemAsks ==
  /\ Space /\ modem.phase = "up" /\ modem.open /\ updates < MaxUpdates
  /\ eng.agpsEnabled
  /\ \E type \in {"RequestXtra", "RequestTime"} : Send(<<Msg(type, "")>>)
  /\ updates' = updates + 1
  /\ UNCHANGED <<device, eng, fw, worker, modem, given, network, unsure, crashes>>

(* It crashes, forgetting everything, and comes back (LocApiBase).         *)
modemCrash ==
  /\ Space /\ modem.phase = "up" /\ crashes < MaxCrashes
  /\ modem' = [NewModem EXCEPT !.phase = "down"]
  /\ Send(IF eng.adapter THEN <<Msg("EngineDown", "")>> ELSE <<>>)
  /\ crashes' = crashes + 1
  /\ UNCHANGED <<device, eng, fw, worker, given, network, unsure, updates>>

modemReturns ==
  /\ Space
  /\ \/ /\ modem.phase = "down"
        /\ modem' = [modem EXCEPT !.phase = IF eng.adapter THEN "returning" ELSE "up"]
        /\ Send(IF eng.adapter THEN <<Msg("Ssr", "")>> ELSE <<>>)
     \/ /\ modem.phase = "returning"
        /\ modem' = [modem EXCEPT !.phase = "up"]
        /\ Send(<<Msg("EngineUp", "")>>)
  /\ UNCHANGED <<device, eng, fw, worker, given, network, unsure, updates, crashes>>

Next == Framework \/ loc_eng_reinit \/ finishReinit \/ proc
        \/ modemAsks \/ modemCrash \/ modemReturns

Spec == Init /\ [][Next]_vars

-----------------------------------------------------------------------------
Quiet == /\ fw = "idle" /\ worker = <<>> /\ queue = <<>>
         /\ eng.adapter /\ modem.phase = "up"

(* However the modem crashed, before the initialisation, during it or in   *)
(* the middle of the configuration messages: once everything is handled it *)
(* has the whole configuration.                                            *)
ConfigRestored == Quiet => ToSet(Config) \subseteq modem.conf

(* It then also knows whether data are available, even when that changed   *)
(* before GPS was enabled ("storing the status will enable us to inform    *)
(* the modem after GPS is enabled") or while it was down.  Not so after a  *)
(* change without an APN, which is not sent, nor after one that falls      *)
(* between loc_eng_reinit's reading of agpsStatus and its sending.         *)
DataStatusKnown == Quiet /\ ~unsure => modem.data = network

-----------------------------------------------------------------------------
(* The inductive invariant.  The modem's handle is open before the k-th    *)
(* message of a queue is handled.                                          *)
Opens(msg)         == msg.type \in {"Open", "Ssr"}
OpenBy(q, open, k) == open \/ \E i \in 1 .. k - 1 : Opens(q[i])

(* Configuration c is known, or a message will tell it through an open     *)
(* handle: its own, or an initialisation that has not queued it yet.       *)
ConfigComing(q, open, w, known, c) ==
  \/ c \in known
  \/ \E k \in 1 .. Len(q) :
       /\ OpenBy(q, open, k)
       /\ \/ q[k].type = "Config" /\ q[k].arg = c
          \/ q[k].type \in Reinits /\ (k = 1 => w = <<>>)

(* Nothing queued from the k-th message on changes what the modem knows of *)
(* the availability of data.                                               *)
LastData(q, k) == \A j \in k .. Len(q) : q[j].type # "EnableData"

(* The framework's last word is known, or will be by the last message about *)
(* it, or is about to be sent by the framework or an initialisation.       *)
DataComing(q, open, w, data, at, available) ==
  \/ at = "sendData" \/ w # <<>>
  \/ \E k \in 1 .. Len(q) : q[k].type \in Reinits
  \/ LastData(q, 1) /\ data = available
  \/ \E k \in 1 .. Len(q) : /\ OpenBy(q, open, k) /\ LastData(q, k + 1)
                            /\ q[k].type = "EnableData" /\ q[k].arg = available

Engine == [interface : SUBSET {"SCHEDULING", "MSB", "MSA"}, adapter : BOOLEAN,
           agpsEnabled : BOOLEAN, cpiEnabled : BOOLEAN, agps : BOOLEAN,
           xtra : BOOLEAN, buffered : SUBSET Servers, agpsStatus : BOOLEAN,
           loc_cb : BOOLEAN]

HalTypeOK ==
  /\ queue \in Seq(ToSet(queue)) /\ eng \in Engine
  /\ \E phase \in {"up", "down", "returning"}, open \in BOOLEAN :
       modem = [phase |-> phase, open |-> open, conf |-> modem.conf, data |-> modem.data,
                servers |-> modem.servers, got |-> modem.got, mode |-> modem.mode]

(* Without an adapter nothing is queued, sent or open.                     *)
NothingBeforeInit ==
  ~eng.adapter => /\ queue = <<>> /\ worker = <<>> /\ ~modem.open
                  /\ fw \notin {"sendInit", "sendData"} /\ modem.phase # "returning"

(* The MsgTask initialises because of the message at its queue's head, with *)
(* the availability that the framework told last or has since replaced.    *)
WorkerSound ==
  /\ eng.agpsStatus = network
  /\ worker # <<>> => /\ queue # <<>> /\ Head(queue).type \in Reinits
                      /\ ~unsure => worker[1] = network

InformationComing ==
  eng.adapter =>
    /\ modem.phase \in {"up", "returning"} => OpenBy(queue, modem.open, Len(queue) + 1)
    /\ modem.phase = "up" /\ fw # "sendInit" =>
         /\ \A c \in ToSet(Config) : ConfigComing(queue, modem.open, worker, modem.conf, c)
         /\ ~unsure => DataComing(queue, modem.open, worker, modem.data, fw, network)

HalInv == HalTypeOK /\ NothingBeforeInit /\ WorkerSound /\ InformationComing

=============================================================================
