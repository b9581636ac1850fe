---------------------------- MODULE LocEngSession ---------------------------
(***************************************************************************)
(* The fix session of the GPS HAL (loc_eng.cpp, LocEngAdapter): what the   *)
(* framework asks for, what the modem does, and the flag mNavigating in    *)
(* between, with the position mode, the muting of one session on behalf of *)
(* a privacy override and the deferred deletion of aiding data.            *)
(*                                                                         *)
(* Framework calls, modem reports and modem restarts are messages on one   *)
(* MsgTask queue; a handler runs as one action, whenever the thread gets   *)
(* to it.  The modem may meanwhile have gone on, crashed or come back.     *)
(***************************************************************************)
EXTENDS Naturals, Sequences

CONSTANTS MaxQueue,    \* bound on queued messages
          MaxCrashes   \* bound on modem crashes

ASSUME SessionAssumption == MaxQueue \in Nat /\ MaxCrashes \in Nat

VARIABLES queue,
          mNavigating,
          mFixCriteria,              \* the adapter's copy of the position mode
          mute_session_state,
          engine_status,
          aiding_data_for_deletion,  \* some is waiting for the engine
          modem,                     \* the modem and its loc api handle
          wanted,                    \* the mode the framework set last
          singleShots,               \* it has asked for a single shot
          told,                      \* the session status it was told last
          crashes

vars == <<queue, mNavigating, mFixCriteria, mute_session_state, engine_status,
          aiding_data_for_deletion, modem, wanted, singleShots, told, crashes>>

Recurrences == {"PERIODIC", "SINGLE"}
Criteria    == [mode : {"INVALID", "VALID"}, recurrence : Recurrences]
NoCriteria  == [mode |-> "INVALID", recurrence |-> "PERIODIC"]
Valid(r)    == [mode |-> "VALID", recurrence |-> r]

Statuses == {"NONE", "ENGINE_ON", "SESSION_BEGIN", "SESSION_END", "ENGINE_OFF"}

(* A position is filtered out when it is neither a failure, nor a final    *)
(* satellite or sensor fix, nor an accepted intermediate fix.              *)
Positions == {"SUCCESS", "INTERMEDIATE", "FAILURE", "FILTERED"}

Message(type, arg) == [type |-> type, arg |-> arg]

Messages ==
  {Message(t, "") : t \in {"StartFix", "StopFix", "DelAidData", "PrivacyOverride",
                           "LocSsr", "EngineDown", "EngineUp"}}
  \cup {Message("PositionMode", r) : r \in Recurrences}
  \cup {Message("ReportStatus", s) : s \in Statuses \ {"NONE"}}
  \cup {Message("ReportPosition", p) : p \in Positions}

(* phase: "returning" between the two messages that announce a restart.    *)
(* open: the loc api handle was negotiated with this incarnation.          *)
Modem == [phase : {"up", "down", "returning"}, open : BOOLEAN,
          criteria : Criteria, fixing : BOOLEAN, last : Statuses]

NewModem == [phase |-> "up", open |-> TRUE, criteria |-> NoCriteria,
             fixing |-> FALSE, last |-> "ENGINE_OFF"]

Init ==
  /\ queue = <<>>
  /\ mNavigating = FALSE /\ mFixCriteria = NoCriteria
  /\ mute_session_state = "NONE"
  /\ engine_status = "NONE"
  /\ aiding_data_for_deletion = FALSE
  /\ modem = NewModem
  /\ wanted = NoCriteria /\ singleShots = FALSE
  /\ told = "NONE"
  /\ crashes = 0

-----------------------------------------------------------------------------
(* Calls of the LocApi, which reach the modem through an open handle.      *)
setPositionMode(m, criteria) == IF m.open THEN [m EXCEPT !.criteria = criteria]
                                ELSE m
stopFix(m) == IF m.open THEN [m EXCEPT !.fixing = FALSE] ELSE m

(* startFix: what it may return, with the modem afterwards.  The fix       *)
(* criteria come along; an invalid mode changes nothing.  A fix that is    *)
(* already running can be started again.                                   *)
startFix(m, criteria) ==
  LET started == [m EXCEPT !.fixing = TRUE,
                           !.criteria = IF criteria.mode = "VALID" THEN criteria
                                        ELSE @]
  IN  IF ~m.open THEN {[err |-> "ENGINE_DOWN", modem |-> m]}
      ELSE {[err |-> "SUCCESS", modem |-> started]}
           \cup IF m.fixing THEN {} ELSE {[err |-> "FAILURE", modem |-> m]}

(* LocEngAdapter::setInSession: a session that ends invalidates the mode.  *)
CriteriaIn(inSession, criteria) ==
  IF inSession THEN criteria ELSE [criteria EXCEPT !.mode = "INVALID"]

setInSession(inSession, criteria) ==
  /\ mNavigating' = inSession
  /\ mFixCriteria' = CriteriaIn(inSession, criteria)

(* The loc_eng_start_handler body for an adapter that is not in session:   *)
(* a modem that is down counts as a success, the restart will catch up.    *)
beginSession(m, criteria, status) ==
  \E r \in startFix(m, criteria) :
    /\ modem' = r.modem
    /\ IF r.err \in {"SUCCESS", "ENGINE_DOWN"}
       THEN setInSession(TRUE, criteria) /\ told' = "SESSION_BEGIN"
       ELSE /\ mNavigating' = FALSE /\ mFixCriteria' = criteria
            /\ told' = status

-----------------------------------------------------------------------------
(* loc_eng_report_status: mute state, what the framework is told, engine   *)
(* status.  (fix_session_status is written and never read.)                *)
MuteAfter(mute, status) ==
  CASE mute = "WAIT" /\ status \in {"SESSION_BEGIN", "ENGINE_ON"} -> "IN_SESSION"
    [] mute = "IN_SESSION" /\ status \in {"SESSION_END", "ENGINE_OFF"} -> "NONE"
    [] OTHER -> mute

(* Variant: the end of a session is reported while another one runs.       *)
toldAlways(status) ==
  IF /\ status \in {"SESSION_BEGIN", "SESSION_END"}
     /\ MuteAfter(mute_session_state, status) # "IN_SESSION"
  THEN status ELSE told

ToldAfter(status) ==
  IF /\ status = IF mNavigating THEN "SESSION_BEGIN" ELSE "SESSION_END"
     /\ MuteAfter(mute_session_state, status) # "IN_SESSION"
  THEN status ELSE told

EngineAfter(status) ==
  IF status \in {"ENGINE_ON", "ENGINE_OFF"} THEN status ELSE engine_status

(* update_aiding_data_for_deletion.                                        *)
AidingAfter(engine, aiding) == aiding /\ engine = "ENGINE_ON"

Handling(type) == queue # <<>> /\ Head(queue).type = type /\ queue' = Tail(queue)

(* LocEngReportStatus.                                                     *)
reportStatus ==
  /\ Handling("ReportStatus")
  /\ LET status == Head(queue).arg
     IN  /\ mute_session_state' = MuteAfter(mute_session_state, status)
         /\ told' = ToldAfter(status)
         /\ engine_status' = EngineAfter(status)
         /\ aiding_data_for_deletion' =
              AidingAfter(EngineAfter(status), aiding_data_for_deletion)
  /\ UNCHANGED <<mNavigating, mFixCriteria, modem, wanted, singleShots, crashes>>

(* LocEngDelAidData.                                                       *)
delAidData ==
  /\ Handling("DelAidData")
  /\ aiding_data_for_deletion' = AidingAfter(engine_status, TRUE)
  /\ UNCHANGED <<mNavigating, mFixCriteria, mute_session_state, engine_status,
                 modem, wanted, singleShots, told, crashes>>

(* A LocEngRequestNi that is accepted (see LocEngNi) and has a privacy     *)
(* override: loc_eng_mute_one_session.                                     *)
muteOneSession ==
  /\ Handling("PrivacyOverride")
  /\ mute_session_state' = "WAIT"
  /\ UNCHANGED <<mNavigating, mFixCriteria, engine_status,
                 aiding_data_for_deletion, modem, wanted, singleShots, told,
                 crashes>>

(* LocEngStartFix: loc_eng_start_handler.                                  *)
start_handler ==
  /\ Handling("StartFix")
  /\ \/ ~mNavigating /\ beginSession(modem, mFixCriteria, told)
     \/ mNavigating /\ UNCHANGED <<modem, mNavigating, mFixCriteria, told>>
  /\ UNCHANGED <<mute_session_state, engine_status, aiding_data_for_deletion,
                 wanted, singleShots, crashes>>

(* LocEngStopFix: loc_eng_stop_handler.                                    *)
stop_handler ==
  /\ Handling("StopFix")
  /\ \/ /\ mNavigating
        /\ modem' = stopFix(modem)
        /\ told' = IF modem.open THEN "SESSION_END" ELSE told
        /\ setInSession(FALSE, mFixCriteria)
     \/ ~mNavigating /\ UNCHANGED <<modem, mNavigating, mFixCriteria, told>>
  /\ UNCHANGED <<mute_session_state, engine_status, aiding_data_for_deletion,
                 wanted, singleShots, crashes>>

(* LocEngPositionMode.                                                     *)
positionMode ==
  /\ Handling("PositionMode")
  /\ mFixCriteria' = Valid(Head(queue).arg)
  /\ modem' = setPositionMode(modem, Valid(Head(queue).arg))
  /\ UNCHANGED <<mNavigating, mute_session_state, engine_status,
                 aiding_data_for_deletion, wanted, singleShots, told, crashes>>

(* LocEngReportPosition: the first report of a single shot ends its        *)
(* session, with a stopFix if the modem may still be working.              *)
reportPosition ==
  /\ Handling("ReportPosition")
  /\ LET position == Head(queue).arg
         last == /\ mute_session_state # "IN_SESSION"
                 /\ position # "FILTERED"
                 /\ mFixCriteria.recurrence = "SINGLE"
     IN  \/ /\ last
            /\ modem' = IF position = "INTERMEDIATE" THEN stopFix(modem) ELSE modem
            /\ setInSession(FALSE, mFixCriteria)
         \/ ~last /\ UNCHANGED <<modem, mNavigating, mFixCriteria>>
  /\ UNCHANGED <<mute_session_state, engine_status, aiding_data_for_deletion,
                 wanted, singleShots, told, crashes>>

-----------------------------------------------------------------------------
(* LocEngDown: loc_eng_handle_engine_down.                                 *)
handle_engine_down ==
  /\ Handling("EngineDown")
  /\ mute_session_state' = MuteAfter(mute_session_state, "ENGINE_OFF")
  /\ engine_status' = "ENGINE_OFF"
  /\ UNCHANGED <<mNavigating, mFixCriteria, aiding_data_for_deletion, modem,
                 wanted, singleShots, told, crashes>>

(* LocSsrMsg: the loc api handle is closed and opened again.               *)
locSsr ==
  /\ Handling("LocSsr")
  /\ modem' = [modem EXCEPT !.open = modem.phase # "down"]
  /\ UNCHANGED <<mNavigating, mFixCriteria, mute_session_state, engine_status,
                 aiding_data_for_deletion, wanted, singleShots, told, crashes>>

(* Variant: the session flag is left set, so that nothing is restarted.    *)
upWithoutRestart ==
  /\ Handling("EngineUp")
  /\ mute_session_state' = MuteAfter(mute_session_state, "ENGINE_ON")
  /\ engine_status' = "ENGINE_ON"
  /\ modem' = IF mNavigating THEN setPositionMode(modem, mFixCriteria) ELSE modem
  /\ UNCHANGED <<mNavigating, mFixCriteria, aiding_data_for_deletion, wanted,
                 singleShots, told, crashes>>

(* LocEngUp: loc_eng_handle_engine_up.  A session that was running is      *)
(* begun again with the adapter's copy of the position mode; setInSession  *)
(* invalidates the copy after it was sent.                                 *)
handle_engine_up ==
  /\ Handling("EngineUp")
  /\ mute_session_state' = MuteAfter(mute_session_state, "ENGINE_ON")
  /\ engine_status' = "ENGINE_ON"
  /\ \/ /\ mNavigating
        /\ beginSession(setPositionMode(modem, mFixCriteria),
                        CriteriaIn(FALSE, mFixCriteria), told)
     \/ ~mNavigating /\ UNCHANGED <<modem, mNavigating, mFixCriteria, told>>
  /\ UNCHANGED <<aiding_data_for_deletion, wanted, singleShots, crashes>>

-----------------------------------------------------------------------------
Space == Len(queue) < MaxQueue

(* loc_eng_start, loc_eng_stop (also from loc_eng_cleanup),                *)
(* loc_eng_set_position_mode and loc_eng_delete_aiding_data: messages of   *)
(* framework threads; there is no ULP to take them.  The framework sets a  *)
(* position mode before every start.                                       *)
frameworkCalls ==
  /\ Space
  /\ \/ /\ wanted.mode = "VALID"
        /\ queue' = Append(queue, Message("StartFix", ""))
        /\ UNCHANGED <<wanted, singleShots>>
     \/ /\ queue' = Append(queue, Message("StopFix", ""))
        /\ wanted' = [wanted EXCEPT !.mode = "INVALID"]
        /\ UNCHANGED singleShots
     \/ /\ queue' = Append(queue, Message("DelAidData", ""))
        /\ UNCHANGED <<wanted, singleShots>>
     \/ \E r \in Recurrences :
          /\ queue' = Append(queue, Message("PositionMode", r))
          /\ wanted' = Valid(r)
          /\ singleShots' = (singleShots \/ r = "SINGLE")
  /\ UNCHANGED <<mNavigating, mFixCriteria, mute_session_state, engine_status,
                 aiding_data_for_deletion, modem, told, crashes>>

FromModem(message, m) ==
  /\ queue' = Append(queue, message)
  /\ modem' = m
  /\ UNCHANGED <<mNavigating, mFixCriteria, mute_session_state, engine_status,
                 aiding_data_for_deletion, wanted, singleShots, told>>

(* A fix is reported while the modem works on it; a single shot is over    *)
(* with its final report.                                                  *)
modemPosition ==
  /\ Space /\ modem.phase = "up" /\ modem.fixing
  /\ \E p \in Positions, still \in BOOLEAN :
       /\ p = "INTERMEDIATE" \/ modem.criteria.recurrence = "PERIODIC" => still
       /\ p \in {"SUCCESS", "FAILURE"} /\ modem.criteria.recurrence = "SINGLE" =>
            ~still
       /\ FromModem(Message("ReportPosition", p), [modem EXCEPT !.fixing = still])
  /\ UNCHANGED crashes

(* The engine goes on, a session begins, ends, and the engine goes off.    *)
modemStatus ==
  /\ Space /\ modem.phase = "up"
  /\ \E s \in Statuses \ {"NONE"} :
       /\ CASE s = "ENGINE_ON"     -> modem.fixing /\ modem.last = "ENGINE_OFF"
            [] s = "SESSION_BEGIN" -> modem.fixing /\
                                      modem.last \in {"ENGINE_ON", "SESSION_END"}
            [] s = "SESSION_END"   -> ~modem.fixing /\ modem.last = "SESSION_BEGIN"
            [] s = "ENGINE_OFF"    -> ~modem.fixing /\
                                      modem.last \in {"ENGINE_ON", "SESSION_END"}
       /\ FromModem(Message("ReportStatus", s), [modem EXCEPT !.last = s])
  /\ UNCHANGED crashes

(* A network initiated request asks for a silent session.                  *)
modemOverride ==
  /\ Space /\ modem.phase = "up"
  /\ FromModem(Message("PrivacyOverride", ""), modem)
  /\ UNCHANGED crashes

(* The modem crashes: handleEngineDownEvent.                               *)
modemCrash ==
  /\ Space /\ modem.phase = "up" /\ crashes < MaxCrashes
  /\ FromModem(Message("EngineDown", ""),
               [NewModem EXCEPT !.phase = "down", !.open = FALSE])
  /\ crashes' = crashes + 1

(* It is back: handleEngineUpEvent sends two messages.                     *)
modemReturns ==
  /\ Space
  /\ \/ modem.phase = "down" /\ FromModem(Message("LocSsr", ""),
                                          [modem EXCEPT !.phase = "returning"])
     \/ modem.phase = "returning" /\ FromModem(Message("EngineUp", ""),
                                               [modem EXCEPT !.phase = "up"])
  /\ UNCHANGED crashes

Handlers ==
  \/ reportStatus \/ delAidData \/ muteOneSession \/ start_handler
  \/ stop_handler \/ positionMode \/ reportPosition \/ handle_engine_down
  \/ locSsr \/ handle_engine_up

Next ==
  \/ Handlers
  \/ frameworkCalls
  \/ modemPosition \/ modemStatus \/ modemOverride
  \/ modemCrash \/ modemReturns

Spec == Init /\ [][Next]_vars

-----------------------------------------------------------------------------
(* The types of the variables.                                             *)
TypeOK ==
  /\ queue \in Seq(Messages)
  /\ mNavigating \in BOOLEAN
  /\ mFixCriteria \in Criteria
  /\ mute_session_state \in {"NONE", "WAIT", "IN_SESSION"}
  /\ engine_status \in {"NONE", "ENGINE_ON", "ENGINE_OFF"}
  /\ aiding_data_for_deletion \in BOOLEAN
  /\ modem \in Modem
  /\ wanted \in Criteria /\ singleShots \in BOOLEAN
  /\ told \in {"NONE", "SESSION_BEGIN", "SESSION_END"}
  /\ crashes \in Nat

Quiet == queue = <<>> /\ modem.phase = "up"

(* A running session was announced, and whatever statuses of an earlier    *)
(* session come late from the modem, its end was not: "Session End is not  *)
(* reported during Android navigating state".                              *)
SessionAnnounced == mNavigating => told = "SESSION_BEGIN"

(* Periodic sessions and fixes go together through modem crashes, stops    *)
(* and starts in any order: once everything is handled, the modem is       *)
(* working on the session, and on nothing that nobody would stop.  (The    *)
(* late report of an earlier fix may end a single shot early.)             *)
FixMatchesSession ==
  Quiet /\ ~singleShots => (modem.fixing <=> mNavigating)

(* Muting is for one session: once everything is handled and the engine is *)
(* off, the next session is not muted by this one's override.              *)
MuteEndsWithEngine ==
  Quiet /\ modem.last = "ENGINE_OFF" /\ engine_status = "ENGINE_OFF" =>
    mute_session_state # "IN_SESSION"

(* Both: nothing of one session is left for the next.                      *)
SessionSettles == FixMatchesSession /\ MuteEndsWithEngine

(* What SessionSettles rests on.  A modem that lost its handle has a       *)
(* LocSsr and after it an EngineUp to come, in that order.                 *)
Place(type) == {i \in 1 .. Len(queue) : queue[i].type = type}

HandleComesBack ==
  /\ modem.phase = "down" => ~modem.open
  /\ ~modem.open => /\ ~modem.fixing
                    /\ modem.phase = "returning" => Place("LocSsr") # {}
                    /\ modem.phase = "up" =>
                         \E i \in Place("LocSsr"), j \in Place("EngineUp") : i < j

(* As long as no single shot was asked for, nobody has one in hand.        *)
OnlyPeriodic ==
  ~singleShots => /\ mFixCriteria.recurrence = "PERIODIC"
                  /\ modem.criteria.recurrence = "PERIODIC"
                  /\ \A i \in Place("PositionMode") : queue[i].arg = "PERIODIC"

(* A fix belongs to a session, and a session without a fix has an EngineUp *)
(* to come that will start it again.                                       *)
FixFollows ==
  ~singleShots =>
    /\ modem.fixing => mNavigating
    /\ mNavigating /\ ~modem.fixing /\ modem.open /\ modem.phase = "up" =>
         Place("EngineUp") # {}

(* The engine as it will be when the messages before place n are handled.  *)
TurnsOn(m)  == m.type = "EngineUp" \/ (m.type = "ReportStatus" /\ m.arg = "ENGINE_ON")
TurnsOff(m) == m.type = "EngineDown" \/ (m.type = "ReportStatus" /\ m.arg = "ENGINE_OFF")

StaysOn(first, n) == \A k \in 1 .. Len(queue) : first < k /\ k < n => ~TurnsOff(queue[k])

OnAt(n) ==
  \/ engine_status = "ENGINE_ON" /\ StaysOn(0, n)
  \/ \E j \in 1 .. Len(queue) : j < n /\ TurnsOn(queue[j]) /\ StaysOn(j, n)

(* The engine is on whenever a session begins, and so while one is muted.  *)
EngineOnFirst ==
  /\ mute_session_state = "IN_SESSION" => engine_status = "ENGINE_ON"
  /\ modem.last # "ENGINE_OFF" => OnAt(Len(queue) + 1)
  /\ \A i \in Place("ReportStatus") : queue[i].arg = "SESSION_BEGIN" => OnAt(i)

SessionInv == /\ TypeOK /\ HandleComesBack /\ OnlyPeriodic /\ FixFollows
              /\ EngineOnFirst

(* "modem is back up.  If we crashed in the middle of navigating, we       *)
(* restart": the session is restarted in the mode the framework has set.   *)
RestartKeepsMode ==
  Quiet /\ ~singleShots /\ mNavigating /\ wanted.mode = "VALID" =>
    modem.criteria = wanted
=============================================================================
