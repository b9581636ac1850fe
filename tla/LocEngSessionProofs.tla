------------------------- MODULE LocEngSessionProofs -------------------------
(***************************************************************************)
(* Proofs about the fix session, for any length of the message queue and   *)
(* any number of modem crashes.                                            *)
(***************************************************************************)
EXTENDS LocEngSession, SequenceTheorems, TLAPS

(* A session that runs was announced, by the handler that began it; no     *)
(* later status takes that back while it runs.                             *)
THEOREM SessionsAreAnnounced == Spec => []SessionAnnounced
<1>1. Init => SessionAnnounced
  BY DEF Init, SessionAnnounced
<1>2. SessionAnnounced /\ [Next]_vars => SessionAnnounced'
  <2> SUFFICES ASSUME SessionAnnounced, [Next]_vars PROVE SessionAnnounced'
    OBVIOUS
  <2>1. ASSUME NEW m, NEW criteria, NEW status, beginSession(m, criteria, status)
        PROVE  SessionAnnounced'
    BY <2>1 DEF beginSession, setInSession, SessionAnnounced
  <2>2. CASE reportStatus
    <3>1. PICK status : mNavigating' = mNavigating /\ told' = ToldAfter(status)
      BY <2>2 DEF reportStatus
    <3> QED BY <3>1 DEF ToldAfter, SessionAnnounced
  <2>3. CASE start_handler
    <3>1. CASE beginSession(modem, mFixCriteria, told)
      BY <2>1, <3>1
    <3>2. CASE UNCHANGED <<mNavigating, told>>
      BY <3>2 DEF SessionAnnounced
    <3> QED BY <2>3, <3>1, <3>2 DEF start_handler
  <2>4. CASE stop_handler
    BY <2>4 DEF stop_handler, setInSession, SessionAnnounced
  <2>5. CASE reportPosition
    BY <2>5 DEF reportPosition, setInSession, SessionAnnounced
  <2>6. CASE handle_engine_up
    <3>1. CASE UNCHANGED <<mNavigating, told>>
      BY <3>1 DEF SessionAnnounced
    <3> QED BY <2>1, <2>6, <3>1 DEF handle_engine_up
  <2>7. CASE UNCHANGED <<mNavigating, told>>
    BY <2>7 DEF SessionAnnounced
  <2> QED BY <2>2, <2>3, <2>4, <2>5, <2>6, <2>7
          DEF Next, Handlers, delAidData, muteOneSession, positionMode, handle_engine_down, locSsr,
              frameworkCalls, modemPosition, modemStatus, modemOverride, modemCrash, modemReturns,
              FromModem, vars
<1> QED BY <1>1, <1>2, PTL DEF Spec

-----------------------------------------------------------------------------
(* The queue after a message was handled, and after one was sent.          *)
LEMMA QueueHandled ==
  ASSUME queue \in Seq(Messages), queue # <<>>, queue' = Tail(queue)
  PROVE  /\ Len(queue) \in Nat /\ Len(queue') = Len(queue) - 1 /\ Len(queue) > 0
         /\ Head(queue) = queue[1] /\ Head(queue) \in Messages /\ queue' \in Seq(Messages)
         /\ \A i \in 1 .. Len(queue') : queue'[i] = queue[i + 1]
  BY HeadTailProperties

LEMMA QueueSent ==
  ASSUME queue \in Seq(Messages), NEW m \in Messages, queue' = Append(queue, m)
  PROVE  /\ Len(queue) \in Nat /\ Len(queue') = Len(queue) + 1
         /\ queue' \in Seq(Messages) /\ queue'[Len(queue) + 1] = m
         /\ \A i \in 1 .. Len(queue) : queue'[i] = queue[i]
  BY AppendProperties

(* Places move with the queue.                                             *)
LEMMA PlaceHandled ==
  ASSUME queue \in Seq(Messages), queue # <<>>, queue' = Tail(queue), NEW type,
         NEW i \in Place(type), i # 1
  PROVE  i - 1 \in Place(type)'
<1>1. i \in 1 .. Len(queue) /\ queue[i].type = type
  BY DEF Place
<1>2. i - 1 \in 1 .. Len(queue') /\ queue'[i - 1] = queue[(i - 1) + 1] /\ (i - 1) + 1 = i
  BY <1>1, QueueHandled
<1> QED BY <1>1, <1>2 DEF Place

LEMMA PlaceBefore ==
  ASSUME queue \in Seq(Messages), queue # <<>>, queue' = Tail(queue), NEW type,
         NEW i \in Place(type)'
  PROVE  i + 1 \in Place(type) /\ queue[i + 1] = queue'[i]
<1>1. i \in 1 .. Len(queue') /\ queue'[i].type = type
  BY DEF Place
<1>2. i + 1 \in 1 .. Len(queue) /\ queue'[i] = queue[i + 1]
  BY <1>1, QueueHandled
<1> QED BY <1>1, <1>2 DEF Place

LEMMA PlaceSent ==
  ASSUME queue \in Seq(Messages), NEW m \in Messages, queue' = Append(queue, m), NEW type
  PROVE  /\ \A i \in Place(type) : i \in Place(type)' /\ i < Len(queue) + 1
         /\ m.type = type => Len(queue) + 1 \in Place(type)'
         /\ \A i \in Place(type)' : \/ i \in Place(type) /\ queue'[i] = queue[i]
                                    \/ i = Len(queue) + 1 /\ m.type = type /\ queue'[i] = m
  BY QueueSent DEF Place

(* The engine after a message before place n was handled, or one was sent. *)
LEMMA OnAtHandled ==
  ASSUME queue \in Seq(Messages), queue # <<>>, queue' = Tail(queue),
         TurnsOn(Head(queue)) => engine_status' = "ENGINE_ON",
         ~TurnsOn(Head(queue)) /\ ~TurnsOff(Head(queue)) => engine_status' = engine_status,
         NEW n \in Nat, n > 0, OnAt(n + 1)
  PROVE  OnAt(n)'
<1>1. /\ Len(queue) \in Nat /\ Len(queue') = Len(queue) - 1 /\ Len(queue) > 0
      /\ Head(queue) = queue[1]
      /\ \A i \in 1 .. Len(queue') : queue'[i] = queue[i + 1]
  BY QueueHandled
<1>2. ASSUME NEW j \in Nat, StaysOn(j + 1, n + 1) PROVE StaysOn(j, n)'
  <2> SUFFICES ASSUME NEW k \in 1 .. Len(queue'), j < k, k < n PROVE ~TurnsOff(queue'[k])
    BY DEF StaysOn, TurnsOff
  <2>1. k + 1 \in 1 .. Len(queue) /\ j + 1 < k + 1 /\ k + 1 < n + 1
    BY <1>1
  <2> QED BY <1>1, <1>2, <2>1 DEF StaysOn
<1>3. CASE engine_status = "ENGINE_ON" /\ StaysOn(0, n + 1)
  <2>1. ~TurnsOff(queue[1])
    BY <1>1, <1>3 DEF StaysOn
  <2>2. engine_status' = "ENGINE_ON"
    BY <1>1, <1>3, <2>1
  <2>3. StaysOn(1, n + 1)
    BY <1>3 DEF StaysOn
  <2> QED BY <1>2, <2>2, <2>3 DEF OnAt
<1>4. ASSUME NEW j \in 1 .. Len(queue), j < n + 1, TurnsOn(queue[j]), StaysOn(j, n + 1)
      PROVE  OnAt(n)'
  <2>1. StaysOn(j - 1, n)'
    <3>1. j - 1 \in Nat /\ (j - 1) + 1 = j
      OBVIOUS
    <3> QED BY <1>2, <1>4, <3>1
  <2>2. CASE j = 1
    BY <1>1, <1>4, <2>1, <2>2 DEF OnAt
  <2>3. CASE j # 1
    <3>1. j - 1 \in 1 .. Len(queue') /\ j - 1 < n /\ queue'[j - 1] = queue[(j - 1) + 1]
          /\ (j - 1) + 1 = j
      BY <1>1, <1>4, <2>3
    <3>2. TurnsOn(queue'[j - 1])
      BY <1>4, <3>1
    <3> QED BY <2>1, <3>1, <3>2 DEF OnAt, TurnsOn
  <2> QED BY <2>2, <2>3
<1> QED BY <1>3, <1>4 DEF OnAt

LEMMA OnAtSent ==
  ASSUME queue \in Seq(Messages), NEW m \in Messages, queue' = Append(queue, m),
         engine_status' = engine_status
  PROVE  /\ \A n \in 1 .. Len(queue) + 1 : OnAt(n) => OnAt(n)'
         /\ OnAt(Len(queue) + 1) /\ ~TurnsOff(m) => OnAt(Len(queue) + 1)'
         /\ TurnsOn(m) => OnAt(Len(queue) + 1)'
<1>l. PICK l : l = Len(queue)
  OBVIOUS
<1>1. /\ l \in Nat /\ Len(queue') = l + 1 /\ queue'[l + 1] = m
      /\ \A i \in 1 .. l : queue'[i] = queue[i]
  BY <1>l, QueueSent
<1>2. ASSUME NEW n \in 1 .. l + 2, NEW j \in 0 .. l, StaysOn(j, n), n <= l + 1 \/ ~TurnsOff(m)
      PROVE  StaysOn(j, n)'
  <2> SUFFICES ASSUME NEW k \in 1 .. l + 1, j < k, k < n PROVE ~TurnsOff(queue'[k])
    BY <1>1 DEF StaysOn, TurnsOff
  <2>1. CASE k \in 1 .. l
    BY <1>l, <1>1, <1>2, <2>1 DEF StaysOn
  <2>2. CASE k = l + 1
    BY <1>1, <1>2, <2>2
  <2> QED BY <1>1, <2>1, <2>2
<1>3. ASSUME NEW n \in 1 .. l + 2, OnAt(n), n <= l + 1 \/ ~TurnsOff(m) PROVE OnAt(n)'
  <2>1. CASE engine_status = "ENGINE_ON" /\ StaysOn(0, n)
    BY <1>1, <1>2, <1>3, <2>1 DEF OnAt
  <2>2. ASSUME NEW j \in 1 .. l, j < n, TurnsOn(queue[j]), StaysOn(j, n) PROVE OnAt(n)'
    <3>1. TurnsOn(queue'[j]) /\ j \in 1 .. Len(queue') /\ StaysOn(j, n)'
      BY <1>1, <1>2, <1>3, <2>2
    <3> QED BY <2>2, <3>1 DEF OnAt, TurnsOn
  <2> QED BY <1>l, <1>3, <2>1, <2>2 DEF OnAt
<1>4. ASSUME OnAt(l + 1) PROVE OnAt(l + 2)
  BY <1>l, <1>1, <1>4 DEF OnAt, StaysOn
<1>5. ASSUME TurnsOn(m) PROVE OnAt(l + 2)'
  <2>1. StaysOn(l + 1, l + 2)'
    BY <1>1 DEF StaysOn
  <2>2. l + 1 \in 1 .. Len(queue') /\ TurnsOn(queue'[l + 1]) /\ l + 1 < l + 2
    BY <1>1, <1>5
  <2> QED BY <2>1, <2>2 DEF OnAt, TurnsOn
<1>6. ASSUME OnAt(Len(queue) + 1), ~TurnsOff(m) PROVE OnAt(l + 2)'
  <2>1. OnAt(l + 2)
    BY <1>l, <1>4, <1>6
  <2> QED BY <1>1, <1>3, <1>6, <2>1
<1>7. ASSUME NEW n \in 1 .. Len(queue) + 1, OnAt(n) PROVE OnAt(n)'
  <2>1. n \in 1 .. l + 2 /\ n <= l + 1
    BY <1>l, <1>1, <1>7
  <2> QED BY <1>3, <1>7, <2>1
<1>8. OnAt(l + 2)' => OnAt(Len(queue) + 1)'
  <2>1. Len(queue') + 1 = l + 2
    BY <1>1
  <2> QED BY <2>1 DEF OnAt, StaysOn
<1> QED BY <1>5, <1>6, <1>7, <1>8

-----------------------------------------------------------------------------
(* What the parts of messages and of the modem are.                        *)
LEMMA MessageParts ==
  ASSUME NEW m \in Messages
  PROVE  /\ m.type = "ReportStatus" => m.arg \in Statuses \ {"NONE"}
         /\ m.type = "PositionMode" => m.arg \in Recurrences
<1>1. \/ \E t \in {"StartFix", "StopFix", "DelAidData", "PrivacyOverride",
                  "LocSsr", "EngineDown", "EngineUp"} : m = [type |-> t, arg |-> ""]
      \/ \E r \in Recurrences : m = [type |-> "PositionMode", arg |-> r]
      \/ \E s \in Statuses \ {"NONE"} : m = [type |-> "ReportStatus", arg |-> s]
      \/ \E p \in Positions : m = [type |-> "ReportPosition", arg |-> p]
  BY Zenon DEF Messages, Message
<1>2. ASSUME NEW t \in {"StartFix", "StopFix", "DelAidData", "PrivacyOverride",
                  "LocSsr", "EngineDown", "EngineUp"}, m = [type |-> t, arg |-> ""]
      PROVE  m.type # "ReportStatus" /\ m.type # "PositionMode"
  BY <1>2
<1>3. ASSUME NEW r \in Recurrences, m = [type |-> "PositionMode", arg |-> r]
      PROVE  m.type # "ReportStatus" /\ m.arg \in Recurrences
  BY <1>3
<1>4. ASSUME NEW s \in Statuses \ {"NONE"}, m = [type |-> "ReportStatus", arg |-> s]
      PROVE  m.type # "PositionMode" /\ m.arg \in Statuses \ {"NONE"}
  BY <1>4
<1>5. ASSUME NEW p \in Positions, m = [type |-> "ReportPosition", arg |-> p]
      PROVE  m.type # "ReportStatus" /\ m.type # "PositionMode"
  BY <1>5
<1> QED BY <1>1, <1>2, <1>3, <1>4, <1>5, Zenon

LEMMA ModemParts ==
  ASSUME TypeOK
  PROVE  /\ modem \in Modem /\ modem.phase \in {"up", "down", "returning"}
         /\ modem.open \in BOOLEAN /\ modem.fixing \in BOOLEAN /\ modem.last \in Statuses
         /\ modem.criteria \in Criteria /\ mFixCriteria \in Criteria /\ mNavigating \in BOOLEAN
         /\ queue \in Seq(Messages)
  BY DEF TypeOK, Modem

(* What every call of the LocApi leaves alone.                             *)
LEMMA ApiCalls ==
  ASSUME NEW m \in Modem, NEW criteria \in Criteria
  PROVE  /\ setPositionMode(m, criteria) \in Modem
         /\ setPositionMode(m, criteria).phase = m.phase
         /\ setPositionMode(m, criteria).open = m.open
         /\ setPositionMode(m, criteria).last = m.last
         /\ setPositionMode(m, criteria).fixing = m.fixing
         /\ setPositionMode(m, criteria).criteria \in {criteria, m.criteria}
         /\ stopFix(m) \in Modem /\ stopFix(m).phase = m.phase /\ stopFix(m).open = m.open
         /\ stopFix(m).last = m.last /\ stopFix(m).criteria = m.criteria
         /\ m.open => ~stopFix(m).fixing
         /\ ~m.open => stopFix(m).fixing = m.fixing
         /\ CriteriaIn(FALSE, criteria) \in Criteria /\ CriteriaIn(TRUE, criteria) = criteria
         /\ CriteriaIn(FALSE, criteria).recurrence = criteria.recurrence
<1>1. m.open \in BOOLEAN
  BY DEF Modem
<1>2. CASE m.open
  BY <1>2 DEF setPositionMode, stopFix, Modem, CriteriaIn, Criteria
<1>3. CASE ~m.open
  BY <1>3 DEF setPositionMode, stopFix, CriteriaIn, Criteria
<1> QED BY <1>1, <1>2, <1>3

(* startFix: an open modem fixes or fails, and fails only when idle.       *)
LEMMA StartCalls ==
  ASSUME NEW m \in Modem, NEW criteria \in Criteria, NEW r \in startFix(m, criteria)
  PROVE  /\ r.modem \in Modem /\ r.modem.phase = m.phase /\ r.modem.open = m.open
         /\ r.modem.last = m.last /\ r.modem.criteria \in {criteria, m.criteria}
         /\ \/ ~m.open /\ r.err = "ENGINE_DOWN" /\ r.modem.fixing = m.fixing
            \/ m.open /\ r.err = "SUCCESS" /\ r.modem.fixing
            \/ m.open /\ r.err = "FAILURE" /\ ~m.fixing /\ ~r.modem.fixing
<1>1. m.open \in BOOLEAN /\ m.fixing \in BOOLEAN
  BY DEF Modem
<1>2. CASE ~m.open
  <2>1. r = [err |-> "ENGINE_DOWN", modem |-> m]
    BY <1>2 DEF startFix
  <2> QED BY <1>2, <2>1
<1>3. CASE m.open
  <2>1. \/ r = [err |-> "SUCCESS",
                modem |-> [m EXCEPT !.fixing = TRUE,
                                    !.criteria = IF criteria.mode = "VALID" THEN criteria ELSE @]]
        \/ ~m.fixing /\ r = [err |-> "FAILURE", modem |-> m]
    BY <1>1, <1>3 DEF startFix
  <2>2. CASE ~m.fixing /\ r = [err |-> "FAILURE", modem |-> m]
    BY <1>3, <2>2
  <2>3. CASE r = [err |-> "SUCCESS",
                  modem |-> [m EXCEPT !.fixing = TRUE,
                                    !.criteria = IF criteria.mode = "VALID" THEN criteria ELSE @]]
    BY <1>3, <2>3 DEF Modem
  <2> QED BY <2>1, <2>2, <2>3
<1> QED BY <1>1, <1>2, <1>3

(* loc_eng_start_handler's body: a session without a fix is one whose      *)
(* modem is down.                                                          *)
LEMMA BeginCalls ==
  ASSUME NEW m \in Modem, NEW criteria \in Criteria, NEW status, beginSession(m, criteria, status)
  PROVE  /\ modem' \in Modem /\ modem'.phase = m.phase /\ modem'.open = m.open
         /\ modem'.last = m.last /\ modem'.criteria \in {criteria, m.criteria}
         /\ mFixCriteria' = criteria
         /\ told' \in {"SESSION_BEGIN", status}
         /\ \/ mNavigating' = TRUE /\ ~m.open /\ modem'.fixing = m.fixing
            \/ mNavigating' = TRUE /\ m.open /\ modem'.fixing
            \/ mNavigating' = FALSE /\ m.open /\ ~modem'.fixing
<1>1. PICK r \in startFix(m, criteria) :
        /\ modem' = r.modem
        /\ IF r.err \in {"SUCCESS", "ENGINE_DOWN"}
           THEN setInSession(TRUE, criteria) /\ told' = "SESSION_BEGIN"
           ELSE mNavigating' = FALSE /\ mFixCriteria' = criteria /\ told' = status
  BY DEF beginSession
<1>2. setInSession(TRUE, criteria) => mNavigating' = TRUE /\ mFixCriteria' = criteria
  BY ApiCalls DEF setInSession
<1>3. /\ modem' \in Modem /\ modem'.phase = m.phase /\ modem'.open = m.open
      /\ modem'.last = m.last /\ modem'.criteria \in {criteria, m.criteria}
      /\ \/ ~m.open /\ r.err = "ENGINE_DOWN" /\ modem'.fixing = m.fixing
         \/ m.open /\ r.err = "SUCCESS" /\ modem'.fixing
         \/ m.open /\ r.err = "FAILURE" /\ ~modem'.fixing
  BY <1>1, StartCalls
<1>4. CASE r.err \in {"SUCCESS", "ENGINE_DOWN"}
  <2>1. mNavigating' = TRUE /\ mFixCriteria' = criteria /\ told' = "SESSION_BEGIN"
    BY <1>1, <1>2, <1>4
  <2> QED BY <1>3, <1>4, <2>1
<1>5. CASE r.err \notin {"SUCCESS", "ENGINE_DOWN"}
  <2>1. mNavigating' = FALSE /\ mFixCriteria' = criteria /\ told' = status
    BY <1>1, <1>5
  <2> QED BY <1>3, <1>5, <2>1
<1> QED BY <1>4, <1>5

-----------------------------------------------------------------------------
(* What a handler does to modem and session.                               *)
Effect ==
  /\ modem' \in Modem /\ mNavigating' \in BOOLEAN /\ mFixCriteria' \in Criteria
  /\ modem'.phase = modem.phase /\ modem'.last = modem.last
  /\ Head(queue).type # "LocSsr" => modem'.open = modem.open
  /\ Head(queue).type = "LocSsr" => modem'.open = (modem.phase # "down")
  /\ ~modem.open => modem'.fixing = modem.fixing
  /\ ~singleShots => /\ mFixCriteria'.recurrence = "PERIODIC"
                     /\ modem'.criteria.recurrence = "PERIODIC"
                     /\ modem'.fixing => mNavigating'
  /\ ~singleShots /\ mNavigating' /\ ~modem'.fixing /\ modem'.open =>
       \/ ~modem.open
       \/ mNavigating /\ ~modem.fixing /\ Head(queue).type # "EngineUp"

LEMMA HandlerEffects ==
  ASSUME SessionInv, Handlers
  PROVE  Effect
<1>0. /\ modem \in Modem /\ modem.phase \in {"up", "down", "returning"}
      /\ modem.open \in BOOLEAN /\ modem.fixing \in BOOLEAN
      /\ modem.criteria \in Criteria /\ mFixCriteria \in Criteria /\ mNavigating \in BOOLEAN
      /\ queue \in Seq(Messages)
  BY ModemParts DEF SessionInv
<1>1. /\ ~modem.open => ~modem.fixing
      /\ ~singleShots => /\ mFixCriteria.recurrence = "PERIODIC"
                         /\ modem.criteria.recurrence = "PERIODIC"
                         /\ modem.fixing => mNavigating
  BY DEF SessionInv, HandleComesBack, OnlyPeriodic, FixFollows
<1>2. ASSUME modem' = modem, mNavigating' = mNavigating, mFixCriteria' = mFixCriteria,
             Head(queue).type \notin {"LocSsr", "EngineUp"}
      PROVE  Effect
  BY <1>0, <1>1, <1>2 DEF Effect
<1>3. CASE reportStatus \/ delAidData \/ muteOneSession \/ handle_engine_down
  <2>1. modem' = modem /\ mNavigating' = mNavigating /\ mFixCriteria' = mFixCriteria
    BY <1>3 DEF reportStatus, delAidData, muteOneSession, handle_engine_down
  <2>2. Head(queue).type \notin {"LocSsr", "EngineUp"}
    BY <1>3 DEF reportStatus, delAidData, muteOneSession, handle_engine_down, Handling
  <2> QED BY <1>2, <2>1, <2>2
<1>4. CASE locSsr
  <2>1. /\ modem' = [modem EXCEPT !.open = modem.phase # "down"]
        /\ mNavigating' = mNavigating /\ mFixCriteria' = mFixCriteria /\ Head(queue).type = "LocSsr"
    BY <1>4 DEF locSsr, Handling
  <2>2. /\ modem' \in Modem /\ modem'.phase = modem.phase /\ modem'.last = modem.last
        /\ modem'.open = (modem.phase # "down") /\ modem'.fixing = modem.fixing
        /\ modem'.criteria = modem.criteria
    BY <1>0, <2>1 DEF Modem
  <2> QED BY <1>0, <1>1, <2>1, <2>2 DEF Effect
<1>5. CASE start_handler
  <2>1. Head(queue).type = "StartFix"
    BY <1>5 DEF start_handler, Handling
  <2>2. CASE mNavigating
    <3>1. modem' = modem /\ mNavigating' = mNavigating /\ mFixCriteria' = mFixCriteria
      BY <1>5, <2>2 DEF start_handler
    <3> QED BY <1>2, <2>1, <3>1
  <2>3. CASE ~mNavigating
    <3>1. beginSession(modem, mFixCriteria, told)
      BY <1>5, <2>3 DEF start_handler
    <3>2. /\ modem' \in Modem /\ modem'.phase = modem.phase /\ modem'.open = modem.open
          /\ modem'.last = modem.last /\ modem'.criteria \in {mFixCriteria, modem.criteria}
          /\ mFixCriteria' = mFixCriteria
          /\ \/ mNavigating' = TRUE /\ ~modem.open /\ modem'.fixing = modem.fixing
             \/ mNavigating' = TRUE /\ modem.open /\ modem'.fixing
             \/ mNavigating' = FALSE /\ modem.open /\ ~modem'.fixing
      BY <1>0, <3>1, BeginCalls
    <3> QED BY <1>0, <1>1, <2>1, <3>2 DEF Effect
  <2> QED BY <2>2, <2>3
<1>6. CASE stop_handler
  <2>1. Head(queue).type = "StopFix"
    BY <1>6 DEF stop_handler, Handling
  <2>2. CASE ~mNavigating
    <3>1. modem' = modem /\ mNavigating' = mNavigating /\ mFixCriteria' = mFixCriteria
      BY <1>6, <2>2 DEF stop_handler
    <3> QED BY <1>2, <2>1, <3>1
  <2>3. CASE mNavigating
    <3>1. /\ modem' = stopFix(modem) /\ mNavigating' = FALSE
          /\ mFixCriteria' = CriteriaIn(FALSE, mFixCriteria)
      BY <1>6, <2>3 DEF stop_handler, setInSession
    <3> QED BY <1>0, <1>1, <2>1, <3>1, ApiCalls DEF Effect
  <2> QED BY <2>2, <2>3
<1>7. CASE positionMode
  <2>1. /\ Head(queue).type = "PositionMode" /\ mNavigating' = mNavigating
        /\ mFixCriteria' = Valid(Head(queue).arg)
        /\ modem' = setPositionMode(modem, Valid(Head(queue).arg))
    BY <1>7 DEF positionMode, Handling
  <2>2. queue # <<>> /\ Head(queue) \in Messages /\ 1 \in 1 .. Len(queue) /\ Head(queue) = queue[1]
    BY <1>0, <1>7, HeadTailProperties DEF positionMode, Handling
  <2>3. /\ Head(queue).arg \in Recurrences /\ Valid(Head(queue).arg) \in Criteria
        /\ Valid(Head(queue).arg).recurrence = Head(queue).arg
    BY <2>1, <2>2, MessageParts DEF Valid, Criteria
  <2>4. ~singleShots => Head(queue).arg = "PERIODIC"
    BY <2>1, <2>2 DEF SessionInv, OnlyPeriodic, Place
  <2> QED BY <1>0, <1>1, <2>1, <2>3, <2>4, ApiCalls DEF Effect
<1>8. CASE reportPosition
  <2>1. Head(queue).type = "ReportPosition"
    BY <1>8 DEF reportPosition, Handling
  <2>2. \/ modem' = modem /\ mNavigating' = mNavigating /\ mFixCriteria' = mFixCriteria
        \/ /\ mFixCriteria.recurrence = "SINGLE"
           /\ modem' \in {modem, stopFix(modem)} /\ mNavigating' = FALSE
           /\ mFixCriteria' = CriteriaIn(FALSE, mFixCriteria)
    BY <1>8 DEF reportPosition, setInSession
  <2>3. CASE /\ mFixCriteria.recurrence = "SINGLE"
             /\ modem' \in {modem, stopFix(modem)} /\ mNavigating' = FALSE
             /\ mFixCriteria' = CriteriaIn(FALSE, mFixCriteria)
    BY <1>0, <1>1, <2>1, <2>3, ApiCalls DEF Effect
  <2> QED BY <1>2, <2>1, <2>2, <2>3
<1>9. CASE handle_engine_up
  <2>1. Head(queue).type = "EngineUp"
    BY <1>9 DEF handle_engine_up, Handling
  <2>2. CASE ~mNavigating
    <3>1. modem' = modem /\ mNavigating' = mNavigating /\ mFixCriteria' = mFixCriteria
      BY <1>9, <2>2 DEF handle_engine_up
    <3> QED BY <1>0, <1>1, <2>1, <2>2, <3>1 DEF Effect
  <2>3. CASE mNavigating
    <3>1. PICK m, criteria : /\ m = setPositionMode(modem, mFixCriteria)
                             /\ criteria = CriteriaIn(FALSE, mFixCriteria)
      OBVIOUS
    <3>2. beginSession(m, criteria, told)
      BY <1>9, <2>3, <3>1 DEF handle_engine_up
    <3>3. /\ m \in Modem /\ m.phase = modem.phase /\ m.open = modem.open /\ m.last = modem.last
          /\ m.fixing = modem.fixing /\ m.criteria \in {mFixCriteria, modem.criteria}
          /\ criteria \in Criteria /\ criteria.recurrence = mFixCriteria.recurrence
      BY <1>0, <3>1, ApiCalls
    <3>4. /\ modem' \in Modem /\ modem'.phase = m.phase /\ modem'.open = m.open
          /\ modem'.last = m.last /\ modem'.criteria \in {criteria, m.criteria}
          /\ mFixCriteria' = criteria
          /\ \/ mNavigating' = TRUE /\ ~m.open /\ modem'.fixing = m.fixing
             \/ mNavigating' = TRUE /\ m.open /\ modem'.fixing
             \/ mNavigating' = FALSE /\ m.open /\ ~modem'.fixing
      BY <3>2, <3>3, BeginCalls
    <3> QED BY <1>0, <1>1, <2>1, <3>3, <3>4 DEF Effect
  <2> QED BY <2>2, <2>3
<1> QED BY <1>3, <1>4, <1>5, <1>6, <1>7, <1>8, <1>9 DEF Handlers

-----------------------------------------------------------------------------
(* The rest of what a handler does.                                        *)
LEMMA HandlerTypes ==
  ASSUME SessionInv, Handlers
  PROVE  /\ queue # <<>> /\ queue' = Tail(queue) /\ singleShots' = singleShots
         /\ wanted' = wanted /\ crashes' = crashes /\ TypeOK'
<1>0. TypeOK
  BY DEF SessionInv
<1>1. queue # <<>> /\ queue' = Tail(queue)
  BY DEF Handlers, reportStatus, delAidData, muteOneSession, start_handler, stop_handler,
         positionMode, reportPosition, handle_engine_down, locSsr, handle_engine_up, Handling
<1>2. singleShots' = singleShots /\ wanted' = wanted /\ crashes' = crashes
  BY DEF Handlers, reportStatus, delAidData, muteOneSession, start_handler, stop_handler,
         positionMode, reportPosition, handle_engine_down, locSsr, handle_engine_up
<1>3. modem' \in Modem /\ mNavigating' \in BOOLEAN /\ mFixCriteria' \in Criteria
  BY HandlerEffects DEF Effect
<1>4. queue' \in Seq(Messages)
  BY <1>0, <1>1, QueueHandled DEF TypeOK
<1>5. mute_session_state' \in {"NONE", "WAIT", "IN_SESSION"}
  <2>1. \A s : MuteAfter(mute_session_state, s) \in {mute_session_state, "NONE", "IN_SESSION"}
    BY DEF MuteAfter
  <2>2. \/ mute_session_state' = "WAIT" \/ mute_session_state' = mute_session_state
        \/ \E s : mute_session_state' = MuteAfter(mute_session_state, s)
    BY DEF Handlers, reportStatus, delAidData, muteOneSession, start_handler, stop_handler,
           positionMode, reportPosition, handle_engine_down, locSsr, handle_engine_up
  <2>3. mute_session_state \in {"NONE", "WAIT", "IN_SESSION"}
    BY <1>0 DEF TypeOK
  <2> QED BY <2>1, <2>2, <2>3
<1>6. engine_status' \in {"NONE", "ENGINE_ON", "ENGINE_OFF"}
  <2>1. \A s : EngineAfter(s) \in {engine_status, "ENGINE_ON", "ENGINE_OFF"}
    BY DEF EngineAfter
  <2>2. \/ engine_status' \in {engine_status, "ENGINE_ON", "ENGINE_OFF"}
        \/ \E s : engine_status' = EngineAfter(s)
    BY DEF Handlers, reportStatus, delAidData, muteOneSession, start_handler, stop_handler,
           positionMode, reportPosition, handle_engine_down, locSsr, handle_engine_up
  <2>3. engine_status \in {"NONE", "ENGINE_ON", "ENGINE_OFF"}
    BY <1>0 DEF TypeOK
  <2> QED BY <2>1, <2>2, <2>3
<1>7. aiding_data_for_deletion' \in BOOLEAN
  <2>1. \A e, a : AidingAfter(e, a) \in BOOLEAN
    BY DEF AidingAfter
  <2>2. \/ aiding_data_for_deletion' = aiding_data_for_deletion
        \/ \E e, a : aiding_data_for_deletion' = AidingAfter(e, a)
    BY DEF Handlers, reportStatus, delAidData, muteOneSession, start_handler, stop_handler,
           positionMode, reportPosition, handle_engine_down, locSsr, handle_engine_up
  <2>3. aiding_data_for_deletion \in BOOLEAN
    BY <1>0 DEF TypeOK
  <2> QED BY <2>1, <2>2, <2>3
<1>8. told' \in {"NONE", "SESSION_BEGIN", "SESSION_END"}
  <2>0. told \in {"NONE", "SESSION_BEGIN", "SESSION_END"}
    BY <1>0 DEF TypeOK
  <2>1. \A s : ToldAfter(s) \in {told, "SESSION_BEGIN", "SESSION_END"}
    BY DEF ToldAfter
  <2>2. ASSUME NEW m, NEW criteria, beginSession(m, criteria, told)
        PROVE  told' \in {told, "SESSION_BEGIN"}
    BY <2>2 DEF beginSession
  <2>3. \/ told' \in {told, "SESSION_END"}
        \/ \E s : told' = ToldAfter(s)
        \/ \E m, criteria : beginSession(m, criteria, told)
    BY DEF Handlers, reportStatus, delAidData, muteOneSession, start_handler, stop_handler,
           positionMode, reportPosition, handle_engine_down, locSsr, handle_engine_up
  <2> QED BY <2>0, <2>1, <2>2, <2>3
<1>9. TypeOK'
  BY <1>0, <1>2, <1>3, <1>4, <1>5, <1>6, <1>7, <1>8 DEF TypeOK
<1> QED BY <1>1, <1>2, <1>9

(* A message that says that the engine is on or off sets engine_status, no *)
(* other one does; a mute begins with a message of the first kind or the   *)
(* begin of a session.                                                     *)
LEMMA HandlerEngine ==
  ASSUME SessionInv, Handlers
  PROVE  /\ TurnsOn(Head(queue)) => engine_status' = "ENGINE_ON"
         /\ ~TurnsOn(Head(queue)) /\ ~TurnsOff(Head(queue)) => engine_status' = engine_status
         /\ mute_session_state' = "IN_SESSION" => engine_status' = "ENGINE_ON"
<1>0. /\ queue \in Seq(Messages) /\ queue # <<>> /\ mute_session_state \in {"NONE", "WAIT", "IN_SESSION"}
      /\ mute_session_state = "IN_SESSION" => engine_status = "ENGINE_ON"
  BY HandlerTypes DEF SessionInv, TypeOK, EngineOnFirst
<1>1. Head(queue) = queue[1] /\ Head(queue) \in Messages /\ 1 \in 1 .. Len(queue)
  BY <1>0, HeadTailProperties
<1>2. CASE reportStatus
  <2>1. PICK status : status = Head(queue).arg
    OBVIOUS
  <2>2. /\ Head(queue).type = "ReportStatus" /\ engine_status' = EngineAfter(status)
        /\ mute_session_state' = MuteAfter(mute_session_state, status)
    BY <1>2, <2>1 DEF reportStatus, Handling
  <2>3. status \in {"ENGINE_ON", "SESSION_BEGIN", "SESSION_END", "ENGINE_OFF"}
    BY <1>1, <2>1, <2>2, MessageParts DEF Statuses
  <2>4. status = "SESSION_BEGIN" => engine_status = "ENGINE_ON"
    <3> SUFFICES ASSUME status = "SESSION_BEGIN" PROVE engine_status = "ENGINE_ON"
      OBVIOUS
    <3>1. 1 \in Place("ReportStatus")
      BY <1>1, <2>2 DEF Place
    <3>2. OnAt(1)
      BY <1>1, <2>1, <3>1 DEF SessionInv, EngineOnFirst
    <3> QED BY <3>2 DEF OnAt
  <2>5. mute_session_state' = "IN_SESSION" => engine_status' = "ENGINE_ON"
    BY <1>0, <2>2, <2>3, <2>4 DEF MuteAfter, EngineAfter
  <2>6. TurnsOn(Head(queue)) <=> status = "ENGINE_ON"
    BY <2>1, <2>2 DEF TurnsOn
  <2>7. TurnsOff(Head(queue)) <=> status = "ENGINE_OFF"
    BY <2>1, <2>2 DEF TurnsOff
  <2> QED BY <2>2, <2>3, <2>5, <2>6, <2>7 DEF EngineAfter
<1>3. CASE handle_engine_up
  <2>1. Head(queue).type = "EngineUp" /\ engine_status' = "ENGINE_ON"
    BY <1>3 DEF handle_engine_up, Handling
  <2> QED BY <2>1 DEF TurnsOn
<1>4. CASE handle_engine_down
  <2>1. /\ Head(queue).type = "EngineDown" /\ engine_status' = "ENGINE_OFF"
        /\ mute_session_state' = MuteAfter(mute_session_state, "ENGINE_OFF")
    BY <1>4 DEF handle_engine_down, Handling
  <2> QED BY <1>0, <2>1 DEF TurnsOn, TurnsOff, MuteAfter
<1>5. ASSUME Head(queue).type \notin {"ReportStatus", "EngineUp", "EngineDown"},
             engine_status' = engine_status, mute_session_state' \in {mute_session_state, "WAIT"}
      PROVE  /\ ~TurnsOn(Head(queue)) /\ engine_status' = engine_status
             /\ mute_session_state' = "IN_SESSION" => engine_status' = "ENGINE_ON"
  BY <1>0, <1>5 DEF TurnsOn
<1>6. CASE \/ delAidData \/ muteOneSession \/ start_handler \/ stop_handler \/ positionMode
           \/ reportPosition \/ locSsr
  <2>1. Head(queue).type \notin {"ReportStatus", "EngineUp", "EngineDown"}
    BY <1>6 DEF delAidData, muteOneSession, start_handler, stop_handler, positionMode,
           reportPosition, locSsr, Handling
  <2>2. engine_status' = engine_status /\ mute_session_state' \in {mute_session_state, "WAIT"}
    BY <1>6 DEF delAidData, muteOneSession, start_handler, stop_handler, positionMode,
           reportPosition, locSsr
  <2> QED BY <1>5, <2>1, <2>2
<1> QED BY <1>2, <1>3, <1>4, <1>6 DEF Handlers

(* Every handler keeps the invariant.                                      *)
LEMMA HandlersKeep ==
  ASSUME SessionInv, Handlers
  PROVE  SessionInv'
<1>1. /\ queue \in Seq(Messages) /\ queue # <<>> /\ queue' = Tail(queue)
      /\ singleShots' = singleShots /\ TypeOK'
  BY HandlerTypes DEF SessionInv, TypeOK
<1>2. Effect
  BY HandlerEffects
<1>3. Head(queue) = queue[1] /\ Len(queue) \in Nat /\ Len(queue') = Len(queue) - 1 /\ Len(queue) > 0
  BY <1>1, QueueHandled
<1>4. /\ modem.open \in BOOLEAN /\ modem.fixing \in BOOLEAN
      /\ modem.phase \in {"up", "down", "returning"}
      /\ modem'.open \in BOOLEAN /\ modem'.fixing \in BOOLEAN /\ mNavigating \in BOOLEAN
  <2>1. modem' \in Modem
    BY <1>2 DEF Effect
  <2> QED BY <2>1, ModemParts DEF SessionInv, Modem
<1>5. \A t : 1 \in Place(t) => Head(queue).type = t
  BY <1>3 DEF Place
<1>6. HandleComesBack'
  <2>1. modem'.phase = "down" => ~modem'.open
    BY <1>2, <1>4 DEF Effect, SessionInv, HandleComesBack
  <2>2. ASSUME ~modem'.open
        PROVE  /\ ~modem'.fixing
               /\ modem'.phase = "returning" => Place("LocSsr")' # {}
               /\ modem'.phase = "up" =>
                    \E i \in Place("LocSsr")', j \in Place("EngineUp")' : i < j
    <3>1. ~modem.open /\ (modem.phase # "down" => Head(queue).type # "LocSsr")
      BY <1>2, <1>4, <2>2 DEF Effect, SessionInv, HandleComesBack
    <3>2. ~modem'.fixing
      BY <1>2, <3>1 DEF Effect, SessionInv, HandleComesBack
    <3>3. ASSUME modem'.phase = "returning" PROVE Place("LocSsr")' # {}
      <4>1. modem.phase = "returning"
        BY <1>2, <3>3 DEF Effect
      <4>2. PICK i \in Place("LocSsr") : TRUE
        BY <3>1, <4>1 DEF SessionInv, HandleComesBack
      <4>3. i # 1
        BY <1>5, <3>1, <4>1
      <4> QED BY <1>1, <4>3, PlaceHandled
    <3>4. ASSUME modem'.phase = "up"
          PROVE  \E i \in Place("LocSsr")', j \in Place("EngineUp")' : i < j
      <4>1. modem.phase = "up"
        BY <1>2, <3>4 DEF Effect
      <4>2. PICK i \in Place("LocSsr"), j \in Place("EngineUp") : i < j
        BY <3>1, <4>1 DEF SessionInv, HandleComesBack
      <4>3. i # 1
        BY <1>5, <3>1, <4>1
      <4>4. i \in 1 .. Len(queue) /\ j \in 1 .. Len(queue)
        BY DEF Place
      <4>5. j # 1 /\ i - 1 < j - 1
        BY <1>3, <4>2, <4>3, <4>4
      <4>6. i - 1 \in Place("LocSsr")' /\ j - 1 \in Place("EngineUp")'
        BY <1>1, <4>3, <4>5, PlaceHandled
      <4> QED BY <4>5, <4>6
    <3> QED BY <3>2, <3>3, <3>4
  <2> QED BY <2>1, <2>2 DEF HandleComesBack
<1>7. OnlyPeriodic'
  <2> SUFFICES ASSUME ~singleShots, NEW i \in Place("PositionMode")' PROVE queue'[i].arg = "PERIODIC"
    BY <1>1, <1>2 DEF OnlyPeriodic, Effect
  <2>1. i + 1 \in Place("PositionMode") /\ queue[i + 1] = queue'[i]
    BY <1>1, PlaceBefore
  <2> QED BY <2>1 DEF SessionInv, OnlyPeriodic
<1>8. FixFollows'
  <2>1. ASSUME ~singleShots, mNavigating', ~modem'.fixing, modem'.open, modem'.phase = "up"
        PROVE  Place("EngineUp")' # {}
    <3>1. modem.phase = "up"
      BY <1>2, <2>1 DEF Effect
    <3>2. \/ ~modem.open
          \/ mNavigating /\ ~modem.fixing /\ Head(queue).type # "EngineUp"
      BY <1>2, <2>1 DEF Effect
    <3>3. CASE ~modem.open
      <4>1. PICK i \in Place("LocSsr"), j \in Place("EngineUp") : i < j
        BY <3>1, <3>3 DEF SessionInv, HandleComesBack
      <4>2. i \in 1 .. Len(queue) /\ j \in 1 .. Len(queue)
        BY DEF Place
      <4>3. j # 1
        BY <1>3, <4>1, <4>2
      <4> QED BY <1>1, <4>3, PlaceHandled
    <3>4. CASE modem.open /\ mNavigating /\ ~modem.fixing /\ Head(queue).type # "EngineUp"
      <4>1. PICK j \in Place("EngineUp") : TRUE
        BY <2>1, <3>1, <3>4 DEF SessionInv, FixFollows
      <4>2. j # 1
        BY <1>5, <3>4
      <4> QED BY <1>1, <4>2, PlaceHandled
    <3> QED BY <1>4, <3>2, <3>3, <3>4
  <2>2. ~singleShots => (modem'.fixing => mNavigating')
    BY <1>2 DEF Effect
  <2> QED BY <1>1, <2>1, <2>2 DEF FixFollows
<1>9. EngineOnFirst'
  <2>1. /\ TurnsOn(Head(queue)) => engine_status' = "ENGINE_ON"
        /\ ~TurnsOn(Head(queue)) /\ ~TurnsOff(Head(queue)) => engine_status' = engine_status
        /\ mute_session_state' = "IN_SESSION" => engine_status' = "ENGINE_ON"
    BY HandlerEngine
  <2>2. ASSUME modem'.last # "ENGINE_OFF" PROVE OnAt(Len(queue) + 1)'
    <3>1. OnAt(Len(queue) + 1)
      BY <1>2, <2>2 DEF SessionInv, EngineOnFirst, Effect
    <3>2. PICK n : n = Len(queue)
      OBVIOUS
    <3>3. n \in Nat /\ n > 0 /\ Len(queue') + 1 = n
      BY <1>3, <3>2
    <3>4. OnAt(n + 1)
      BY <3>1, <3>2
    <3>5. OnAt(n)'
      BY <1>1, <2>1, <3>3, <3>4, OnAtHandled
    <3> QED BY <3>3, <3>5 DEF OnAt, StaysOn
  <2>3. ASSUME NEW i \in Place("ReportStatus")', queue'[i].arg = "SESSION_BEGIN" PROVE OnAt(i)'
    <3>1. i + 1 \in Place("ReportStatus") /\ queue[i + 1] = queue'[i]
      BY <1>1, PlaceBefore
    <3>2. OnAt(i + 1)
      BY <2>3, <3>1 DEF SessionInv, EngineOnFirst
    <3>3. i \in Nat /\ i > 0
      BY <1>3 DEF Place
    <3> QED BY <1>1, <2>1, <3>2, <3>3, OnAtHandled
  <2> QED BY <2>1, <2>2, <2>3 DEF EngineOnFirst
<1> QED BY <1>1, <1>6, <1>7, <1>8, <1>9 DEF SessionInv

-----------------------------------------------------------------------------
(* Sending: the parts of the session are left alone, and the modem goes on *)
(* in a way that its message accounts for.                                 *)
LEMMA SendKeeps ==
  ASSUME SessionInv, NEW m \in Messages, queue' = Append(queue, m), TypeOK',
         mNavigating' = mNavigating, mFixCriteria' = mFixCriteria,
         mute_session_state' = mute_session_state, engine_status' = engine_status,
         singleShots => singleShots',
         \* the position mode
         modem'.criteria.recurrence \in {modem.criteria.recurrence, "PERIODIC"},
         ~singleShots' /\ m.type = "PositionMode" => m.arg = "PERIODIC",
         \* the fix
         ~singleShots => modem'.fixing = modem.fixing \/ modem'.phase = "down",
         ~modem.fixing => ~modem'.fixing,
         \* the handle
         modem'.phase = "down" => ~modem'.open /\ ~modem'.fixing,
         modem'.phase # "down" => modem'.open = modem.open,
         modem'.phase = "returning" => modem.phase = "returning" \/ m.type = "LocSsr",
         modem'.phase = "up" =>
           modem.phase = "up" \/ (modem.phase = "returning" /\ m.type = "EngineUp"),
         \* the engine
         modem'.last # "ENGINE_OFF" /\ modem.last = "ENGINE_OFF" => TurnsOn(m),
         modem'.last # "ENGINE_OFF" /\ modem.last # "ENGINE_OFF" => ~TurnsOff(m),
         m.type = "ReportStatus" /\ m.arg = "SESSION_BEGIN" => modem.last # "ENGINE_OFF"
  PROVE  SessionInv'
<1>1. /\ queue \in Seq(Messages) /\ modem.open \in BOOLEAN /\ modem.fixing \in BOOLEAN
      /\ modem.phase \in {"up", "down", "returning"} /\ modem' \in Modem
      /\ modem'.open \in BOOLEAN /\ modem'.fixing \in BOOLEAN
      /\ modem'.phase \in {"up", "down", "returning"}
  BY ModemParts DEF SessionInv, TypeOK, Modem
<1>2. Len(queue) \in Nat /\ Len(queue') = Len(queue) + 1
  BY <1>1, QueueSent
<1>3. \A t : /\ \A i \in Place(t) : i \in Place(t)' /\ i < Len(queue) + 1
             /\ m.type = t => Len(queue) + 1 \in Place(t)'
             /\ \A i \in Place(t)' : \/ i \in Place(t) /\ queue'[i] = queue[i]
                                     \/ i = Len(queue) + 1 /\ m.type = t /\ queue'[i] = m
  BY <1>1, PlaceSent
<1>4. HandleComesBack'
  <2>1. ASSUME ~modem'.open, modem'.phase # "down" PROVE ~modem.open /\ ~modem'.fixing
    BY <1>1, <2>1 DEF SessionInv, HandleComesBack
  <2>2. ASSUME ~modem'.open, modem'.phase = "returning" PROVE Place("LocSsr")' # {}
    <3>1. CASE modem.phase = "returning"
      BY <1>3, <2>1, <2>2, <3>1 DEF SessionInv, HandleComesBack
    <3>2. CASE m.type = "LocSsr"
      BY <1>3, <3>2
    <3> QED BY <2>2, <3>1, <3>2
  <2>3. ASSUME ~modem'.open, modem'.phase = "up"
        PROVE  \E i \in Place("LocSsr")', j \in Place("EngineUp")' : i < j
    <3>1. CASE modem.phase = "up"
      <4>1. PICK i \in Place("LocSsr"), j \in Place("EngineUp") : i < j
        BY <2>1, <2>3, <3>1 DEF SessionInv, HandleComesBack
      <4> QED BY <1>3, <4>1
    <3>2. CASE modem.phase = "returning" /\ m.type = "EngineUp"
      <4>1. PICK i \in Place("LocSsr") : TRUE
        BY <2>1, <2>3, <3>2 DEF SessionInv, HandleComesBack
      <4> QED BY <1>3, <3>2, <4>1
    <3> QED BY <2>3, <3>1, <3>2
  <2> QED BY <2>1, <2>2, <2>3 DEF HandleComesBack
<1>5. OnlyPeriodic'
  <2> SUFFICES ASSUME ~singleShots'
               PROVE  /\ mFixCriteria'.recurrence = "PERIODIC"
                      /\ modem'.criteria.recurrence = "PERIODIC"
                      /\ \A i \in Place("PositionMode")' : queue'[i].arg = "PERIODIC"
    BY DEF OnlyPeriodic
  <2>1. /\ mFixCriteria.recurrence = "PERIODIC" /\ modem.criteria.recurrence = "PERIODIC"
        /\ \A i \in Place("PositionMode") : queue[i].arg = "PERIODIC"
    BY DEF SessionInv, OnlyPeriodic
  <2>2. mFixCriteria'.recurrence = "PERIODIC" /\ modem'.criteria.recurrence = "PERIODIC"
    BY <2>1
  <2>3. ASSUME NEW i \in Place("PositionMode")' PROVE queue'[i].arg = "PERIODIC"
    <3>1. CASE i \in Place("PositionMode") /\ queue'[i] = queue[i]
      BY <2>1, <3>1
    <3>2. CASE m.type = "PositionMode" /\ queue'[i] = m
      BY <3>2
    <3> QED BY <1>3, <3>1, <3>2
  <2> QED BY <2>2, <2>3
<1>6. FixFollows'
  <2> SUFFICES ASSUME ~singleShots'
               PROVE  /\ modem'.fixing => mNavigating
                      /\ mNavigating /\ ~modem'.fixing /\ modem'.open /\ modem'.phase = "up" =>
                           Place("EngineUp")' # {}
    BY DEF FixFollows
  <2>1. /\ modem.fixing => mNavigating
        /\ mNavigating /\ ~modem.fixing /\ modem.open /\ modem.phase = "up" =>
             Place("EngineUp") # {}
    BY DEF SessionInv, FixFollows
  <2>2. modem'.fixing => mNavigating
    BY <1>1, <2>1
  <2>3. ASSUME mNavigating, ~modem'.fixing, modem'.open, modem'.phase = "up"
        PROVE  Place("EngineUp")' # {}
    <3>1. CASE modem.phase = "up"
      BY <1>3, <2>1, <2>3, <3>1
    <3>2. CASE m.type = "EngineUp"
      BY <1>3, <3>2
    <3> QED BY <2>3, <3>1, <3>2
  <2> QED BY <2>2, <2>3
<1>7. EngineOnFirst'
  <2>1. /\ \A n \in 1 .. Len(queue) + 1 : OnAt(n) => OnAt(n)'
        /\ OnAt(Len(queue) + 1) /\ ~TurnsOff(m) => OnAt(Len(queue) + 1)'
        /\ TurnsOn(m) => OnAt(Len(queue) + 1)'
    BY <1>1, OnAtSent
  <2>2. /\ mute_session_state = "IN_SESSION" => engine_status = "ENGINE_ON"
        /\ modem.last # "ENGINE_OFF" => OnAt(Len(queue) + 1)
        /\ \A i \in Place("ReportStatus") : queue[i].arg = "SESSION_BEGIN" => OnAt(i)
    BY DEF SessionInv, EngineOnFirst
  <2>3. modem'.last # "ENGINE_OFF" => OnAt(Len(queue) + 1)'
    BY <2>1, <2>2
  <2>4. ASSUME NEW i \in Place("ReportStatus")', queue'[i].arg = "SESSION_BEGIN" PROVE OnAt(i)'
    <3>1. CASE i \in Place("ReportStatus") /\ queue'[i] = queue[i]
      <4>1. i \in 1 .. Len(queue) + 1
        BY <1>2, <3>1 DEF Place
      <4> QED BY <2>1, <2>2, <2>4, <3>1, <4>1
    <3>2. CASE i = Len(queue) + 1 /\ m.type = "ReportStatus" /\ queue'[i] = m
      <4>1. i \in 1 .. Len(queue) + 1
        BY <1>2, <3>2
      <4>2. OnAt(i)
        BY <2>2, <2>4, <3>2
      <4> QED BY <2>1, <4>1, <4>2
    <3> QED BY <1>3, <3>1, <3>2
  <2> QED BY <2>2, <2>3, <2>4 DEF EngineOnFirst
<1> QED BY <1>4, <1>5, <1>6, <1>7 DEF SessionInv

(* The calls of the framework.                                             *)
LEMMA FrameworkKeeps ==
  ASSUME SessionInv, frameworkCalls
  PROVE  SessionInv'
<1>1. /\ mNavigating' = mNavigating /\ mFixCriteria' = mFixCriteria
      /\ mute_session_state' = mute_session_state /\ engine_status' = engine_status
      /\ aiding_data_for_deletion' = aiding_data_for_deletion
      /\ modem' = modem /\ told' = told /\ crashes' = crashes
  BY DEF frameworkCalls
<1>2. TypeOK /\ singleShots \in BOOLEAN /\ wanted \in Criteria
  BY DEF SessionInv, TypeOK
<1>3. PICK m \in Messages : /\ queue' = Append(queue, m)
                            /\ m.type \notin {"ReportStatus", "EngineUp", "EngineDown", "LocSsr"}
                            /\ singleShots' \in BOOLEAN /\ (singleShots => singleShots')
                            /\ ~singleShots' /\ m.type = "PositionMode" => m.arg = "PERIODIC"
                            /\ wanted' \in Criteria
  <2>1. \/ \E t \in {"StartFix", "StopFix", "DelAidData"} :
             /\ queue' = Append(queue, Message(t, "")) /\ singleShots' = singleShots
             /\ wanted' = wanted \/ wanted' = [wanted EXCEPT !.mode = "INVALID"]
        \/ \E r \in Recurrences : /\ queue' = Append(queue, Message("PositionMode", r))
                                  /\ wanted' = Valid(r)
                                  /\ singleShots' = (singleShots \/ r = "SINGLE")
    BY DEF frameworkCalls
  <2>2. ASSUME NEW t \in {"StartFix", "StopFix", "DelAidData"},
               queue' = Append(queue, Message(t, "")), singleShots' = singleShots,
               wanted' = wanted \/ wanted' = [wanted EXCEPT !.mode = "INVALID"]
        PROVE  \E m \in Messages :
                 /\ queue' = Append(queue, m)
                 /\ m.type \notin {"ReportStatus", "EngineUp", "EngineDown", "LocSsr"}
                 /\ singleShots' \in BOOLEAN /\ (singleShots => singleShots')
                 /\ ~singleShots' /\ m.type = "PositionMode" => m.arg = "PERIODIC"
                 /\ wanted' \in Criteria
    <3>1. Message(t, "") \in Messages
      BY DEF Messages
    <3>2. Message(t, "").type = t
      BY DEF Message
    <3>3. wanted' \in Criteria
      BY <1>2, <2>2 DEF Criteria
    <3> WITNESS Message(t, "") \in Messages
    <3> QED BY <1>2, <2>2, <3>2, <3>3
  <2>3. ASSUME NEW r \in Recurrences, queue' = Append(queue, Message("PositionMode", r)),
               wanted' = Valid(r), singleShots' = (singleShots \/ r = "SINGLE")
        PROVE  \E m \in Messages :
                 /\ queue' = Append(queue, m)
                 /\ m.type \notin {"ReportStatus", "EngineUp", "EngineDown", "LocSsr"}
                 /\ singleShots' \in BOOLEAN /\ (singleShots => singleShots')
                 /\ ~singleShots' /\ m.type = "PositionMode" => m.arg = "PERIODIC"
                 /\ wanted' \in Criteria
    <3>1. Message("PositionMode", r) \in Messages
      BY DEF Messages
    <3>2. Message("PositionMode", r).type = "PositionMode" /\ Message("PositionMode", r).arg = r
      BY DEF Message
    <3>3. wanted' \in Criteria
      BY <2>3 DEF Criteria, Valid
    <3>4. ~singleShots' => r = "PERIODIC"
      BY <2>3 DEF Recurrences
    <3> WITNESS Message("PositionMode", r) \in Messages
    <3> QED BY <1>2, <2>3, <3>2, <3>3, <3>4
  <2> QED BY <2>1, <2>2, <2>3
<1>4. TypeOK'
  <2>1. queue' \in Seq(Messages)
    BY <1>2, <1>3, QueueSent DEF TypeOK
  <2>2. singleShots' \in BOOLEAN /\ wanted' \in Criteria
    BY <1>3
  <2> QED BY <1>1, <1>2, <2>1, <2>2 DEF TypeOK
<1>5. ~TurnsOff(m)
  BY <1>3 DEF TurnsOff
<1>6. /\ modem.phase \in {"up", "down", "returning"}
      /\ modem.phase = "down" => ~modem.open /\ ~modem.fixing
  BY <1>2, ModemParts DEF SessionInv, HandleComesBack
<1>7. /\ singleShots => singleShots'
      /\ ~singleShots' /\ m.type = "PositionMode" => m.arg = "PERIODIC"
      /\ m.type \notin {"ReportStatus", "EngineUp", "EngineDown", "LocSsr"}
      /\ queue' = Append(queue, m)
  BY <1>3
<1> QED BY <1>1, <1>4, <1>5, <1>6, <1>7, SendKeeps

(* The modem's reports, crashes and returns.                               *)
LEMMA ModemKeeps ==
  ASSUME SessionInv, modemPosition \/ modemStatus \/ modemOverride \/ modemCrash \/ modemReturns
  PROVE  SessionInv'
<1>0. /\ TypeOK /\ modem \in Modem /\ modem.phase \in {"up", "down", "returning"}
      /\ modem.open \in BOOLEAN /\ modem.fixing \in BOOLEAN /\ modem.last \in Statuses
      /\ modem.criteria \in Criteria /\ queue \in Seq(Messages) /\ crashes \in Nat
      /\ modem.phase = "down" => ~modem.open /\ ~modem.fixing
  BY ModemParts DEF SessionInv, TypeOK, HandleComesBack
<1>1. ASSUME NEW m \in Messages, NEW n \in Modem, FromModem(m, n), crashes' \in Nat
      PROVE  /\ queue' = Append(queue, m) /\ modem' = n /\ TypeOK'
             /\ mNavigating' = mNavigating /\ mFixCriteria' = mFixCriteria
             /\ mute_session_state' = mute_session_state /\ engine_status' = engine_status
             /\ singleShots' = singleShots
  <2>1. /\ queue' = Append(queue, m) /\ modem' = n
        /\ mNavigating' = mNavigating /\ mFixCriteria' = mFixCriteria
        /\ mute_session_state' = mute_session_state /\ engine_status' = engine_status
        /\ aiding_data_for_deletion' = aiding_data_for_deletion
        /\ wanted' = wanted /\ singleShots' = singleShots /\ told' = told
    BY <1>1 DEF FromModem
  <2>2. queue' \in Seq(Messages)
    BY <1>0, <2>1, QueueSent
  <2> QED BY <1>0, <1>1, <2>1, <2>2 DEF TypeOK
<1>2. CASE modemPosition
  <2>1. PICK p \in Positions, still \in BOOLEAN :
          /\ modem.phase = "up" /\ modem.fixing
          /\ p = "INTERMEDIATE" \/ modem.criteria.recurrence = "PERIODIC" => still
          /\ FromModem(Message("ReportPosition", p), [modem EXCEPT !.fixing = still])
          /\ crashes' = crashes
    BY <1>2 DEF modemPosition
  <2>2. PICK m, n : m = Message("ReportPosition", p) /\ n = [modem EXCEPT !.fixing = still]
    OBVIOUS
  <2>3. m \in Messages /\ m.type = "ReportPosition"
    BY <2>2 DEF Messages, Message
  <2>4. /\ n \in Modem /\ n.phase = "up" /\ n.open = modem.open /\ n.last = modem.last
        /\ n.criteria = modem.criteria /\ n.fixing = still
    BY <1>0, <2>1, <2>2 DEF Modem
  <2>5. ~singleShots => modem.criteria.recurrence = "PERIODIC"
    BY DEF SessionInv, OnlyPeriodic
  <2>6. FromModem(m, n) /\ crashes' \in Nat
    BY <1>0, <2>1, <2>2
  <2>7. ~TurnsOff(m)
    BY <2>3 DEF TurnsOff
  <2>8. ~singleShots => n.fixing = modem.fixing
    BY <1>0, <2>1, <2>4, <2>5
  <2>9. /\ queue' = Append(queue, m) /\ modem' = n /\ TypeOK'
        /\ mNavigating' = mNavigating /\ mFixCriteria' = mFixCriteria
        /\ mute_session_state' = mute_session_state /\ engine_status' = engine_status
        /\ singleShots' = singleShots
    BY <1>1, <2>3, <2>4, <2>6
  <2>10. modem.phase = "up" /\ modem.fixing
    BY <2>1
  <2> QED BY <1>0, <2>3, <2>4, <2>7, <2>8, <2>9, <2>10, SendKeeps
<1>3. CASE modemStatus
  <2>1. PICK s \in Statuses \ {"NONE"} :
          /\ modem.phase = "up"
          /\ CASE s = "ENGINE_ON"     -> modem.fixing /\ modem.last = "ENGINE_OFF"
               [] s = "SESSION_BEGIN" -> modem.fixing /\
                                         modem.last \in {"ENGINE_ON", "SESSION_END"}
               [] s = "SESSION_END"   -> ~modem.fixing /\ modem.last = "SESSION_BEGIN"
               [] s = "ENGINE_OFF"    -> ~modem.fixing /\
                                         modem.last \in {"ENGINE_ON", "SESSION_END"}
          /\ FromModem(Message("ReportStatus", s), [modem EXCEPT !.last = s])
          /\ crashes' = crashes
    BY <1>3 DEF modemStatus
  <2>2. PICK m, n : m = Message("ReportStatus", s) /\ n = [modem EXCEPT !.last = s]
    OBVIOUS
  <2>3. m \in Messages /\ m.type = "ReportStatus" /\ m.arg = s
    BY <2>2 DEF Messages, Message
  <2>4. /\ n \in Modem /\ n.phase = "up" /\ n.open = modem.open /\ n.last = s
        /\ n.criteria = modem.criteria /\ n.fixing = modem.fixing
    BY <1>0, <2>1, <2>2 DEF Modem
  <2>5. /\ s \in {"SESSION_BEGIN", "SESSION_END"} => modem.last # "ENGINE_OFF"
        /\ s \in {"ENGINE_ON", "SESSION_BEGIN", "SESSION_END", "ENGINE_OFF"}
    BY <2>1 DEF Statuses
  <2>6. FromModem(m, n) /\ crashes' \in Nat
    BY <1>0, <2>1, <2>2
  <2>7. (TurnsOff(m) <=> s = "ENGINE_OFF") /\ (TurnsOn(m) <=> s = "ENGINE_ON")
    BY <2>3 DEF TurnsOff, TurnsOn
  <2> QED BY <1>0, <1>1, <2>1, <2>3, <2>4, <2>5, <2>6, <2>7, SendKeeps
<1>4. CASE modemOverride
  <2>1. modem.phase = "up" /\ FromModem(Message("PrivacyOverride", ""), modem) /\ crashes' = crashes
    BY <1>4 DEF modemOverride
  <2>2. PICK m : m = Message("PrivacyOverride", "")
    OBVIOUS
  <2>3. m \in Messages /\ m.type = "PrivacyOverride"
    BY <2>2 DEF Messages, Message
  <2>4. ~TurnsOff(m)
    BY <2>3 DEF TurnsOff
  <2>5. FromModem(m, modem) /\ crashes' \in Nat
    BY <1>0, <2>1, <2>2
  <2>6. /\ queue' = Append(queue, m) /\ modem' = modem /\ TypeOK'
        /\ mNavigating' = mNavigating /\ mFixCriteria' = mFixCriteria
        /\ mute_session_state' = mute_session_state /\ engine_status' = engine_status
        /\ singleShots' = singleShots
    BY <1>0, <1>1, <2>3, <2>5
  <2> QED BY <1>0, <2>1, <2>3, <2>4, <2>6, SendKeeps
<1>5. CASE modemCrash
  <2>1. FromModem(Message("EngineDown", ""), [NewModem EXCEPT !.phase = "down", !.open = FALSE])
    BY <1>5 DEF modemCrash
  <2>2. PICK m, n : /\ m = Message("EngineDown", "")
                    /\ n = [NewModem EXCEPT !.phase = "down", !.open = FALSE]
    OBVIOUS
  <2>3. m \in Messages /\ m.type = "EngineDown"
    BY <2>2 DEF Messages, Message
  <2>4. NoCriteria \in Criteria /\ NoCriteria.recurrence = "PERIODIC"
    BY DEF NoCriteria, Criteria, Recurrences
  <2>5. /\ n \in Modem /\ n.phase = "down" /\ n.open = FALSE /\ n.last = "ENGINE_OFF"
        /\ n.criteria = NoCriteria /\ n.fixing = FALSE
    BY <2>2, <2>4 DEF Modem, NewModem, Statuses
  <2>6. FromModem(m, n)
    BY <2>1, <2>2
  <2>7. crashes' \in Nat
    <3>1. crashes' = crashes + 1
      BY <1>5 DEF modemCrash
    <3>2. crashes \in Nat
      BY <1>0
    <3> QED BY <3>1, <3>2
  <2> QED BY <1>0, <1>1, <2>3, <2>4, <2>5, <2>6, <2>7, SendKeeps
<1>6. CASE modemReturns
  <2>1. PICK m \in Messages, n \in Modem :
          /\ FromModem(m, n) /\ crashes' = crashes
          /\ n.open = modem.open /\ n.last = modem.last /\ n.criteria = modem.criteria
          /\ n.fixing = modem.fixing
          /\ \/ n.phase = "returning" /\ m.type = "LocSsr"
             \/ modem.phase = "returning" /\ n.phase = "up" /\ m.type = "EngineUp"
    <3>1. CASE FromModem(Message("LocSsr", ""), [modem EXCEPT !.phase = "returning"])
      <4>1. Message("LocSsr", "") \in Messages /\ Message("LocSsr", "").type = "LocSsr"
        BY DEF Messages, Message
      <4>2. PICK n : n = [modem EXCEPT !.phase = "returning"]
        OBVIOUS
      <4>3. /\ n \in Modem /\ n.phase = "returning" /\ n.open = modem.open /\ n.last = modem.last
            /\ n.criteria = modem.criteria /\ n.fixing = modem.fixing
        BY <1>0, <4>2 DEF Modem
      <4>4. FromModem(Message("LocSsr", ""), n) /\ crashes' = crashes
        BY <1>6, <3>1, <4>2 DEF modemReturns
      <4> QED BY <4>1, <4>3, <4>4
    <3>2. CASE /\ modem.phase = "returning"
               /\ FromModem(Message("EngineUp", ""), [modem EXCEPT !.phase = "up"])
      <4>1. Message("EngineUp", "") \in Messages /\ Message("EngineUp", "").type = "EngineUp"
        BY DEF Messages, Message
      <4>2. PICK n : n = [modem EXCEPT !.phase = "up"]
        OBVIOUS
      <4>3. /\ n \in Modem /\ n.phase = "up" /\ n.open = modem.open /\ n.last = modem.last
            /\ n.criteria = modem.criteria /\ n.fixing = modem.fixing
        BY <1>0, <4>2 DEF Modem
      <4>4. FromModem(Message("EngineUp", ""), n) /\ crashes' = crashes
        BY <1>6, <3>2, <4>2 DEF modemReturns
      <4> QED BY <3>2, <4>1, <4>3, <4>4
    <3> QED BY <1>6, <3>1, <3>2 DEF modemReturns
  <2>2. ~TurnsOff(m)
    BY <2>1 DEF TurnsOff
  <2>3. FromModem(m, n) /\ crashes' \in Nat
    BY <1>0, <2>1
  <2> QED BY <1>0, <1>1, <2>1, <2>2, <2>3, SendKeeps
<1> QED BY <1>2, <1>3, <1>4, <1>5, <1>6

(* Once everything is handled, the modem fixes exactly for a session that  *)
(* runs, and nothing is muted for an engine that is off: for any number of *)
(* messages in the queue and any number of modem crashes.                  *)
THEOREM SessionsSettle == Spec => []SessionSettles
<1>1. Init => SessionInv
  <2> SUFFICES ASSUME Init PROVE SessionInv
    OBVIOUS
  <2>1. /\ queue = <<>> /\ mNavigating = FALSE /\ mFixCriteria = NoCriteria
        /\ mute_session_state = "NONE" /\ engine_status = "NONE"
        /\ aiding_data_for_deletion = FALSE /\ modem = NewModem /\ wanted = NoCriteria
        /\ singleShots = FALSE /\ told = "NONE" /\ crashes = 0
    BY DEF Init
  <2>2. NoCriteria \in Criteria /\ NoCriteria.recurrence = "PERIODIC"
    BY DEF NoCriteria, Criteria, Recurrences
  <2>3. /\ modem \in Modem /\ modem.phase = "up" /\ modem.open = TRUE /\ modem.last = "ENGINE_OFF"
        /\ modem.fixing = FALSE /\ modem.criteria = NoCriteria
    BY <2>1, <2>2 DEF NewModem, Modem, Statuses
  <2>4. queue \in Seq(Messages) /\ \A t : Place(t) = {}
    BY <2>1, EmptySeq DEF Place
  <2>5. TypeOK
    BY <2>1, <2>2, <2>3, <2>4 DEF TypeOK
  <2> QED BY <2>1, <2>2, <2>3, <2>4, <2>5
          DEF SessionInv, HandleComesBack, OnlyPeriodic, FixFollows, EngineOnFirst
<1>2. SessionInv /\ [Next]_vars => SessionInv'
  <2> SUFFICES ASSUME SessionInv, [Next]_vars PROVE SessionInv'
    OBVIOUS
  <2>1. CASE UNCHANGED vars
    BY <2>1 DEF vars, SessionInv, TypeOK, HandleComesBack, OnlyPeriodic, FixFollows,
                EngineOnFirst, Place, OnAt, StaysOn, TurnsOn, TurnsOff
  <2> QED BY <2>1, HandlersKeep, FrameworkKeeps, ModemKeeps DEF Next
<1>3. SessionInv => SessionSettles
  <2> SUFFICES ASSUME SessionInv, Quiet PROVE FixMatchesSession /\ MuteEndsWithEngine
    BY DEF SessionSettles, FixMatchesSession, MuteEndsWithEngine
  <2>1. queue = <<>> /\ modem.phase = "up" /\ \A t : Place(t) = {}
    BY DEF Quiet, Place
  <2>2. modem.open /\ (~singleShots => (modem.fixing <=> mNavigating))
    BY <2>1, ModemParts DEF SessionInv, HandleComesBack, FixFollows
  <2>3. mute_session_state = "IN_SESSION" => engine_status = "ENGINE_ON"
    BY DEF SessionInv, EngineOnFirst
  <2> QED BY <2>2, <2>3 DEF FixMatchesSession, MuteEndsWithEngine
<1> QED BY <1>1, <1>2, <1>3, PTL DEF Spec
=============================================================================
