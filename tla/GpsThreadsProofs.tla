--------------------------- MODULE GpsThreadsProofs ---------------------------
(***************************************************************************)
(* Proofs about the threads of the GPS HAL, for every number of senders,   *)
(* messages, requests and failures: the timer, the message task and the    *)
(* daemon connection.  A behaviour of MCSpec is about one part; for each   *)
(* of them there are a lemma per group of actions, the induction step, and *)
(* the theorem.                                                            *)
(***************************************************************************)
EXTENDS MCGpsThreads, SequenceTheorems, FiniteSetTheorems, TLAPS

-----------------------------------------------------------------------------
(* Counting the elements of a sequence that are in a set.                  *)
Places(q, P) == {k \in DOMAIN q : q[k] \in P}
CountIn(q, P) == Cardinality(Places(q, P))

(* Places of a sequence are finitely many, and their number a natural.     *)
LEMMA PlacesFinite ==
  ASSUME NEW S, NEW q \in Seq(S), NEW P
  PROVE  IsFiniteSet(Places(q, P)) /\ CountIn(q, P) \in Nat
<1>1. IsFiniteSet(1 .. Len(q))
  BY FS_Interval
<1>2. Places(q, P) \in SUBSET (1 .. Len(q))
  BY DEF Places
<1> QED BY <1>1, <1>2, FS_Subset, FS_CardinalityType DEF CountIn

(* An empty queue holds nothing.                                           *)
LEMMA CountEmpty == ASSUME NEW P PROVE CountIn(<<>>, P) = 0
  BY FS_EmptySet DEF CountIn, Places

(* What is sent counts once.                                               *)
LEMMA CountAppend ==
  ASSUME NEW S, NEW q \in Seq(S), NEW e \in S, NEW P
  PROVE  CountIn(Append(q, e), P) = CountIn(q, P) + (IF e \in P THEN 1 ELSE 0)
<1> DEFINE n == Len(q) + 1
<1>1. CASE e \in P
  <2>1. Places(Append(q, e), P) = Places(q, P) \cup {n}
    BY <1>1 DEF Places
  <2>2. n \notin Places(q, P)
    BY DEF Places
  <2> QED BY <1>1, <2>1, <2>2, PlacesFinite, FS_AddElement DEF CountIn
<1>2. CASE e \notin P
  <2>1. Places(Append(q, e), P) = Places(q, P)
    BY <1>2 DEF Places
  <2> QED BY <1>2, <2>1, PlacesFinite DEF CountIn
<1> QED BY <1>1, <1>2

(* What is received counts no longer: the other places move up by one.     *)
LEMMA CountTail ==
  ASSUME NEW S, NEW q \in Seq(S), q # <<>>, NEW P
  PROVE  CountIn(q, P) = CountIn(Tail(q), P) + (IF Head(q) \in P THEN 1 ELSE 0)
<1> DEFINE A == Places(Tail(q), P)
           B == Places(q, P) \ {1}
           f == [k \in A |-> k + 1]
<1>0. /\ Tail(q) \in Seq(S) /\ Len(q) \in Nat \ {0} /\ Len(Tail(q)) = Len(q) - 1
      /\ \A i \in 1 .. Len(q) - 1 : Tail(q)[i] = q[i + 1]
      /\ Head(q) = q[1]
  BY HeadTailProperties
<1>1. A \subseteq 1 .. Len(q) - 1 /\ B \subseteq 2 .. Len(q)
  BY <1>0 DEF Places
<1>2. \A k \in A : k + 1 \in B
  BY <1>0, <1>1 DEF Places
<1>3. \A j \in B : j - 1 \in A
  BY <1>0, <1>1 DEF Places
<1>4. f \in Bijection(A, B)
  <2>1. f \in [A -> B] 
    BY <1>2
  <2>2. \A j, k \in A : f[j] = f[k] => j = k
    BY <1>1
  <2>3. \A j \in B : \E k \in A : f[k] = j
    BY <1>1, <1>3
  <2> QED BY <2>1, <2>2, <2>3 DEF Bijection, Injection, Surjection, IsInjective
<1>5. IsFiniteSet(A) /\ Cardinality(A) = CountIn(Tail(q), P)
  BY <1>0, PlacesFinite DEF CountIn
<1>6. Cardinality(B) = Cardinality(A)
  BY <1>4, <1>5, FS_Bijection DEF ExistsBijection
<1>7. Cardinality(B) = IF 1 \in Places(q, P) THEN CountIn(q, P) - 1 ELSE CountIn(q, P)
  BY PlacesFinite, FS_RemoveElement DEF CountIn
<1>8. 1 \in Places(q, P) <=> Head(q) \in P
  BY <1>0 DEF Places
<1>9. CountIn(q, P) \in Nat
  BY PlacesFinite
<1> HIDE DEF A, B
<1> QED BY <1>5, <1>6, <1>7, <1>8, <1>9

-----------------------------------------------------------------------------
(* LocTimer.                                                               *)

(* The timer's thread keeps TimerInv: it waits, calls back and frees its   *)
(* memory whatever loc_timer_stop does meanwhile.                          *)
LEMMA TimerThreadKeeps ==
  ASSUME T!TimerInv,
         \/ T!loc_timer_start \/ T!beginWait \/ T!wakeUp \/ T!endWait
         \/ T!callback \/ T!destroyTimer
  PROVE  T!TimerInv'
<1>1. CASE T!loc_timer_start
  BY <1>1 DEF T!loc_timer_start, T!TimerInv
<1>2. CASE T!beginWait
  BY <1>2 DEF T!beginWait, T!TimerInv
<1>3. CASE T!wakeUp
  BY <1>3 DEF T!wakeUp, T!TimerInv
<1>4. CASE T!endWait
  BY <1>4 DEF T!endWait, T!TimerInv
<1>5. CASE T!callback
  BY <1>5 DEF T!callback, T!CallsBack, T!TimerInv
<1>6. CASE T!destroyTimer
  BY <1>6 DEF T!destroyTimer, T!LastAttempt, T!TimerInv
<1> QED BY <1>1, <1>2, <1>3, <1>4, <1>5, <1>6

(* loc_timer_stop keeps TimerInv, at whatever point the thread is.         *)
LEMMA TimerStopKeeps ==
  ASSUME T!TimerInv,
         T!loc_timer_stop \/ T!stopLocks \/ T!stopAborts \/ T!stopUnlocks
  PROVE  T!TimerInv'
<1>1. CASE T!loc_timer_stop
  BY <1>1 DEF T!loc_timer_stop, T!TimerInv
<1>2. CASE T!stopLocks
  BY <1>2 DEF T!stopLocks, T!TimerInv
<1>3. CASE T!stopAborts
  BY <1>3 DEF T!stopAborts, T!TimerInv
<1>4. CASE T!stopUnlocks
  BY <1>4 DEF T!stopUnlocks, T!TimerInv
<1> QED BY <1>1, <1>2, <1>3, <1>4

(* TimerInv is an invariant, and TimerSound follows from it: while         *)
(* loc_timer_stop has held the mutex for less than the five attempts that  *)
(* timer_thread makes to destroy it, one a second, its memory is not freed *)
(* under it (after the fifth it is); a timer stopped before its thread     *)
(* waits does not call back, and none calls back twice.                    *)
THEOREM TimerIsSound == MCSpec => []TimerSound
<1> DEFINE Inv == part = "timer" => T!TimerInv
<1>1. MCInit => Inv
  BY DEF MCInit, T!TmInit, T!TimerInv
<1>2. Inv /\ [MCNext]_all => Inv'
  <2> SUFFICES ASSUME Inv, [MCNext]_all, part' = "timer" PROVE T!TimerInv'
    OBVIOUS
  <2>1. CASE Timer(T!TmNext)
    BY <2>1, TimerThreadKeeps, TimerStopKeeps DEF Timer, T!TmNext
  <2>2. CASE part = "timer" /\ UNCHANGED timer
    BY <2>2 DEF timer, T!TimerInv
  <2> QED BY <2>1, <2>2 DEF MCNext, Ni, Task, Daemon, Timer, all
<1>3. Inv => TimerSound
  BY DEF TimerSound, T!TimerSound, T!TimerInv
<1> QED BY <1>1, <1>2, <1>3, PTL DEF MCSpec
-----------------------------------------------------------------------------
(* MsgTask.                                                                *)

(* Messages of one sender, counted by MsgTask as by CountIn: sending adds  *)
(* one, and receiving takes one away.                                      *)
LEMMA CountFromIn ==
  ASSUME NEW s, NEW q \in Seq(M!Message)
  PROVE  /\ M!CountFrom(s, q) \in Nat
         /\ \A e \in M!Message :
              M!CountFrom(s, Append(q, e)) = M!CountFrom(s, q) + (IF e.from = s THEN 1 ELSE 0)
         /\ q # <<>> =>
              M!CountFrom(s, q) = M!CountFrom(s, Tail(q)) + (IF Head(q).from = s THEN 1 ELSE 0)
<1> DEFINE P == {m \in M!Message : m.from = s}
<1>1. ASSUME NEW r \in Seq(M!Message) PROVE M!CountFrom(s, r) = CountIn(r, P)
  <2>1. {k \in DOMAIN r : r[k].from = s} = Places(r, P)
    BY DEF Places
  <2> QED BY <2>1
    DEF M!CountFrom, CountIn, Cardinality, M!Cardinality, IsFiniteSet, M!IsFiniteSet
<1>2. CountIn(q, P) \in Nat
  BY PlacesFinite
<1>3. ASSUME NEW e \in M!Message
      PROVE  M!CountFrom(s, Append(q, e)) = M!CountFrom(s, q) + (IF e.from = s THEN 1 ELSE 0)
  <2>1. Append(q, e) \in Seq(M!Message) /\ (e \in P <=> e.from = s)
    OBVIOUS
  <2>2. CountIn(Append(q, e), P) = CountIn(q, P) + (IF e \in P THEN 1 ELSE 0)
    BY CountAppend
  <2> HIDE DEF P
  <2> QED BY <1>1, <2>1, <2>2
<1>4. ASSUME q # <<>>
      PROVE  M!CountFrom(s, q) = M!CountFrom(s, Tail(q)) + (IF Head(q).from = s THEN 1 ELSE 0)
  <2>1. Tail(q) \in Seq(M!Message) /\ (Head(q) \in P <=> Head(q).from = s)
    BY <1>4, HeadTailProperties
  <2>2. CountIn(q, P) = CountIn(Tail(q), P) + (IF Head(q) \in P THEN 1 ELSE 0)
    BY <1>4, CountTail
  <2> HIDE DEF P
  <2> QED BY <1>1, <2>1, <2>2
<1> QED BY <1>1, <1>2, <1>3, <1>4

(* The type of the outstanding messages.                                   *)
LEMMA OutstandingType ==
  ASSUME M!TypeOK
  PROVE  M!Outstanding \in Seq(M!Message)
  BY DEF M!TypeOK, M!Outstanding

(* sendMsg: the message is the last of its sender's, and is counted as     *)
(* outstanding, or as leaked once the queue is unblocked.                  *)
LEMMA SendKeeps ==
  ASSUME M!TaskInv, NEW s \in Senders, M!sendMsg(s)
  PROVE  M!TaskInv'
<1> DEFINE Q == M!Outstanding
           e == [from |-> s, number |-> sent[s] + 1]
<1>1. /\ list \in Seq(M!Message) /\ msg \in Seq(M!Message)
      /\ unblocked \in BOOLEAN /\ destroyed \in BOOLEAN /\ loop \in M!LoopStates
      /\ sent \in [Senders -> Nat] /\ handled \in [Senders -> Nat]
      /\ leaked \in [Senders -> Nat] /\ flushed \in [Senders -> Nat]
      /\ loop = "handling" <=> Len(msg) = 1
  BY DEF M!TaskInv, M!TypeOK
<1>2. /\ Q \in Seq(M!Message) /\ e \in M!Message
      /\ \A i \in DOMAIN Q : Q[i].from \in Senders /\ Q[i].number \in Nat
  <2>1. Q \in Seq(M!Message) /\ e \in M!Message
    BY <1>1, OutstandingType DEF M!TaskInv, M!Message
  <2>2. \A i \in DOMAIN Q : Q[i] \in M!Message
    BY <2>1, ElementOfSeq, LenProperties
  <2> QED BY <2>1, <2>2 DEF M!Message
<1>3. /\ sent' = [sent EXCEPT ![s] = sent[s] + 1]
      /\ msg' = msg /\ handled' = handled /\ flushed' = flushed
      /\ unblocked' = unblocked /\ destroyed' = destroyed
  BY DEF M!sendMsg
<1>4. /\ M!InOrder /\ M!Accounted /\ M!NoLostWakeup /\ M!EndsOnlyUnblocked
      /\ loop # "handling" => msg = <<>>
      /\ \A i \in DOMAIN Q : Q[i].number <= sent[Q[i].from]
  BY DEF M!TaskInv, M!MessagesHandled
<1>5. /\ sent' \in [Senders -> Nat] /\ sent'[s] = sent[s] + 1
      /\ \A r \in Senders : sent[r] <= sent'[r] /\ (r # s => sent'[r] = sent[r])
  BY <1>1, <1>3
<1>6. ASSUME NEW r \in Senders
      PROVE  /\ M!CountFrom(r, Q) \in Nat
             /\ sent[r] = handled[r] + M!CountFrom(r, Q) + flushed[r] + leaked[r]
             /\ handled[r] <= sent[r]
  <2>1. M!CountFrom(r, Q) \in Nat
    BY <1>2, CountFromIn
  <2>2. sent[r] = handled[r] + M!CountFrom(r, Q) + flushed[r] + leaked[r]
    BY <1>4 DEF M!Accounted
  <2>3. sent[r] \in Nat /\ handled[r] \in Nat /\ flushed[r] \in Nat /\ leaked[r] \in Nat
    BY <1>1
  <2> QED BY <2>1, <2>2, <2>3
<1>7. CASE unblocked
  <2>1. list' = list /\ loop' = loop /\ leaked' = [leaked EXCEPT ![s] = leaked[s] + 1]
    BY <1>7 DEF M!sendMsg
  <2>2. Q' = Q
    BY <1>3, <2>1 DEF M!Outstanding
  <2>3. M!TypeOK'
    BY <1>1, <1>3, <1>5, <2>1 DEF M!TypeOK, M!Message, M!LoopStates
  <2>4. M!NoLostWakeup' /\ M!EndsOnlyUnblocked' /\ (loop' # "handling" => msg' = <<>>)
    BY <1>3, <1>4, <2>1 DEF M!NoLostWakeup, M!EndsOnlyUnblocked
  <2>5. M!InOrder'
    BY <1>3, <1>4, <2>2 DEF M!InOrder
  <2>6. \A i \in DOMAIN Q' : Q'[i].number <= sent'[Q'[i].from]
    <3> SUFFICES ASSUME NEW i \in DOMAIN Q
                 PROVE  Q[i].number <= sent'[Q[i].from]
      BY <2>2
    <3>1. PICK r \in Senders : r = Q[i].from
      BY <1>2
    <3>2. PICK n \in Nat : n = Q[i].number
      BY <1>2
    <3>3. n <= sent[r] /\ sent[r] <= sent'[r] /\ sent[r] \in Nat /\ sent'[r] \in Nat
      BY <1>1, <1>4, <1>5, <3>1, <3>2
    <3>4. n <= sent'[r]
      BY <3>3
    <3> QED BY <3>1, <3>2, <3>4
  <2>7. M!Accounted'
    <3> SUFFICES ASSUME NEW r \in Senders
                 PROVE  sent'[r] = handled'[r] + M!CountFrom(r, Q)' + flushed'[r] + leaked'[r]
      BY DEF M!Accounted
    <3>1. M!CountFrom(r, Q)' = M!CountFrom(r, Q)
      BY <2>2
    <3>2. leaked'[r] = leaked[r] + (IF r = s THEN 1 ELSE 0)
      BY <1>1, <2>1
    <3>3. sent'[r] = sent[r] + (IF r = s THEN 1 ELSE 0)
      BY <1>1, <1>5
    <3>4. /\ handled'[r] = handled[r] /\ flushed'[r] = flushed[r]
          /\ sent[r] \in Nat /\ handled[r] \in Nat /\ flushed[r] \in Nat /\ leaked[r] \in Nat
      BY <1>1, <1>3
    <3> QED BY <1>6, <3>1, <3>2, <3>3, <3>4
  <2> QED BY <2>3, <2>4, <2>5, <2>6, <2>7 DEF M!TaskInv, M!MessagesHandled
<1>8. CASE ~unblocked
  <2>1. list' = Append(list, e) /\ loop' = M!Woken /\ leaked' = leaked
    BY <1>8 DEF M!sendMsg
  <2>2. Q' = Append(Q, e)
    BY <1>1, <1>2, <1>3, <2>1 DEF M!Outstanding
  <2>3. M!TypeOK'
    BY <1>1, <1>2, <1>3, <1>5, <2>1 DEF M!TypeOK, M!Message, M!LoopStates, M!Woken
  <2>4. M!NoLostWakeup' /\ M!EndsOnlyUnblocked' /\ (loop' # "handling" => msg' = <<>>)
    BY <1>3, <1>4, <2>1 DEF M!NoLostWakeup, M!EndsOnlyUnblocked, M!Woken
  <2>5. /\ DOMAIN Append(Q, e) = 1 .. Len(Q) + 1 /\ DOMAIN Q = 1 .. Len(Q) /\ Len(Q) \in Nat
        /\ \A i \in 1 .. Len(Q) : Append(Q, e)[i] = Q[i]
        /\ Append(Q, e)[Len(Q) + 1] = e
    <3>1. DOMAIN Q = 1 .. Len(Q) /\ Len(Q) \in Nat
      BY <1>2
    <3>2. /\ Append(Q, e) \in Seq(M!Message) /\ Len(Append(Q, e)) = Len(Q) + 1
          /\ \A i \in 1 .. Len(Q) : Append(Q, e)[i] = Q[i]
          /\ Append(Q, e)[Len(Q) + 1] = e
      BY <1>2, AppendProperties
    <3>3. DOMAIN Append(Q, e) = 1 .. Len(Q) + 1
      BY <3>2
    <3> QED BY <3>1, <3>2, <3>3
  <2>6. M!InOrder'
    <3> SUFFICES ASSUME NEW i \in 1 .. Len(Q) + 1, NEW j \in 1 .. Len(Q) + 1
                 PROVE  /\ i < j /\ Append(Q, e)[i].from = Append(Q, e)[j].from =>
                             Append(Q, e)[i].number < Append(Q, e)[j].number
                        /\ Append(Q, e)[i].number > handled[Append(Q, e)[i].from]
      BY <1>3, <2>2, <2>5 DEF M!InOrder
    <3>1. CASE i \in 1 .. Len(Q) /\ j \in 1 .. Len(Q)
      BY <1>4, <2>5, <3>1 DEF M!InOrder
    <3>2. CASE i \in 1 .. Len(Q) /\ j = Len(Q) + 1
      <4>1. Append(Q, e)[i] = Q[i] /\ Append(Q, e)[j] = e /\ i \in DOMAIN Q
        BY <2>5, <3>2
      <4>2. Q[i].number <= sent[Q[i].from] /\ Q[i].number > handled[Q[i].from]
        BY <1>4, <4>1 DEF M!InOrder
      <4>3. Q[i].from = s => Q[i].number < sent[s] + 1
        BY <1>1, <1>2, <4>1, <4>2
      <4> QED BY <4>1, <4>2, <4>3
    <3>3. CASE i = Len(Q) + 1
      <4>1. sent[s] + 1 > handled[s]
        BY <1>1, <1>6
      <4>2. Append(Q, e)[i] = e /\ ~(i < j)
        BY <2>5, <3>3
      <4> QED BY <4>1, <4>2
    <3> QED BY <2>5, <3>1, <3>2, <3>3
  <2>7. \A i \in DOMAIN Q' : Q'[i].number <= sent'[Q'[i].from]
    <3> SUFFICES ASSUME NEW i \in 1 .. Len(Q) + 1
                 PROVE  Append(Q, e)[i].number <= sent'[Append(Q, e)[i].from]
      BY <2>2, <2>5
    <3>1. CASE i \in 1 .. Len(Q)
      <4>1. Append(Q, e)[i] = Q[i] /\ i \in DOMAIN Q
        BY <2>5, <3>1
      <4>2. PICK r \in Senders : r = Q[i].from
        BY <1>2, <4>1
      <4>3. PICK n \in Nat : n = Q[i].number
        BY <1>2, <4>1
      <4>4. n <= sent[r] /\ sent[r] <= sent'[r] /\ sent[r] \in Nat /\ sent'[r] \in Nat
        BY <1>1, <1>4, <1>5, <4>1, <4>2, <4>3
      <4>5. n <= sent'[r]
        BY <4>4
      <4> QED BY <4>1, <4>2, <4>3, <4>5
    <3>2. CASE i = Len(Q) + 1
      <4>1. Append(Q, e)[i].number = sent[s] + 1 /\ Append(Q, e)[i].from = s
        BY <2>5, <3>2
      <4>2. sent'[s] = sent[s] + 1 /\ sent[s] \in Nat
        BY <1>1, <1>5
      <4> QED BY <4>1, <4>2
    <3> QED BY <2>5, <3>1, <3>2
  <2>8. M!Accounted'
    <3> SUFFICES ASSUME NEW r \in Senders
                 PROVE  sent'[r] = handled'[r] + M!CountFrom(r, Q)' + flushed'[r] + leaked'[r]
      BY DEF M!Accounted
    <3>1. M!CountFrom(r, Q)' = M!CountFrom(r, Q) + (IF r = s THEN 1 ELSE 0)
      BY <1>2, <2>2, CountFromIn
    <3>2. sent'[r] = sent[r] + (IF r = s THEN 1 ELSE 0)
      BY <1>1, <1>5
    <3>3. /\ handled'[r] = handled[r] /\ flushed'[r] = flushed[r] /\ leaked'[r] = leaked[r]
          /\ sent[r] \in Nat /\ handled[r] \in Nat /\ flushed[r] \in Nat /\ leaked[r] \in Nat
      BY <1>1, <1>3, <2>1
    <3> QED BY <1>6, <3>1, <3>2, <3>3
  <2> QED BY <2>3, <2>4, <2>6, <2>7, <2>8 DEF M!TaskInv, M!MessagesHandled
<1> QED BY <1>1, <1>7, <1>8

(* linked_list_remove: the message handled stays outstanding until proc()  *)
(* returns.                                                                *)
LEMMA RcvKeeps ==
  ASSUME M!TaskInv, M!msg_q_rcv \/ M!rcvResumes
  PROVE  M!TaskInv'
<1> DEFINE Q == M!Outstanding
<1>1. /\ list \in Seq(M!Message) /\ msg = <<>> /\ loop \in {"listening", "woken"}
      /\ unblocked \in BOOLEAN /\ destroyed \in BOOLEAN
      /\ sent \in [Senders -> Nat] /\ handled \in [Senders -> Nat]
      /\ leaked \in [Senders -> Nat] /\ flushed \in [Senders -> Nat]
  BY DEF M!TaskInv, M!TypeOK, M!msg_q_rcv, M!rcvResumes
<1>2. /\ unblocked' = unblocked /\ destroyed' = destroyed /\ sent' = sent
      /\ handled' = handled /\ leaked' = leaked /\ flushed' = flushed
  BY DEF M!msg_q_rcv, M!rcvResumes
<1>3. \/ loop' = "failed" /\ unblocked /\ list' = list /\ msg' = msg
      \/ loop' = "asleep" /\ ~unblocked /\ list = <<>> /\ list' = list /\ msg' = msg
      \/ loop' = "handling" /\ list # <<>> /\ msg' = <<Head(list)>> /\ list' = Tail(list)
  BY DEF M!msg_q_rcv, M!rcvResumes, M!remove
<1>4. Q' = Q
  <2>1. CASE list' = list /\ msg' = msg
    BY <2>1 DEF M!Outstanding
  <2>2. CASE list # <<>> /\ msg' = <<Head(list)>> /\ list' = Tail(list)
    <3>1. <<Head(list)>> \o Tail(list) = list
      BY <1>1, <2>2
    <3>2. <<>> \o list = list
      BY <1>1
    <3> QED BY <1>1, <2>2, <3>1, <3>2 DEF M!Outstanding
  <2> QED BY <1>3, <2>1, <2>2
<1>5. M!TypeOK'
  <2>1. list # <<>> => Head(list) \in M!Message /\ Tail(list) \in Seq(M!Message)
    BY <1>1
  <2>2. list' \in Seq(M!Message) /\ msg' \in Seq(M!Message)
        /\ (loop' = "handling" <=> Len(msg') = 1) /\ loop' \in M!LoopStates
    <3>1. CASE list' = list /\ msg' = msg /\ loop' \in {"failed", "asleep"}
      BY <1>1, <3>1 DEF M!LoopStates
    <3>2. CASE /\ loop' = "handling" /\ list # <<>>
               /\ msg' = <<Head(list)>> /\ list' = Tail(list)
      BY <1>1, <2>1, <3>2 DEF M!LoopStates
    <3> QED BY <1>3, <3>1, <3>2
  <2> QED BY <1>1, <1>2, <2>2 DEF M!TypeOK, M!Message, M!LoopStates
<1>6. M!NoLostWakeup' /\ M!EndsOnlyUnblocked' /\ (loop' # "handling" => msg' = <<>>)
  BY <1>1, <1>2, <1>3 DEF M!NoLostWakeup, M!EndsOnlyUnblocked
<1>7. M!InOrder' /\ M!Accounted' /\ \A i \in DOMAIN Q' : Q'[i].number <= sent'[Q'[i].from]
  BY <1>2, <1>4 DEF M!TaskInv, M!MessagesHandled, M!InOrder, M!Accounted
<1> QED BY <1>5, <1>6, <1>7 DEF M!TaskInv, M!MessagesHandled

(* proc() returns: the message was the first outstanding one, and every    *)
(* other one of its sender has a larger number.                            *)
LEMMA ProcReturnsKeeps ==
  ASSUME M!TaskInv, M!procReturns
  PROVE  M!TaskInv'
<1> DEFINE Q == M!Outstanding
           s == msg[1].from
<1>1. /\ list \in Seq(M!Message) /\ msg \in Seq(M!Message) /\ Len(msg) = 1
      /\ unblocked \in BOOLEAN /\ destroyed \in BOOLEAN
      /\ sent \in [Senders -> Nat] /\ handled \in [Senders -> Nat]
      /\ leaked \in [Senders -> Nat] /\ flushed \in [Senders -> Nat]
  BY DEF M!TaskInv, M!TypeOK, M!procReturns
<1>2. /\ handled' = [handled EXCEPT ![s] = handled[s] + 1]
      /\ msg' = <<>> /\ loop' = "listening" /\ list' = list
      /\ unblocked' = unblocked /\ destroyed' = destroyed /\ sent' = sent
      /\ leaked' = leaked /\ flushed' = flushed
  BY DEF M!procReturns
<1>3. /\ Q \in Seq(M!Message) /\ Q # <<>> /\ Head(Q) = msg[1] /\ Tail(Q) = list /\ Q[1] = msg[1]
      /\ Len(Q) = Len(list) + 1
      /\ \A i \in 1 .. Len(list) : list[i] = Q[i + 1]
  <2>0. /\ Q \in Seq(M!Message) /\ Len(Q) = Len(msg) + Len(list) /\ Len(list) \in Nat
        /\ \A i \in 1 .. Len(msg) + Len(list) :
             Q[i] = IF i <= Len(msg) THEN msg[i] ELSE list[i - Len(msg)]
    BY <1>1, ConcatProperties, LenProperties DEF M!Outstanding
  <2>1. Q \in Seq(M!Message) /\ Len(Q) = Len(list) + 1
    BY <1>1, <2>0
  <2>2. Q[1] = msg[1] /\ \A i \in 1 .. Len(list) : list[i] = Q[i + 1]
    BY <1>1, <2>0
  <2>3. Q # <<>> /\ Head(Q) = Q[1]
    BY <1>1, <2>1
  <2>4. /\ Tail(Q) \in Seq(M!Message) /\ Len(Tail(Q)) = Len(list)
        /\ \A i \in 1 .. Len(list) : Tail(Q)[i] = Q[i + 1]
    BY <1>1, <2>1, <2>3, HeadTailProperties
  <2>5. Tail(Q) = list
    BY <1>1, <2>2, <2>4, SeqEqual
  <2> QED BY <2>1, <2>2, <2>3, <2>5
<1>4. Q' = list
  BY <1>1, <1>2 DEF M!Outstanding
<1>5. /\ DOMAIN Q = 1 .. Len(list) + 1 /\ DOMAIN list = 1 .. Len(list) /\ Len(list) \in Nat
      /\ \A i \in 1 .. Len(list) + 1 : Q[i].from \in Senders /\ Q[i].number \in Nat
      /\ s \in Senders
  <2>1. \A i \in 1 .. Len(list) + 1 : Q[i] \in M!Message
    BY <1>1, <1>3, ElementOfSeq
  <2>2. DOMAIN Q = 1 .. Len(list) + 1 /\ DOMAIN list = 1 .. Len(list) /\ Len(list) \in Nat
    BY <1>1, <1>3, LenProperties
  <2> QED BY <1>3, <2>1, <2>2 DEF M!Message
<1>6. /\ handled' \in [Senders -> Nat] /\ handled'[s] = handled[s] + 1
      /\ \A r \in Senders : r # s => handled'[r] = handled[r]
  BY <1>1, <1>2, <1>5
<1>7. M!TypeOK' /\ M!NoLostWakeup' /\ M!EndsOnlyUnblocked' /\ (loop' # "handling" => msg' = <<>>)
  BY <1>1, <1>2, <1>6
  DEF M!TypeOK, M!Message, M!LoopStates, M!NoLostWakeup, M!EndsOnlyUnblocked
<1>8. M!InOrder /\ M!Accounted /\ \A i \in DOMAIN Q : Q[i].number <= sent[Q[i].from]
  BY DEF M!TaskInv, M!MessagesHandled
<1>9. M!InOrder'
  <2> SUFFICES ASSUME NEW i \in 1 .. Len(list), NEW j \in 1 .. Len(list)
               PROVE  /\ i < j /\ list[i].from = list[j].from => list[i].number < list[j].number
                      /\ list[i].number > handled'[list[i].from]
    BY <1>4, <1>5 DEF M!InOrder
  <2>1. /\ i + 1 \in DOMAIN Q /\ j + 1 \in DOMAIN Q /\ 1 \in DOMAIN Q
        /\ (i < j <=> i + 1 < j + 1) /\ 1 < i + 1
    BY <1>5
  <2>2. list[i] = Q[i + 1] /\ list[j] = Q[j + 1]
    BY <1>3
  <2>3. i < j /\ list[i].from = list[j].from => list[i].number < list[j].number
    BY <1>8, <2>1, <2>2 DEF M!InOrder
  <2>4. /\ Q[1].from = Q[i + 1].from => Q[1].number < Q[i + 1].number
        /\ Q[i + 1].number > handled[Q[i + 1].from] /\ Q[1].number > handled[Q[1].from]
    BY <1>8, <2>1 DEF M!InOrder
  <2>5. list[i].number > handled'[list[i].from]
    <3>1. /\ Q[i + 1].from \in Senders /\ Q[i + 1].number \in Nat /\ Q[1].number \in Nat
          /\ handled[s] \in Nat /\ Q[1].from = s
      BY <1>1, <1>3, <1>5, <2>1
    <3>2. CASE Q[i + 1].from = s
      <4>1. Q[i + 1].number > handled[s] + 1
        BY <2>4, <3>1, <3>2
      <4> QED BY <1>6, <2>2, <3>2, <4>1
    <3>3. CASE Q[i + 1].from # s
      BY <1>6, <2>2, <2>4, <3>1, <3>3
    <3> QED BY <3>2, <3>3
  <2> QED BY <2>3, <2>5
<1>10. \A i \in DOMAIN Q' : Q'[i].number <= sent'[Q'[i].from]
  <2> SUFFICES ASSUME NEW i \in 1 .. Len(list)
               PROVE  list[i].number <= sent[list[i].from]
    BY <1>2, <1>4, <1>5
  <2>1. i + 1 \in DOMAIN Q /\ list[i] = Q[i + 1]
    BY <1>3, <1>5
  <2> QED BY <1>8, <2>1
<1>11. M!Accounted'
  <2> SUFFICES ASSUME NEW r \in Senders
               PROVE  sent'[r] = handled'[r] + M!CountFrom(r, Q)' + flushed'[r] + leaked'[r]
    BY DEF M!Accounted
  <2>1. M!CountFrom(r, Q) = M!CountFrom(r, list) + (IF r = s THEN 1 ELSE 0)
    <3>1. M!CountFrom(r, Q) = M!CountFrom(r, Tail(Q)) + (IF Head(Q).from = r THEN 1 ELSE 0)
      BY <1>3, CountFromIn
    <3> QED BY <1>3, <3>1
  <2>2. M!CountFrom(r, Q)' = M!CountFrom(r, list) /\ M!CountFrom(r, list) \in Nat
    BY <1>1, <1>4, CountFromIn
  <2>3. sent[r] = handled[r] + M!CountFrom(r, Q) + flushed[r] + leaked[r]
    BY <1>8 DEF M!Accounted
  <2>4. handled'[r] = handled[r] + (IF r = s THEN 1 ELSE 0)
    <3>1. CASE r = s
      BY <1>6, <3>1
    <3>2. CASE r # s
      <4>1. handled'[r] = handled[r] /\ handled[r] \in Nat
        BY <1>1, <1>6, <3>2
      <4> QED BY <3>2, <4>1
    <3> QED BY <3>1, <3>2
  <2>5. /\ sent'[r] = sent[r] /\ flushed'[r] = flushed[r] /\ leaked'[r] = leaked[r]
        /\ sent[r] \in Nat /\ handled[r] \in Nat /\ flushed[r] \in Nat /\ leaked[r] \in Nat
    BY <1>1, <1>2
  <2> QED BY <2>1, <2>2, <2>3, <2>4, <2>5
<1> QED BY <1>7, <1>9, <1>10, <1>11 DEF M!TaskInv, M!MessagesHandled

(* msg_q_destroy: what was listed is counted as flushed instead.           *)
LEMMA DestroyKeeps ==
  ASSUME M!TaskInv, M!msg_q_destroy
  PROVE  M!TaskInv'
<1> DEFINE Q == M!Outstanding
<1>1. /\ list \in Seq(M!Message) /\ msg = <<>> /\ unblocked
      /\ unblocked \in BOOLEAN /\ destroyed \in BOOLEAN
      /\ sent \in [Senders -> Nat] /\ handled \in [Senders -> Nat]
      /\ leaked \in [Senders -> Nat] /\ flushed \in [Senders -> Nat]
  BY DEF M!TaskInv, M!TypeOK, M!MessagesHandled, M!EndsOnlyUnblocked, M!msg_q_destroy
<1>2. /\ flushed' = [s \in Senders |-> flushed[s] + M!CountFrom(s, list)]
      /\ list' = <<>> /\ destroyed' = TRUE /\ loop' = "gone"
      /\ unblocked' = unblocked /\ msg' = msg /\ sent' = sent
      /\ handled' = handled /\ leaked' = leaked
  BY DEF M!msg_q_destroy
<1>3. Q = list /\ Q' = <<>>
  <2>1. <<>> \o list = list /\ <<>> \o <<>> = <<>>
    BY <1>1
  <2> QED BY <1>1, <1>2, <2>1 DEF M!Outstanding
<1>4. \A s \in Senders : M!CountFrom(s, list) \in Nat
  BY <1>1, CountFromIn
<1>5. M!TypeOK'
  <2>1. flushed' \in [Senders -> Nat]
    BY <1>1, <1>2, <1>4
  <2>2. list' \in Seq(M!Message) /\ msg' \in Seq(M!Message) /\ Len(msg') = 0
    BY <1>1, <1>2
  <2> QED BY <1>1, <1>2, <2>1, <2>2 DEF M!TypeOK, M!Message, M!LoopStates
<1>6. M!NoLostWakeup' /\ M!EndsOnlyUnblocked' /\ (loop' # "handling" => msg' = <<>>)
  BY <1>1, <1>2 DEF M!NoLostWakeup, M!EndsOnlyUnblocked
<1>7. M!InOrder' /\ \A i \in DOMAIN Q' : Q'[i].number <= sent'[Q'[i].from]
  BY <1>3 DEF M!InOrder
<1>8. M!Accounted'
  <2> SUFFICES ASSUME NEW r \in Senders
               PROVE  sent'[r] = handled'[r] + M!CountFrom(r, Q)' + flushed'[r] + leaked'[r]
    BY DEF M!Accounted
  <2>1. M!CountFrom(r, <<>>) = 0
    BY FS_EmptySet DEF M!CountFrom, Cardinality, M!Cardinality, IsFiniteSet, M!IsFiniteSet
  <2>2. M!CountFrom(r, Q)' = 0
    BY <1>3, <2>1
  <2>3. sent[r] = handled[r] + M!CountFrom(r, list) + flushed[r] + leaked[r]
    BY <1>3 DEF M!TaskInv, M!MessagesHandled, M!Accounted
  <2>4. /\ sent'[r] = sent[r] /\ handled'[r] = handled[r] /\ leaked'[r] = leaked[r]
        /\ flushed'[r] = flushed[r] + M!CountFrom(r, list)
        /\ sent[r] \in Nat /\ handled[r] \in Nat /\ flushed[r] \in Nat /\ leaked[r] \in Nat
    BY <1>1, <1>2
  <2> QED BY <1>4, <2>2, <2>3, <2>4
<1> QED BY <1>5, <1>6, <1>7, <1>8 DEF M!TaskInv, M!MessagesHandled

(* msg_q_unblock and a wakeup for nothing touch no message.                *)
LEMMA WakeKeeps ==
  ASSUME M!TaskInv,
         M!msg_q_unblock \/ M!spuriousWakeup \/ UNCHANGED task
  PROVE  M!TaskInv'
<1> DEFINE Q == M!Outstanding
<1>1. /\ list' = list /\ destroyed' = destroyed /\ msg' = msg /\ sent' = sent
      /\ handled' = handled /\ leaked' = leaked /\ flushed' = flushed
  BY DEF M!msg_q_unblock, M!spuriousWakeup, task
<1>2. \/ unblocked' = TRUE /\ loop' = M!Woken
      \/ unblocked' = unblocked /\ loop = "asleep" /\ loop' = "woken"
      \/ unblocked' = unblocked /\ loop' = loop
  BY DEF M!msg_q_unblock, M!spuriousWakeup, task
<1>3. Q' = Q
  BY <1>1 DEF M!Outstanding
<1>4. /\ loop' \in M!LoopStates /\ unblocked' \in BOOLEAN
      /\ loop' = "handling" <=> loop = "handling"
  BY <1>2 DEF M!TaskInv, M!TypeOK, M!LoopStates, M!Woken
<1>5. M!TypeOK'
  BY <1>1, <1>4 DEF M!TaskInv, M!TypeOK, M!Message, M!LoopStates
<1>6. M!NoLostWakeup' /\ M!EndsOnlyUnblocked' /\ (loop' # "handling" => msg' = <<>>)
  BY <1>1, <1>2, <1>4
  DEF M!TaskInv, M!MessagesHandled, M!NoLostWakeup, M!EndsOnlyUnblocked, M!Woken
<1>7. M!InOrder' /\ M!Accounted' /\ \A i \in DOMAIN Q' : Q'[i].number <= sent'[Q'[i].from]
  BY <1>1, <1>3 DEF M!TaskInv, M!MessagesHandled, M!InOrder, M!Accounted
<1> QED BY <1>5, <1>6, <1>7 DEF M!TaskInv, M!MessagesHandled

(* For any senders: msg_q and loopMain handle the messages of each sender  *)
(* in the order sent, each is handled, deleted, turned away or still to    *)
(* come, the thread does not sleep over one, and ends only when told to.   *)
THEOREM MessagesAreHandled == MCSpec => []MessagesHandled
<1> DEFINE Inv == part = "task" => M!TaskInv
<1>1. MCInit => Inv
  <2> SUFFICES ASSUME MCInit PROVE M!TaskInv
    OBVIOUS
  <2>1. /\ list = <<>> /\ msg = <<>> /\ unblocked = FALSE /\ destroyed = FALSE
        /\ loop = "listening" /\ sent = M!None /\ handled = M!None
        /\ leaked = M!None /\ flushed = M!None
    BY DEF MCInit, M!Init
  <2>2. M!Outstanding = <<>>
    BY <2>1 DEF M!Outstanding
  <2>3. M!TypeOK
    <3>1. <<>> \in Seq(M!Message) /\ Len(<<>>) = 0 /\ M!None \in [Senders -> Nat]
      BY DEF M!None
    <3>2. list \in Seq(M!Message) /\ msg \in Seq(M!Message) /\ Len(msg) = 0
      BY <2>1, <3>1
    <3>3. /\ sent \in [Senders -> Nat] /\ handled \in [Senders -> Nat]
          /\ leaked \in [Senders -> Nat] /\ flushed \in [Senders -> Nat]
      BY <2>1, <3>1
    <3>4. unblocked \in BOOLEAN /\ destroyed \in BOOLEAN /\ loop \in M!LoopStates
      BY <2>1 DEF M!LoopStates
    <3>5. loop # "handling" /\ Len(msg) # 1
      BY <2>1, <3>2
    <3> QED BY <3>2, <3>3, <3>4, <3>5 DEF M!TypeOK
  <2>4. M!Accounted
    <3>1. \A s : M!CountFrom(s, <<>>) = 0
      BY FS_EmptySet DEF M!CountFrom, Cardinality, M!Cardinality, IsFiniteSet, M!IsFiniteSet
    <3> QED BY <2>1, <2>2, <3>1 DEF M!Accounted, M!None
  <2> QED BY <2>1, <2>2, <2>3, <2>4
    DEF M!TaskInv, M!MessagesHandled, M!InOrder, M!NoLostWakeup, M!EndsOnlyUnblocked
<1>2. Inv /\ [MCNext]_all => Inv'
  <2> SUFFICES ASSUME Inv, [MCNext]_all, part' = "task" PROVE M!TaskInv'
    OBVIOUS
  <2>1. CASE Task(M!Next)
    <3>1. M!TaskInv /\ M!Next
      BY <2>1 DEF Task
    <3> QED BY <3>1, SendKeeps, RcvKeeps, ProcReturnsKeeps, DestroyKeeps, WakeKeeps
      DEF M!Next, M!loopMain
  <2>2. CASE part = "task" /\ UNCHANGED task
    BY <2>2, WakeKeeps
  <2> QED BY <2>1, <2>2 DEF MCNext, Ni, Task, Daemon, Timer, all
<1>3. Inv => MessagesHandled
  BY DEF MessagesHandled, M!TaskInv
<1> QED BY <1>1, <1>2, <1>3, PTL DEF MCSpec

-----------------------------------------------------------------------------
(* DmnConn.                                                                *)

(* Messages of one daemon, counted by DmnConn as by CountIn.               *)
LEMMA OfDaemonIn ==
  ASSUME NEW d, NEW S, NEW q \in Seq(S)
  PROVE  D!OfDaemon(d, q) = CountIn(q, {m \in S : m.sender = d})
<1>1. {k \in DOMAIN q : q[k].sender = d} = Places(q, {m \in S : m.sender = d})
  BY DEF Places
<1> QED BY <1>1
  DEF D!OfDaemon, CountIn, Cardinality, D!Cardinality, IsFiniteSet, D!IsFiniteSet

(* There is a natural number of them, and none in an empty queue.          *)
LEMMA OfDaemonNat ==
  ASSUME NEW d, NEW S, NEW q \in Seq(S)
  PROVE  D!OfDaemon(d, q) \in Nat /\ D!OfDaemon(d, <<>>) = 0
<1>1. D!OfDaemon(d, q) \in Nat
  <2>1. CountIn(q, {m \in S : m.sender = d}) \in Nat
    BY PlacesFinite
  <2> QED BY <2>1, OfDaemonIn
<1>2. <<>> \in Seq(S)
  OBVIOUS
<1>3. D!OfDaemon(d, <<>>) = CountIn(<<>>, {m \in S : m.sender = d})
  BY <1>2, OfDaemonIn
<1>4. CountIn(<<>>, {m \in S : m.sender = d}) = 0
  BY CountEmpty
<1> QED BY <1>1, <1>3, <1>4

(* A message appended counts for its sender.                               *)
LEMMA OfDaemonAppend ==
  ASSUME NEW d, NEW S, NEW q \in Seq(S), NEW e \in S
  PROVE  D!OfDaemon(d, Append(q, e)) = D!OfDaemon(d, q) + (IF e.sender = d THEN 1 ELSE 0)
<1> DEFINE P == {m \in S : m.sender = d}
<1>1. Append(q, e) \in Seq(S) /\ (e \in P <=> e.sender = d)
  OBVIOUS
<1>2. D!OfDaemon(d, Append(q, e)) = CountIn(Append(q, e), P)
  BY <1>1, OfDaemonIn
<1>3. D!OfDaemon(d, q) = CountIn(q, P)
  BY OfDaemonIn
<1>4. CountIn(Append(q, e), P) = CountIn(q, P) + (IF e \in P THEN 1 ELSE 0)
  BY CountAppend
<1> HIDE DEF P
<1> QED BY <1>1, <1>2, <1>3, <1>4

(* So does a message on its own.                                           *)
LEMMA OfDaemonOne ==
  ASSUME NEW d, NEW S, NEW e \in S
  PROVE  D!OfDaemon(d, <<e>>) = IF e.sender = d THEN 1 ELSE 0
<1>1. Append(<<>>, e) = <<e>> /\ <<>> \in Seq(S)
  OBVIOUS
<1>2. D!OfDaemon(d, <<>>) = 0
  BY <1>1, OfDaemonNat
<1>3. D!OfDaemon(d, Append(<<>>, e)) = D!OfDaemon(d, <<>>) + (IF e.sender = d THEN 1 ELSE 0)
  BY <1>1, OfDaemonAppend
<1> QED BY <1>1, <1>2, <1>3

(* The first message, taken away, counted for its sender.                  *)
LEMMA OfDaemonTail ==
  ASSUME NEW d, NEW S, NEW q \in Seq(S), q # <<>>
  PROVE  D!OfDaemon(d, q) = D!OfDaemon(d, Tail(q)) + (IF Head(q).sender = d THEN 1 ELSE 0)
<1> DEFINE P == {m \in S : m.sender = d}
<1>1. Tail(q) \in Seq(S) /\ (Head(q) \in P <=> Head(q).sender = d)
  BY HeadTailProperties
<1>2. D!OfDaemon(d, Tail(q)) = CountIn(Tail(q), P)
  BY <1>1, OfDaemonIn
<1>3. D!OfDaemon(d, q) = CountIn(q, P)
  BY OfDaemonIn
<1>4. CountIn(q, P) = CountIn(Tail(q), P) + (IF Head(q) \in P THEN 1 ELSE 0)
  BY CountTail
<1> HIDE DEF P
<1> QED BY <1>1, <1>2, <1>3, <1>4

(* None counts for a daemon that has sent nothing.                         *)
LEMMA OfDaemonNone ==
  ASSUME NEW d, NEW S, NEW q \in Seq(S), \A k \in DOMAIN q : q[k].sender # d
  PROVE  D!OfDaemon(d, q) = 0
<1>1. Places(q, {m \in S : m.sender = d}) = {}
  BY DEF Places
<1>2. CountIn(q, {m \in S : m.sender = d}) = 0
  BY <1>1, FS_EmptySet DEF CountIn
<1> QED BY <1>2, OfDaemonIn

(* The same for the messages and notices of all daemons.                   *)
LEMMA CountsOfDaemons ==
  ASSUME D!DcInv, NEW d \in Daemons
  PROVE  /\ D!OfDaemon(d, pipe) \in Nat /\ D!OfDaemon(d, dHandled) \in Nat
         /\ D!OfDaemon(d, queue) \in Nat /\ D!OfDaemon(d, msgTask) \in Nat
         /\ D!OfDaemon(d, <<>>) = 0
         /\ Len(responses[d]) \in Nat /\ read[d] \in Nat /\ made[d] \in Nat
         /\ dropped[d] \in Nat /\ taken[d] \in Nat /\ told[d] \in Nat
         /\ D!AtServer(d) \in Nat
<1>1. /\ pipe \in Seq(D!Asked) /\ dHandled \in Seq(D!Asked) /\ queue \in Seq(D!Queued)
      /\ msgTask \in Seq(D!Notices)
  BY DEF D!DcInv
<1>2. /\ responses[d] \in Seq({"RESPONSE"}) /\ read[d] \in Nat /\ made[d] \in Nat
      /\ dropped[d] \in Nat /\ taken[d] \in Nat /\ told[d] \in Nat
  BY DEF D!DcInv
<1>3. D!OfDaemon(d, pipe) \in Nat /\ D!OfDaemon(d, dHandled) \in Nat
  BY <1>1, OfDaemonNat
<1>4. D!OfDaemon(d, queue) \in Nat /\ D!OfDaemon(d, msgTask) \in Nat
  BY <1>1, OfDaemonNat
<1>5. D!OfDaemon(d, <<>>) = 0
  BY <1>1, OfDaemonNat
<1>6. Len(responses[d]) \in Nat
  BY <1>2, LenProperties
<1>7. D!AtServer(d) \in Nat
  BY <1>3 DEF D!AtServer
<1> QED BY <1>2, <1>3, <1>4, <1>5, <1>6, <1>7

(* The sets of messages do not change.                                     *)
LEMMA SameMessages == D!Asked' = D!Asked /\ D!Queued' = D!Queued /\ D!Notices' = D!Notices
  BY DEF D!Asked, D!Queued, D!Notices, D!Unblock, D!Message, D!Types, D!ReqRel, D!Known,
         D!Notice, Daemons

(* What the handlers know is queued as its sender's.                       *)
LEMMA QueuedOfSender ==
  ASSUME NEW m \in D!Asked, D!Known(m)
  PROVE  D!ReqRel(m) \in D!Queued /\ D!ReqRel(m).sender = m.sender
  BY DEF D!Queued, D!ReqRel

(* A queued message is one of the known, and its sender a daemon.          *)
LEMMA SenderOfQueued ==
  ASSUME NEW n \in D!Queued
  PROVE  n.sender \in Daemons
<1>1. PICK m \in D!Asked : D!Known(m) /\ n = D!ReqRel(m)
  BY DEF D!Queued
<1>2. m.sender \in Daemons
  BY <1>1 DEF D!Asked, D!Known, D!Unblock, D!Message
<1> QED BY <1>1, <1>2 DEF D!ReqRel

(* Notices go to the pipe of the daemon they are for.                      *)
LEMMA NoticeOfDaemon ==
  ASSUME NEW n \in D!Notices
  PROVE  n.sender \in Daemons /\ D!PipeOf(n) = n.sender
  BY DEF D!Notices, D!Notice, D!PipeOf

(* Launching, waiting and joining move no message.                         *)
LEMMA LaunchKeeps ==
  ASSUME D!DcInv,
         \/ D!launch \/ D!signalWait \/ D!spuriousWakeup \/ D!signalReady \/ D!join
         \/ UNCHANGED daemon
  PROVE  D!DcInv' /\ (D!RequestsAccounted => D!RequestsAccounted')
<1>1. /\ pipe' = pipe /\ pipes' = pipes /\ responses' = responses /\ dHandled' = dHandled
      /\ queue' = queue /\ msgTask' = msgTask /\ subscribers' = subscribers
      /\ made' = made /\ dropped' = dropped /\ taken' = taken /\ told' = told /\ read' = read
  BY DEF D!launch, D!signalWait, D!spuriousWakeup, D!signalReady, D!join, D!data, D!counts,
         D!arbiters, daemon
<1>2. /\ IF server' = "handling" THEN Len(dHandled) = 1 ELSE dHandled = <<>>
      /\ launcher' = "idle" => server' = "none"
      /\ server' \in {"none", "created"} => server \in {"none", "created"}
  BY DEF D!DcInv, D!launch, D!signalWait, D!spuriousWakeup, D!signalReady, D!join, D!data, daemon
<1>3. D!DcInv'
  BY <1>1, <1>2, SameMessages DEF D!DcInv
<1> QED BY <1>1, <1>3 DEF D!RequestsAccounted, D!AtServer

(* The pipes open when there is nothing to account for.                    *)
LEMMA OpenKeeps ==
  ASSUME D!DcInv, D!proc_init
  PROVE  D!DcInv' /\ D!RequestsAccounted'
<1>1. /\ pipe' = pipe /\ pipes' = TRUE /\ responses' = responses /\ dHandled' = dHandled
      /\ queue' = queue /\ msgTask' = msgTask /\ subscribers' = subscribers
      /\ made' = made /\ dropped' = dropped /\ taken' = taken /\ told' = told /\ read' = read
      /\ server = "created" /\ server' = "opened" /\ launcher' = launcher
  BY DEF D!proc_init, D!counts, D!arbiters
<1>2. D!DcInv'
  BY <1>1, SameMessages DEF D!DcInv
<1>3. /\ pipe = <<>> /\ dHandled = <<>> /\ queue = <<>> /\ msgTask = <<>>
      /\ \A d \in Daemons : /\ made[d] = 0 /\ dropped[d] = 0 /\ taken[d] = 0
                            /\ told[d] = 0 /\ read[d] = 0 /\ responses[d] = <<>>
  BY <1>1 DEF D!DcInv
<1>4. \A d : D!OfDaemon(d, <<>>) = 0
  BY OfDaemonNat, EmptySeq
<1> QED BY <1>1, <1>2, <1>3, <1>4 DEF D!RequestsAccounted, D!AtServer

(* A daemon writes: its message is on the server's pipe.                   *)
LEMMA WriteKeeps ==
  ASSUME D!DcInv, D!RequestsAccounted, NEW t \in D!Types, NEW s \in Daemons,
         D!daemonWrites(t, s)
  PROVE  D!DcInv' /\ D!RequestsAccounted'
<1> DEFINE m == D!Message(t, s)
<1>1. /\ pipes /\ pipe' = Append(pipe, m) /\ made' = [made EXCEPT ![s] = made[s] + 1]
      /\ pipes' = pipes /\ responses' = responses /\ dHandled' = dHandled
      /\ queue' = queue /\ msgTask' = msgTask /\ subscribers' = subscribers
      /\ dropped' = dropped /\ taken' = taken /\ told' = told
      /\ read' = read /\ launcher' = launcher /\ server' = server
  BY DEF D!daemonWrites, D!counts, D!arbiters
<1>2. m \in D!Asked /\ m.sender = s
  BY DEF D!Asked, D!Message
<1>3. pipe' \in Seq(D!Asked) /\ made' \in [Daemons -> Nat]
  BY <1>1, <1>2 DEF D!DcInv
<1>4. server \notin {"none", "created"}
  BY <1>1 DEF D!DcInv
<1>5. D!DcInv'
  BY <1>1, <1>3, <1>4, SameMessages DEF D!DcInv
<1>6. ASSUME NEW d \in Daemons
      PROVE  made'[d] = D!AtServer(d)' + dropped[d] + D!OfDaemon(d, queue) + taken[d]
  <2> DEFINE x == IF s = d THEN 1 ELSE 0
  <2>1. x \in {0, 1} /\ (IF m.sender = d THEN 1 ELSE 0) = x
    BY <1>2
  <2>2. D!OfDaemon(d, Append(pipe, m)) = D!OfDaemon(d, pipe) + x
    <3>1. pipe \in Seq(D!Asked)
      BY DEF D!DcInv
    <3> HIDE DEF m, x
    <3> QED BY <1>2, <2>1, <3>1, OfDaemonAppend
  <2>3. made'[d] = made[d] + x
    <3>1. made \in [Daemons -> Nat]
      BY DEF D!DcInv
    <3>2. made[d] \in Nat
      BY <3>1
    <3> QED BY <1>1, <3>1, <3>2
  <2> HIDE DEF x, m
  <2>5. D!AtServer(d)' = D!AtServer(d) + x
    BY <1>1, <2>1, <2>2, CountsOfDaemons DEF D!AtServer
  <2>6. made[d] = D!AtServer(d) + dropped[d] + D!OfDaemon(d, queue) + taken[d]
    BY <1>1 DEF D!RequestsAccounted
  <2>7. /\ D!AtServer(d) \in Nat /\ dropped[d] \in Nat /\ D!OfDaemon(d, queue) \in Nat
        /\ taken[d] \in Nat
    BY CountsOfDaemons
  <2> QED BY <2>1, <2>3, <2>5, <2>6, <2>7
<1> QED BY <1>1, <1>5, <1>6 DEF D!RequestsAccounted

(* msgrcv: the message read is the one handled.                            *)
LEMMA MsgrcvKeeps ==
  ASSUME D!DcInv, D!RequestsAccounted, D!msgrcv
  PROVE  D!DcInv' /\ D!RequestsAccounted'
<1>1. /\ server = "listening" /\ dHandled = <<>> /\ pipe \in Seq(D!Asked)
      /\ pipes' = pipes /\ responses' = responses /\ made' = made /\ read' = read
      /\ queue' = queue /\ msgTask' = msgTask /\ subscribers' = subscribers
      /\ dropped' = dropped /\ taken' = taken /\ told' = told /\ launcher' = launcher
  BY DEF D!DcInv, D!msgrcv, D!counts, D!arbiters
<1>2. CASE pipe = <<>>
  <2>1. pipe' = pipe /\ dHandled' = dHandled /\ server' = "looping"
    BY <1>2 DEF D!msgrcv
  <2>2. D!DcInv'
    BY <1>1, <2>1, SameMessages DEF D!DcInv
  <2> QED BY <1>1, <2>1, <2>2 DEF D!RequestsAccounted, D!AtServer
<1>3. CASE pipe # <<>>
  <2>1. dHandled' = <<Head(pipe)>> /\ pipe' = Tail(pipe) /\ server' = "handling"
    BY <1>3 DEF D!msgrcv
  <2>2. Head(pipe) \in D!Asked /\ Tail(pipe) \in Seq(D!Asked)
    BY <1>1, <1>3
  <2>3. dHandled' \in Seq(D!Asked) /\ Len(dHandled') = 1 /\ pipe' \in Seq(D!Asked)
    BY <2>1, <2>2
  <2>4. D!DcInv'
    BY <1>1, <2>1, <2>3, SameMessages DEF D!DcInv
  <2>5. ASSUME NEW d \in Daemons PROVE D!AtServer(d)' = D!AtServer(d)
    <3> DEFINE x == IF Head(pipe).sender = d THEN 1 ELSE 0
    <3>1. x \in {0, 1}
      OBVIOUS
    <3>2. D!OfDaemon(d, pipe) = D!OfDaemon(d, Tail(pipe)) + x
      BY <1>1, <1>3, OfDaemonTail
    <3>3. D!OfDaemon(d, <<Head(pipe)>>) = x
      BY <2>2, OfDaemonOne
    <3>4. D!OfDaemon(d, Tail(pipe)) \in Nat /\ D!OfDaemon(d, <<>>) = 0
      BY <2>2, OfDaemonNat
    <3> HIDE DEF x
    <3>5. /\ D!AtServer(d) = D!OfDaemon(d, pipe) + D!OfDaemon(d, <<>>)
          /\ D!AtServer(d)' = D!OfDaemon(d, Tail(pipe)) + D!OfDaemon(d, <<Head(pipe)>>)
      BY <1>1, <2>1 DEF D!AtServer
    <3> QED BY <3>1, <3>2, <3>3, <3>4, <3>5
  <2> QED BY <1>1, <2>4, <2>5 DEF D!RequestsAccounted
<1> QED BY <1>2, <1>3

(* The handlers: what they know is queued, anything else is dropped.       *)
LEMMA HandleKeeps ==
  ASSUME D!DcInv, D!RequestsAccounted, D!handle
  PROVE  D!DcInv' /\ D!RequestsAccounted'
<1> DEFINE m == dHandled[1]
<1>1. /\ server = "handling" /\ dHandled \in Seq(D!Asked) /\ queue \in Seq(D!Queued)
      /\ dropped \in [Daemons -> Nat]
      /\ pipes' = pipes /\ responses' = responses /\ made' = made /\ read' = read
      /\ pipe' = pipe /\ msgTask' = msgTask /\ subscribers' = subscribers
      /\ taken' = taken /\ told' = told /\ launcher' = launcher
      /\ dHandled' = <<>> /\ server' = "looping"
  BY DEF D!DcInv, D!handle, D!arbiters
<1>2. \/ D!Known(m) /\ queue' = Append(queue, D!ReqRel(m)) /\ dropped' = dropped
      \/ /\ ~D!Known(m) /\ queue' = queue
         /\ dropped' = IF m.type = "OTHER" THEN [dropped EXCEPT ![m.sender] = dropped[m.sender] + 1]
                       ELSE dropped
  BY DEF D!handle
<1>3. m \in D!Asked /\ dHandled = <<m>>
  <2>0. Len(dHandled) = 1
    BY <1>1 DEF D!DcInv
  <2>1. m \in D!Asked
    <3>1. dHandled \in Seq(D!Asked) /\ 1 \in 1 .. Len(dHandled)
      BY <1>1, <2>0
    <3> QED BY <3>1, ElementOfSeq
  <2>2. <<m>> \in Seq(D!Asked) /\ Len(<<m>>) = 1 /\ <<m>>[1] = m
    BY <2>1
  <2>3. dHandled = <<m>>
    BY <1>1, <2>0, <2>2, SeqEqual
  <2> QED BY <2>1, <2>3
<1>4. ASSUME NEW d \in Daemons
      PROVE  D!AtServer(d) = D!AtServer(d)' + (IF m.sender = d THEN 1 ELSE 0)
  <2> DEFINE x == IF m.sender = d THEN 1 ELSE 0
  <2>1. x \in {0, 1}
    OBVIOUS
  <2>2. D!OfDaemon(d, dHandled) = x /\ D!OfDaemon(d, <<>>) = 0
    BY <1>3, OfDaemonOne, CountsOfDaemons
  <2> HIDE DEF x, m
  <2>3. /\ D!AtServer(d) = D!OfDaemon(d, pipe) + D!OfDaemon(d, dHandled)
        /\ D!AtServer(d)' = D!OfDaemon(d, pipe) + D!OfDaemon(d, <<>>)
    BY <1>1 DEF D!AtServer
  <2>4. D!OfDaemon(d, pipe) \in Nat
    BY CountsOfDaemons
  <2>5. D!AtServer(d) = D!AtServer(d)' + x
    BY <2>1, <2>2, <2>3, <2>4
  <2> QED BY <2>5 DEF x
<1>5. ASSUME NEW d \in Daemons
      PROVE  /\ D!AtServer(d)' \in Nat
             /\ pipes => made[d] = D!AtServer(d) + dropped[d] + D!OfDaemon(d, queue) + taken[d]
  <2>1. D!AtServer(d)' = D!OfDaemon(d, pipe) + D!OfDaemon(d, <<>>)
    BY <1>1 DEF D!AtServer
  <2> QED BY <2>1, CountsOfDaemons DEF D!RequestsAccounted
<1>6. CASE D!Known(m)
  <2>1. queue' = Append(queue, D!ReqRel(m)) /\ dropped' = dropped
    BY <1>2, <1>6
  <2>2. D!ReqRel(m) \in D!Queued /\ D!ReqRel(m).sender = m.sender
    BY <1>3, <1>6, QueuedOfSender
  <2>3. queue' \in Seq(D!Queued)
    BY <1>1, <2>1, <2>2
  <2>4. D!DcInv'
    BY <1>1, <2>1, <2>3, SameMessages DEF D!DcInv
  <2>5. ASSUME pipes, NEW d \in Daemons
        PROVE  made[d] = D!AtServer(d)' + dropped[d] + D!OfDaemon(d, queue') + taken[d]
    <3> DEFINE x == IF m.sender = d THEN 1 ELSE 0
    <3>1. x \in {0, 1} /\ D!AtServer(d) = D!AtServer(d)' + x
      BY <1>4
    <3>2. D!OfDaemon(d, queue') = D!OfDaemon(d, queue) + x
      BY <1>1, <2>1, <2>2, OfDaemonAppend
    <3> HIDE DEF x, m
    <3>3. D!OfDaemon(d, queue) \in Nat /\ dropped[d] \in Nat /\ taken[d] \in Nat
      BY CountsOfDaemons
    <3>4. /\ D!AtServer(d)' \in Nat
          /\ made[d] = D!AtServer(d) + dropped[d] + D!OfDaemon(d, queue) + taken[d]
      BY <1>5, <2>5
    <3> QED BY <3>1, <3>2, <3>3, <3>4
  <2> HIDE DEF m
  <2> QED BY <1>1, <2>1, <2>4, <2>5 DEF D!RequestsAccounted
<1>7. CASE ~D!Known(m) /\ m.type = "OTHER"
  <2>1. queue' = queue /\ dropped' = [dropped EXCEPT ![m.sender] = dropped[m.sender] + 1]
    BY <1>2, <1>7
  <2>2. m.sender \in Daemons
    BY <1>3, <1>7 DEF D!Asked, D!Unblock, D!Message
  <2> HIDE DEF m
  <2>3. queue' = queue /\ dropped' \in [Daemons -> Nat]
    BY <1>1, <2>1, <2>2
  <2>4. D!DcInv'
    BY <1>1, <2>3, SameMessages DEF D!DcInv
  <2>5. ASSUME pipes, NEW d \in Daemons
        PROVE  made[d] = D!AtServer(d)' + dropped'[d] + D!OfDaemon(d, queue) + taken[d]
    <3> DEFINE x == IF m.sender = d THEN 1 ELSE 0
    <3>1. x \in {0, 1} /\ D!AtServer(d) = D!AtServer(d)' + x
      BY <1>4
    <3>2. dropped'[d] = dropped[d] + x /\ dropped[d] \in Nat
      BY <1>1, <2>1, <2>2
    <3> HIDE DEF x
    <3>3. D!OfDaemon(d, queue) \in Nat /\ taken[d] \in Nat
      BY CountsOfDaemons
    <3>4. /\ D!AtServer(d)' \in Nat
          /\ made[d] = D!AtServer(d) + dropped[d] + D!OfDaemon(d, queue) + taken[d]
      BY <1>5, <2>5
    <3> QED BY <3>1, <3>2, <3>3, <3>4
  <2> QED BY <1>1, <2>1, <2>4, <2>5 DEF D!RequestsAccounted
<1>8. CASE ~D!Known(m) /\ m.type # "OTHER"
  <2>1. queue' = queue /\ dropped' = dropped
    BY <1>2, <1>8
  <2>2. m.sender \notin Daemons
    BY <1>3, <1>8 DEF D!Asked, D!Known, D!Types, D!Unblock, D!Message, Daemons
  <2>4. D!DcInv'
    BY <1>1, <2>1, SameMessages DEF D!DcInv
  <2>5. ASSUME pipes, NEW d \in Daemons
        PROVE  made[d] = D!AtServer(d)' + dropped[d] + D!OfDaemon(d, queue) + taken[d]
    <3>1. D!AtServer(d) = D!AtServer(d)'
      BY <1>4, <1>5, <2>2
    <3> QED BY <1>5, <2>5, <3>1
  <2> HIDE DEF m
  <2> QED BY <1>1, <2>1, <2>4, <2>5 DEF D!RequestsAccounted
<1> QED BY <1>6, <1>7, <1>8

(* The loop: the server listens again, or closes the pipes.                *)
LEMMA LoopKeeps ==
  ASSUME D!DcInv, D!RequestsAccounted, D!loop
  PROVE  D!DcInv' /\ D!RequestsAccounted'
<1>1. /\ responses' = responses /\ dHandled' = dHandled /\ subscribers' = subscribers
      /\ queue' = queue /\ msgTask' = msgTask /\ made' = made /\ read' = read
      /\ dropped' = dropped /\ taken' = taken /\ told' = told
      /\ launcher' = launcher /\ server = "looping"
  BY DEF D!loop, D!counts, D!arbiters
<1>2. CASE ~thread_exit
  <2>1. pipe' = pipe /\ pipes' = pipes /\ server' = "listening"
    BY <1>2 DEF D!loop
  <2>2. D!DcInv'
    BY <1>1, <2>1, SameMessages DEF D!DcInv
  <2> QED BY <1>1, <2>1, <2>2 DEF D!RequestsAccounted, D!AtServer
<1>3. CASE thread_exit
  <2>1. pipe' = <<>> /\ pipes' = FALSE /\ server' = "gone"
    BY <1>3 DEF D!loop
  <2>2. <<>> \in Seq(D!Asked)
    OBVIOUS
  <2>3. D!DcInv'
    BY <1>1, <2>1, <2>2, SameMessages DEF D!DcInv
  <2> QED BY <2>1, <2>3 DEF D!RequestsAccounted
<1> QED BY <1>2, <1>3

(* Notices for an order of daemons: nothing else changes, and only they    *)
(* are told more.                                                          *)
LEMMA TellNotices ==
  ASSUME D!DcInv, msgTask = <<>>, NEW order \in Seq(Daemons), D!tell(order)
  PROVE  /\ msgTask' \in Seq(D!Notices) /\ told' \in [Daemons -> Nat]
         /\ \A d \in Daemons :
              /\ D!OfDaemon(d, msgTask') \in Nat
              /\ told'[d] = told[d] + D!OfDaemon(d, msgTask')
              /\ told'[d] # told[d] => \E i \in DOMAIN order : order[i] = d
<1> DEFINE notices == [i \in DOMAIN order |-> D!Notice(order[i])]
<1>1. msgTask' = notices /\ told' = [d \in Daemons |-> told[d] + D!OfDaemon(d, notices)]
  BY DEF D!tell
<1>2. notices \in Seq(D!Notices)
  <2>1. DOMAIN order = 1 .. Len(order) /\ Len(order) \in Nat
    BY LenProperties
  <2>2. \A i \in 1 .. Len(order) : order[i] \in Daemons
    BY ElementOfSeq
  <2>3. notices \in [1 .. Len(order) -> D!Notices]
    BY <2>1, <2>2 DEF D!Notices
  <2> HIDE DEF notices
  <2> QED BY <2>1, <2>3, SeqDef
<1>3. ASSUME NEW d \in Daemons PROVE D!OfDaemon(d, notices) \in Nat
  <2> HIDE DEF notices
  <2> QED BY <1>2, OfDaemonNat
<1>4. ASSUME NEW d \in Daemons, \A i \in DOMAIN order : order[i] # d
      PROVE  D!OfDaemon(d, notices) = 0
  <2>1. \A k \in DOMAIN notices : notices[k].sender # d
    BY <1>4 DEF D!Notice
  <2> HIDE DEF notices
  <2> QED BY <1>2, <2>1, OfDaemonNone
<1> HIDE DEF notices
<1>5. told \in [Daemons -> Nat]
  BY DEF D!DcInv
<1>6. told' \in [Daemons -> Nat]
  BY <1>1, <1>3, <1>5
<1>7. \A d \in Daemons : told'[d] = told[d] + D!OfDaemon(d, notices) /\ told[d] \in Nat
  BY <1>1, <1>5
<1> QED BY <1>1, <1>2, <1>3, <1>4, <1>6, <1>7

(* The arbiters take a message: its sender may be listed, and may be told. *)
LEMMA ProcKeeps ==
  ASSUME D!DcInv, D!RequestsAccounted, D!proc
  PROVE  D!DcInv' /\ D!RequestsAccounted'
<1> DEFINE s == Head(queue).sender
<1>1. /\ queue \in Seq(D!Queued) /\ queue # <<>> /\ msgTask = <<>> /\ queue' = Tail(queue)
      /\ taken \in [Daemons -> Nat] /\ told \in [Daemons -> Nat]
      /\ subscribers \subseteq {d \in Daemons : taken[d] > 0}
      /\ pipe' = pipe /\ pipes' = pipes /\ responses' = responses
      /\ made' = made /\ dropped' = dropped /\ read' = read
      /\ launcher' = launcher /\ server' = server /\ dHandled' = dHandled
      /\ taken' = [taken EXCEPT ![s] = taken[s] + 1]
  BY DEF D!DcInv, D!proc
<1>2. Head(queue) \in D!Queued /\ Tail(queue) \in Seq(D!Queued)
  BY <1>1
<1>3. s \in Daemons
  BY <1>2, SenderOfQueued
<1>4. (D!tell(<<>>) \/ D!tell(<<s>>)) /\ subscribers' \subseteq subscribers \cup {s}
  BY DEF D!proc
<1>5. server \notin {"none", "created"}
  BY <1>1 DEF D!DcInv
<1>6. ASSUME NEW d \in Daemons
      PROVE  D!OfDaemon(d, queue) = D!OfDaemon(d, queue') + (IF s = d THEN 1 ELSE 0)
  BY <1>1, OfDaemonTail
<1> HIDE DEF s
<1>7. \E o : o \in {<<>>, <<s>>} /\ D!tell(o)
  BY <1>4
<1>8. PICK order : order \in {<<>>, <<s>>} /\ D!tell(order)
  BY <1>7
<1>15. order \in Seq(Daemons) /\ \A i \in DOMAIN order : order[i] = s
  <2>1. CASE order = <<>>
    BY <2>1
  <2>2. CASE order = <<s>>
    BY <1>3, <2>2
  <2> QED BY <1>8, <2>1, <2>2
<1>9. /\ msgTask' \in Seq(D!Notices) /\ told' \in [Daemons -> Nat]
      /\ \A d \in Daemons : /\ D!OfDaemon(d, msgTask') \in Nat
                            /\ told'[d] = told[d] + D!OfDaemon(d, msgTask')
                            /\ told'[d] # told[d] => d = s
  <2>1. /\ msgTask' \in Seq(D!Notices) /\ told' \in [Daemons -> Nat]
        /\ \A d \in Daemons :
             /\ D!OfDaemon(d, msgTask') \in Nat
             /\ told'[d] = told[d] + D!OfDaemon(d, msgTask')
             /\ told'[d] # told[d] => \E i \in DOMAIN order : order[i] = d
    BY <1>1, <1>8, <1>15, TellNotices
  <2> QED BY <1>15, <2>1
<1>10. /\ taken' \in [Daemons -> Nat]
       /\ \A d \in Daemons : taken'[d] = taken[d] + (IF s = d THEN 1 ELSE 0) /\ taken[d] \in Nat
  BY <1>1, <1>3
<1>11. subscribers' \subseteq {d \in Daemons : taken'[d] > 0}
  BY <1>1, <1>3, <1>4, <1>10
<1>12. D!DcInv'
  BY <1>1, <1>2, <1>5, <1>9, <1>10, <1>11, SameMessages DEF D!DcInv
<1>13. ASSUME pipes, NEW d \in Daemons
       PROVE  /\ made[d] = D!AtServer(d) + dropped[d] + D!OfDaemon(d, queue') + taken'[d]
              /\ told'[d] = D!OfDaemon(d, msgTask') + Len(responses[d]) + read[d]
              /\ told'[d] > 0 => taken'[d] > 0
  <2> DEFINE x == IF s = d THEN 1 ELSE 0
  <2>1. x \in {0, 1} /\ D!OfDaemon(d, queue) = D!OfDaemon(d, queue') + x
        /\ taken'[d] = taken[d] + x
    BY <1>6, <1>10
  <2>2. D!OfDaemon(d, queue') \in Nat
    BY <1>1, <1>2, OfDaemonNat
  <2>3. /\ made[d] = D!AtServer(d) + dropped[d] + D!OfDaemon(d, queue) + taken[d]
        /\ told[d] = D!OfDaemon(d, <<>>) + Len(responses[d]) + read[d]
        /\ told[d] > 0 => taken[d] > 0
    BY <1>1, <1>13 DEF D!RequestsAccounted
  <2>4. told'[d] > 0 => taken'[d] > 0
    <3>1. told'[d] # told[d] => s = d
      BY <1>9
    <3>2. CASE s = d
      BY <1>10, <3>2
    <3>3. CASE s # d
      BY <1>10, <2>3, <3>1, <3>3
    <3> QED BY <3>2, <3>3
  <2> HIDE DEF x
  <2>5. made[d] = D!AtServer(d) + dropped[d] + D!OfDaemon(d, queue') + taken'[d]
    <3>1. D!AtServer(d) \in Nat /\ dropped[d] \in Nat /\ taken[d] \in Nat
      BY CountsOfDaemons
    <3> DEFINE q0 == D!OfDaemon(d, queue)
               q1 == D!OfDaemon(d, queue')
               a0 == D!AtServer(d)
    <3>2. /\ q0 = q1 + x /\ taken'[d] = taken[d] + x /\ x \in {0, 1} /\ q1 \in Nat
          /\ made[d] = a0 + dropped[d] + q0 + taken[d]
          /\ a0 \in Nat /\ dropped[d] \in Nat /\ taken[d] \in Nat
      BY <2>1, <2>2, <2>3, <3>1
    <3> HIDE DEF q0, q1, a0
    <3>3. made[d] = a0 + dropped[d] + q1 + taken'[d]
      BY <3>2
    <3> QED BY <3>3 DEF a0, q1
  <2>6. told'[d] = D!OfDaemon(d, msgTask') + Len(responses[d]) + read[d]
    <3>1. /\ D!OfDaemon(d, <<>>) = 0 /\ Len(responses[d]) \in Nat /\ read[d] \in Nat
          /\ told[d] \in Nat
      BY CountsOfDaemons
    <3>2. told'[d] = told[d] + D!OfDaemon(d, msgTask') /\ D!OfDaemon(d, msgTask') \in Nat
      BY <1>9
    <3>3. told[d] = Len(responses[d]) + read[d]
      BY <2>3, <3>1
    <3> QED BY <3>1, <3>2, <3>3
  <2> QED BY <2>4, <2>5, <2>6
<1>14. \A d \in Daemons : D!AtServer(d)' = D!AtServer(d)
  BY <1>1 DEF D!AtServer
<1> QED BY <1>1, <1>12, <1>13, <1>14 DEF D!RequestsAccounted

(* The arbiters' other events: those told have asked.                      *)
LEMMA EventKeeps ==
  ASSUME D!DcInv, D!RequestsAccounted, D!onRsrcEvent
  PROVE  D!DcInv' /\ D!RequestsAccounted'
<1>1. /\ msgTask = <<>> /\ told \in [Daemons -> Nat]
      /\ subscribers \subseteq {d \in Daemons : taken[d] > 0}
      /\ subscribers' \subseteq subscribers /\ queue' = queue
      /\ pipe' = pipe /\ pipes' = pipes /\ responses' = responses
      /\ made' = made /\ dropped' = dropped /\ taken' = taken /\ read' = read
      /\ launcher' = launcher /\ server' = server /\ dHandled' = dHandled
  BY DEF D!DcInv, D!onRsrcEvent
<1>2. CASE msgTask' = msgTask /\ told' = told
  <2>1. D!DcInv'
    BY <1>1, <1>2, SameMessages DEF D!DcInv
  <2> QED BY <1>1, <1>2, <2>1 DEF D!RequestsAccounted, D!AtServer
<1>3. CASE ~(msgTask' = msgTask /\ told' = told)
  <2>1. PICK order \in D!Orders(subscribers) : D!tell(order)
    BY <1>3 DEF D!onRsrcEvent
  <2>2. PICK n \in 1 .. D!Cardinality(subscribers) : order \in [1 .. n -> subscribers]
    BY <2>1 DEF D!Orders
  <2>3. n \in Nat
    <3>1. IsFiniteSet(subscribers)
      <4>1. IsFiniteSet(Daemons)
        <5>1. Daemons = {"QUIPC"} \cup {"MSAPM"} \cup {"GPSONE_DAEMON"}
          BY DEF Daemons
        <5>2. IsFiniteSet({"QUIPC"}) /\ IsFiniteSet({"MSAPM"}) /\ IsFiniteSet({"GPSONE_DAEMON"})
          BY FS_Singleton
        <5> QED BY <5>1, <5>2, FS_Union
      <4> QED BY <1>1, <4>1, FS_Subset
    <3>2. D!Cardinality(subscribers) \in Nat
      BY <3>1, FS_CardinalityType
         DEF Cardinality, D!Cardinality, IsFiniteSet, D!IsFiniteSet
    <3> QED BY <2>2, <3>2
  <2>4. order \in Seq(Daemons) /\ \A i \in DOMAIN order : order[i] \in subscribers
    BY <1>1, <2>2, <2>3, SeqDef
  <2>5. /\ msgTask' \in Seq(D!Notices) /\ told' \in [Daemons -> Nat]
        /\ \A d \in Daemons :
             /\ D!OfDaemon(d, msgTask') \in Nat
             /\ told'[d] = told[d] + D!OfDaemon(d, msgTask')
             /\ told'[d] # told[d] => \E i \in DOMAIN order : order[i] = d
    BY <1>1, <2>1, <2>4, TellNotices
  <2>6. server \notin {"none", "created"}
    <3>1. server \in {"none", "created"} => subscribers = {}
      BY <1>1 DEF D!DcInv
    <3>2. 1 \in DOMAIN order
      BY <2>2, <2>3
    <3> QED BY <2>4, <3>1, <3>2
  <2>7. D!DcInv'
    BY <1>1, <2>5, <2>6, SameMessages DEF D!DcInv
  <2>8. ASSUME pipes, NEW d \in Daemons
        PROVE  /\ made[d] = D!AtServer(d) + dropped[d] + D!OfDaemon(d, queue) + taken[d]
               /\ told'[d] = D!OfDaemon(d, msgTask') + Len(responses[d]) + read[d]
               /\ told'[d] > 0 => taken[d] > 0
    <3>1. /\ made[d] = D!AtServer(d) + dropped[d] + D!OfDaemon(d, queue) + taken[d]
          /\ told[d] = D!OfDaemon(d, <<>>) + Len(responses[d]) + read[d]
          /\ told[d] > 0 => taken[d] > 0
      BY <1>1, <2>8 DEF D!RequestsAccounted
    <3>2. told'[d] = D!OfDaemon(d, msgTask') + Len(responses[d]) + read[d]
      <4>1. /\ D!OfDaemon(d, <<>>) = 0 /\ Len(responses[d]) \in Nat /\ read[d] \in Nat
            /\ told[d] \in Nat
        BY CountsOfDaemons
      <4>2. told'[d] = told[d] + D!OfDaemon(d, msgTask') /\ D!OfDaemon(d, msgTask') \in Nat
        BY <2>5
      <4>3. told[d] = Len(responses[d]) + read[d]
        BY <3>1, <4>1
      <4> QED BY <4>1, <4>2, <4>3
    <3>3. told'[d] # told[d] => d \in subscribers
      BY <2>4, <2>5
    <3> QED BY <1>1, <3>1, <3>2, <3>3
  <2>9. \A d \in Daemons : D!AtServer(d)' = D!AtServer(d)
    BY <1>1 DEF D!AtServer
  <2> QED BY <1>1, <2>7, <2>8, <2>9 DEF D!RequestsAccounted
<1> QED BY <1>2, <1>3

(* data_conn: the notice is on the pipe of the daemon that is told.        *)
LEMMA DataConnKeeps ==
  ASSUME D!DcInv, D!RequestsAccounted, D!data_conn
  PROVE  D!DcInv' /\ D!RequestsAccounted'
<1> DEFINE n == Head(msgTask)
           to == D!PipeOf(n)
<1>1. /\ msgTask \in Seq(D!Notices) /\ msgTask # <<>> /\ msgTask' = Tail(msgTask)
      /\ responses \in [Daemons -> Seq({"RESPONSE"})]
      /\ queue' = queue /\ pipe' = pipe /\ pipes' = pipes /\ subscribers' = subscribers
      /\ made' = made /\ dropped' = dropped /\ taken' = taken /\ told' = told /\ read' = read
      /\ launcher' = launcher /\ server' = server /\ dHandled' = dHandled
  BY DEF D!DcInv, D!data_conn, D!counts
<1>2. n \in D!Notices /\ Tail(msgTask) \in Seq(D!Notices)
  BY <1>1
<1>3. to = n.sender /\ to \in Daemons
  BY <1>2, NoticeOfDaemon
<1>4. \/ pipes /\ responses' = [responses EXCEPT ![to] = Append(responses[to], "RESPONSE")]
      \/ ~pipes /\ responses' = responses
  BY Zenon DEF D!data_conn
<1> HIDE DEF to
<1>5. responses' \in [Daemons -> Seq({"RESPONSE"})]
  <2>1. Append(responses[to], "RESPONSE") \in Seq({"RESPONSE"})
    BY <1>1, <1>3
  <2> QED BY <1>1, <1>3, <1>4, <2>1
<1>6. server \notin {"none", "created"}
  BY <1>1 DEF D!DcInv
<1>7. D!DcInv'
  <2> HIDE DEF n
  <2> QED BY <1>1, <1>2, <1>5, <1>6, SameMessages DEF D!DcInv
<1>8. ASSUME pipes, NEW d \in Daemons
      PROVE  told[d] = D!OfDaemon(d, msgTask') + Len(responses'[d]) + read[d]
  <2> DEFINE x == IF n.sender = d THEN 1 ELSE 0
  <2>1. x \in {0, 1}
    OBVIOUS
  <2>2. D!OfDaemon(d, msgTask) = D!OfDaemon(d, msgTask') + x
    BY <1>1, OfDaemonTail
  <2>3. D!OfDaemon(d, msgTask') \in Nat
    BY <1>1, <1>2, OfDaemonNat
  <2>4. Len(responses'[d]) = Len(responses[d]) + x
    BY <1>1, <1>3, <1>4, <1>8
  <2> HIDE DEF x, n
  <2>5. told[d] = D!OfDaemon(d, msgTask) + Len(responses[d]) + read[d]
    BY <1>8 DEF D!RequestsAccounted
  <2> QED BY <2>1, <2>2, <2>3, <2>4, <2>5, CountsOfDaemons
<1> HIDE DEF n
<1> QED BY <1>1, <1>7, <1>8 DEF D!RequestsAccounted, D!AtServer

(* A daemon reads an answer of its own.                                    *)
LEMMA ReadKeeps ==
  ASSUME D!DcInv, D!RequestsAccounted, NEW r \in Daemons, D!daemonReads(r)
  PROVE  D!DcInv' /\ D!RequestsAccounted'
<1>1. /\ responses \in [Daemons -> Seq({"RESPONSE"})] /\ read \in [Daemons -> Nat]
      /\ responses[r] # <<>> /\ responses' = [responses EXCEPT ![r] = Tail(responses[r])]
      /\ read' = [read EXCEPT ![r] = read[r] + 1]
      /\ msgTask' = msgTask /\ subscribers' = subscribers
      /\ queue' = queue /\ pipe' = pipe /\ pipes' = pipes
      /\ made' = made /\ dropped' = dropped /\ taken' = taken /\ told' = told
      /\ launcher' = launcher /\ server' = server /\ dHandled' = dHandled
  BY DEF D!DcInv, D!daemonReads, D!arbiters
<1>2. /\ Tail(responses[r]) \in Seq({"RESPONSE"})
      /\ Len(Tail(responses[r])) = Len(responses[r]) - 1 /\ Len(responses[r]) \in Nat
  BY <1>1, HeadTailProperties
<1>3. /\ responses' \in [Daemons -> Seq({"RESPONSE"})] /\ read' \in [Daemons -> Nat]
      /\ responses'[r] = Tail(responses[r]) /\ read'[r] = read[r] + 1
      /\ \A d \in Daemons : d # r => responses'[d] = responses[d] /\ read'[d] = read[d]
  BY <1>1, <1>2
<1>4. server \notin {"none", "created"}
  BY <1>1 DEF D!DcInv
<1>5. D!DcInv'
  BY <1>1, <1>3, <1>4, SameMessages DEF D!DcInv
<1>6. ASSUME NEW d \in Daemons
      PROVE  Len(responses'[d]) + read'[d] = Len(responses[d]) + read[d]
             /\ Len(responses'[d]) \in Nat /\ read'[d] \in Nat
  <2>1. CASE d = r
    <3>1. read[r] \in Nat
      BY <1>1
    <3>2. /\ Len(Tail(responses[r])) \in Nat
          /\ Len(responses'[d]) = Len(Tail(responses[r])) /\ read'[d] = read[r] + 1
      BY <1>2, <1>3, <2>1, LenProperties
    <3> DEFINE left == Len(Tail(responses[r]))
               lain == Len(responses[r])
    <3>3. left \in Nat /\ lain \in Nat /\ left = lain - 1
      BY <1>2, <3>2
    <3> HIDE DEF left, lain
    <3>4. left + (read[r] + 1) = lain + read[r] /\ read[r] + 1 \in Nat
      BY <3>1, <3>3
    <3> QED BY <2>1, <3>2, <3>3, <3>4 DEF left, lain
  <2>2. CASE d # r
    BY <1>3, <2>2, CountsOfDaemons
  <2> QED BY <2>1, <2>2
<1>7. ASSUME pipes, NEW d \in Daemons
      PROVE  told[d] = D!OfDaemon(d, msgTask) + Len(responses'[d]) + read'[d]
  <2>1. told[d] = D!OfDaemon(d, msgTask) + Len(responses[d]) + read[d]
    BY <1>7 DEF D!RequestsAccounted
  <2>2. /\ D!OfDaemon(d, msgTask) \in Nat /\ Len(responses[d]) \in Nat /\ read[d] \in Nat
    BY CountsOfDaemons
  <2>3. /\ Len(responses'[d]) \in Nat /\ read'[d] \in Nat
        /\ Len(responses'[d]) + read'[d] = Len(responses[d]) + read[d]
    BY <1>6
  <2> DEFINE inTask == D!OfDaemon(d, msgTask)
             lain   == Len(responses[d])
             left   == Len(responses'[d])
             had    == read[d]
             has    == read'[d]
  <2>4. /\ inTask \in Nat /\ lain \in Nat /\ left \in Nat /\ had \in Nat /\ has \in Nat
        /\ told[d] = inTask + lain + had /\ left + has = lain + had
    BY <2>1, <2>2, <2>3
  <2>5. told[d] = inTask + left + has
    <3> HIDE DEF inTask, lain, left, had, has
    <3> QED BY <2>4
  <2> QED BY <2>5
<1> QED BY <1>1, <1>5, <1>7 DEF D!RequestsAccounted, D!AtServer

(* Unblocking writes a message that is no daemon's.                        *)
LEMMA UnblockKeeps ==
  ASSUME D!DcInv, D!RequestsAccounted, D!unblock
  PROVE  D!DcInv' /\ D!RequestsAccounted'
<1>1. /\ pipe \in Seq(D!Asked) /\ pipes' = pipes /\ responses' = responses
      /\ server' = server /\ dHandled' = dHandled /\ queue' = queue /\ msgTask' = msgTask
      /\ subscribers' = subscribers /\ made' = made /\ dropped' = dropped
      /\ taken' = taken /\ told' = told /\ read' = read
      /\ launcher # "idle" /\ launcher' # "idle"
  BY DEF D!DcInv, D!unblock, D!counts, D!arbiters
<1>2. pipe' = pipe \/ (pipes /\ pipe' = Append(pipe, D!Unblock))
  <2>1. D!setExit \/ D!sendUnblock
    BY DEF D!unblock, D!UnblockStep
  <2>2. D!sendUnblock => (pipe' = pipe \/ (pipes /\ pipe' = Append(pipe, D!Unblock)))
    BY DEF D!sendUnblock
  <2> QED BY <2>1, <2>2 DEF D!setExit
<1>3. D!Unblock \in D!Asked /\ D!Unblock.sender \notin Daemons
  BY DEF D!Asked, D!Unblock, D!Message, Daemons
<1>4. pipe' \in Seq(D!Asked) /\ (server \in {"none", "created"} => pipe' = pipe)
  <2>1. pipes => server \notin {"none", "created"}
    BY DEF D!DcInv
  <2>2. Append(pipe, D!Unblock) \in Seq(D!Asked)
    BY <1>1, <1>3
  <2> QED BY <1>1, <1>2, <2>1, <2>2
<1>5. D!DcInv'
  BY <1>1, <1>4, SameMessages DEF D!DcInv
<1>6. ASSUME NEW d \in Daemons PROVE D!AtServer(d)' = D!AtServer(d)
  <2>1. D!OfDaemon(d, Append(pipe, D!Unblock)) = D!OfDaemon(d, pipe)
    BY <1>1, <1>3, OfDaemonAppend, CountsOfDaemons
  <2> QED BY <1>1, <1>2, <2>1 DEF D!AtServer
<1> QED BY <1>1, <1>5, <1>6 DEF D!RequestsAccounted

(* For any number of messages and notices, pipe size and failing reads:    *)
(* while the server of loc_eng_dmn_conn runs, each daemon's messages are   *)
(* accounted for, whether the handlers know them or drop them; and         *)
(* whatever the arbiters tell a daemon is written on its own pipe.         *)
THEOREM RequestsAreAccounted == MCSpec => []RequestsAccounted
<1> DEFINE Inv == part = "daemon" => D!DcInv /\ D!RequestsAccounted
<1>1. MCInit => Inv
  <2> SUFFICES ASSUME MCInit PROVE D!DcInv /\ ~pipes
    BY DEF D!RequestsAccounted
  <2>1. /\ pipe = <<>> /\ dHandled = <<>> /\ queue = <<>> /\ msgTask = <<>>
        /\ responses = [d \in Daemons |-> <<>>] /\ pipes = FALSE /\ server = "none"
        /\ subscribers = {}
        /\ made = [d \in Daemons |-> 0] /\ dropped = [d \in Daemons |-> 0]
        /\ taken = [d \in Daemons |-> 0] /\ told = [d \in Daemons |-> 0]
        /\ read = [d \in Daemons |-> 0]
    BY DEF MCInit, D!DcInit
  <2>2. /\ pipe \in Seq(D!Asked) /\ dHandled \in Seq(D!Asked) /\ queue \in Seq(D!Queued)
        /\ msgTask \in Seq(D!Notices)
    BY <2>1, EmptySeq
  <2>3. responses \in [Daemons -> Seq({"RESPONSE"})]
    BY <2>1, EmptySeq
  <2>4. /\ made \in [Daemons -> Nat] /\ dropped \in [Daemons -> Nat]
        /\ taken \in [Daemons -> Nat] /\ told \in [Daemons -> Nat] /\ read \in [Daemons -> Nat]
        /\ \A d \in Daemons : /\ made[d] = 0 /\ dropped[d] = 0 /\ taken[d] = 0
                              /\ told[d] = 0 /\ read[d] = 0 /\ responses[d] = <<>>
    BY <2>1
  <2>5. pipes \in BOOLEAN /\ ~pipes
    BY <2>1
  <2>6. IF server = "handling" THEN Len(dHandled) = 1 ELSE dHandled = <<>>
    BY <2>1
  <2> QED BY <2>1, <2>2, <2>3, <2>4, <2>5, <2>6 DEF D!DcInv
<1>2. Inv /\ [MCNext]_all => Inv'
  <2> SUFFICES ASSUME Inv, [MCNext]_all, part' = "daemon" PROVE D!DcInv' /\ D!RequestsAccounted'
    OBVIOUS
  <2>1. CASE Daemon(D!DcNext)
    <3>1. D!DcInv /\ D!RequestsAccounted /\ D!DcNext
      BY <2>1 DEF Daemon
    <3> QED BY <3>1, LaunchKeeps, OpenKeeps, WriteKeeps, MsgrcvKeeps, HandleKeeps, LoopKeeps,
               ProcKeeps, EventKeeps, DataConnKeeps, ReadKeeps, UnblockKeeps DEF D!DcNext
  <2>2. CASE part = "daemon" /\ UNCHANGED daemon
    BY <2>2, LaunchKeeps
  <2> QED BY <2>1, <2>2 DEF MCNext, Ni, Task, Daemon, Timer, all
<1>3. Inv => RequestsAccounted
  BY DEF RequestsAccounted
<1> QED BY <1>1, <1>2, <1>3, PTL DEF MCSpec

-----------------------------------------------------------------------------
(* LocEngNi.                                                               *)

Holders(k) == {j \in Requests : \E a \in out[j] : a.request = k}
Answers(k) == {a \in Answer : a.request = k}

(* The numbers of owners are natural numbers.                              *)
LEMMA OwnersNat ==
  ASSUME TypeOK, NEW k \in Requests
  PROVE  /\ InProgress(k) \in {0, 1} /\ WithThread(k) \in Nat /\ InQueue(k) \in Nat
         /\ IsFiniteSet(Holders(k)) /\ WithThread(k) = Cardinality(Holders(k))
         /\ InQueue(k) = CountIn(messages, Answers(k))
         /\ Owners(k) \in Nat
<1>1. IsFiniteSet(1 .. MaxRequests)
  BY NiAssumption, FS_Interval
<1>2. IsFiniteSet(Holders(k)) /\ Cardinality(Holders(k)) \in Nat
  BY <1>1, FS_Subset, FS_CardinalityType DEF Holders, Requests
<1>3. messages \in Seq(Answer)
  BY DEF TypeOK
<1>4. {i \in DOMAIN messages : messages[i].request = k} = Places(messages, Answers(k))
  BY <1>3 DEF Places, Answers
<1>5. CountIn(messages, Answers(k)) \in Nat
  BY <1>3, PlacesFinite
<1>6. InProgress(k) \in {0, 1}
  BY DEF InProgress
<1>7. WithThread(k) = Cardinality(Holders(k)) /\ InQueue(k) = CountIn(messages, Answers(k))
  BY <1>4 DEF WithThread, Holders, InQueue, CountIn
<1> QED BY <1>2, <1>5, <1>6, <1>7 DEF Owners

(* A step that moves no payload and neither begins nor ends the waiting of *)
(* a thread keeps NiInv.                                                   *)
LEMMA QuietKeeps ==
  ASSUME NiInv, TypeOK',
         rawRequest' = rawRequest, out' = out, messages' = messages,
         answered' = answered, freed' = freed, seen' = seen,
         restarts' = restarts \/ restarts' > 0,
         \A k \in Requests : /\ thread'[k] \in Waiting <=> thread[k] \in Waiting
                             /\ thread'[k] = "leaving" <=> thread[k] = "leaving"
                             /\ thread'[k] = "none" <=> thread[k] = "none",
         handler' \in {"freeing", "clearing", "signalling"} => restarts' > 0,
         handler' = "notify" => seen > 0
  PROVE  NiInv'
<1>1. \A k \in Requests : Owners(k)' = Owners(k)
  BY DEF Owners, InProgress, WithThread, InQueue
<1>2. restarts' = 0 => restarts = 0
  BY DEF NiInv, TypeOK
<1>3. PayloadOwnedOnce' /\ ThreadOwnsRequest'
  <2>1. PayloadOwnedOnce /\ ThreadOwnsRequest
    BY DEF NiInv
  <2>2. PayloadOwnedOnce'
    <3>1. seen \in 0 .. MaxRequests
      BY DEF NiInv, TypeOK
    <3>2. \A k \in 1 .. seen : k \in Requests
      BY <3>1, NiAssumption DEF Requests
    <3> QED BY <1>1, <1>2, <2>1, <3>2 DEF PayloadOwnedOnce
  <2>3. ThreadOwnsRequest'
    BY <1>2, <2>1 DEF ThreadOwnsRequest
  <2> QED BY <2>2, <2>3
<1>4. AnswersMade'
  BY DEF NiInv, AnswersMade
<1>5. NoneAhead'
  BY <1>1 DEF NiInv, NoneAhead
<1>6. OneOwner'
  BY <1>1 DEF NiInv, OneOwner
<1> QED BY <1>3, <1>4, <1>5, <1>6 DEF NiInv, HandlerSound

(* The user's responses, wakeups, the notification and the first and last  *)
(* step of a reset are such steps.                                         *)
LEMMA QuietSteps ==
  ASSUME NiInv,
         \/ ni_notify_cb \/ resetTests \/ resetSignals \/ UNCHANGED vars
         \/ \E k \in Requests : spuriousWakeup(k) \/ respondTests(k) \/ respondSets(k)
  PROVE  NiInv'
<1>0. TypeOK
  BY DEF NiInv
<1>1. /\ rawRequest' = rawRequest /\ out' = out /\ messages' = messages
      /\ answered' = answered /\ freed' = freed /\ seen' = seen /\ reqID' = reqID
      /\ notifId' = notifId
  BY DEF ni_notify_cb, resetTests, resetSignals, spuriousWakeup, respondTests, respondSets, vars
<1>2. \/ thread' = thread
      \/ \E k \in Requests : /\ thread[k] = "waiting"
                             /\ thread' = [thread EXCEPT ![k] = "woken"]
  BY DEF ni_notify_cb, resetTests, resetSignals, spuriousWakeup, respondTests, respondSets, vars,
         Signal
<1>3. /\ thread' \in [Requests -> ThreadStates]
      /\ \A k \in Requests : /\ thread'[k] \in Waiting <=> thread[k] \in Waiting
                             /\ thread'[k] = "leaving" <=> thread[k] = "leaving"
                             /\ thread'[k] = "none" <=> thread[k] = "none"
  <2>1. thread \in [Requests -> ThreadStates]
    BY <1>0 DEF TypeOK
  <2>2. ASSUME NEW k \in Requests, thread[k] = "waiting",
               thread' = [thread EXCEPT ![k] = "woken"]
        PROVE  /\ thread' \in [Requests -> ThreadStates]
               /\ \A j \in Requests : /\ thread'[j] \in Waiting <=> thread[j] \in Waiting
                                      /\ thread'[j] = "leaving" <=> thread[j] = "leaving"
                                      /\ thread'[j] = "none" <=> thread[j] = "none"
    BY <2>1, <2>2 DEF ThreadStates, Waiting
  <2>3. CASE thread' = thread
    BY <2>1, <2>3
  <2> QED BY <1>2, <2>2, <2>3
<1>4. restarts' = restarts \/ (restarts' = restarts + 1 /\ restarts < MaxRestarts)
  BY DEF ni_notify_cb, resetTests, resetSignals, spuriousWakeup, respondTests, respondSets, vars
<1>5. restarts' \in 0 .. MaxRestarts /\ (restarts' = restarts \/ restarts' > 0)
  BY <1>0, <1>4, NiAssumption DEF TypeOK
<1>6. /\ handler' \in {"idle", "notify", "freeing", "clearing", "signalling"}
      /\ handler' \in {"freeing", "clearing", "signalling"} => restarts' > 0
      /\ handler' = "notify" => seen > 0
  <2>1. CASE resetTests
    BY <1>0, <2>1 DEF resetTests, TypeOK
  <2>2. CASE ni_notify_cb \/ resetSignals
    BY <2>2 DEF ni_notify_cb, resetSignals
  <2>3. CASE handler' = handler /\ restarts' = restarts
    BY <2>3 DEF NiInv, HandlerSound, TypeOK
  <2> QED BY <2>1, <2>2, <2>3 DEF spuriousWakeup, respondTests, respondSets, vars
<1>7. respRecvd' \in BOOLEAN /\ resp' \in Requests \cup {NULL}
  BY <1>0 DEF TypeOK, ni_notify_cb, resetTests, resetSignals, spuriousWakeup, respondTests,
         respondSets, vars
<1>8. asked' \subseteq Requests /\ responding' \subseteq Requests
  <2>1. CASE ni_notify_cb
    <3>1. seen \in Requests
      BY <2>1 DEF NiInv, HandlerSound, TypeOK, ni_notify_cb, Requests
    <3> QED BY <1>0, <2>1, <3>1 DEF TypeOK, ni_notify_cb
  <2>2. CASE ~ni_notify_cb
    BY <1>0, <2>2 DEF TypeOK, resetTests, resetSignals, spuriousWakeup, respondTests,
         respondSets, vars
  <2> QED BY <2>1, <2>2
<1>9. TypeOK'
  BY <1>0, <1>1, <1>3, <1>5, <1>6, <1>7, <1>8 DEF TypeOK
<1>10. /\ restarts' = restarts \/ restarts' > 0
       /\ handler' \in {"freeing", "clearing", "signalling"} => restarts' > 0
       /\ handler' = "notify" => seen > 0
  BY <1>5, <1>6
<1> QED BY <1>1, <1>3, <1>9, <1>10, QuietKeeps

(* loc_eng_ni_request_handler: a request saved is in progress and has its  *)
(* thread, one ignored is freed.                                           *)
LEMMA RequestKeeps ==
  ASSUME NiInv, request_handler
  PROVE  NiInv'
<1>n. PICK n : n = seen + 1
  OBVIOUS
<1>0. TypeOK /\ handler = "idle"
  BY DEF NiInv, request_handler
<1>1. /\ seen < MaxRequests /\ seen' = n /\ reqID' = reqID /\ respRecvd' = respRecvd
      /\ resp' = resp /\ asked' = asked /\ out' = out /\ messages' = messages
      /\ responding' = responding /\ answered' = answered /\ restarts' = restarts
  BY <1>n DEF request_handler
<1>2. /\ n \in Requests /\ n > seen /\ n \in 0 .. MaxRequests /\ n # NULL /\ n > 0
      /\ \A k \in Requests : k > n => k > seen
      /\ \A k \in 1 .. n : k \in Requests /\ (k \in 1 .. seen \/ k = n)
  BY <1>n, <1>0, <1>1, NiAssumption DEF TypeOK, Requests, NULL
<1>3. thread[n] = "none" /\ Owners(n) = 0 /\ answered[n] = 0 /\ freed[n] = 0
  BY <1>2 DEF NiInv, NoneAhead
<1>4. /\ thread \in [Requests -> ThreadStates] /\ freed \in [Requests -> Nat]
      /\ answered \in [Requests -> Nat] /\ notifId \in [Requests -> Nat] /\ reqID \in Nat
      /\ rawRequest \in Requests \cup {NULL}
  BY <1>0 DEF TypeOK
<1>5. CASE rawRequest # NULL
  <2>1. /\ freed' = [freed EXCEPT ![n] = freed[n] + 1] /\ rawRequest' = rawRequest
        /\ notifId' = notifId /\ thread' = thread /\ handler' = handler
    BY <1>1, <1>5 DEF request_handler, Free
  <2>2. TypeOK'
    <3>1. freed' \in [Requests -> Nat]
      BY <1>2, <1>4, <2>1
    <3> QED BY <1>0, <1>1, <1>2, <2>1, <3>1 DEF TypeOK
  <2>3. \A k \in Requests : Owners(k)' = Owners(k)
    BY <1>1, <2>1 DEF Owners, InProgress, WithThread, InQueue
  <2>4. freed'[n] = 1 /\ \A k \in Requests : k # n => freed'[k] = freed[k]
    BY <1>2, <1>3, <1>4, <2>1
  <2>5. PayloadOwnedOnce'
    BY <1>1, <1>2, <1>3, <2>3, <2>4 DEF NiInv, PayloadOwnedOnce
  <2>6. ThreadOwnsRequest'
    BY <1>1, <2>1 DEF NiInv, ThreadOwnsRequest
  <2>7. NoneAhead'
    <3> SUFFICES ASSUME NEW k \in Requests, k > n
                 PROVE  thread[k] = "none" /\ Owners(k) = 0 /\ answered[k] = 0 /\ freed[k] = 0
                        /\ k # n
      BY <1>1, <2>1, <2>3, <2>4 DEF NoneAhead
    <3>1. k # n
      BY <1>2 DEF Requests
    <3> QED BY <1>2, <3>1 DEF NiInv, NoneAhead
  <2>8. OneOwner'
    BY <1>1, <2>3 DEF NiInv, OneOwner
  <2>9. AnswersMade'
    BY <1>1, <2>1 DEF NiInv, AnswersMade
  <2>10. handler' = "idle"
    BY <1>0, <2>1
  <2> QED BY <2>2, <2>5, <2>6, <2>7, <2>8, <2>9, <2>10 DEF NiInv, HandlerSound
<1>6. CASE rawRequest = NULL
  <2>1. /\ rawRequest' = n /\ notifId' = [notifId EXCEPT ![n] = reqID]
        /\ thread' = [thread EXCEPT ![n] = "created"]
        /\ handler' = "notify" /\ freed' = freed
    BY <1>1, <1>6 DEF request_handler
  <2>2. /\ thread' \in [Requests -> ThreadStates] /\ thread'[n] = "created"
        /\ \A k \in Requests : k # n => thread'[k] = thread[k]
        /\ notifId' \in [Requests -> Nat]
    BY <1>2, <1>4, <2>1 DEF ThreadStates
  <2>3. TypeOK'
    BY <1>0, <1>1, <1>2, <2>1, <2>2 DEF TypeOK
  <2>4. Owners(n)' = 1 /\ \A k \in Requests : k # n => Owners(k)' = Owners(k)
    <3>1. \A k \in Requests : WithThread(k)' = WithThread(k) /\ InQueue(k)' = InQueue(k)
      BY <1>1 DEF WithThread, InQueue
    <3>2. InProgress(n)' = 1 /\ InProgress(n) = 0
      BY <1>2, <1>6, <2>1 DEF InProgress
    <3>3. \A k \in Requests : k # n => InProgress(k)' = InProgress(k)
      BY <1>6, <2>1 DEF InProgress, Requests, NULL
    <3>4. WithThread(n) = 0 /\ InQueue(n) = 0
      <4>1. WithThread(n) \in Nat /\ InQueue(n) \in Nat
        BY <1>0, <1>2, OwnersNat
      <4> QED BY <1>3, <3>2, <4>1 DEF Owners
    <3> QED BY <1>2, <3>1, <3>2, <3>3, <3>4 DEF Owners
  <2>5. PayloadOwnedOnce'
    BY <1>1, <1>2, <1>3, <2>1, <2>4 DEF NiInv, PayloadOwnedOnce
  <2>6. ThreadOwnsRequest'
    <3> SUFFICES ASSUME restarts = 0, NEW k \in Requests
                 PROVE  n = k <=> thread'[k] \in Waiting
      BY <1>1, <2>1 DEF ThreadOwnsRequest
    <3>1. rawRequest = k <=> thread[k] \in Waiting
      BY DEF NiInv, ThreadOwnsRequest
    <3>2. rawRequest # k
      BY <1>6 DEF Requests, NULL
    <3> QED BY <2>2, <3>1, <3>2 DEF Waiting
  <2>7. NoneAhead'
    <3> SUFFICES ASSUME NEW k \in Requests, k > n
                 PROVE  thread[k] = "none" /\ Owners(k) = 0 /\ answered[k] = 0 /\ freed[k] = 0
                        /\ k # n
      BY <1>1, <2>1, <2>2, <2>4 DEF NoneAhead
    <3>1. k # n
      BY <1>2 DEF Requests
    <3> QED BY <1>2, <3>1 DEF NiInv, NoneAhead
  <2>8. OneOwner'
    BY <1>1, <1>3, <2>4 DEF NiInv, OneOwner
  <2>9. AnswersMade'
    BY <1>1, <1>3, <2>2 DEF NiInv, AnswersMade
  <2> QED BY <1>1, <1>2, <2>1, <2>3, <2>5, <2>6, <2>7, <2>8, <2>9 DEF NiInv, HandlerSound
<1> QED BY <1>5, <1>6

(* LocEngInformNiResponse: the payload of a message becomes an answer, and *)
(* is freed.                                                               *)
LEMMA InformKeeps ==
  ASSUME NiInv, informNiResponse
  PROVE  NiInv'
<1>0. TypeOK /\ handler = "idle"
  BY DEF NiInv, informNiResponse
<1>1. /\ messages \in Seq(Answer) /\ messages # <<>> /\ answered \in [Requests -> Nat]
      /\ freed \in [Requests -> Nat]
  BY <1>0 DEF TypeOK, informNiResponse
<1>2. Head(messages) \in Answer /\ Tail(messages) \in Seq(Answer)
  BY <1>1
<1>3. PICK r : r = Head(messages).request
  OBVIOUS
<1>4. r \in Requests
  BY <1>2, <1>3 DEF Answer
<1>5. /\ freed' = [freed EXCEPT ![r] = freed[r] + 1] /\ messages' = Tail(messages)
      /\ answered' = [answered EXCEPT ![r] = answered[r] + 1]
      /\ rawRequest' = rawRequest /\ reqID' = reqID /\ respRecvd' = respRecvd /\ resp' = resp
      /\ handler' = handler /\ seen' = seen /\ notifId' = notifId /\ asked' = asked
      /\ thread' = thread /\ out' = out /\ responding' = responding /\ restarts' = restarts
  BY <1>3 DEF informNiResponse, Free
<1>6. /\ freed' \in [Requests -> Nat] /\ answered' \in [Requests -> Nat]
      /\ freed'[r] = freed[r] + 1 /\ answered'[r] = answered[r] + 1
      /\ \A k \in Requests : k # r => freed'[k] = freed[k] /\ answered'[k] = answered[k]
  BY <1>1, <1>4, <1>5
<1>7. TypeOK'
  BY <1>0, <1>2, <1>5, <1>6 DEF TypeOK
<1>8. /\ Owners(r) = Owners(r)' + 1 /\ Owners(r)' \in Nat
      /\ \A k \in Requests : k # r => Owners(k)' = Owners(k)
  <2>1. ASSUME NEW k \in Requests
        PROVE  InQueue(k) = InQueue(k)' + (IF k = r THEN 1 ELSE 0) /\ InQueue(k)' \in Nat
    <3>1. CountIn(messages, Answers(k)) = CountIn(Tail(messages), Answers(k))
                                          + (IF Head(messages) \in Answers(k) THEN 1 ELSE 0)
      BY <1>1, CountTail
    <3>2. Head(messages) \in Answers(k) <=> k = r
      BY <1>2, <1>3 DEF Answers
    <3>3. InQueue(k) = CountIn(messages, Answers(k))
      BY <1>0, OwnersNat
    <3>4. InQueue(k)' = CountIn(Tail(messages), Answers(k)) /\ InQueue(k)' \in Nat
      <4>1. {i \in DOMAIN Tail(messages) : Tail(messages)[i].request = k}
             = Places(Tail(messages), Answers(k))
        BY <1>2 DEF Places, Answers
      <4>2. CountIn(Tail(messages), Answers(k)) \in Nat
        BY <1>2, PlacesFinite
      <4> QED BY <1>5, <4>1, <4>2 DEF InQueue, CountIn
    <3> QED BY <3>1, <3>2, <3>3, <3>4
  <2>2. \A k \in Requests : InProgress(k)' = InProgress(k) /\ WithThread(k)' = WithThread(k)
    BY <1>5 DEF InProgress, WithThread
  <2>3. \A k \in Requests : InProgress(k) \in {0, 1} /\ WithThread(k) \in Nat
    BY <1>0, OwnersNat
  <2>4. Owners(r)' \in Nat
    BY <1>4, <2>1, <2>2, <2>3 DEF Owners
  <2>5. Owners(r) = Owners(r)' + 1
    BY <1>4, <2>1, <2>2, <2>3 DEF Owners
  <2>6. ASSUME NEW k \in Requests, k # r PROVE Owners(k)' = Owners(k)
    <3>1. InQueue(k)' = InQueue(k)
      BY <2>1, <2>6
    <3> QED BY <2>2, <3>1 DEF Owners
  <2> QED BY <2>4, <2>5, <2>6
<1>9. ~(r > seen)
  <2>1. r > seen => Owners(r) = 0
    BY <1>4 DEF NiInv, NoneAhead
  <2> QED BY <1>8, <2>1
<1>10. PayloadOwnedOnce'
  <2> SUFFICES ASSUME restarts = 0, NEW k \in 1 .. seen PROVE Owners(k)' + freed'[k] = 1
    BY <1>5 DEF PayloadOwnedOnce
  <2>1. Owners(k) + freed[k] = 1
    BY DEF NiInv, PayloadOwnedOnce
  <2>2. k \in Requests
    BY <1>0, NiAssumption DEF TypeOK, Requests
  <2>3. CASE k = r
    BY <1>1, <1>6, <1>8, <2>1, <2>2, <2>3
  <2>4. CASE k # r
    BY <1>6, <1>8, <2>1, <2>2, <2>4
  <2> QED BY <2>3, <2>4
<1>11. ThreadOwnsRequest'
  BY <1>5 DEF NiInv, ThreadOwnsRequest
<1>12. NoneAhead'
  <2> SUFFICES ASSUME NEW k \in Requests, k > seen
               PROVE  /\ thread[k] = "none" /\ Owners(k) = 0 /\ answered[k] = 0
                      /\ freed[k] = 0 /\ k # r
    BY <1>5, <1>6, <1>8 DEF NoneAhead
  <2> QED BY <1>9 DEF NiInv, NoneAhead
<1>13. OneOwner'
  <2> SUFFICES ASSUME NEW k \in Requests PROVE Owners(k)' + answered'[k] <= 1
    BY DEF OneOwner
  <2>1. Owners(k) + answered[k] <= 1
    BY DEF NiInv, OneOwner
  <2>2. CASE k = r
    BY <1>1, <1>6, <1>8, <2>1, <2>2
  <2>3. CASE k # r
    BY <1>6, <1>8, <2>1, <2>3
  <2> QED BY <2>2, <2>3
<1>14. AnswersMade'
  BY <1>5 DEF NiInv, AnswersMade
<1> QED BY <1>0, <1>5, <1>7, <1>10, <1>11, <1>12, <1>13, <1>14 DEF NiInv, HandlerSound

(* A request in progress is one that was seen.                             *)
LEMMA InProgressSeen ==
  ASSUME NiInv, NEW k \in Requests, rawRequest = k
  PROVE  ~(k > seen) /\ WithThread(k) = 0 /\ InQueue(k) = 0 /\ answered[k] = 0
<1>1. InProgress(k) = 1 /\ WithThread(k) \in Nat /\ InQueue(k) \in Nat
  BY OwnersNat DEF NiInv, InProgress
<1>2. Owners(k) + answered[k] <= 1 /\ (k > seen => Owners(k) = 0) /\ answered[k] \in Nat
  BY DEF NiInv, OneOwner, NoneAhead, TypeOK
<1> QED BY <1>1, <1>2 DEF Owners

(* loc_eng_ni_reset_on_engine_restart frees the request in progress...     *)
LEMMA ResetFreesKeeps ==
  ASSUME NiInv, resetFrees
  PROVE  NiInv'
<1>1. /\ rawRequest' = rawRequest /\ reqID' = reqID /\ respRecvd' = respRecvd /\ resp' = resp
      /\ seen' = seen /\ notifId' = notifId /\ asked' = asked /\ thread' = thread /\ out' = out
      /\ messages' = messages /\ responding' = responding /\ answered' = answered
      /\ restarts' = restarts /\ handler = "freeing" /\ handler' = "clearing"
  BY DEF resetFrees
<1>2. TypeOK /\ restarts > 0
  BY <1>1 DEF NiInv, HandlerSound
<1>3. /\ freed' \in [Requests -> Nat]
      /\ \A k \in Requests : k # rawRequest => freed'[k] = freed[k]
  <2>1. freed \in [Requests -> Nat] /\ rawRequest \in Requests \cup {NULL}
    BY <1>2 DEF TypeOK
  <2>2. freed' = freed \/ freed' = [freed EXCEPT ![rawRequest] = freed[rawRequest] + 1]
    BY DEF resetFrees, Free
  <2> QED BY <2>1, <2>2
<1>4. TypeOK'
  BY <1>1, <1>2, <1>3 DEF TypeOK
<1>5. \A k \in Requests : Owners(k)' = Owners(k)
  BY <1>1 DEF Owners, InProgress, WithThread, InQueue
<1>6. NoneAhead'
  <2> SUFFICES ASSUME NEW k \in Requests, k > seen
               PROVE  thread[k] = "none" /\ Owners(k) = 0 /\ answered[k] = 0 /\ freed'[k] = 0
    BY <1>1, <1>5 DEF NoneAhead
  <2>1. k # rawRequest
    BY InProgressSeen
  <2> QED BY <1>3, <2>1 DEF NiInv, NoneAhead
<1>7. OneOwner' /\ AnswersMade'
  BY <1>1, <1>5 DEF NiInv, OneOwner, AnswersMade
<1>8. restarts' # 0 /\ restarts' > 0
  BY <1>1, <1>2
<1> QED BY <1>1, <1>4, <1>6, <1>7, <1>8 DEF NiInv, HandlerSound, PayloadOwnedOnce, ThreadOwnsRequest

(* ... and then clears it.                                                 *)
LEMMA ResetClearsKeeps ==
  ASSUME NiInv, resetClears
  PROVE  NiInv'
<1>1. /\ rawRequest' = NULL /\ reqID' = reqID /\ respRecvd' = respRecvd /\ resp' = resp
      /\ seen' = seen /\ notifId' = notifId /\ asked' = asked /\ thread' = thread /\ out' = out
      /\ messages' = messages /\ responding' = responding /\ answered' = answered
      /\ freed' = freed
      /\ restarts' = restarts /\ handler = "clearing" /\ handler' = "signalling"
  BY DEF resetClears
<1>2. TypeOK /\ restarts > 0
  BY <1>1 DEF NiInv, HandlerSound
<1>3. TypeOK'
  BY <1>1, <1>2 DEF TypeOK
<1>4. ASSUME NEW k \in Requests PROVE Owners(k)' \in Nat /\ Owners(k)' <= Owners(k)
  <2>1. InProgress(k) \in {0, 1} /\ WithThread(k) \in Nat /\ InQueue(k) \in Nat
    BY <1>2, OwnersNat
  <2>2. InProgress(k)' = 0 /\ WithThread(k)' = WithThread(k) /\ InQueue(k)' = InQueue(k)
    BY <1>1 DEF InProgress, WithThread, InQueue, Requests, NULL
  <2> QED BY <2>1, <2>2 DEF Owners
<1>5. NoneAhead'
  <2> SUFFICES ASSUME NEW k \in Requests, k > seen
               PROVE  thread[k] = "none" /\ Owners(k)' = 0 /\ answered[k] = 0 /\ freed[k] = 0
    BY <1>1 DEF NoneAhead
  <2>1. thread[k] = "none" /\ Owners(k) = 0 /\ answered[k] = 0 /\ freed[k] = 0
    BY DEF NiInv, NoneAhead
  <2> QED BY <1>4, <2>1
<1>6. OneOwner'
  <2> SUFFICES ASSUME NEW k \in Requests PROVE Owners(k)' + answered[k] <= 1
    BY <1>1 DEF OneOwner
  <2>1. Owners(k) + answered[k] <= 1 /\ answered[k] \in Nat
    BY <1>2 DEF NiInv, OneOwner, TypeOK
  <2>2. Owners(k) \in Nat
    BY <1>2, OwnersNat
  <2> QED BY <1>4, <2>1, <2>2
<1>7. AnswersMade'
  BY <1>1 DEF NiInv, AnswersMade
<1>8. restarts' # 0 /\ restarts' > 0
  BY <1>1, <1>2
<1> QED BY <1>1, <1>3, <1>5, <1>6, <1>7, <1>8
        DEF NiInv, HandlerSound, PayloadOwnedOnce, ThreadOwnsRequest

(* ni_thread_proc after its loop: the request in progress becomes the      *)
(* answer of the thread.                                                   *)
LEMMA FinishKeeps ==
  ASSUME NiInv, NEW t \in Requests, thread[t] \in Waiting,
         NEW response \in Requests \cup {NULL}, finish(t, response),
         reqID' = reqID, resp' \in Requests \cup {NULL}, handler' = handler, seen' = seen,
         notifId' = notifId, asked' = asked, messages' = messages, responding' = responding,
         answered' = answered, freed' = freed, restarts' = restarts
  PROVE  NiInv'
<1>0. TypeOK
  BY DEF NiInv
<1>1. /\ rawRequest' = NULL /\ respRecvd' = FALSE
      /\ thread' = [thread EXCEPT ![t] = "leaving"]
      /\ rawRequest = NULL => out' = [out EXCEPT ![t] = {}]
      /\ rawRequest # NULL => out' = [out EXCEPT ![t] = {[request |-> rawRequest, resp |-> response]}]
  BY DEF finish
<1>2. thread \in [Requests -> ThreadStates] /\ out \in [Requests -> SUBSET Answer]
  BY <1>0 DEF TypeOK
<1>3. /\ thread' \in [Requests -> ThreadStates] /\ thread'[t] = "leaving"
      /\ \A k \in Requests : k # t => thread'[k] = thread[k]
  BY <1>1, <1>2 DEF ThreadStates
<1>4. out[t] = {} /\ thread[t] # "none" /\ thread[t] # "leaving"
  BY DEF NiInv, AnswersMade, Waiting
<1>5. PICK new \in SUBSET Answer : /\ new = {} \/ \E a \in Answer : new = {a}
                                  /\ out' = [out EXCEPT ![t] = new]
                                  /\ \A k \in Requests : (\E a \in new : a.request = k) <=> rawRequest = k
  <2>1. CASE rawRequest = NULL
    <3>1. \A k \in Requests : k # NULL
      BY DEF Requests, NULL
    <3>2. out' = [out EXCEPT ![t] = {}]
      BY <1>1, <2>1
    <3> WITNESS {} \in SUBSET Answer
    <3> QED BY <2>1, <3>1, <3>2
  <2>2. CASE rawRequest # NULL
    <3>1. rawRequest \in Requests
      BY <1>0, <2>2 DEF TypeOK
    <3>2. [request |-> rawRequest, resp |-> response] \in Answer
      BY <3>1 DEF Answer
    <3>3. PICK a : a = [request |-> rawRequest, resp |-> response]
      OBVIOUS
    <3>4. a \in Answer /\ a.request = rawRequest /\ out' = [out EXCEPT ![t] = {a}]
      BY <1>1, <2>2, <3>2, <3>3
    <3> WITNESS {a} \in SUBSET Answer
    <3> QED BY <3>1, <3>4
  <2> QED BY <2>1, <2>2
<1>6. /\ out' \in [Requests -> SUBSET Answer] /\ out'[t] = new
      /\ \A k \in Requests : k # t => out'[k] = out[k]
  BY <1>2, <1>5
<1>7. TypeOK'
  BY <1>0, <1>1, <1>3, <1>6 DEF TypeOK
<1>8. ASSUME NEW k \in Requests PROVE Owners(k)' = Owners(k)
  <2>1. InProgress(k)' = 0 /\ InQueue(k)' = InQueue(k)
    BY <1>1 DEF InProgress, InQueue, Requests, NULL
  <2>2. /\ IsFiniteSet(Holders(k)) /\ WithThread(k) = Cardinality(Holders(k))
        /\ WithThread(k) \in Nat /\ InQueue(k) \in Nat
    BY <1>0, OwnersNat
  <2>3. WithThread(k)' = Cardinality(Holders(k)')
    BY DEF WithThread, Holders
  <2>4. t \notin Holders(k)
    BY <1>4 DEF Holders
  <2>5. CASE rawRequest = k
    <3>1. Holders(k)' = Holders(k) \cup {t}
      BY <1>5, <1>6, <2>5 DEF Holders
    <3>2. WithThread(k)' = WithThread(k) + 1
      BY <2>2, <2>3, <2>4, <3>1, FS_AddElement
    <3>3. InProgress(k) = 1
      BY <2>5 DEF InProgress
    <3> QED BY <2>1, <2>2, <3>2, <3>3 DEF Owners
  <2>6. CASE rawRequest # k
    <3>1. Holders(k)' = Holders(k)
      BY <1>4, <1>5, <1>6, <2>6 DEF Holders
    <3>2. InProgress(k) = 0
      BY <2>6 DEF InProgress
    <3> QED BY <2>1, <2>2, <2>3, <3>1, <3>2 DEF Owners
  <2> QED BY <2>5, <2>6
<1>9. NoneAhead'
  <2> SUFFICES ASSUME NEW k \in Requests, k > seen
               PROVE  thread'[k] = "none" /\ Owners(k) = 0 /\ answered[k] = 0 /\ freed[k] = 0
    BY <1>8 DEF NoneAhead
  <2>1. thread[k] = "none" /\ Owners(k) = 0 /\ answered[k] = 0 /\ freed[k] = 0
    BY DEF NiInv, NoneAhead
  <2> QED BY <1>3, <1>4, <2>1
<1>10. OneOwner'
  BY <1>8 DEF NiInv, OneOwner
<1>11. AnswersMade'
  BY <1>3, <1>5, <1>6 DEF NiInv, AnswersMade
<1>12. PayloadOwnedOnce'
  <2>1. \A k \in 1 .. seen : k \in Requests
    BY <1>0, NiAssumption DEF TypeOK, Requests
  <2> QED BY <1>8, <2>1 DEF NiInv, PayloadOwnedOnce
<1>13. ThreadOwnsRequest'
  <2> SUFFICES ASSUME restarts = 0, NEW k \in Requests PROVE thread'[k] \notin Waiting
    BY <1>1 DEF ThreadOwnsRequest, Requests, NULL
  <2>1. CASE k = t
    BY <1>3, <2>1 DEF Waiting
  <2>2. CASE k # t
    <3>1. rawRequest = t /\ (rawRequest = k <=> thread[k] \in Waiting)
      BY DEF NiInv, ThreadOwnsRequest
    <3> QED BY <1>3, <2>2, <3>1
  <2> QED BY <2>1, <2>2
<1>14. HandlerSound'
  BY DEF NiInv, HandlerSound
<1> QED BY <1>7, <1>9, <1>10, <1>11, <1>12, <1>13, <1>14 DEF NiInv

(* The steps of a thread with tLock.                                       *)
LEMMA ThreadStepsKeep ==
  ASSUME NiInv, NEW t \in Requests, threadTests(t) \/ threadTimesOut(t)
  PROVE  NiInv'
<1>0. TypeOK
  BY DEF NiInv
<1>1. CASE threadTests(t) /\ ~respRecvd
  <2>1. /\ rawRequest' = rawRequest /\ out' = out /\ messages' = messages
        /\ answered' = answered /\ freed' = freed /\ seen' = seen /\ restarts' = restarts
        /\ reqID' = reqID /\ resp' = resp /\ handler' = handler /\ notifId' = notifId
        /\ asked' = asked /\ responding' = responding
        /\ thread' = [thread EXCEPT ![t] = "waiting"]
        /\ thread[t] \in {"created", "woken"}
    BY <1>1 DEF threadTests
  <2>2. thread \in [Requests -> ThreadStates] /\ respRecvd' \in BOOLEAN
    BY <1>0, <1>1 DEF TypeOK, threadTests
  <2>3. /\ thread' \in [Requests -> ThreadStates]
        /\ \A k \in Requests : /\ thread'[k] \in Waiting <=> thread[k] \in Waiting
                               /\ thread'[k] = "leaving" <=> thread[k] = "leaving"
                               /\ thread'[k] = "none" <=> thread[k] = "none"
    BY <2>1, <2>2 DEF ThreadStates, Waiting
  <2>4. TypeOK'
    BY <1>0, <2>1, <2>2, <2>3 DEF TypeOK
  <2>5. /\ handler' \in {"freeing", "clearing", "signalling"} => restarts' > 0
        /\ handler' = "notify" => seen > 0
    BY <2>1 DEF NiInv, HandlerSound
  <2> QED BY <2>1, <2>3, <2>4, <2>5, QuietKeeps
<1>2. CASE threadTests(t) /\ respRecvd
  <2>1. /\ finish(t, resp) /\ reqID' = reqID /\ resp' = resp /\ handler' = handler
        /\ seen' = seen /\ notifId' = notifId /\ asked' = asked /\ messages' = messages
        /\ responding' = responding /\ answered' = answered /\ freed' = freed
        /\ restarts' = restarts /\ thread[t] \in {"created", "woken"}
    BY <1>2 DEF threadTests
  <2>2. resp \in Requests \cup {NULL}
    BY <1>0 DEF TypeOK
  <2>3. thread[t] \in Waiting /\ resp' \in Requests \cup {NULL}
    BY <2>1, <2>2 DEF Waiting
  <2> QED BY <2>1, <2>2, <2>3, FinishKeeps
<1>3. CASE threadTimesOut(t)
  <2>1. /\ finish(t, NULL) /\ reqID' = reqID /\ resp' = NULL /\ handler' = handler
        /\ seen' = seen /\ notifId' = notifId /\ asked' = asked /\ messages' = messages
        /\ responding' = responding /\ answered' = answered /\ freed' = freed
        /\ restarts' = restarts /\ thread[t] \in {"waiting", "woken"}
    BY <1>3 DEF threadTimesOut
  <2>2. thread[t] \in Waiting /\ resp' \in Requests \cup {NULL}
    BY <2>1 DEF Waiting
  <2>3. NULL \in Requests \cup {NULL}
    OBVIOUS
  <2> QED BY <2>1, <2>2, <2>3, FinishKeeps
<1> QED BY <1>1, <1>2, <1>3

(* ni_thread_proc's last step: its answer becomes a message.               *)
LEMMA LeavesKeeps ==
  ASSUME NiInv, NEW t \in Requests, threadLeaves(t)
  PROVE  NiInv'
<1>0. TypeOK
  BY DEF NiInv
<1>1. /\ rawRequest' = rawRequest /\ reqID' = reqID + 1 /\ respRecvd' = respRecvd
      /\ resp' = resp /\ handler' = handler /\ seen' = seen /\ notifId' = notifId
      /\ asked' = asked /\ responding' = responding /\ answered' = answered /\ freed' = freed
      /\ restarts' = restarts /\ thread[t] = "leaving"
      /\ out' = [out EXCEPT ![t] = {}] /\ thread' = [thread EXCEPT ![t] = "gone"]
  BY DEF threadLeaves
<1>2. /\ thread \in [Requests -> ThreadStates] /\ out \in [Requests -> SUBSET Answer]
      /\ messages \in Seq(Answer)
  BY <1>0 DEF TypeOK
<1>3. /\ thread' \in [Requests -> ThreadStates] /\ thread'[t] = "gone"
      /\ \A k \in Requests : k # t => thread'[k] = thread[k]
  BY <1>1, <1>2 DEF ThreadStates
<1>4. /\ out' \in [Requests -> SUBSET Answer] /\ out'[t] = {}
      /\ \A k \in Requests : k # t => out'[k] = out[k]
  BY <1>1, <1>2
<1>5. \/ out[t] = {} /\ messages' = messages
      \/ \E a \in Answer : out[t] = {a} /\ messages' = Append(messages, a)
  <2>1. CASE out[t] = {}
    BY <2>1 DEF threadLeaves
  <2>2. CASE out[t] # {}
    <3>1. PICK a \in Answer : out[t] = {a}
      BY <2>2 DEF NiInv, AnswersMade
    <3>2. (CHOOSE b \in {a} : TRUE) = a
      OBVIOUS
    <3> QED BY <2>2, <3>1, <3>2 DEF threadLeaves
  <2> QED BY <2>1, <2>2
<1>6. messages' \in Seq(Answer)
  BY <1>2, <1>5, AppendProperties
<1>7. TypeOK'
  <2>1. /\ rawRequest' \in Requests \cup {NULL} /\ reqID' \in Nat /\ seen' \in 0 .. MaxRequests
        /\ respRecvd' \in BOOLEAN /\ resp' \in Requests \cup {NULL}
        /\ handler' \in {"idle", "notify", "freeing", "clearing", "signalling"}
        /\ notifId' \in [Requests -> Nat]
        /\ asked' \subseteq Requests /\ responding' \subseteq Requests
        /\ answered' \in [Requests -> Nat] /\ freed' \in [Requests -> Nat]
        /\ restarts' \in 0 .. MaxRestarts
    <3>1. /\ rawRequest \in Requests \cup {NULL} /\ reqID \in Nat /\ seen \in 0 .. MaxRequests
          /\ respRecvd \in BOOLEAN /\ resp \in Requests \cup {NULL}
          /\ handler \in {"idle", "notify", "freeing", "clearing", "signalling"}
          /\ notifId \in [Requests -> Nat]
          /\ asked \subseteq Requests /\ responding \subseteq Requests
          /\ answered \in [Requests -> Nat] /\ freed \in [Requests -> Nat]
          /\ restarts \in 0 .. MaxRestarts
      BY <1>0 DEF TypeOK
    <3> QED BY <1>1, <3>1
  <2> QED BY <1>3, <1>4, <1>6, <2>1 DEF TypeOK
<1>8. ASSUME NEW k \in Requests PROVE Owners(k)' = Owners(k)
  <2>1. InProgress(k)' = InProgress(k)
    BY <1>1 DEF InProgress
  <2>2. /\ IsFiniteSet(Holders(k)) /\ WithThread(k) = Cardinality(Holders(k))
        /\ InQueue(k) = CountIn(messages, Answers(k))
        /\ WithThread(k) \in Nat /\ InQueue(k) \in Nat /\ InProgress(k) \in {0, 1}
    BY <1>0, OwnersNat
  <2>3. WithThread(k)' = Cardinality(Holders(k)')
    BY DEF WithThread, Holders
  <2>4. Holders(k)' = Holders(k) \ {t}
    BY <1>4 DEF Holders
  <2>5. InQueue(k)' = CountIn(messages', Answers(k))
    <3>1. {i \in DOMAIN messages' : messages'[i].request = k} = Places(messages', Answers(k))
      BY <1>6 DEF Places, Answers
    <3> QED BY <3>1 DEF InQueue, CountIn
  <2>6. CASE \E a \in out[t] : a.request = k
    <3>1. PICK a \in Answer : out[t] = {a} /\ messages' = Append(messages, a)
      BY <1>5, <2>6
    <3>2. a \in Answers(k)
      BY <2>6, <3>1 DEF Answers
    <3>3. InQueue(k)' = InQueue(k) + 1
      <4>1. CountIn(Append(messages, a), Answers(k)) = CountIn(messages, Answers(k)) + 1
        BY <1>2, <3>2, CountAppend
      <4> QED BY <2>2, <2>5, <3>1, <4>1
    <3>4. t \in Holders(k)
      BY <2>6 DEF Holders
    <3>5. WithThread(k)' = WithThread(k) - 1
      <4>1. Cardinality(Holders(k) \ {t}) = Cardinality(Holders(k)) - 1
        BY <2>2, <3>4, FS_RemoveElement
      <4> QED BY <2>2, <2>3, <2>4, <4>1
    <3>6. WithThread(k)' \in Int
      BY <2>2, <3>5
    <3> QED BY <2>1, <2>2, <3>3, <3>5 DEF Owners
  <2>7. CASE ~\E a \in out[t] : a.request = k
    <3>1. InQueue(k)' = InQueue(k)
      <4>1. CASE messages' = messages
        BY <2>2, <2>5, <4>1
      <4>2. ASSUME NEW a \in Answer, out[t] = {a}, messages' = Append(messages, a)
            PROVE  InQueue(k)' = InQueue(k)
        <5>1. a \notin Answers(k)
          BY <2>7, <4>2 DEF Answers
        <5> QED BY <1>2, <2>2, <2>5, <4>2, <5>1, CountAppend
      <4> QED BY <1>5, <4>1, <4>2
    <3>2. Holders(k)' = Holders(k)
      BY <2>4, <2>7 DEF Holders
    <3> QED BY <2>1, <2>2, <2>3, <3>1, <3>2 DEF Owners
  <2> QED BY <2>6, <2>7
<1>9. NoneAhead'
  <2> SUFFICES ASSUME NEW k \in Requests, k > seen
               PROVE  thread'[k] = "none" /\ Owners(k) = 0 /\ answered[k] = 0 /\ freed[k] = 0
    BY <1>1, <1>8 DEF NoneAhead
  <2>1. thread[k] = "none" /\ Owners(k) = 0 /\ answered[k] = 0 /\ freed[k] = 0
    BY DEF NiInv, NoneAhead
  <2> QED BY <1>1, <1>3, <2>1
<1>10. OneOwner'
  BY <1>1, <1>8 DEF NiInv, OneOwner
<1>11. AnswersMade'
  BY <1>3, <1>4 DEF NiInv, AnswersMade
<1>12. PayloadOwnedOnce'
  <2>1. \A k \in 1 .. seen : k \in Requests
    BY <1>0, NiAssumption DEF TypeOK, Requests
  <2> QED BY <1>1, <1>8, <2>1 DEF NiInv, PayloadOwnedOnce
<1>13. ThreadOwnsRequest'
  <2>1. \A k \in Requests : thread'[k] \in Waiting <=> thread[k] \in Waiting
    BY <1>1, <1>3 DEF Waiting
  <2> QED BY <1>1, <2>1 DEF NiInv, ThreadOwnsRequest
<1>14. HandlerSound'
  BY <1>1 DEF NiInv, HandlerSound
<1> QED BY <1>7, <1>9, <1>10, <1>11, <1>12, <1>13, <1>14 DEF NiInv

(* For any number of requests and modem restarts: the modem gets at most   *)
(* one answer to a request and, while it does not restart, the payload of  *)
(* a request has one owner at a time and its own thread waits for it.      *)
THEOREM RequestsAreOwned == MCSpec => []RequestsOwned
<1>1. MCInit => NiInv
  <2> SUFFICES ASSUME MCInit PROVE NiInv
    OBVIOUS
  <2>1. Init
    BY DEF MCInit
  <2>2. TypeOK
    <3>1. /\ thread \in [Requests -> ThreadStates] /\ out \in [Requests -> SUBSET Answer]
          /\ notifId \in [Requests -> Nat] /\ answered \in [Requests -> Nat]
          /\ freed \in [Requests -> Nat]
      BY <2>1 DEF Init, ThreadStates
    <3>2. messages \in Seq(Answer)
      BY <2>1, EmptySeq DEF Init
    <3>3. /\ rawRequest = NULL /\ reqID = 0 /\ seen = 0 /\ resp = NULL /\ handler = "idle"
          /\ respRecvd \in BOOLEAN /\ asked = {} /\ responding = {} /\ restarts = 0
      BY <2>1 DEF Init
    <3> QED BY <3>1, <3>2, <3>3, NiAssumption DEF TypeOK
  <2>3. /\ rawRequest = NULL /\ seen = 0 /\ handler = "idle" /\ messages = <<>>
        /\ \A k \in Requests : /\ thread[k] = "none" /\ out[k] = {}
                               /\ answered[k] = 0 /\ freed[k] = 0
    BY <2>1 DEF Init
  <2>4. ASSUME NEW k \in Requests PROVE Owners(k) = 0
    <3>1. InProgress(k) = 0
      BY <2>3 DEF InProgress, Requests, NULL
    <3>2. WithThread(k) = Cardinality({})
      <4>1. Holders(k) = {}
        BY <2>3 DEF Holders
      <4> QED BY <2>2, <4>1, OwnersNat
    <3>3. InQueue(k) = 0
      BY <2>2, <2>3, OwnersNat, CountEmpty
    <3> QED BY <3>1, <3>2, <3>3, FS_EmptySet DEF Owners
  <2>5. NoneAhead /\ OneOwner /\ AnswersMade
    BY <2>3, <2>4 DEF NoneAhead, OneOwner, AnswersMade
  <2>6. PayloadOwnedOnce
    BY <2>3 DEF PayloadOwnedOnce
  <2>7. ThreadOwnsRequest
    BY <2>3 DEF ThreadOwnsRequest, Waiting, Requests, NULL
  <2> QED BY <2>2, <2>3, <2>5, <2>6, <2>7 DEF NiInv, HandlerSound
<1>2. NiInv /\ [MCNext]_all => NiInv'
  <2> SUFFICES ASSUME NiInv, [MCNext]_all PROVE NiInv'
    OBVIOUS
  <2>1. CASE Next
    BY <2>1, QuietSteps, RequestKeeps, InformKeeps, ResetFreesKeeps, ResetClearsKeeps,
       ThreadStepsKeep, LeavesKeeps DEF Next, Reset
  <2>2. CASE UNCHANGED vars
    BY <2>2, QuietSteps
  <2> QED BY <2>1, <2>2 DEF MCNext, Ni, Task, Daemon, Timer, all
<1>3. NiInv => RequestsOwned
  <2> SUFFICES ASSUME NiInv, NEW k \in Requests PROVE answered[k] <= 1
    BY DEF RequestsOwned, NiInv, AnsweredOnce
  <2>1. Owners(k) + answered[k] <= 1 /\ answered[k] \in Nat
    BY DEF NiInv, OneOwner, TypeOK
  <2>2. Owners(k) \in Nat
    BY OwnersNat DEF NiInv
  <2> QED BY <2>1, <2>2
<1> QED BY <1>1, <1>2, <1>3, PTL DEF MCSpec
=============================================================================
