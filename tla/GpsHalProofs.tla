---------------------------- MODULE GpsHalProofs -----------------------------
(***************************************************************************)
(* Proofs about what the modem is told by the GPS HAL (LocHal), for every  *)
(* set of devices, every configuration and every bound.                    *)
(***************************************************************************)
EXTENDS MCGpsEngine, SequenceTheorems, FiniteSetTheorems, TLAPS

(***************************************************************************)
(* LocHal                                                                  *)
(***************************************************************************)

(* A sequence is one over its own elements.                                 *)
LEMMA OwnElements ==
  ASSUME NEW S, NEW q \in Seq(S)
  PROVE  q \in Seq(H!ToSet(q))
<1>1. Len(q) \in Nat /\ q \in [1 .. Len(q) -> S] /\ DOMAIN q = 1 .. Len(q)
  BY LenProperties
<1>2. \A i \in 1 .. Len(q) : q[i] \in H!ToSet(q)
  BY <1>1 DEF H!ToSet
<1>3. q \in [1 .. Len(q) -> H!ToSet(q)]
  BY <1>1, <1>2
<1> QED BY <1>1, <1>3, SeqDef

(* What follows the messages of a queue leaves them where they are.        *)
Extends(r, q) == Len(r) >= Len(q) /\ \A i \in 1 .. Len(q) : r[i] = q[i]

(* r is q with the messages ms behind it.                                   *)
Follows(r, q, ms) ==
  /\ r \in Seq(H!ToSet(r)) /\ Extends(r, q) /\ Len(r) = Len(q) + Len(ms)
  /\ Len(q) \in Nat /\ Len(ms) \in Nat
  /\ \A i \in 1 .. Len(ms) : r[Len(q) + i] = ms[i]
  /\ \A i \in Len(q) + 1 .. Len(r) : r[i] = ms[i - Len(q)] /\ i - Len(q) \in 1 .. Len(ms)

LEMMA Appended ==
  ASSUME NEW q, q \in Seq(H!ToSet(q)), NEW S, NEW ms, ms \in Seq(S), NEW r, r = q \o ms
  PROVE  Follows(r, q, ms)
<1> DEFINE U == H!ToSet(q) \cup S
<1>1. q \in Seq(U) /\ ms \in Seq(U)
  BY LenProperties, SeqDef
<1> HIDE DEF U
<1>2. /\ r \in Seq(U) /\ Len(r) = Len(q) + Len(ms)
      /\ \A i \in 1 .. Len(r) : r[i] = IF i <= Len(q) THEN q[i] ELSE ms[i - Len(q)]
  BY <1>1, ConcatProperties
<1>3. Len(q) \in Nat /\ Len(ms) \in Nat
  BY <1>1, LenProperties
<1>4. r \in Seq(H!ToSet(r))
  BY <1>2, OwnElements
<1> QED BY <1>2, <1>3, <1>4 DEF Follows, Extends

LEMMA Tailed ==
  ASSUME NEW q, q \in Seq(H!ToSet(q)), q # <<>>, NEW r, r = Tail(q)
  PROVE  /\ r \in Seq(H!ToSet(r)) /\ Len(r) = Len(q) - 1 /\ Len(q) \in Nat \ {0}
         /\ \A i \in 1 .. Len(r) : r[i] = q[i + 1]
         /\ Head(q) = q[1]
<1>1. /\ r \in Seq(H!ToSet(q)) /\ Len(r) = Len(q) - 1 /\ Len(q) \in Nat /\ Len(q) # 0
      /\ \A i \in 1 .. Len(r) : r[i] = q[i + 1]
      /\ Head(q) = q[1]
  BY HeadTailProperties, LenProperties, EmptySeq
<1> QED BY <1>1, OwnElements

(* An open handle stays so behind more messages and for later ones.        *)
LEMMA OpenKept ==
  ASSUME NEW q, NEW r, Extends(r, q), Len(q) \in Nat, NEW o, NEW p,
         o => p, NEW k \in 1 .. Len(q) + 1, NEW l \in Int, k <= l, H!OpenBy(q, o, k)
  PROVE  H!OpenBy(r, p, l)
<1>1. CASE o
  BY <1>1 DEF H!OpenBy
<1>2. CASE ~o
  <2>1. PICK i \in 1 .. k - 1 : H!Opens(q[i])
    BY <1>2 DEF H!OpenBy
  <2>2. r[i] = q[i] /\ i \in 1 .. l - 1
    BY <2>1 DEF Extends
  <2> QED BY <2>1, <2>2 DEF H!OpenBy
<1> QED BY <1>1, <1>2

(* Behind the first message it is open if it was or if that one opened it.  *)
LEMMA OpenAfterHead ==
  ASSUME NEW q, NEW r, Len(q) \in Nat \ {0}, Len(r) = Len(q) - 1,
         \A i \in 1 .. Len(r) : r[i] = q[i + 1],
         NEW o, NEW p, o \/ H!Opens(q[1]) => p,
         NEW k \in 2 .. Len(q) + 1, H!OpenBy(q, o, k)
  PROVE  H!OpenBy(r, p, k - 1)
<1>1. CASE o
  BY <1>1 DEF H!OpenBy
<1>2. CASE ~o
  <2>1. PICK i \in 1 .. k - 1 : H!Opens(q[i])
    BY <1>2 DEF H!OpenBy
  <2>2. CASE i = 1
    BY <2>1, <2>2 DEF H!OpenBy
  <2>3. CASE i # 1
    <3>1. i - 1 \in 1 .. (k - 1) - 1 /\ i - 1 \in 1 .. Len(r) /\ (i - 1) + 1 = i
      BY <2>1, <2>3
    <3>2. r[i - 1] = q[i]
      BY <3>1
    <3> QED BY <2>1, <3>1, <3>2 DEF H!OpenBy
  <2> QED BY <2>2, <2>3
<1> QED BY <1>1, <1>2

LEMMA ConfigKept ==
  ASSUME NEW q, NEW r, Extends(r, q), Len(q) \in Nat, NEW o, NEW w, NEW known, NEW c,
         H!ConfigComing(q, o, w, known, c)
  PROVE  H!ConfigComing(r, o, w, known, c)
<1>1. CASE c \in known
  BY <1>1 DEF H!ConfigComing
<1>2. CASE c \notin known
  <2>1. PICK k \in 1 .. Len(q) :
          /\ H!OpenBy(q, o, k)
          /\ \/ q[k].type = "Config" /\ q[k].arg = c
             \/ q[k].type \in H!Reinits /\ (k = 1 => w = <<>>)
    BY <1>2 DEF H!ConfigComing
  <2>2. H!OpenBy(r, o, k)
    <3>1. k \in 1 .. Len(q) + 1 /\ k \in Int /\ k <= k
      OBVIOUS
    <3> QED BY <2>1, <3>1, OpenKept
  <2>3. r[k] = q[k] /\ k \in 1 .. Len(r)
    BY DEF Extends
  <2> QED BY <2>1, <2>2, <2>3 DEF H!ConfigComing
<1> QED BY <1>1, <1>2

(* The message at the head was neither the one that tells c nor one whose   *)
(* initialisation is still to come.                                        *)
LEMMA ConfigAfterHead ==
  ASSUME NEW q, NEW r, Len(q) \in Nat \ {0}, Len(r) = Len(q) - 1,
         \A i \in 1 .. Len(r) : r[i] = q[i + 1],
         NEW o, NEW p, o \/ H!Opens(q[1]) => p,
         NEW w, NEW known, NEW known2, NEW c, known \subseteq known2,
         q[1].type \in H!Reinits => w # <<>>,
         q[1].type = "Config" /\ q[1].arg = c /\ o => c \in known2,
         H!ConfigComing(q, o, w, known, c)
  PROVE  H!ConfigComing(r, p, <<>>, known2, c)
<1>1. CASE c \in known2
  BY <1>1 DEF H!ConfigComing
<1>2. CASE c \notin known2
  <2>1. PICK k \in 1 .. Len(q) :
          /\ H!OpenBy(q, o, k)
          /\ \/ q[k].type = "Config" /\ q[k].arg = c
             \/ q[k].type \in H!Reinits /\ (k = 1 => w = <<>>)
    BY <1>2 DEF H!ConfigComing
  <2>2. k # 1
    <3> SUFFICES ASSUME k = 1 PROVE FALSE
      OBVIOUS
    <3>1. o
      BY <2>1 DEF H!OpenBy
    <3> QED BY <1>2, <2>1, <3>1
  <2>3. k \in 2 .. Len(q) + 1 /\ k - 1 \in 1 .. Len(r) /\ (k - 1) + 1 = k
    BY <2>2
  <2>4. H!OpenBy(r, p, k - 1)
    BY <2>1, <2>3, OpenAfterHead
  <2>5. r[k - 1] = q[k]
    BY <2>3
  <2> QED BY <2>1, <2>3, <2>4, <2>5 DEF H!ConfigComing
<1> QED BY <1>1, <1>2

(* Messages that do not tell the availability of data leave the last word   *)
(* about it alone.                                                         *)
LEMMA DataKept ==
  ASSUME NEW q, NEW r, Extends(r, q), Len(q) \in Nat, Len(r) \in Nat,
         \A i \in Len(q) + 1 .. Len(r) : r[i].type # "EnableData",
         NEW o, NEW w, NEW data, NEW at, NEW available,
         H!DataComing(q, o, w, data, at, available)
  PROVE  H!DataComing(r, o, w, data, at, available)
<1>1. CASE at = "sendData" \/ w # <<>>
  BY <1>1 DEF H!DataComing
<1>2. CASE \E k \in 1 .. Len(q) : q[k].type \in H!Reinits
  BY <1>2 DEF H!DataComing, Extends
<1>3. ASSUME NEW k \in Nat \ {0}, H!LastData(q, k) PROVE H!LastData(r, k)
  <2> SUFFICES ASSUME NEW j \in k .. Len(r) PROVE r[j].type # "EnableData"
    BY DEF H!LastData
  <2>1. CASE j <= Len(q)
    <3>1. r[j] = q[j] /\ j \in k .. Len(q)
      BY <2>1 DEF Extends
    <3> QED BY <1>3, <3>1 DEF H!LastData
  <2>2. CASE j > Len(q)
    BY <2>2
  <2> QED BY <2>1, <2>2
<1>4. CASE H!LastData(q, 1) /\ data = available
  BY <1>3, <1>4 DEF H!DataComing
<1>5. CASE \E k \in 1 .. Len(q) : /\ H!OpenBy(q, o, k) /\ H!LastData(q, k + 1)
                                  /\ q[k].type = "EnableData" /\ q[k].arg = available
  <2>1. PICK k \in 1 .. Len(q) : /\ H!OpenBy(q, o, k) /\ H!LastData(q, k + 1)
                                 /\ q[k].type = "EnableData" /\ q[k].arg = available
    BY <1>5
  <2>2. H!OpenBy(r, o, k) /\ H!LastData(r, k + 1)
    <3>1. k \in 1 .. Len(q) + 1 /\ k \in Int /\ k <= k /\ k + 1 \in Nat \ {0}
      OBVIOUS
    <3> QED BY <1>3, <2>1, <3>1, OpenKept
  <2>3. r[k] = q[k] /\ k \in 1 .. Len(r)
    BY DEF Extends
  <2> QED BY <2>1, <2>2, <2>3 DEF H!DataComing
<1> QED BY <1>1, <1>2, <1>4, <1>5 DEF H!DataComing

LEMMA DataAfterHead ==
  ASSUME NEW q, NEW r, Len(q) \in Nat \ {0}, Len(r) = Len(q) - 1,
         \A i \in 1 .. Len(r) : r[i] = q[i + 1],
         NEW o, NEW p, o \/ H!Opens(q[1]) => p,
         NEW data, NEW data2, NEW at, NEW available,
         q[1].type \notin H!Reinits,
         q[1].type = "EnableData" /\ o => data2 = q[1].arg,
         ~(q[1].type = "EnableData" /\ o) => data2 = data,
         H!DataComing(q, o, <<>>, data, at, available)
  PROVE  H!DataComing(r, p, <<>>, data2, at, available)
<1>1. CASE at = "sendData"
  BY <1>1 DEF H!DataComing
<1>2. ASSUME NEW k \in 2 .. Len(q) + 1, H!LastData(q, k) PROVE H!LastData(r, k - 1)
  <2> SUFFICES ASSUME NEW j \in k - 1 .. Len(r) PROVE r[j].type # "EnableData"
    BY DEF H!LastData
  <2>1. j + 1 \in k .. Len(q) /\ r[j] = q[j + 1]
    OBVIOUS
  <2> QED BY <1>2, <2>1 DEF H!LastData
<1>3. ASSUME NEW k \in 1 .. Len(q), q[k].type \in H!Reinits
      PROVE  \E l \in 1 .. Len(r) : r[l].type \in H!Reinits
  <2>1. k # 1
    BY <1>3
  <2>2. k - 1 \in 1 .. Len(r) /\ (k - 1) + 1 = k
    BY <2>1
  <2>3. r[k - 1] = q[k]
    BY <2>2
  <2> QED BY <1>3, <2>2, <2>3
<1>4. CASE H!LastData(q, 1) /\ data = available
  <2>1. H!LastData(q, 2)
    BY <1>4 DEF H!LastData
  <2>2. H!LastData(r, 1)
    <3>1. 2 \in 2 .. Len(q) + 1 /\ 2 - 1 = 1
      OBVIOUS
    <3> QED BY <1>2, <2>1, <3>1
  <2>3. q[1].type # "EnableData"
    BY <1>4 DEF H!LastData
  <2> QED BY <1>4, <2>2, <2>3 DEF H!DataComing
<1>5. ASSUME NEW k \in 1 .. Len(q), H!OpenBy(q, o, k), H!LastData(q, k + 1),
             q[k].type = "EnableData", q[k].arg = available
      PROVE  H!DataComing(r, p, <<>>, data2, at, available)
  <2>1. k + 1 \in 2 .. Len(q) + 1 /\ (k + 1) - 1 = k
    OBVIOUS
  <2>2. H!LastData(r, k)
    BY <1>2, <1>5, <2>1
  <2>3. CASE k = 1
    <3>1. o
      BY <1>5, <2>3 DEF H!OpenBy
    <3> QED BY <1>5, <2>2, <2>3, <3>1 DEF H!DataComing
  <2>4. CASE k # 1
    <3>1. k \in 2 .. Len(q) + 1 /\ k - 1 \in 1 .. Len(r) /\ (k - 1) + 1 = k
      BY <2>4
    <3>2. H!OpenBy(r, p, k - 1)
      BY <1>5, <3>1, OpenAfterHead
    <3>3. r[k - 1] = q[k]
      BY <3>1
    <3> QED BY <1>5, <2>2, <3>1, <3>2, <3>3 DEF H!DataComing
  <2> QED BY <2>3, <2>4
<1> QED BY <1>1, <1>3, <1>4, <1>5 DEF H!DataComing

(* The steps that send nothing about data and leave worker and modem alone. *)
LEMMA HalQueueGrows ==
  ASSUME H!HalInv, hQueue' \in Seq(H!ToSet(hQueue')), Extends(hQueue', hQueue),
         \A i \in Len(hQueue) + 1 .. Len(hQueue') : hQueue'[i].type # "EnableData",
         UNCHANGED <<device, worker, hModem, network, unsure>>,
         eng' \in H!Engine, eng'.adapter = eng.adapter, eng'.agpsStatus = eng.agpsStatus,
         fw' = fw \/ {fw, fw'} \cap {"sendInit", "sendData"} = {},
         ~eng.adapter => hQueue' = <<>>
  PROVE  H!HalInv'
<1>0. H!HalTypeOK /\ H!NothingBeforeInit /\ H!WorkerSound /\ H!InformationComing
  BY DEF H!HalInv
<1>1. hQueue \in Seq(H!ToSet(hQueue)) /\ Len(hQueue) \in Nat /\ Len(hQueue') \in Nat
  BY <1>0, LenProperties DEF H!HalTypeOK
<1>2. H!HalTypeOK'
  BY <1>0 DEF H!HalTypeOK
<1>3. H!NothingBeforeInit'
  BY <1>0 DEF H!NothingBeforeInit
<1>4. hQueue # <<>> => hQueue' # <<>> /\ Head(hQueue') = Head(hQueue)
  <2> SUFFICES ASSUME hQueue # <<>> PROVE hQueue' # <<>> /\ Head(hQueue') = Head(hQueue)
    OBVIOUS
  <2>1. Len(hQueue) # 0 /\ 1 \in 1 .. Len(hQueue) /\ Len(hQueue') # 0
    BY <1>1, EmptySeq DEF Extends
  <2> QED BY <1>1, <2>1, HeadTailProperties, EmptySeq DEF Extends
<1>5. H!WorkerSound'
  BY <1>0, <1>4 DEF H!WorkerSound
<1>6. ASSUME eng.adapter, hModem.phase \in {"up", "returning"}
      PROVE  H!OpenBy(hQueue', hModem.open, Len(hQueue') + 1)
  <2>1. H!OpenBy(hQueue, hModem.open, Len(hQueue) + 1)
    BY <1>0, <1>6 DEF H!InformationComing
  <2>2. PICK k, l : k = Len(hQueue) + 1 /\ l = Len(hQueue') + 1
    OBVIOUS
  <2>3. k \in 1 .. Len(hQueue) + 1 /\ l \in Int /\ k <= l
    BY <1>1, <2>2 DEF Extends
  <2>4. H!OpenBy(hQueue, hModem.open, k) /\ Len(hQueue) \in Nat /\ Extends(hQueue', hQueue)
    BY <1>1, <2>1, <2>2
  <2>5. H!OpenBy(hQueue', hModem.open, l)
    BY ONLY <2>3, <2>4, OpenKept
  <2> QED BY <2>2, <2>5
<1>7. ASSUME eng.adapter, hModem.phase = "up", fw' # "sendInit"
      PROVE  /\ \A c \in H!ToSet(H!Config) :
                  H!ConfigComing(hQueue', hModem.open, worker, hModem.conf, c)
             /\ ~unsure => H!DataComing(hQueue', hModem.open, worker, hModem.data, fw', network)
  <2>0. fw # "sendInit"
    BY <1>7
  <2>1. /\ \A c \in H!ToSet(H!Config) :
             H!ConfigComing(hQueue, hModem.open, worker, hModem.conf, c)
        /\ ~unsure => H!DataComing(hQueue, hModem.open, worker, hModem.data, fw, network)
    BY <1>0, <1>7, <2>0 DEF H!InformationComing
  <2>2. ASSUME ~unsure
        PROVE  H!DataComing(hQueue', hModem.open, worker, hModem.data, fw, network)
    BY <1>1, <2>1, <2>2, DataKept
  <2>3. fw = "sendData" <=> fw' = "sendData"
    OBVIOUS
  <2>4. ASSUME ~unsure
        PROVE  H!DataComing(hQueue', hModem.open, worker, hModem.data, fw', network)
    BY <2>2, <2>3, <2>4 DEF H!DataComing
  <2> QED BY <1>1, <2>1, <2>4, ConfigKept
<1>8. H!Config' = H!Config
  BY DEF H!Config
<1>9. H!InformationComing'
  BY <1>6, <1>7, <1>8 DEF H!InformationComing
<1> QED BY <1>2, <1>3, <1>5, <1>9 DEF H!HalInv

LEMMA HalSends ==
  ASSUME H!HalInv, NEW S, NEW ms \in Seq(S), \A x \in S : x.type # "EnableData",
         hQueue' = hQueue \o ms,
         UNCHANGED <<device, worker, hModem, network, unsure>>,
         eng' \in H!Engine, eng'.adapter = eng.adapter, eng'.agpsStatus = eng.agpsStatus,
         fw' = fw \/ {fw, fw'} \cap {"sendInit", "sendData"} = {},
         ~eng.adapter => ms = <<>>
  PROVE  H!HalInv'
<1>1. hQueue \in Seq(H!ToSet(hQueue))
  BY DEF H!HalInv, H!HalTypeOK
<1>2. PICK q, r : q = hQueue /\ r = hQueue'
  OBVIOUS
<1>3. q \in Seq(H!ToSet(q)) /\ r = q \o ms
  BY <1>1, <1>2
<1>9. ms \in Seq(S)
  OBVIOUS
<1>4. Follows(r, q, ms)
  BY ONLY <1>3, <1>9, Appended
<1>5. \A i \in 1 .. Len(ms) : ms[i] \in S
  BY LenProperties
<1>6. \A i \in Len(q) + 1 .. Len(r) : r[i].type # "EnableData"
  BY <1>4, <1>5 DEF Follows
<1>7. ~eng.adapter => hQueue' = <<>>
  <2> SUFFICES ASSUME ~eng.adapter PROVE hQueue' = <<>>
    OBVIOUS
  <2>1. hQueue = <<>> /\ ms = <<>>
    BY DEF H!HalInv, H!NothingBeforeInit
  <2>2. q = <<>> /\ ms = <<>>
    BY <1>2, <2>1
  <2>3. r = <<>> \o <<>>
    BY <1>3, <2>2
  <2>4. r = <<>>
    BY <2>3
  <2> QED BY <1>2, <2>4
<1>8. /\ hQueue' \in Seq(H!ToSet(hQueue')) /\ Extends(hQueue', hQueue)
      /\ \A i \in Len(hQueue) + 1 .. Len(hQueue') : hQueue'[i].type # "EnableData"
  BY <1>2, <1>4, <1>6 DEF Follows
<1> QED BY <1>7, <1>8, HalQueueGrows

(* The steps of the framework's thread that send nothing.                  *)
LEMMA HalCalls ==
  ASSUME H!HalInv,
         H!openDevice \/ H!setEnabled \/ H!loc_cleanup \/ H!loc_xtra_init
         \/ (H!loc_init /\ eng.adapter)
  PROVE  H!HalInv'
<1>1. /\ hQueue \in Seq(H!ToSet(hQueue)) /\ eng \in H!Engine
      /\ ~eng.adapter => hQueue = <<>> /\ fw # "sendInit"
  BY DEF H!HalInv, H!HalTypeOK, H!NothingBeforeInit
<1>2. /\ Len(hQueue) \in Nat /\ Extends(hQueue, hQueue)
      /\ \A i \in Len(hQueue) + 1 .. Len(hQueue) : hQueue[i].type # "EnableData"
  BY <1>1, LenProperties DEF Extends
<1>3. /\ UNCHANGED <<device, worker, hQueue, hModem, network, unsure>>
      /\ fw' = fw \/ {fw, fw'} \cap {"sendInit", "sendData"} = {}
  BY DEF H!openDevice, H!setEnabled, H!loc_cleanup, H!loc_xtra_init, H!loc_init
<1>4. /\ eng' \in H!Engine /\ eng'.adapter = eng.adapter /\ eng'.agpsStatus = eng.agpsStatus
  <2>1. CASE H!openDevice
    <3>1. PICK s \in SUBSET {"SCHEDULING", "MSB", "MSA"} : eng' = [eng EXCEPT !.interface = s]
      BY <2>1 DEF H!openDevice, H!get_gps_interface
    <3> QED BY <1>1, <3>1 DEF H!Engine
  <2>2. CASE H!setEnabled
    <3>1. PICK b \in BOOLEAN : b = ~device.ext
      OBVIOUS
    <3>2. eng' = [eng EXCEPT !.agpsEnabled = b, !.cpiEnabled = b]
      BY <2>2, <3>1 DEF H!setEnabled
    <3> QED BY <1>1, <3>2 DEF H!Engine
  <2>3. CASE H!loc_cleanup
    BY <1>1, <2>3 DEF H!loc_cleanup, H!Engine
  <2>4. CASE H!loc_xtra_init
    BY <1>1, <2>4 DEF H!loc_xtra_init, H!Engine
  <2>5. CASE H!loc_init /\ eng.adapter
    BY <1>1, <2>5 DEF H!loc_init, H!Engine
  <2> QED BY <2>1, <2>2, <2>3, <2>4, <2>5
<1> QED BY <1>1, <1>2, <1>3, <1>4, HalQueueGrows

(* Messages that are not about the availability of data.                   *)
OtherMessages ==
  [type : {"SetServer", "DataClientInit", "Inject", "PositionMode", "RequestXtra",
           "RequestTime"},
   arg : H!Servers \cup H!Injections \cup {"", "MS_BASED", "MS_ASSISTED", "STANDALONE"}]

LEMMA OthersAreOther == \A x \in OtherMessages : x.type # "EnableData"
BY DEF OtherMessages, H!Msg

LEMMA ServerIsOther ==
  ASSUME NEW type \in H!Servers, NEW resolved
  PROVE  H!loc_eng_set_server(type, resolved) \in Seq(OtherMessages)
<1>1. H!Msg("SetServer", type) \in OtherMessages
  BY DEF OtherMessages, H!Msg
<1> QED BY <1>1 DEF H!loc_eng_set_server

LEMMA ServersAreOther ==
  ASSUME NEW e, NEW resolved
  PROVE  H!loc_eng_agps_reinit(e, resolved) \in Seq(OtherMessages)
<1>1. PICK a, b : /\ a = IF "SUPL" \in e.buffered THEN H!loc_eng_set_server("SUPL", resolved) ELSE <<>>
                  /\ b = IF "C2K" \in e.buffered THEN H!loc_eng_set_server("C2K", resolved) ELSE <<>>
  OBVIOUS
<1>2. "SUPL" \in H!Servers /\ "C2K" \in H!Servers
  BY DEF H!Servers
<1>3. a \in Seq(OtherMessages)
  BY <1>1, <1>2, ServerIsOther
<1>4. b \in Seq(OtherMessages)
  BY <1>1, <1>2, ServerIsOther
<1>5. H!loc_eng_agps_reinit(e, resolved) = a \o b
  BY <1>1 DEF H!loc_eng_agps_reinit
<1> QED BY <1>3, <1>4, <1>5

(* The steps that send one or more of them.                                *)
LEMMA HalRequests ==
  ASSUME H!HalInv,
         \/ H!loc_agps_init \/ \E type \in H!Servers : H!loc_agps_set_server(type)
         \/ \E kind \in H!Injections : H!inject(kind)
         \/ \E mode \in {"MS_BASED", "OTHER"} : H!set_position_mode(mode)
         \/ H!modemAsks
  PROVE  H!HalInv'
<1>1. eng \in H!Engine /\ (~eng.adapter => ~hModem.open)
  BY DEF H!HalInv, H!HalTypeOK, H!NothingBeforeInit
<1>2. UNCHANGED <<device, fw, worker, hModem, network, unsure>>
  <2>1. CASE H!loc_agps_init
    BY <2>1 DEF H!loc_agps_init
  <2>2. CASE \E type \in H!Servers : H!loc_agps_set_server(type)
    BY <2>2 DEF H!loc_agps_set_server
  <2>3. CASE \E kind \in H!Injections : H!inject(kind)
    BY <2>3 DEF H!inject
  <2>4. CASE \E mode \in {"MS_BASED", "OTHER"} : H!set_position_mode(mode)
    BY <2>4 DEF H!set_position_mode
  <2>5. CASE H!modemAsks
    BY <2>5 DEF H!modemAsks
  <2> QED BY <2>1, <2>2, <2>3, <2>4, <2>5
<1>3. /\ eng' \in H!Engine /\ eng'.adapter = eng.adapter /\ eng'.agpsStatus = eng.agpsStatus
  <2>1. CASE H!loc_agps_init
    BY <1>1, <2>1 DEF H!loc_agps_init, H!Engine
  <2>2. ASSUME NEW type \in H!Servers, H!loc_agps_set_server(type)
        PROVE  /\ eng' \in H!Engine /\ eng'.adapter = eng.adapter
               /\ eng'.agpsStatus = eng.agpsStatus
    <3>1. CASE eng' = eng
      BY <1>1, <3>1
    <3>2. CASE eng' = [eng EXCEPT !.buffered = @ \cup {type}]
      BY <1>1, <3>2 DEF H!Engine
    <3> QED BY <2>2, <3>1, <3>2 DEF H!loc_agps_set_server
  <2>3. CASE eng' = eng
    BY <1>1, <2>3
  <2> QED BY <2>1, <2>2, <2>3 DEF H!inject, H!set_position_mode, H!modemAsks
<1>4. \E ms \in Seq(OtherMessages) : hQueue' = hQueue \o ms /\ (~eng.adapter => ms = <<>>)
  <2>1. CASE H!loc_agps_init
    <3>1. PICK resolved \in BOOLEAN : H!Send(
            (IF H!HasModem /\ eng.agpsEnabled THEN <<H!Msg("DataClientInit", "")>> ELSE <<>>)
            \o IF H!HasModem THEN H!loc_eng_agps_reinit(eng, resolved) ELSE <<>>)
      BY <2>1 DEF H!loc_agps_init
    <3>2. PICK a, b : 
            /\ a = IF H!HasModem /\ eng.agpsEnabled THEN <<H!Msg("DataClientInit", "")>> ELSE <<>>
            /\ b = IF H!HasModem THEN H!loc_eng_agps_reinit(eng, resolved) ELSE <<>>
      OBVIOUS
    <3>3. H!Msg("DataClientInit", "") \in OtherMessages
      BY DEF OtherMessages, H!Msg
    <3>8. H!loc_eng_agps_reinit(eng, resolved) \in Seq(OtherMessages)
      BY ServersAreOther
    <3>9. <<H!Msg("DataClientInit", "")>> \in Seq(OtherMessages) /\ <<>> \in Seq(OtherMessages)
      <4>1. \A x \in OtherMessages : <<x>> \in Seq(OtherMessages)
        OBVIOUS
      <4>2. <<H!Msg("DataClientInit", "")>> \in Seq(OtherMessages)
        BY ONLY <3>3, <4>1, Zenon
      <4>3. <<>> \in Seq(OtherMessages)
        OBVIOUS
      <4> QED BY <4>2, <4>3
    <3>4. a \in Seq(OtherMessages) /\ b \in Seq(OtherMessages)
      BY ONLY <3>2, <3>9, <3>8
    <3>5. hQueue' = hQueue \o (a \o b)
      BY <3>1, <3>2 DEF H!Send
    <3>6. a \o b \in Seq(OtherMessages)
      BY <3>4
    <3>7. eng.adapter
      BY <2>1 DEF H!loc_agps_init
    <3> QED BY <3>5, <3>6, <3>7
  <2>2. ASSUME NEW type \in H!Servers, H!loc_agps_set_server(type)
        PROVE  \E ms \in Seq(OtherMessages) :
                 hQueue' = hQueue \o ms /\ (~eng.adapter => ms = <<>>)
    <3>1. CASE eng.adapter
      <4>1. PICK resolved \in BOOLEAN : H!Send(H!loc_eng_set_server(type, resolved))
        BY <2>2, <3>1 DEF H!loc_agps_set_server
      <4>2. H!loc_eng_set_server(type, resolved) \in Seq(OtherMessages)
        BY ServerIsOther
      <4> QED BY <3>1, <4>1, <4>2 DEF H!Send
    <3>2. CASE ~eng.adapter
      <4>1. hQueue' = hQueue /\ hQueue = <<>>
        <5>1. hQueue = <<>>
          BY <3>2 DEF H!HalInv, H!NothingBeforeInit
        <5> QED BY <2>2, <3>2, <5>1 DEF H!loc_agps_set_server
      <4>2. <<>> \o <<>> = <<>> /\ <<>> \in Seq(OtherMessages)
        OBVIOUS
      <4> QED BY <4>1, <4>2
    <3> QED BY <3>1, <3>2
  <2>3. ASSUME NEW x \in OtherMessages, H!Send(<<x>>), eng.adapter
        PROVE  \E ms \in Seq(OtherMessages) :
                 hQueue' = hQueue \o ms /\ (~eng.adapter => ms = <<>>)
    <3>1. <<x>> \in Seq(OtherMessages)
      OBVIOUS
    <3> QED BY <2>3, <3>1 DEF H!Send
  <2>4. ASSUME NEW type, NEW arg, H!Msg(type, arg) \in OtherMessages,
               H!Send(<<H!Msg(type, arg)>>), eng.adapter
        PROVE  \E ms \in Seq(OtherMessages) :
                 hQueue' = hQueue \o ms /\ (~eng.adapter => ms = <<>>)
    BY <2>3, <2>4
  <2>5. ASSUME NEW kind \in H!Injections, H!inject(kind)
        PROVE  \E ms \in Seq(OtherMessages) :
                 hQueue' = hQueue \o ms /\ (~eng.adapter => ms = <<>>)
    <3>1. H!Msg("Inject", kind) \in OtherMessages
      BY DEF OtherMessages, H!Msg
    <3>2. H!Send(<<H!Msg("Inject", kind)>>) /\ eng.adapter
      BY <2>5 DEF H!inject
    <3> QED BY <2>4, <3>1, <3>2
  <2>6. ASSUME NEW mode, H!set_position_mode(mode)
        PROVE  \E ms \in Seq(OtherMessages) :
                 hQueue' = hQueue \o ms /\ (~eng.adapter => ms = <<>>)
    <3>1. H!positionMode(mode) \in {"MS_BASED", "MS_ASSISTED", "STANDALONE"}
      BY DEF H!positionMode
    <3>2. H!Msg("PositionMode", H!positionMode(mode)) \in OtherMessages
      BY <3>1 DEF OtherMessages, H!Msg
    <3>3. H!Send(<<H!Msg("PositionMode", H!positionMode(mode))>>) /\ eng.adapter
      BY <2>6 DEF H!set_position_mode
    <3> QED BY <2>4, <3>2, <3>3
  <2>7. ASSUME H!modemAsks
        PROVE  \E ms \in Seq(OtherMessages) :
                 hQueue' = hQueue \o ms /\ (~eng.adapter => ms = <<>>)
    <3>1. PICK type \in {"RequestXtra", "RequestTime"} : H!Send(<<H!Msg(type, "")>>)
      BY <2>7 DEF H!modemAsks
    <3>2. H!Msg(type, "") \in OtherMessages
      BY DEF OtherMessages, H!Msg
    <3>3. eng.adapter
      BY <1>1, <2>7 DEF H!modemAsks
    <3> QED BY <2>4, <3>1, <3>2, <3>3
  <2> QED BY <2>1, <2>2, <2>5, <2>6, <2>7
<1> QED BY <1>2, <1>3, <1>4, OthersAreOther, HalSends

LEMMA HeadKept ==
  ASSUME NEW q, q \in Seq(H!ToSet(q)), NEW r, NEW ms, Follows(r, q, ms), q # <<>>
  PROVE  r # <<>> /\ Head(r) = Head(q)
<1>1. Len(q) \in Nat \ {0} /\ r \in Seq(H!ToSet(r))
  BY EmptySeq, LenProperties DEF Follows
<1>2. Len(r) # 0 /\ r[1] = q[1] /\ r # <<>>
  BY <1>1, EmptySeq DEF Follows, Extends
<1> QED BY <1>1, <1>2, HeadTailProperties

LEMMA AppendedOne ==
  ASSUME NEW q, q \in Seq(H!ToSet(q)), NEW x, NEW r, r = q \o <<x>>
  PROVE  Follows(r, q, <<x>>)
<1>1. PICK ms, X : ms = <<x>> /\ X = {x}
  OBVIOUS
<1>2. ms \in Seq(X) /\ r = q \o ms
  BY <1>1
<1>3. Follows(r, q, ms)
  BY ONLY q \in Seq(H!ToSet(q)), <1>2, Appended
<1> QED BY <1>1, <1>3

LEMMA OpenBehind ==
  ASSUME NEW q, NEW r, NEW ms, Follows(r, q, ms), NEW o, NEW k \in Nat, Len(q) < k,
         H!OpenBy(q, o, Len(q) + 1)
  PROVE  H!OpenBy(r, o, k)
<1>1. PICK j : j = Len(q) + 1
  OBVIOUS
<1>2. j \in 1 .. Len(q) + 1 /\ j <= k /\ k \in Int /\ Extends(r, q) /\ Len(q) \in Nat
  BY <1>1 DEF Follows
<1>3. H!OpenBy(q, o, j)
  BY <1>1
<1> QED BY ONLY <1>2, <1>3, OpenKept

(* With an initialisation sent through an open handle everything is coming. *)
LEMMA InitComes ==
  ASSUME NEW q, q \in Seq(H!ToSet(q)), NEW r, NEW x, Follows(r, q, <<x>>),
         x.type \in H!Reinits, NEW o, NEW w, w # <<>> => q # <<>>,
         H!OpenBy(q, o, Len(q) + 1)
  PROVE  /\ \A known, c : H!ConfigComing(r, o, w, known, c)
         /\ \A data, at, available : H!DataComing(r, o, w, data, at, available)
<1>1. /\ Len(q) \in Nat /\ Len(r) = Len(q) + 1 /\ r[Len(q) + 1] = x
      /\ Len(q) + 1 \in 1 .. Len(r)
  BY DEF Follows
<1>2. Len(q) + 1 = 1 => w = <<>>
  BY <1>1, EmptySeq
<1>3. H!OpenBy(r, o, Len(q) + 1)
  BY <1>1, OpenBehind
<1> QED BY <1>1, <1>2, <1>3 DEF H!ConfigComing, H!DataComing

LEMMA HalInit ==
  ASSUME H!HalInv, H!loc_init, ~eng.adapter
  PROVE  H!HalInv'
<1>0. H!HalTypeOK /\ H!NothingBeforeInit /\ H!WorkerSound
  BY DEF H!HalInv
<1>1. hQueue = <<>> /\ worker = <<>> /\ hModem.phase # "returning"
  BY <1>0 DEF H!NothingBeforeInit
<1>2. /\ UNCHANGED <<worker, hModem, network>> /\ fw' = "sendInit"
      /\ hQueue' = hQueue \o <<H!Msg("Open", "")>>
      /\ eng' = [H!cleared(eng) EXCEPT !.adapter = TRUE, !.loc_cb = TRUE]
  BY DEF H!loc_init, H!Send
<1>3. /\ eng' \in H!Engine /\ eng'.adapter /\ eng'.agpsStatus = eng.agpsStatus
  <2>1. eng \in H!Engine
    BY <1>0 DEF H!HalTypeOK
  <2>2. PICK e : e = H!cleared(eng)
    OBVIOUS
  <2>3. e \in H!Engine /\ e.agpsStatus = eng.agpsStatus
    BY <2>1, <2>2 DEF H!Engine, H!cleared
  <2>4. eng' = [e EXCEPT !.adapter = TRUE, !.loc_cb = TRUE]
    BY <1>2, <2>2
  <2> QED BY <2>3, <2>4 DEF H!Engine
<1>4. PICK r, x : r = hQueue' /\ x = H!Msg("Open", "")
  OBVIOUS
<1>5. r = <<x>> /\ Len(r) = 1 /\ r[1] = x
  <2>1. r = <<>> \o <<x>>
    BY <1>1, <1>2, <1>4
  <2> QED BY <2>1
<1>6. r \in Seq(H!ToSet(r))
  <2>1. r \in Seq({x})
    BY <1>5
  <2> QED BY <2>1, OwnElements
<1>7. H!HalTypeOK'
  BY <1>0, <1>2, <1>3, <1>4, <1>6 DEF H!HalTypeOK
<1>8. H!OpenBy(r, hModem.open, Len(r) + 1)
  <2>1. H!Opens(x)
    BY <1>4 DEF H!Msg, H!Opens
  <2>2. 1 \in 1 .. (Len(r) + 1) - 1
    BY <1>5
  <2> QED BY <1>5, <2>1, <2>2 DEF H!OpenBy
<1>9. H!InformationComing'
  BY <1>2, <1>4, <1>8 DEF H!InformationComing
<1>10. H!NothingBeforeInit' /\ H!WorkerSound'
  BY <1>0, <1>1, <1>2, <1>3 DEF H!NothingBeforeInit, H!WorkerSound
<1> QED BY <1>7, <1>9, <1>10 DEF H!HalInv

LEMMA HalSendInit ==
  ASSUME H!HalInv, H!sendInit
  PROVE  H!HalInv'
<1>0. H!HalTypeOK /\ H!NothingBeforeInit /\ H!WorkerSound /\ H!InformationComing
  BY DEF H!HalInv
<1>1. /\ UNCHANGED <<eng, worker, hModem, network, unsure>>
      /\ fw = "sendInit" /\ fw' = "setEnabled"
      /\ hQueue' = hQueue \o <<H!Msg("Init", "")>>
  BY DEF H!sendInit, H!Send
<1>2. eng.adapter
  BY <1>0, <1>1 DEF H!NothingBeforeInit
<1>3. PICK q, r, x : q = hQueue /\ r = hQueue' /\ x = H!Msg("Init", "")
  OBVIOUS
<1>4. q \in Seq(H!ToSet(q)) /\ x.type \in H!Reinits
  BY <1>0, <1>3 DEF H!HalTypeOK, H!Msg, H!Reinits
<1>5. Follows(r, q, <<x>>)
  <2>1. r = q \o <<x>>
    BY <1>1, <1>3
  <2> QED BY <1>4, <2>1, AppendedOne
<1>6. H!HalTypeOK'
  BY <1>0, <1>1, <1>3, <1>5 DEF H!HalTypeOK, Follows
<1>7. H!NothingBeforeInit'
  BY <1>1, <1>2 DEF H!NothingBeforeInit
<1>8. q # <<>> => r # <<>> /\ Head(r) = Head(q)
  BY <1>4, <1>5, HeadKept
<1>9. H!WorkerSound'
  BY <1>0, <1>1, <1>3, <1>8 DEF H!WorkerSound
<1>10. ASSUME hModem.phase \in {"up", "returning"}
       PROVE  /\ H!OpenBy(r, hModem.open, Len(r) + 1)
              /\ \A known, c : H!ConfigComing(r, hModem.open, worker, known, c)
              /\ \A data, at, available :
                   H!DataComing(r, hModem.open, worker, data, at, available)
  <2>1. H!OpenBy(q, hModem.open, Len(q) + 1)
    BY <1>0, <1>2, <1>3, <1>10 DEF H!InformationComing
  <2>2. worker # <<>> => q # <<>>
    BY <1>0, <1>3 DEF H!WorkerSound
  <2>3. Len(r) + 1 \in Nat /\ Len(q) < Len(r) + 1
    BY <1>5 DEF Follows
  <2>4. H!OpenBy(r, hModem.open, Len(r) + 1)
    BY <1>5, <2>1, <2>3, OpenBehind
  <2> QED BY <1>4, <1>5, <2>1, <2>2, <2>4, InitComes
<1>11. H!InformationComing'
  BY <1>1, <1>3, <1>10 DEF H!InformationComing
<1> QED BY <1>6, <1>7, <1>9, <1>11 DEF H!HalInv

LEMMA HalAvailability ==
  ASSUME H!HalInv, NEW available \in BOOLEAN, NEW apn \in BOOLEAN,
         H!update_network_availability(available, apn)
  PROVE  H!HalInv'
<1>0. H!HalTypeOK /\ H!NothingBeforeInit /\ H!WorkerSound /\ H!InformationComing
  BY DEF H!HalInv
<1>1. /\ UNCHANGED <<device, worker, hQueue, hModem>> /\ fw = "idle"
      /\ fw' = (IF eng.adapter /\ apn THEN "sendData" ELSE "idle")
      /\ unsure' = (worker # <<>> \/ (eng.adapter /\ ~apn))
      /\ network' = available /\ eng' = [eng EXCEPT !.agpsStatus = available]
  BY DEF H!update_network_availability, H!stored
<1>2. eng' \in H!Engine /\ eng'.adapter = eng.adapter /\ eng'.agpsStatus = available
  BY <1>0, <1>1 DEF H!HalTypeOK, H!Engine
<1>3. H!HalTypeOK'
  BY <1>0, <1>1, <1>2 DEF H!HalTypeOK
<1>4. H!NothingBeforeInit'
  BY <1>0, <1>1, <1>2 DEF H!NothingBeforeInit
<1>5. H!WorkerSound'
  BY <1>0, <1>1, <1>2 DEF H!WorkerSound
<1>6. ASSUME eng.adapter, ~unsure'
      PROVE  H!DataComing(hQueue, hModem.open, worker, hModem.data, fw', available)
  <2>1. fw' = "sendData"
    BY <1>1, <1>6
  <2> QED BY <2>1 DEF H!DataComing
<1>7. H!Config' = H!Config
  BY <1>1 DEF H!Config
<1>8. H!InformationComing'
  BY <1>0, <1>1, <1>2, <1>6, <1>7 DEF H!InformationComing
<1> QED BY <1>3, <1>4, <1>5, <1>8 DEF H!HalInv

LEMMA HalSendData ==
  ASSUME H!HalInv, H!sendData
  PROVE  H!HalInv'
<1>0. H!HalTypeOK /\ H!NothingBeforeInit /\ H!WorkerSound /\ H!InformationComing
  BY DEF H!HalInv
<1>1. /\ UNCHANGED <<device, eng, worker, hModem, network, unsure>>
      /\ fw = "sendData" /\ fw' = "idle"
      /\ hQueue' = hQueue \o <<H!Msg("EnableData", network)>>
  BY DEF H!sendData, H!Send
<1>2. eng.adapter
  BY <1>0, <1>1 DEF H!NothingBeforeInit
<1>3. PICK q, r, x : q = hQueue /\ r = hQueue' /\ x = H!Msg("EnableData", network)
  OBVIOUS
<1>4. q \in Seq(H!ToSet(q)) /\ x.type = "EnableData" /\ x.arg = network
  BY <1>0, <1>3 DEF H!HalTypeOK, H!Msg
<1>5. Follows(r, q, <<x>>)
  <2>1. r = q \o <<x>>
    BY <1>1, <1>3
  <2> QED BY <1>4, <2>1, AppendedOne
<1>6. /\ Len(q) \in Nat /\ Len(r) = Len(q) + 1 /\ r[Len(q) + 1] = x /\ Extends(r, q)
      /\ Len(q) + 1 \in 1 .. Len(r)
  BY <1>5 DEF Follows
<1>7. H!HalTypeOK'
  BY <1>0, <1>1, <1>3, <1>5 DEF H!HalTypeOK, Follows
<1>8. H!NothingBeforeInit'
  BY <1>1, <1>2 DEF H!NothingBeforeInit
<1>9. q # <<>> => r # <<>> /\ Head(r) = Head(q)
  BY <1>4, <1>5, HeadKept
<1>10. H!WorkerSound'
  BY <1>0, <1>1, <1>3, <1>9 DEF H!WorkerSound
<1>11. ASSUME hModem.phase \in {"up", "returning"}
       PROVE  /\ H!OpenBy(r, hModem.open, Len(r) + 1)
              /\ H!DataComing(r, hModem.open, worker, hModem.data, fw', network)
  <2>1. H!OpenBy(q, hModem.open, Len(q) + 1)
    BY <1>0, <1>2, <1>3, <1>11 DEF H!InformationComing
  <2>2. Len(r) + 1 \in Nat /\ Len(q) < Len(r) + 1 /\ Len(q) + 1 \in Nat /\ Len(q) < Len(q) + 1
    BY <1>6
  <2>3. H!OpenBy(r, hModem.open, Len(r) + 1) /\ H!OpenBy(r, hModem.open, Len(q) + 1)
    BY <1>5, <2>1, <2>2, OpenBehind
  <2>4. H!LastData(r, (Len(q) + 1) + 1)
    BY <1>6 DEF H!LastData
  <2> QED BY <1>4, <1>6, <2>3, <2>4 DEF H!DataComing
<1>12. ASSUME hModem.phase = "up", NEW c \in H!ToSet(H!Config)
       PROVE  H!ConfigComing(r, hModem.open, worker, hModem.conf, c)
  <2>1. H!ConfigComing(q, hModem.open, worker, hModem.conf, c)
    BY <1>0, <1>1, <1>2, <1>3, <1>12 DEF H!InformationComing
  <2> QED BY <1>6, <2>1, ConfigKept
<1>13. H!Config' = H!Config
  BY <1>1 DEF H!Config
<1>14. H!InformationComing'
  BY <1>1, <1>3, <1>11, <1>12, <1>13 DEF H!InformationComing
<1> QED BY <1>7, <1>8, <1>10, <1>14 DEF H!HalInv

ConfigNames == {"SuplVer", "LppConfig", "SensorControlConfig", "AGlonassProtocol",
                "SensorProperties", "SensorPerfControlConfig"}

LEMMA ConfigIsSeq ==
  /\ H!Config \in Seq(ConfigNames) /\ Len(H!Config) \in Nat
  /\ H!ToSet(H!Config) = {H!Config[i] : i \in 1 .. Len(H!Config)}
<1>1. PICK a, b, c : /\ a = <<"SuplVer", "LppConfig", "SensorControlConfig", "AGlonassProtocol">>
                     /\ b = IF device.sap THEN <<"SensorProperties">> ELSE <<>>
                     /\ c = <<"SensorPerfControlConfig">>
  OBVIOUS
<1>2. a \in Seq(ConfigNames) /\ c \in Seq(ConfigNames)
  BY <1>1 DEF ConfigNames
<1>3. b \in Seq(ConfigNames)
  <2>1. b = <<"SensorProperties">> \/ b = <<>>
    BY <1>1
  <2>2. <<"SensorProperties">> \in Seq(ConfigNames) /\ <<>> \in Seq(ConfigNames)
    BY DEF ConfigNames
  <2> QED BY <2>1, <2>2
<1>4. H!Config = (a \o b) \o c
  BY <1>1 DEF H!Config
<1>5. H!Config \in Seq(ConfigNames)
  BY <1>2, <1>3, <1>4
<1>6. Len(H!Config) \in Nat /\ DOMAIN H!Config = 1 .. Len(H!Config)
  BY <1>5, LenProperties
<1> QED BY <1>5, <1>6 DEF H!ToSet

(* The configuration is queued behind whatever opens the handle.           *)
LEMMA ConfigQueued ==
  ASSUME NEW q, q \in Seq(H!ToSet(q)), NEW r, NEW ms, Follows(r, q, ms),
         NEW o, NEW w, NEW known, NEW c, H!ConfigComing(q, o, <<>>, known, c),
         NEW i \in 1 .. Len(ms), ms[i] = H!Msg("Config", c)
  PROVE  H!ConfigComing(r, o, w, known, c)
<1>0. /\ Len(q) \in Nat /\ Len(r) = Len(q) + Len(ms) /\ Len(ms) \in Nat /\ Extends(r, q)
      /\ r[Len(q) + i] = H!Msg("Config", c) /\ Len(q) + i \in 1 .. Len(r)
  BY DEF Follows
<1>1. CASE c \in known
  BY <1>1 DEF H!ConfigComing
<1>2. ASSUME NEW k \in 1 .. Len(q), H!OpenBy(q, o, k), q[k].type = "Config", q[k].arg = c
      PROVE  H!ConfigComing(r, o, w, known, c)
  <2>1. k \in 1 .. Len(q) + 1 /\ k \in Int /\ k <= k /\ k \in 1 .. Len(r) /\ r[k] = q[k]
    BY <1>0 DEF Extends
  <2>2. H!OpenBy(r, o, k)
    BY <1>0, <1>2, <2>1, OpenKept
  <2> QED BY <1>2, <2>1, <2>2 DEF H!ConfigComing
<1>3. ASSUME NEW k \in 1 .. Len(q), H!OpenBy(q, o, k)
      PROVE  H!ConfigComing(r, o, w, known, c)
  <2>1. PICK l : l = Len(q) + i
    OBVIOUS
  <2>2. k \in 1 .. Len(q) + 1 /\ l \in Int /\ k <= l
    BY <1>0, <2>1
  <2>3. H!OpenBy(r, o, l)
    BY <1>0, <1>3, <2>2, OpenKept
  <2>4. r[l].type = "Config" /\ r[l].arg = c /\ l \in 1 .. Len(r)
    BY <1>0, <2>1 DEF H!Msg
  <2> QED BY <2>3, <2>4 DEF H!ConfigComing
<1> QED BY <1>1, <1>3 DEF H!ConfigComing

LEMMA HalReinit ==
  ASSUME H!HalInv, H!loc_eng_reinit
  PROVE  H!HalInv'
<1>0. H!HalTypeOK /\ H!NothingBeforeInit /\ H!WorkerSound /\ H!InformationComing
  BY DEF H!HalInv
<1>1. PICK ms : ms = [i \in 1 .. Len(H!Config) |-> H!Msg("Config", H!Config[i])]
  OBVIOUS
<1>2. /\ UNCHANGED <<device, eng, fw, hModem, network, unsure>>
      /\ worker = <<>> /\ worker' = <<eng.agpsStatus>>
      /\ hQueue # <<>> /\ Head(hQueue).type \in H!Reinits
      /\ hQueue' = hQueue \o ms
  BY <1>1 DEF H!loc_eng_reinit, H!Send
<1>3. eng.adapter
  BY <1>0, <1>2 DEF H!NothingBeforeInit
<1>4. PICK q, r : q = hQueue /\ r = hQueue'
  OBVIOUS
<1>5. PICK T : T = {H!Msg("Config", H!Config[i]) : i \in 1 .. Len(H!Config)}
  OBVIOUS
<1>6. ms \in Seq(T) /\ Len(ms) = Len(H!Config)
  <2>1. PICK n : n = Len(H!Config) /\ n \in Nat
    BY ConfigIsSeq
  <2>2. \A i \in 1 .. n : ms[i] \in T
    BY <1>1, <1>5, <2>1
  <2>3. ms \in [1 .. n -> T]
    BY <1>1, <2>1, <2>2
  <2>4. ms \in Seq(T)
    BY <2>1, <2>3, SeqDef
  <2>5. DOMAIN ms = 1 .. n
    BY <2>3
  <2> QED BY <2>1, <2>4, <2>5, LenProperties
<1>7. q \in Seq(H!ToSet(q)) /\ r = q \o ms
  <2>1. hQueue \in Seq(H!ToSet(hQueue))
    BY <1>0 DEF H!HalTypeOK
  <2> QED BY <1>2, <1>4, <2>1
<1>8. Follows(r, q, ms)
  BY ONLY <1>6, <1>7, Appended
<1>9. H!HalTypeOK'
  BY <1>0, <1>2, <1>4, <1>8 DEF H!HalTypeOK, Follows
<1>10. H!NothingBeforeInit'
  BY <1>2, <1>3 DEF H!NothingBeforeInit
<1>11. r # <<>> /\ Head(r) = Head(q)
  BY <1>2, <1>4, <1>7, <1>8, HeadKept
<1>12. worker' # <<>> /\ worker'[1] = network
  BY <1>0, <1>2 DEF H!WorkerSound
<1>13. H!WorkerSound'
  BY <1>0, <1>2, <1>4, <1>11, <1>12 DEF H!WorkerSound
<1>14. ASSUME hModem.phase \in {"up", "returning"}
       PROVE  H!OpenBy(r, hModem.open, Len(r) + 1)
  <2>1. H!OpenBy(q, hModem.open, Len(q) + 1)
    BY <1>0, <1>3, <1>4, <1>14 DEF H!InformationComing
  <2>2. Len(r) + 1 \in Nat /\ Len(q) < Len(r) + 1
    BY <1>8 DEF Follows
  <2> QED BY <1>8, <2>1, <2>2, OpenBehind
<1>15. ASSUME hModem.phase = "up", fw # "sendInit", NEW c \in H!ToSet(H!Config)
       PROVE  H!ConfigComing(r, hModem.open, worker', hModem.conf, c)
  <2>1. H!ConfigComing(q, hModem.open, <<>>, hModem.conf, c)
    BY <1>0, <1>2, <1>3, <1>4, <1>15 DEF H!InformationComing
  <2>2. PICK i \in 1 .. Len(ms) : c = H!Config[i]
    BY <1>6, <1>15, ConfigIsSeq
  <2>3. ms[i] = H!Msg("Config", c)
    BY <1>1, <1>6, <2>2
  <2> QED BY <1>7, <1>8, <2>1, <2>3, ConfigQueued
<1>16. H!DataComing(r, hModem.open, worker', hModem.data, fw, network)
  BY <1>12 DEF H!DataComing
<1>17. H!Config' = H!Config
  BY <1>2 DEF H!Config
<1>18. H!InformationComing'
  BY <1>2, <1>4, <1>14, <1>15, <1>16, <1>17 DEF H!InformationComing
<1> QED BY <1>9, <1>10, <1>13, <1>18 DEF H!HalInv

(* The initialisation's own message is dropped, the availability told       *)
(* behind all that is queued, and after it at most the servers.            *)
LEMMA HalFinish ==
  ASSUME H!HalInv, H!finishReinit
  PROVE  H!HalInv'
<1>0. H!HalTypeOK /\ H!NothingBeforeInit /\ H!WorkerSound /\ H!InformationComing
  BY DEF H!HalInv
<1>1. /\ UNCHANGED <<device, eng, fw, hModem, network, unsure>>
      /\ worker # <<>> /\ worker' = <<>>
  BY DEF H!finishReinit
<1>2. /\ eng.adapter /\ hQueue # <<>> /\ Head(hQueue).type \in H!Reinits
      /\ ~unsure => worker[1] = network
  BY <1>0, <1>1 DEF H!NothingBeforeInit, H!WorkerSound
<1>3. PICK ss \in Seq(OtherMessages) :
        hQueue' = (Tail(hQueue) \o <<H!Msg("EnableData", worker[1])>>) \o ss
  <2>1. PICK resolved \in BOOLEAN :
          hQueue' = (Tail(hQueue) \o <<H!Msg("EnableData", worker[1])>>)
                    \o IF Head(hQueue).type = "EngineUp" /\ eng.agps
                       THEN H!loc_eng_agps_reinit(eng, resolved) ELSE <<>>
    BY DEF H!finishReinit
  <2>2. PICK ss : ss = IF Head(hQueue).type = "EngineUp" /\ eng.agps
                       THEN H!loc_eng_agps_reinit(eng, resolved) ELSE <<>>
    OBVIOUS
  <2>3. ss = H!loc_eng_agps_reinit(eng, resolved) \/ ss = <<>>
    BY <2>2
  <2>4. H!loc_eng_agps_reinit(eng, resolved) \in Seq(OtherMessages)
    BY ServersAreOther
  <2>6. <<>> \in Seq(OtherMessages)
    OBVIOUS
  <2>5. ss \in Seq(OtherMessages)
    BY <2>3, <2>4, <2>6
  <2> QED BY <2>1, <2>2, <2>5
<1>4. PICK q, t, x, u, r : /\ q = hQueue /\ t = Tail(q) /\ x = H!Msg("EnableData", worker[1])
                           /\ u = t \o <<x>> /\ r = hQueue'
  OBVIOUS
<1>5. PICK o : o = hModem.open
  OBVIOUS
<1>6. /\ q \in Seq(H!ToSet(q)) /\ q # <<>> /\ Head(q).type \in H!Reinits
      /\ x.type = "EnableData" /\ x.arg = worker[1] /\ r = u \o ss
  <2>1. hQueue \in Seq(H!ToSet(hQueue))
    BY <1>0 DEF H!HalTypeOK
  <2>2. x.type = "EnableData" /\ x.arg = worker[1]
    BY <1>4 DEF H!Msg
  <2>3. q \in Seq(H!ToSet(q)) /\ q # <<>> /\ Head(q).type \in H!Reinits
    BY <1>2, <1>4, <2>1
  <2>4. r = u \o ss
    BY <1>3, <1>4
  <2> QED BY <2>2, <2>3, <2>4
<1>7. /\ t \in Seq(H!ToSet(t)) /\ Len(t) = Len(q) - 1 /\ Len(q) \in Nat \ {0}
      /\ \A i \in 1 .. Len(t) : t[i] = q[i + 1]
      /\ Head(q) = q[1]
  BY <1>4, <1>6, Tailed, ZenonT(30)
<1>8. Follows(u, t, <<x>>)
  BY <1>4, <1>7, AppendedOne
<1>9. Follows(r, u, ss)
  <2>1. u \in Seq(H!ToSet(u)) /\ r = u \o ss /\ ss \in Seq(OtherMessages)
    BY <1>3, <1>6, <1>8 DEF Follows
  <2> QED BY ONLY <2>1, Appended
<1>10. /\ Len(t) \in Nat /\ Len(u) = Len(t) + 1 /\ Len(r) \in Nat /\ Len(r) >= Len(u)
       /\ Extends(u, t) /\ Extends(r, u) /\ u[Len(t) + 1] = x /\ r[Len(t) + 1] = x
       /\ Len(t) + 1 \in 1 .. Len(r) /\ Len(t) + 1 \in 1 .. Len(u) /\ Len(u) \in Nat
  <2>1. /\ Len(t) \in Nat /\ Len(u) = Len(t) + 1 /\ Extends(u, t) /\ u[Len(t) + 1] = x
    BY <1>8 DEF Follows
  <2>2. Len(r) = Len(u) + Len(ss) /\ Len(ss) \in Nat /\ Extends(r, u)
    BY <1>9 DEF Follows
  <2>3. Len(t) + 1 \in 1 .. Len(u)
    BY <2>1
  <2>4. r[Len(t) + 1] = u[Len(t) + 1]
    BY <2>2, <2>3 DEF Extends
  <2> QED BY <2>1, <2>2, <2>3, <2>4
<1>11. \A i \in Len(u) + 1 .. Len(r) : r[i].type # "EnableData"
  <2>1. \A i \in 1 .. Len(ss) : ss[i].type # "EnableData"
    BY <1>3, LenProperties, OthersAreOther
  <2> QED BY <1>9, <2>1 DEF Follows
<1>12. ~H!Opens(q[1]) /\ q[1].type # "Config"
  BY <1>6, <1>7 DEF H!Opens, H!Reinits
<1>13. H!HalTypeOK'
  BY <1>0, <1>1, <1>4, <1>9 DEF H!HalTypeOK, Follows
<1>14. H!NothingBeforeInit'
  BY <1>1, <1>2 DEF H!NothingBeforeInit
<1>15. H!WorkerSound'
  BY <1>0, <1>1 DEF H!WorkerSound
<1>16. ASSUME hModem.phase \in {"up", "returning"}
       PROVE  /\ H!OpenBy(r, o, Len(r) + 1)
              /\ ~unsure => H!DataComing(r, o, <<>>, hModem.data, fw, network)
  <2>1. H!OpenBy(q, o, Len(q) + 1)
    BY <1>0, <1>2, <1>4, <1>5, <1>16 DEF H!InformationComing
  <2>2. PICK j : j = Len(q) + 1
    OBVIOUS
  <2>3. j \in 2 .. Len(q) + 1 /\ j - 1 = Len(t) + 1 /\ H!OpenBy(q, o, j)
    BY <1>7, <2>1, <2>2
  <2>4. o \/ H!Opens(q[1]) => o
    BY <1>12
  <2>5. H!OpenBy(t, o, j - 1)
    BY ONLY <1>7, <2>3, <2>4, OpenAfterHead
  <2>6. H!OpenBy(t, o, Len(t) + 1)
    BY <2>3, <2>5
  <2>7. Len(u) + 1 \in Nat /\ Len(t) < Len(u) + 1 /\ Len(t) + 1 \in Nat /\ Len(t) < Len(t) + 1
    BY <1>10
  <2>8. H!OpenBy(u, o, Len(u) + 1)
    BY <1>8, <2>6, <2>7, OpenBehind
  <2>9. Len(r) + 1 \in Nat /\ Len(u) < Len(r) + 1
    BY <1>10
  <2>10. H!OpenBy(r, o, Len(r) + 1)
    BY <1>9, <2>8, <2>9, OpenBehind
  <2>11. H!OpenBy(u, o, Len(t) + 1)
    BY <1>8, <2>6, <2>7, OpenBehind
  <2>12. PICK k : k = Len(t) + 1
    OBVIOUS
  <2>13. H!OpenBy(u, o, k) /\ k \in 1 .. Len(u) + 1 /\ k \in Int /\ k <= k
    BY <1>10, <2>11, <2>12
  <2>14. H!OpenBy(r, o, k)
    BY <1>10, <2>13, OpenKept
  <2>15. H!LastData(r, k + 1)
    BY <1>10, <1>11, <2>12 DEF H!LastData
  <2>16. ~unsure => r[k].type = "EnableData" /\ r[k].arg = network
    BY <1>2, <1>6, <1>10, <2>12
  <2>17. k \in 1 .. Len(r)
    BY <1>10, <2>12
  <2> QED BY <2>10, <2>14, <2>15, <2>16, <2>17 DEF H!DataComing
<1>17. ASSUME hModem.phase = "up", fw # "sendInit", NEW c \in H!ToSet(H!Config)
       PROVE  H!ConfigComing(r, o, <<>>, hModem.conf, c)
  <2>1. PICK w, known : w = worker /\ known = hModem.conf
    OBVIOUS
  <2>2. H!ConfigComing(q, o, w, known, c)
    BY <1>0, <1>2, <1>4, <1>5, <1>17, <2>1 DEF H!InformationComing
  <2>3. /\ q[1].type \in H!Reinits => w # <<>>
        /\ q[1].type = "Config" /\ q[1].arg = c /\ o => c \in known
        /\ o \/ H!Opens(q[1]) => o
        /\ known \subseteq known
    BY <1>1, <1>12, <2>1
  <2>4. H!ConfigComing(t, o, <<>>, known, c)
    BY ONLY <1>7, <2>2, <2>3, ConfigAfterHead
  <2>5. H!ConfigComing(u, o, <<>>, known, c)
    BY <1>10, <2>4, ConfigKept
  <2>6. H!ConfigComing(r, o, <<>>, known, c)
    BY <1>10, <2>5, ConfigKept
  <2> QED BY <2>1, <2>6
<1>18. H!Config' = H!Config
  BY <1>1 DEF H!Config
<1>19. H!InformationComing'
  BY <1>1, <1>4, <1>5, <1>16, <1>17, <1>18 DEF H!InformationComing
<1> QED BY <1>13, <1>14, <1>15, <1>19 DEF H!HalInv

(* What a message changes in the modem.                                    *)
LEMMA ReachedIs ==
  ASSUME H!HalTypeOK, NEW msg, NEW mm, mm = H!Reached(hModem, msg)
  PROVE  /\ \E phase \in {"up", "down", "returning"}, open \in BOOLEAN :
              mm = [phase |-> phase, open |-> open, conf |-> mm.conf, data |-> mm.data,
                    servers |-> mm.servers, got |-> mm.got, mode |-> mm.mode]
         /\ mm.phase = hModem.phase
         /\ hModem.conf \subseteq mm.conf
         /\ mm.open = IF H!Opens(msg) THEN hModem.phase # "down" ELSE hModem.open
         /\ msg.type = "Config" /\ hModem.open => msg.arg \in mm.conf
         /\ mm.data = IF msg.type = "EnableData" /\ hModem.open THEN msg.arg ELSE hModem.data
<1>1. PICK phase, open, c, d, s, g, a :
        /\ phase \in {"up", "down", "returning"} /\ open \in BOOLEAN
        /\ hModem = [phase |-> phase, open |-> open, conf |-> c, data |-> d, servers |-> s,
                     got |-> g, mode |-> a]
  BY DEF H!HalTypeOK
<1>2. /\ hModem.phase = phase /\ hModem.open = open /\ hModem.conf = c /\ hModem.data = d
  BY <1>1
<1>3. CASE H!Opens(msg)
  <2>1. PICK b \in BOOLEAN : b = (phase # "down")
    OBVIOUS
  <2>2. mm = [hModem EXCEPT !.open = b]
    BY <1>2, <1>3, <2>1 DEF H!Reached, H!Opens
  <2>3. mm = [phase |-> phase, open |-> b, conf |-> c, data |-> d, servers |-> s,
              got |-> g, mode |-> a]
    BY <1>1, <2>2
  <2>4. /\ mm.phase = phase /\ mm.open = b /\ mm.conf = c /\ mm.data = d
        /\ mm.servers = s /\ mm.got = g /\ mm.mode = a
    BY <2>3
  <2>5. mm = [phase |-> phase, open |-> b, conf |-> mm.conf, data |-> mm.data,
              servers |-> mm.servers, got |-> mm.got, mode |-> mm.mode]
    BY <2>3, <2>4
  <2>6. msg.type \notin {"Config", "EnableData"}
    BY <1>3 DEF H!Opens
  <2>7. \E ph \in {"up", "down", "returning"}, op \in BOOLEAN :
          mm = [phase |-> ph, open |-> op, conf |-> mm.conf, data |-> mm.data,
                servers |-> mm.servers, got |-> mm.got, mode |-> mm.mode]
    BY <1>1, <2>5
  <2> QED BY <1>2, <1>3, <2>1, <2>4, <2>6, <2>7
<1>4. CASE ~H!Opens(msg) /\ ~open
  <2>1. mm = hModem
    BY <1>2, <1>4 DEF H!Reached, H!Opens
  <2> QED BY <1>1, <1>2, <1>4, <2>1
<1>5. CASE ~H!Opens(msg) /\ open
  <2>1. mm = CASE msg.type = "Config"       -> [hModem EXCEPT !.conf = c \cup {msg.arg}]
               [] msg.type = "EnableData"   -> [hModem EXCEPT !.data = msg.arg]
               [] msg.type = "SetServer"    -> [hModem EXCEPT !.servers = @ \cup {msg.arg}]
               [] msg.type = "PositionMode" -> [hModem EXCEPT !.mode = msg.arg]
               [] msg.type = "Inject"       -> [hModem EXCEPT !.got = @ \cup {msg.arg}]
               [] OTHER -> hModem
    BY <1>2, <1>5 DEF H!Reached, H!Opens
  <2>2. CASE msg.type = "Config"
    <3>1. mm = [phase |-> phase, open |-> open, conf |-> c \cup {msg.arg}, data |-> d,
                servers |-> s, got |-> g, mode |-> a]
      BY <1>1, <2>1, <2>2
    <3>2. /\ mm.phase = phase /\ mm.open = open /\ mm.conf = c \cup {msg.arg} /\ mm.data = d
          /\ mm.servers = s /\ mm.got = g /\ mm.mode = a
      BY <3>1
    <3>3. mm = [phase |-> phase, open |-> open, conf |-> mm.conf, data |-> mm.data,
                servers |-> mm.servers, got |-> mm.got, mode |-> mm.mode]
      BY <3>1, <3>2
    <3>4. \E ph \in {"up", "down", "returning"}, op \in BOOLEAN :
            mm = [phase |-> ph, open |-> op, conf |-> mm.conf, data |-> mm.data,
                  servers |-> mm.servers, got |-> mm.got, mode |-> mm.mode]
      BY <1>1, <3>3
    <3>5. mm.phase = hModem.phase /\ hModem.conf \subseteq mm.conf
      BY <1>2, <3>2
    <3>6. mm.open = IF H!Opens(msg) THEN hModem.phase # "down" ELSE hModem.open
      BY <1>2, <1>5, <3>2
    <3>7. /\ msg.type = "Config" /\ hModem.open => msg.arg \in mm.conf
          /\ mm.data = IF msg.type = "EnableData" /\ hModem.open THEN msg.arg ELSE hModem.data
      BY <1>2, <1>5, <2>2, <3>2
    <3> QED BY <3>4, <3>5, <3>6, <3>7
  <2>3. CASE msg.type = "EnableData"
    <3>1. mm = [phase |-> phase, open |-> open, conf |-> c, data |-> msg.arg,
                servers |-> s, got |-> g, mode |-> a]
      BY <1>1, <2>1, <2>3
    <3>2. /\ mm.phase = phase /\ mm.open = open /\ mm.conf = c /\ mm.data = msg.arg
          /\ mm.servers = s /\ mm.got = g /\ mm.mode = a
      BY <3>1
    <3>3. mm = [phase |-> phase, open |-> open, conf |-> mm.conf, data |-> mm.data,
                servers |-> mm.servers, got |-> mm.got, mode |-> mm.mode]
      BY <3>1, <3>2
    <3>4. \E ph \in {"up", "down", "returning"}, op \in BOOLEAN :
            mm = [phase |-> ph, open |-> op, conf |-> mm.conf, data |-> mm.data,
                  servers |-> mm.servers, got |-> mm.got, mode |-> mm.mode]
      BY <1>1, <3>3
    <3>5. mm.phase = hModem.phase /\ hModem.conf \subseteq mm.conf
      BY <1>2, <3>2
    <3>6. mm.open = IF H!Opens(msg) THEN hModem.phase # "down" ELSE hModem.open
      BY <1>2, <1>5, <3>2
    <3>7. /\ msg.type = "Config" /\ hModem.open => msg.arg \in mm.conf
          /\ mm.data = IF msg.type = "EnableData" /\ hModem.open THEN msg.arg ELSE hModem.data
      BY <1>2, <1>5, <2>3, <3>2
    <3> QED BY <3>4, <3>5, <3>6, <3>7
  <2>4. CASE msg.type \notin {"Config", "EnableData"}
    <3>0. \E s2, g2, a2 : mm = [phase |-> phase, open |-> open, conf |-> c, data |-> d,
                                servers |-> s2, got |-> g2, mode |-> a2]
      <4>1. CASE msg.type = "SetServer"
        <5>1. mm = [phase |-> phase, open |-> open, conf |-> c, data |-> d,
                    servers |-> s \cup {msg.arg}, got |-> g, mode |-> a]
          BY <1>1, <2>1, <4>1
        <5> QED BY <5>1
      <4>2. CASE msg.type = "PositionMode"
        <5>1. mm = [phase |-> phase, open |-> open, conf |-> c, data |-> d,
                    servers |-> s, got |-> g, mode |-> msg.arg]
          BY <1>1, <2>1, <4>2
        <5> QED BY <5>1
      <4>3. CASE msg.type = "Inject"
        <5>1. mm = [phase |-> phase, open |-> open, conf |-> c, data |-> d,
                    servers |-> s, got |-> g \cup {msg.arg}, mode |-> a]
          BY <1>1, <2>1, <4>3
        <5> QED BY <5>1
      <4>4. CASE msg.type \notin {"SetServer", "PositionMode", "Inject"}
        <5>1. mm = hModem
          BY <2>1, <2>4, <4>4
        <5> QED BY <1>1, <5>1
      <4> QED BY <4>1, <4>2, <4>3, <4>4
    <3>1. PICK s2, g2, a2 : mm = [phase |-> phase, open |-> open, conf |-> c, data |-> d,
                                  servers |-> s2, got |-> g2, mode |-> a2]
      BY <3>0
    <3>2. /\ mm.phase = phase /\ mm.open = open /\ mm.conf = c /\ mm.data = d
          /\ mm.servers = s2 /\ mm.got = g2 /\ mm.mode = a2
      BY <3>1
    <3>3. mm = [phase |-> phase, open |-> open, conf |-> mm.conf, data |-> mm.data,
                servers |-> mm.servers, got |-> mm.got, mode |-> mm.mode]
      BY <3>1, <3>2
    <3>4. \E ph \in {"up", "down", "returning"}, op \in BOOLEAN :
            mm = [phase |-> ph, open |-> op, conf |-> mm.conf, data |-> mm.data,
                  servers |-> mm.servers, got |-> mm.got, mode |-> mm.mode]
      BY <1>1, <3>3
    <3>5. mm.phase = hModem.phase /\ hModem.conf \subseteq mm.conf
      BY <1>2, <3>2
    <3>6. mm.open = IF H!Opens(msg) THEN hModem.phase # "down" ELSE hModem.open
      BY <1>2, <1>5, <3>2
    <3>7. /\ msg.type = "Config" /\ hModem.open => msg.arg \in mm.conf
          /\ mm.data = IF msg.type = "EnableData" /\ hModem.open THEN msg.arg ELSE hModem.data
      BY <1>2, <1>5, <2>4, <3>2
    <3> QED BY <3>4, <3>5, <3>6, <3>7
  <2> QED BY <2>2, <2>3, <2>4
<1> QED BY <1>3, <1>4, <1>5

LEMMA HalProc ==
  ASSUME H!HalInv, H!proc
  PROVE  H!HalInv'
<1>0. H!HalTypeOK /\ H!NothingBeforeInit /\ H!WorkerSound /\ H!InformationComing
  BY DEF H!HalInv
<1>1. PICK q, r, x, mm, o, p : /\ q = hQueue /\ r = hQueue' /\ x = Head(q) /\ mm = hModem'
                               /\ o = hModem.open /\ p = mm.open
  OBVIOUS
<1>2. /\ UNCHANGED <<device, eng, fw, worker, network, unsure>>
      /\ worker = <<>> /\ q # <<>> /\ x.type \notin H!Reinits
      /\ mm = H!Reached(hModem, x) /\ r = Tail(q)
  BY <1>1 DEF H!proc
<1>3. eng.adapter /\ q \in Seq(H!ToSet(q))
  <2>1. hQueue \in Seq(H!ToSet(hQueue))
    BY <1>0 DEF H!HalTypeOK
  <2> QED BY <1>0, <1>1, <1>2, <2>1 DEF H!NothingBeforeInit
<1>4. /\ r \in Seq(H!ToSet(r)) /\ Len(r) = Len(q) - 1 /\ Len(q) \in Nat \ {0}
      /\ \A i \in 1 .. Len(r) : r[i] = q[i + 1]
      /\ x = q[1]
  BY <1>1, <1>2, <1>3, Tailed, ZenonT(30)
<1>5. /\ \E phase \in {"up", "down", "returning"}, open \in BOOLEAN :
            mm = [phase |-> phase, open |-> open, conf |-> mm.conf, data |-> mm.data,
                  servers |-> mm.servers, got |-> mm.got, mode |-> mm.mode]
      /\ mm.phase = hModem.phase
      /\ hModem.conf \subseteq mm.conf
      /\ p = IF H!Opens(x) THEN hModem.phase # "down" ELSE o
      /\ x.type = "Config" /\ o => x.arg \in mm.conf
      /\ mm.data = IF x.type = "EnableData" /\ o THEN x.arg ELSE hModem.data
  BY <1>0, <1>1, <1>2, ReachedIs
<1>6. H!HalTypeOK'
  BY <1>0, <1>1, <1>2, <1>4, <1>5 DEF H!HalTypeOK
<1>7. H!NothingBeforeInit' /\ H!WorkerSound'
  BY <1>0, <1>2, <1>3 DEF H!NothingBeforeInit, H!WorkerSound
<1>8. ASSUME hModem.phase \in {"up", "returning"}
      PROVE  o \/ H!Opens(q[1]) => p
  BY <1>4, <1>5, <1>8
<1>9. ASSUME hModem.phase \in {"up", "returning"}
      PROVE  H!OpenBy(r, p, Len(r) + 1)
  <2>1. H!OpenBy(q, o, Len(q) + 1)
    BY <1>0, <1>1, <1>3, <1>9 DEF H!InformationComing
  <2>2. PICK j : j = Len(q) + 1
    OBVIOUS
  <2>3. j \in 2 .. Len(q) + 1 /\ j - 1 = Len(r) + 1 /\ H!OpenBy(q, o, j)
    BY <1>4, <2>1, <2>2
  <2>4. o \/ H!Opens(q[1]) => p
    BY <1>8, <1>9
  <2>5. H!OpenBy(r, p, j - 1)
    BY ONLY <1>4, <2>3, <2>4, OpenAfterHead
  <2> QED BY <2>3, <2>5
<1>10. ASSUME hModem.phase = "up", fw # "sendInit", NEW c \in H!ToSet(H!Config)
       PROVE  H!ConfigComing(r, p, <<>>, mm.conf, c)
  <2>1. PICK known, known2 : known = hModem.conf /\ known2 = mm.conf
    OBVIOUS
  <2>2. H!ConfigComing(q, o, <<>>, known, c)
    BY <1>0, <1>1, <1>2, <1>3, <1>10, <2>1 DEF H!InformationComing
  <2>3. PICK w : w = <<>>
    OBVIOUS
  <2>4. /\ q[1].type \in H!Reinits => w # <<>>
        /\ q[1].type = "Config" /\ q[1].arg = c /\ o => c \in known2
        /\ o \/ H!Opens(q[1]) => p
        /\ known \subseteq known2 /\ H!ConfigComing(q, o, w, known, c)
    BY <1>2, <1>4, <1>5, <1>8, <1>10, <2>1, <2>2, <2>3
  <2>5. H!ConfigComing(r, p, <<>>, known2, c)
    BY ONLY <1>4, <2>4, ConfigAfterHead
  <2> QED BY <2>1, <2>5
<1>11. ASSUME hModem.phase = "up", fw # "sendInit", ~unsure
       PROVE  H!DataComing(r, p, <<>>, mm.data, fw, network)
  <2>1. PICK data, data2, at, available : /\ data = hModem.data /\ data2 = mm.data
                                          /\ at = fw /\ available = network
    OBVIOUS
  <2>2. H!DataComing(q, o, <<>>, data, at, available)
    BY <1>0, <1>1, <1>2, <1>3, <1>11, <2>1 DEF H!InformationComing
  <2>3. /\ q[1].type \notin H!Reinits
        /\ q[1].type = "EnableData" /\ o => data2 = q[1].arg
        /\ ~(q[1].type = "EnableData" /\ o) => data2 = data
        /\ o \/ H!Opens(q[1]) => p
    BY <1>2, <1>4, <1>5, <1>8, <1>11, <2>1
  <2>4. H!DataComing(r, p, <<>>, data2, at, available)
    BY ONLY <1>4, <2>2, <2>3, DataAfterHead
  <2> QED BY <2>1, <2>4
<1>12. H!Config' = H!Config
  BY <1>2 DEF H!Config
<1>13. H!InformationComing'
  BY <1>1, <1>2, <1>5, <1>9, <1>10, <1>11, <1>12 DEF H!InformationComing
<1> QED BY <1>6, <1>7, <1>13 DEF H!HalInv

LEMMA HalCrash ==
  ASSUME H!HalInv, H!modemCrash
  PROVE  H!HalInv'
<1>0. H!HalTypeOK /\ H!NothingBeforeInit /\ H!WorkerSound
  BY DEF H!HalInv
<1>1. PICK ms : ms = IF eng.adapter THEN <<H!Msg("EngineDown", "")>> ELSE <<>>
  OBVIOUS
<1>2. /\ UNCHANGED <<device, eng, fw, worker, network, unsure>>
      /\ hModem' = [H!NewModem EXCEPT !.phase = "down"] /\ hQueue' = hQueue \o ms
  BY <1>1 DEF H!modemCrash, H!Send
<1>3. PICK q, r, T : q = hQueue /\ r = hQueue' /\ T = {H!Msg("EngineDown", "")}
  OBVIOUS
<1>4. q \in Seq(H!ToSet(q)) /\ r = q \o ms
  <2>1. hQueue \in Seq(H!ToSet(hQueue))
    BY <1>0 DEF H!HalTypeOK
  <2> QED BY <1>2, <1>3, <2>1
<1>5. ms \in Seq(T)
  <2>1. PICK x : x = H!Msg("EngineDown", "")
    OBVIOUS
  <2>2. <<x>> \in Seq({x}) /\ <<>> \in Seq({x})
    OBVIOUS
  <2>3. ms = <<x>> \/ ms = <<>>
    BY <1>1, <2>1
  <2> QED BY <1>3, <2>1, <2>2, <2>3
<1>6. Follows(r, q, ms)
  BY ONLY <1>4, <1>5, Appended
<1>7. hModem' = [phase |-> "down", open |-> FALSE, conf |-> {}, data |-> H!Unknown,
                 servers |-> {}, got |-> {}, mode |-> "STANDALONE"]
  BY <1>2 DEF H!NewModem
<1>8. H!HalTypeOK'
  <2>1. hModem' = [phase |-> "down", open |-> FALSE, conf |-> hModem'.conf,
                   data |-> hModem'.data, servers |-> hModem'.servers,
                   got |-> hModem'.got, mode |-> hModem'.mode]
    BY <1>7
  <2> QED BY <1>0, <1>2, <1>3, <1>6, <2>1 DEF H!HalTypeOK, Follows
<1>9. q # <<>> => r # <<>> /\ Head(r) = Head(q)
  BY <1>4, <1>6, HeadKept
<1>10. H!WorkerSound'
  BY <1>0, <1>2, <1>3, <1>9 DEF H!WorkerSound
<1>11. hModem'.phase = "down" /\ ~hModem'.open
  BY <1>7
<1>12. ~eng.adapter => hQueue' = <<>>
  <2> SUFFICES ASSUME ~eng.adapter PROVE hQueue' = <<>>
    OBVIOUS
  <2>1. q = <<>> /\ ms = <<>>
    BY <1>0, <1>1, <1>3 DEF H!NothingBeforeInit
  <2>2. r = <<>> \o <<>>
    BY <1>4, <2>1
  <2>3. r = <<>>
    BY <2>2
  <2> QED BY <1>3, <2>3
<1>13. H!NothingBeforeInit'
  BY <1>0, <1>2, <1>11, <1>12 DEF H!NothingBeforeInit
<1>14. H!InformationComing'
  BY <1>11 DEF H!InformationComing
<1> QED BY <1>8, <1>10, <1>13, <1>14 DEF H!HalInv

(* A handle that is opened anew is followed by the message LocEngUp.       *)
LEMMA HalReturn ==
  ASSUME H!HalInv, H!modemReturns
  PROVE  H!HalInv'
<1>0. H!HalTypeOK /\ H!NothingBeforeInit /\ H!WorkerSound /\ H!InformationComing
  BY DEF H!HalInv
<1>1. UNCHANGED <<device, eng, fw, worker, network, unsure>>
  BY DEF H!modemReturns
<1>2. PICK q, r : q = hQueue /\ r = hQueue'
  OBVIOUS
<1>3. q \in Seq(H!ToSet(q))
  <2>1. hQueue \in Seq(H!ToSet(hQueue))
    BY <1>0 DEF H!HalTypeOK
  <2> QED BY <1>2, <2>1
<1>4. PICK phase, b : /\ hModem' = [hModem EXCEPT !.phase = phase]
                      /\ phase \in {"up", "returning"}
                      /\ \/ /\ ~eng.adapter /\ phase = "up" /\ b = "none"
                            /\ r = q \o <<>>
                         \/ /\ eng.adapter /\ phase = "returning" /\ b = "Ssr"
                            /\ r = q \o <<H!Msg("Ssr", "")>>
                         \/ /\ hModem.phase = "returning" /\ phase = "up" /\ b = "EngineUp"
                            /\ r = q \o <<H!Msg("EngineUp", "")>>
  <2>1. CASE hModem.phase = "down" /\ ~eng.adapter
    BY <1>2, <2>1 DEF H!modemReturns, H!Send
  <2>2. CASE hModem.phase = "down" /\ eng.adapter
    BY <1>2, <2>2 DEF H!modemReturns, H!Send
  <2>3. CASE hModem.phase = "returning"
    BY <1>2, <2>3 DEF H!modemReturns, H!Send
  <2> QED BY <2>1, <2>2, <2>3 DEF H!modemReturns
<1>5. /\ hModem'.phase = phase /\ hModem'.open = hModem.open
      /\ hModem'.conf = hModem.conf /\ hModem'.data = hModem.data
      /\ \E open \in BOOLEAN :
           hModem' = [phase |-> phase, open |-> open, conf |-> hModem'.conf,
                      data |-> hModem'.data, servers |-> hModem'.servers,
                      got |-> hModem'.got, mode |-> hModem'.mode]
  <2>1. PICK ph, open, c, d, s, g, a :
          /\ open \in BOOLEAN
          /\ hModem = [phase |-> ph, open |-> open, conf |-> c, data |-> d, servers |-> s,
                       got |-> g, mode |-> a]
    BY <1>0 DEF H!HalTypeOK
  <2>2. hModem' = [phase |-> phase, open |-> open, conf |-> c, data |-> d, servers |-> s,
                   got |-> g, mode |-> a]
    BY <1>4, <2>1
  <2>3. /\ hModem'.phase = phase /\ hModem'.open = open /\ hModem'.conf = c
        /\ hModem'.data = d /\ hModem'.servers = s /\ hModem'.got = g /\ hModem'.mode = a
    BY <2>2
  <2>4. hModem.open = open /\ hModem.conf = c /\ hModem.data = d
    BY <2>1
  <2> QED BY <2>1, <2>2, <2>3, <2>4
<1>6. CASE ~eng.adapter
  <2>1. q = <<>> /\ phase = "up"
    BY <1>0, <1>2, <1>4, <1>6 DEF H!NothingBeforeInit
  <2>2. r = <<>> \o <<>>
    BY <1>0, <1>4, <1>6, <2>1 DEF H!NothingBeforeInit
  <2>3. r = <<>>
    BY <2>2
  <2>4. H!HalTypeOK'
    BY <1>0, <1>1, <1>2, <1>3, <1>5, <2>1, <2>3 DEF H!HalTypeOK
  <2>5. H!NothingBeforeInit' /\ H!WorkerSound'
    BY <1>0, <1>1, <1>2, <1>5, <2>1, <2>3 DEF H!NothingBeforeInit, H!WorkerSound
  <2>6. H!InformationComing'
    BY <1>1, <1>6 DEF H!InformationComing
  <2> QED BY <2>4, <2>5, <2>6 DEF H!HalInv
<1>7. CASE eng.adapter
  <2>1. PICK x : /\ x = H!Msg(b, "") /\ r = q \o <<x>>
                 /\ \/ phase = "returning" /\ b = "Ssr"
                    \/ phase = "up" /\ b = "EngineUp" /\ hModem.phase = "returning"
    BY <1>4, <1>7
  <2>2. Follows(r, q, <<x>>)
    BY <1>3, <2>1, AppendedOne
  <2>3. /\ Len(q) \in Nat /\ Len(r) = Len(q) + 1 /\ r[Len(q) + 1] = x
        /\ r \in Seq(H!ToSet(r))
    BY <2>2 DEF Follows
  <2>4. H!HalTypeOK'
    BY <1>0, <1>1, <1>2, <1>4, <1>5, <2>3 DEF H!HalTypeOK
  <2>5. H!NothingBeforeInit'
    BY <1>1, <1>7 DEF H!NothingBeforeInit
  <2>6. q # <<>> => r # <<>> /\ Head(r) = Head(q)
    BY <1>3, <2>2, HeadKept
  <2>7. H!WorkerSound'
    BY <1>0, <1>1, <1>2, <2>6 DEF H!WorkerSound
  <2>8. ASSUME phase = "returning" PROVE H!InformationComing'
    <3>1. H!Opens(x)
      BY <2>1, <2>8 DEF H!Msg, H!Opens
    <3>2. Len(q) + 1 \in 1 .. (Len(r) + 1) - 1
      BY <2>3
    <3>3. H!OpenBy(r, hModem.open, Len(r) + 1)
      BY <2>3, <3>1, <3>2 DEF H!OpenBy
    <3> QED BY <1>1, <1>2, <1>5, <2>8, <3>3 DEF H!InformationComing
  <2>9. ASSUME phase = "up" PROVE H!InformationComing'
    <3>1. x.type \in H!Reinits /\ hModem.phase = "returning"
      BY <2>1, <2>9 DEF H!Msg, H!Reinits
    <3>2. H!OpenBy(q, hModem.open, Len(q) + 1)
      BY <1>0, <1>2, <1>7, <3>1 DEF H!InformationComing
    <3>3. worker # <<>> => q # <<>>
      BY <1>0, <1>2 DEF H!WorkerSound
    <3>4. Len(r) + 1 \in Nat /\ Len(q) < Len(r) + 1
      BY <2>3
    <3>5. H!OpenBy(r, hModem.open, Len(r) + 1)
      BY <2>2, <3>2, <3>4, OpenBehind
    <3>6. /\ \A known, c : H!ConfigComing(r, hModem.open, worker, known, c)
          /\ \A data, at, available : H!DataComing(r, hModem.open, worker, data, at, available)
      BY <1>3, <2>2, <3>1, <3>2, <3>3, InitComes
    <3> QED BY <1>1, <1>2, <1>5, <3>5, <3>6 DEF H!InformationComing
  <2> QED BY <1>4, <2>4, <2>5, <2>7, <2>8, <2>9 DEF H!HalInv
<1> QED BY <1>6, <1>7

LEMMA HalInitInv == H!Init => H!HalInv
<1> SUFFICES ASSUME H!Init PROVE H!HalInv
  OBVIOUS
<1>1. /\ eng = [interface |-> {}, adapter |-> FALSE, agpsEnabled |-> FALSE,
                cpiEnabled |-> FALSE, agps |-> FALSE, xtra |-> FALSE,
                buffered |-> {}, agpsStatus |-> FALSE, loc_cb |-> FALSE]
      /\ fw = "idle" /\ worker = <<>> /\ hQueue = <<>> /\ network = FALSE
      /\ hModem = [phase |-> "up", open |-> FALSE, conf |-> {}, data |-> H!Unknown,
                   servers |-> {}, got |-> {}, mode |-> "STANDALONE"]
  BY DEF H!Init, H!NewModem
<1>2. eng \in H!Engine /\ ~eng.adapter /\ eng.agpsStatus = FALSE
  BY <1>1 DEF H!Engine
<1>3. hQueue \in Seq(H!ToSet(hQueue))
  BY <1>1
<1>4. /\ hModem.phase = "up" /\ hModem.open = FALSE
      /\ hModem = [phase |-> "up", open |-> FALSE, conf |-> hModem.conf, data |-> hModem.data,
                   servers |-> hModem.servers, got |-> hModem.got, mode |-> hModem.mode]
  BY <1>1
<1>5. H!HalTypeOK
  BY <1>2, <1>3, <1>4 DEF H!HalTypeOK
<1> QED BY <1>1, <1>2, <1>4, <1>5
        DEF H!HalInv, H!NothingBeforeInit, H!WorkerSound, H!InformationComing

(* No step of another part touches the framework, the engine or the modem. *)
LEMMA HalQuiet ==
  ASSUME H!HalInv, UNCHANGED hal
  PROVE  H!HalInv'
<1>1. /\ UNCHANGED <<device, eng, fw, worker, hQueue, hModem, network, unsure>>
  BY DEF hal
<1>2. H!Config' = H!Config
  BY <1>1 DEF H!Config
<1>3. H!HalTypeOK /\ H!NothingBeforeInit /\ H!WorkerSound /\ H!InformationComing
  BY DEF H!HalInv
<1>4. H!HalTypeOK'
  BY <1>1, <1>3 DEF H!HalTypeOK
<1>5. H!NothingBeforeInit' /\ H!WorkerSound'
  BY <1>1, <1>3 DEF H!NothingBeforeInit, H!WorkerSound
<1>6. H!InformationComing'
  BY <1>1, <1>2, <1>3 DEF H!InformationComing
<1> QED BY <1>4, <1>5, <1>6 DEF H!HalInv

(* However the modem crashed and whatever the framework sent meanwhile:    *)
(* with nothing left to be handled the modem has the whole configuration,   *)
(* and knows of the availability of data what the framework told last.     *)
THEOREM ModemIsInformed == MCSpec => []ModemInformed
<1> DEFINE all == <<part, vars, hal, base, routing, config, nmea>>
<1>1. MCInit => H!HalInv
  BY HalInitInv DEF MCInit
<1>2. H!HalInv /\ [MCNext]_all => H!HalInv'
  <2> SUFFICES ASSUME H!HalInv, [MCNext]_all PROVE H!HalInv'
    OBVIOUS
  <2>1. H!Next \/ UNCHANGED hal
    BY DEF MCNext
  <2>2. CASE H!Next
    <3>1. CASE H!Framework
      BY <3>1, HalCalls, HalInit, HalSendInit, HalRequests, HalSendData, HalAvailability
         DEF H!Framework
    <3> QED BY <2>2, <3>1, HalReinit, HalFinish, HalProc, HalRequests, HalCrash, HalReturn
            DEF H!Next
  <2> QED BY <2>1, <2>2, HalQuiet
<1>3. H!HalInv => ModemInformed
  <2> SUFFICES ASSUME H!HalInv, H!Quiet
               PROVE  /\ H!ToSet(H!Config) \subseteq hModem.conf
                      /\ ~unsure => hModem.data = network
    BY DEF ModemInformed, H!ConfigRestored, H!DataStatusKnown
  <2>1. fw = "idle" /\ worker = <<>> /\ hQueue = <<>> /\ eng.adapter /\ hModem.phase = "up"
    BY DEF H!Quiet
  <2>2. PICK o, known, data : o = hModem.open /\ known = hModem.conf /\ data = hModem.data
    OBVIOUS
  <2>3. /\ \A c \in H!ToSet(H!Config) : H!ConfigComing(<<>>, o, <<>>, known, c)
        /\ ~unsure => H!DataComing(<<>>, o, <<>>, data, "idle", network)
    BY <2>1, <2>2 DEF H!HalInv, H!InformationComing
  <2>4. 1 .. Len(<<>>) = {}
    OBVIOUS
  <2>5. \A c \in H!ToSet(H!Config) : c \in known
    BY <2>3, <2>4 DEF H!ConfigComing
  <2>6. ~unsure => data = network
    BY <2>3, <2>4 DEF H!DataComing
  <2> QED BY <2>2, <2>5, <2>6
<1> QED BY <1>1, <1>2, <1>3, PTL DEF MCSpec
=============================================================================
