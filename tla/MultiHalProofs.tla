--------------------------- MODULE MultiHalProofs ---------------------------
(***************************************************************************)
(* What the methods of SensorEventQueue guarantee, and the safety of the   *)
(* multi-HAL's data path, for any number of sub-HALs, any capacity and any *)
(* size of the framework's buffer.                                         *)
(*                                                                         *)
(* The argument is per device: DeviceOK says what holds between a queue    *)
(* and its writer task, and one lemma per critical section shows that the  *)
(* section keeps it.  What remains is how far poll()'s scan has got        *)
(* (ScanOK).                                                               *)
(***************************************************************************)
EXTENDS MultiHal, SequenceTheorems, FiniteSetTheorems, WellFoundedInduction, TLAPS

(***************************************************************************)
(* SensorEventQueue                                                        *)
(***************************************************************************)

(* Positions wrap at most once.                                            *)
LEMMA WrapsOnce ==
  ASSUME NEW c \in Nat \ {0}, NEW x \in Nat, x < c + c
  PROVE  x % c = IF x < c THEN x ELSE x - c
<1> DEFINE r == x % c
           q == x \div c
<1>1. r \in Nat /\ r < c /\ q \in Nat /\ x = c * q + r
  OBVIOUS
<1> HIDE DEF r, q
<1>2. CASE q = 0
  BY <1>1, <1>2 DEF r
<1>3. CASE q = 1
  BY <1>1, <1>3 DEF r
<1>4. CASE q >= 2
  <2>1. c * q >= c * 2
    BY <1>1, <1>4
  <2> QED BY <1>1, <2>1
<1> QED BY <1>1, <1>2, <1>3, <1>4

(* A queue whose indices are in range.                                     *)
Indexed(q) == q.mStart \in Slots /\ q.mSize \in 0 .. mCapacity

(* Readers stay inside the array.                                          *)
LEMMA ReadableInSlots ==
  ASSUME NEW q, Indexed(q)
  PROVE  Readable(q) \subseteq Slots
<1>1. mCapacity \in Nat \ {0} /\ q.mStart \in Nat
  BY CapacityAssumption DEF Indexed, Slots
<1> QED BY <1>1 DEF Readable, Slots, Indexed

(* Readable in terms of inequalities: one run of slots, or two.            *)
LEMMA ReadableSlots ==
  ASSUME NEW q, Indexed(q), NEW s \in Slots
  PROVE  s \in Readable(q) <=>
           IF q.mStart + q.mSize <= mCapacity
           THEN q.mStart <= s /\ s < q.mStart + q.mSize
           ELSE q.mStart <= s \/ s < q.mStart + q.mSize - mCapacity
<1>1. /\ mCapacity \in Nat \ {0} /\ q.mStart \in Nat /\ q.mSize \in Nat
      /\ q.mStart < mCapacity /\ q.mSize <= mCapacity
      /\ s \in Nat /\ s < mCapacity
  BY CapacityAssumption DEF Indexed, Slots
<1>2. ASSUME NEW k \in 0 .. q.mSize - 1
      PROVE  (q.mStart + k) % mCapacity =
               IF q.mStart + k < mCapacity THEN q.mStart + k
               ELSE q.mStart + k - mCapacity
  <2> DEFINE x == q.mStart + k
  <2>1. x \in Nat /\ x < mCapacity + mCapacity
    BY <1>1
  <2> HIDE DEF x
  <2>2. x % mCapacity = IF x < mCapacity THEN x ELSE x - mCapacity
    BY <1>1, <2>1, WrapsOnce
  <2> QED BY <1>1, <2>2 DEF x
<1>3. s \in Readable(q) <=>
        \E k \in 0 .. q.mSize - 1 : s = (q.mStart + k) % mCapacity
  BY DEF Readable
<1>4. ASSUME NEW k \in 0 .. q.mSize - 1, s = (q.mStart + k) % mCapacity
      PROVE  IF q.mStart + q.mSize <= mCapacity
             THEN q.mStart <= s /\ s < q.mStart + q.mSize
             ELSE q.mStart <= s \/ s < q.mStart + q.mSize - mCapacity
  BY <1>1, <1>2, <1>4
<1>5. ASSUME q.mStart <= s, s < q.mStart + q.mSize
      PROVE  s \in Readable(q)
  <2>1. s - q.mStart \in 0 .. q.mSize - 1 /\ q.mStart + (s - q.mStart) = s
    BY <1>1, <1>5
  <2>2. s = (q.mStart + (s - q.mStart)) % mCapacity
    BY <1>1, <1>2, <2>1
  <2> QED BY <1>3, <2>1, <2>2
<1>6. ASSUME s < q.mStart + q.mSize - mCapacity
      PROVE  s \in Readable(q)
  <2>1. /\ s + mCapacity - q.mStart \in 0 .. q.mSize - 1
        /\ q.mStart + (s + mCapacity - q.mStart) = s + mCapacity
    BY <1>1, <1>6
  <2>2. s = (q.mStart + (s + mCapacity - q.mStart)) % mCapacity
    BY <1>1, <1>2, <2>1
  <2> QED BY <1>3, <2>1, <2>2
<1> QED BY <1>1, <1>3, <1>4, <1>5, <1>6

(* The slot after the newest readable record.                              *)
LEMMA FirstWritable ==
  ASSUME NEW q, Indexed(q)
  PROVE  /\ firstWritable(q) \in Slots
         /\ firstWritable(q) = IF q.mStart + q.mSize < mCapacity
                               THEN q.mStart + q.mSize
                               ELSE q.mStart + q.mSize - mCapacity
<1>1. /\ mCapacity \in Nat \ {0} /\ q.mStart \in Nat /\ q.mSize \in Nat
      /\ q.mStart < mCapacity /\ q.mSize <= mCapacity
  BY CapacityAssumption DEF Indexed, Slots
<1>2. firstWritable(q) = IF q.mStart + q.mSize < mCapacity
                         THEN q.mStart + q.mSize
                         ELSE q.mStart + q.mSize - mCapacity
  BY <1>1, WrapsOnce DEF firstWritable
<1> QED BY <1>1, <1>2 DEF Slots

(* The header's promise: the region is at most as long as requested and    *)
(* the space that is left, at least one if there is space, and does not    *)
(* run past the end of the array.                                          *)
THEOREM RegionLength ==
  ASSUME NEW q, Indexed(q), NEW requestedLength \in Nat
  PROVE  LET length == getWritableRegion(q, requestedLength)
         IN  /\ length \in 0 .. requestedLength
             /\ q.mSize + length <= mCapacity
             /\ firstWritable(q) + length <= mCapacity
             /\ length > 0 <=> q.mSize < mCapacity /\ requestedLength > 0
<1>1. /\ mCapacity \in Nat \ {0} /\ q.mStart \in Nat /\ q.mSize \in Nat
      /\ q.mStart < mCapacity /\ q.mSize <= mCapacity
  BY CapacityAssumption DEF Indexed, Slots
<1> DEFINE first == firstWritable(q)
<1>2. /\ first = IF q.mStart + q.mSize < mCapacity THEN q.mStart + q.mSize
                 ELSE q.mStart + q.mSize - mCapacity
      /\ first \in Nat /\ first < mCapacity
  BY <1>1, FirstWritable DEF Slots
<1> HIDE DEF first
<1>3. getWritableRegion(q, requestedLength) =
        LET end  == first + requestedLength - 1
            last == IF end > mCapacity - 1 THEN mCapacity - 1 ELSE end
        IN  IF q.mSize = mCapacity \/ requestedLength <= 0 THEN 0
            ELSE (IF first < q.mStart /\ last >= q.mStart
                  THEN q.mStart - 1 ELSE last) - first + 1
  BY DEF getWritableRegion, first
<1>4. /\ getWritableRegion(q, requestedLength) \in 0 .. requestedLength
      /\ q.mSize + getWritableRegion(q, requestedLength) <= mCapacity
      /\ first + getWritableRegion(q, requestedLength) <= mCapacity
      /\ getWritableRegion(q, requestedLength) > 0 <=>
           q.mSize < mCapacity /\ requestedLength > 0
  BY <1>1, <1>2, <1>3
<1> QED BY <1>4 DEF first

(* No slot of a region that fits the space that is left is readable.       *)
THEOREM RegionDisjoint ==
  ASSUME NEW q, Indexed(q), NEW length \in Nat,
         q.mSize + length <= mCapacity, firstWritable(q) + length <= mCapacity
  PROVE  LET region == firstWritable(q) .. firstWritable(q) + length - 1
         IN  region \subseteq Slots /\ region \cap Readable(q) = {}
<1>1. /\ mCapacity \in Nat \ {0} /\ q.mStart \in Nat /\ q.mSize \in Nat
      /\ q.mStart < mCapacity /\ q.mSize <= mCapacity
  BY CapacityAssumption DEF Indexed, Slots
<1> DEFINE first == firstWritable(q)
<1>2. /\ first = IF q.mStart + q.mSize < mCapacity THEN q.mStart + q.mSize
                 ELSE q.mStart + q.mSize - mCapacity
      /\ first \in Nat /\ first + length <= mCapacity
  BY <1>1, FirstWritable DEF Slots
<1> HIDE DEF first
<1>3. ASSUME NEW s \in first .. first + length - 1
      PROVE  s \in Slots /\ s \notin Readable(q)
  <2>1. s \in Slots
    BY <1>1, <1>2 DEF Slots
  <2> QED BY <1>1, <1>2, <2>1, ReadableSlots
<1> QED BY <1>3 DEF first

(* Taking the oldest record moves neither the place the next record goes   *)
(* to nor any readable record: a region handed out earlier stays valid.    *)
LEMMA DequeueKeeps ==
  ASSUME NEW q, Indexed(q), q.mSize # 0, NEW p, Indexed(p),
         p.mStart = (q.mStart + 1) % mCapacity, p.mSize = q.mSize - 1
  PROVE  /\ firstWritable(p) = firstWritable(q)
         /\ Readable(p) \subseteq Readable(q)
<1>1. /\ mCapacity \in Nat \ {0} /\ q.mStart \in Nat /\ q.mSize \in Nat
      /\ q.mStart < mCapacity /\ q.mSize <= mCapacity
  BY CapacityAssumption DEF Indexed, Slots
<1>2. p.mStart = IF q.mStart + 1 < mCapacity THEN q.mStart + 1 ELSE 0
  BY <1>1, WrapsOnce
<1>3. firstWritable(p) = firstWritable(q)
  BY <1>1, <1>2, FirstWritable
<1>4. ASSUME NEW s \in Slots, s \in Readable(p)
      PROVE  s \in Readable(q)
  <2>1. s \in Nat /\ s < mCapacity
    BY <1>1 DEF Slots
  <2>2. IF p.mStart + p.mSize <= mCapacity
        THEN p.mStart <= s /\ s < p.mStart + p.mSize
        ELSE p.mStart <= s \/ s < p.mStart + p.mSize - mCapacity
    BY <1>4, ReadableSlots
  <2>3. IF q.mStart + q.mSize <= mCapacity
        THEN q.mStart <= s /\ s < q.mStart + q.mSize
        ELSE q.mStart <= s \/ s < q.mStart + q.mSize - mCapacity
    BY <1>1, <1>2, <2>1, <2>2
  <2> QED BY <2>3, ReadableSlots
<1>5. Readable(p) \subseteq Slots
  BY ReadableInSlots
<1> QED BY <1>3, <1>4, <1>5

(* Publishing n records of the region makes exactly these readable.        *)
LEMMA MarkAdds ==
  ASSUME NEW q, Indexed(q), NEW n \in Nat, q.mSize + n <= mCapacity,
         firstWritable(q) + n <= mCapacity,
         NEW p, Indexed(p), p.mStart = q.mStart, p.mSize = q.mSize + n
  PROVE  Readable(p) \subseteq
           Readable(q) \cup (firstWritable(q) .. firstWritable(q) + n - 1)
<1>1. /\ mCapacity \in Nat \ {0} /\ q.mStart \in Nat /\ q.mSize \in Nat
      /\ q.mStart < mCapacity /\ q.mSize <= mCapacity
  BY CapacityAssumption DEF Indexed, Slots
<1> DEFINE first == firstWritable(q)
<1>2. /\ first = IF q.mStart + q.mSize < mCapacity THEN q.mStart + q.mSize
                 ELSE q.mStart + q.mSize - mCapacity
      /\ first \in Nat /\ first + n <= mCapacity
  BY <1>1, FirstWritable DEF Slots
<1> HIDE DEF first
<1>3. ASSUME NEW s \in Slots, s \in Readable(p), s \notin Readable(q)
      PROVE  s \in first .. first + n - 1
  <2>1. s \in Nat /\ s < mCapacity
    BY <1>1 DEF Slots
  <2>2. IF p.mStart + p.mSize <= mCapacity
        THEN p.mStart <= s /\ s < p.mStart + p.mSize
        ELSE p.mStart <= s \/ s < p.mStart + p.mSize - mCapacity
    BY <1>3, ReadableSlots
  <2>3. ~ IF q.mStart + q.mSize <= mCapacity
          THEN q.mStart <= s /\ s < q.mStart + q.mSize
          ELSE q.mStart <= s \/ s < q.mStart + q.mSize - mCapacity
    BY <1>3, ReadableSlots
  <2> QED BY <1>1, <1>2, <2>1, <2>2, <2>3
<1>4. Readable(p) \subseteq Slots
  BY ReadableInSlots
<1> QED BY <1>3, <1>4 DEF first

-----------------------------------------------------------------------------
(* The slot of the k-th readable record, counted from 1.                   *)
SlotOf(q, k) ==
  IF q.mStart + k - 1 < mCapacity THEN q.mStart + k - 1
  ELSE q.mStart + k - 1 - mCapacity

(* What a reader would find: a sequence of mSize values, the k-th of them  *)
(* k - 1 slots after mStart.                                               *)
LEMMA ContentsSeq ==
  ASSUME NEW V, NEW q, Indexed(q), q.mData \in [Slots -> V]
  PROVE  /\ Contents(q) \in Seq(V) /\ Len(Contents(q)) = q.mSize
         /\ \A k \in 1 .. q.mSize :
              /\ SlotOf(q, k) \in Readable(q) /\ SlotOf(q, k) \in Slots
              /\ Contents(q)[k] = q.mData[SlotOf(q, k)]
<1>1. /\ mCapacity \in Nat \ {0} /\ q.mStart \in Nat /\ q.mSize \in Nat
      /\ q.mStart < mCapacity /\ q.mSize <= mCapacity
  BY CapacityAssumption DEF Indexed, Slots
<1>2. ASSUME NEW k \in 1 .. q.mSize
      PROVE  /\ (q.mStart + k - 1) % mCapacity = SlotOf(q, k)
             /\ SlotOf(q, k) \in Readable(q) /\ SlotOf(q, k) \in Slots
  <2> DEFINE x == q.mStart + k - 1
  <2>1. x \in Nat /\ x < mCapacity + mCapacity
    BY <1>1
  <2> HIDE DEF x
  <2>2. x % mCapacity = IF x < mCapacity THEN x ELSE x - mCapacity
    BY <1>1, <2>1, WrapsOnce
  <2>3. (q.mStart + k - 1) % mCapacity = SlotOf(q, k)
    BY <1>1, <2>1, <2>2 DEF x, SlotOf
  <2>4. k - 1 \in 0 .. q.mSize - 1 /\ q.mStart + (k - 1) = q.mStart + k - 1
    BY <1>1
  <2>5. (q.mStart + (k - 1)) % mCapacity \in Readable(q)
    BY <2>4 DEF Readable
  <2>6. SlotOf(q, k) \in Readable(q)
    BY <2>3, <2>4, <2>5
  <2> QED BY <2>3, <2>6, ReadableInSlots
<1>3. Contents(q) = [k \in 1 .. q.mSize |-> q.mData[SlotOf(q, k)]]
  BY <1>2 DEF Contents
<1>4. Contents(q) \in [1 .. q.mSize -> V]
  BY <1>2, <1>3
<1>5. Contents(q) \in Seq(V) /\ Len(Contents(q)) = q.mSize
  <2> DEFINE c == Contents(q)
             n == q.mSize
  <2> HIDE DEF c, n
  <2>1. n \in Nat /\ c \in [1 .. n -> V]
    BY <1>1, <1>4 DEF c, n
  <2>2. c \in Seq(V)
    BY <2>1
  <2>3. DOMAIN c = 1 .. n /\ DOMAIN c = 1 .. Len(c) /\ Len(c) \in Nat
    BY <2>1, <2>2, LenProperties
  <2>4. Len(c) = n
    BY <2>1, <2>3
  <2> QED BY <2>2, <2>4 DEF c, n
<1>6. \A k \in 1 .. q.mSize :
        /\ SlotOf(q, k) \in Readable(q) /\ SlotOf(q, k) \in Slots
        /\ Contents(q)[k] = q.mData[SlotOf(q, k)]
  BY <1>2, <1>3
<1> QED BY <1>5, <1>6

(* What is stored outside the readable slots is not found.                 *)
LEMMA StoreUnseen ==
  ASSUME NEW V, NEW q, Indexed(q), q.mData \in [Slots -> V],
         NEW p, p.mStart = q.mStart, p.mSize = q.mSize,
         p.mData \in [Slots -> V],
         \A s \in Readable(q) : p.mData[s] = q.mData[s]
  PROVE  Contents(p) = Contents(q)
<1>1. Indexed(p)
  BY DEF Indexed
<1>2. ASSUME NEW k \in 1 .. Len(Contents(q))
      PROVE  Contents(p)[k] = Contents(q)[k]
  <2>1. k \in 1 .. q.mSize /\ k \in 1 .. p.mSize
    BY <1>2, ContentsSeq
  <2>2. Contents(p)[k] = p.mData[SlotOf(p, k)]
    BY <1>1, <2>1, ContentsSeq
  <2>3. /\ Contents(q)[k] = q.mData[SlotOf(q, k)]
        /\ SlotOf(q, k) \in Readable(q)
    BY <2>1, ContentsSeq
  <2>4. SlotOf(p, k) = SlotOf(q, k)
    BY DEF SlotOf
  <2> QED BY <2>2, <2>3, <2>4
<1>3. /\ Contents(p) \in Seq(V) /\ Contents(q) \in Seq(V)
      /\ Len(Contents(p)) = Len(Contents(q))
  BY <1>1, ContentsSeq
<1> QED BY <1>2, <1>3, SeqEqual

(* The slots from firstWritable on hold the records es.                    *)
Holds(q, es) ==
  \A i \in 1 .. Len(es) : es[i] = q.mData[firstWritable(q) + i - 1]

(* A writer's records are found after those that were there, in the order  *)
(* of their slots.                                                         *)
LEMMA MarkAppends ==
  ASSUME NEW V, NEW q, Indexed(q), q.mData \in [Slots -> V],
         NEW n \in Nat, q.mSize + n <= mCapacity,
         firstWritable(q) + n <= mCapacity,
         NEW p, p.mStart = q.mStart, p.mSize = q.mSize + n, p.mData = q.mData,
         NEW es \in Seq(V), Len(es) = n, Holds(q, es)
  PROVE  Contents(p) = Contents(q) \o es
<1>1. /\ mCapacity \in Nat \ {0} /\ q.mStart \in Nat /\ q.mSize \in Nat
      /\ q.mStart < mCapacity /\ q.mSize <= mCapacity
  BY CapacityAssumption DEF Indexed, Slots
<1>2. Indexed(p)
  BY <1>1 DEF Indexed
<1> DEFINE first == firstWritable(q)
           c == Contents(q)
           d == Contents(p)
<1>3. /\ first = IF q.mStart + q.mSize < mCapacity THEN q.mStart + q.mSize
                 ELSE q.mStart + q.mSize - mCapacity
      /\ first \in Nat
  BY <1>1, FirstWritable DEF Slots
<1>4. /\ c \in Seq(V) /\ Len(c) = q.mSize
      /\ \A k \in 1 .. q.mSize : c[k] = q.mData[SlotOf(q, k)]
  BY ContentsSeq, ZenonT(30)
<1>5. /\ d \in Seq(V) /\ Len(d) = q.mSize + n
      /\ \A k \in 1 .. q.mSize + n : d[k] = q.mData[SlotOf(q, k)]
  <2>1. \A k : SlotOf(p, k) = SlotOf(q, k)
    BY DEF SlotOf
  <2>2. p.mData \in [Slots -> V]
    OBVIOUS
  <2> HIDE DEF d
  <2>3. /\ d \in Seq(V) /\ Len(d) = p.mSize
        /\ \A k \in 1 .. p.mSize : d[k] = p.mData[SlotOf(p, k)]
    BY <1>2, <2>2, ContentsSeq DEF d
  <2> QED BY <2>1, <2>3
<1>6. \A i \in 1 .. n : es[i] = q.mData[first + i - 1]
  BY DEF Holds
<1>7. first + n <= mCapacity
  OBVIOUS
<1> HIDE DEF first, c, d
<1>8. /\ c \o es \in Seq(V) /\ Len(c \o es) = q.mSize + n
      /\ \A k \in 1 .. q.mSize + n :
           (c \o es)[k] = IF k <= q.mSize THEN c[k] ELSE es[k - q.mSize]
  <2>1. /\ c \o es \in Seq(V) /\ Len(c \o es) = Len(c) + Len(es)
        /\ \A k \in 1 .. Len(c) + Len(es) :
             (c \o es)[k] = IF k <= Len(c) THEN c[k] ELSE es[k - Len(c)]
    BY <1>4, ConcatProperties
  <2> QED BY <1>4, <2>1
<1>9. ASSUME NEW k \in 1 .. q.mSize + n PROVE d[k] = (c \o es)[k]
  <2>0. k \in Nat /\ (k <= q.mSize \/ k > q.mSize) /\ k <= q.mSize + n
    BY <1>1
  <2>1. CASE k <= q.mSize
    <3>1. k \in 1 .. q.mSize
      BY <1>1, <2>1
    <3> QED BY <1>4, <1>5, <1>8, <2>1, <3>1
  <2>2. CASE k > q.mSize
    <3>1. k - q.mSize \in 1 .. n /\ ~(k <= q.mSize)
      BY <1>1, <2>2
    <3>2. first + (k - q.mSize) - 1 = SlotOf(q, k)
      <4>1. /\ q.mSize < k /\ k <= q.mSize + n /\ mCapacity \in Nat
            /\ q.mStart \in Nat /\ q.mSize \in Nat /\ q.mStart < mCapacity
        BY <1>1, <2>0, <2>2
      <4>2. first + (k - q.mSize) - 1 =
              IF q.mStart + k - 1 < mCapacity THEN q.mStart + k - 1
              ELSE q.mStart + k - 1 - mCapacity
        <5>1. PICK start \in Nat, size \in Nat, cap \in Nat, f \in Nat :
                /\ start = q.mStart /\ size = q.mSize /\ cap = mCapacity
                /\ f = first
          BY <1>3, <4>1
        <5>2. /\ start < cap /\ f + n <= cap /\ size < k /\ k <= size + n
              /\ f = IF start + size < cap THEN start + size
                      ELSE start + size - cap
          BY <1>3, <1>7, <4>1, <5>1
        <5>3. f + (k - size) - 1 = IF start + k - 1 < cap THEN start + k - 1
                                   ELSE start + k - 1 - cap
          <6>1. CASE start + size < cap
            BY <2>0, <5>2, <6>1, SMTT(40)
          <6>2. CASE ~(start + size < cap)
            BY <2>0, <5>2, <6>2, SMTT(40)
          <6> QED BY <6>1, <6>2
        <5> QED BY <5>1, <5>3
      <4> QED BY <4>2 DEF SlotOf
    <3>3. es[k - q.mSize] = q.mData[SlotOf(q, k)]
      BY <1>6, <3>1, <3>2
    <3> QED BY <1>5, <1>8, <3>1, <3>3
  <2> QED BY <2>0, <2>1, <2>2
<1>10. d = c \o es
  BY <1>5, <1>8, <1>9, SeqEqual
<1> QED BY <1>10 DEF c, d

(* dequeue takes the record that peek shows, and leaves the others.        *)
LEMMA DequeueTakesHead ==
  ASSUME NEW V, NEW q, Indexed(q), q.mData \in [Slots -> V], q.mSize # 0,
         NEW p, p.mStart = (q.mStart + 1) % mCapacity,
         p.mSize = q.mSize - 1, p.mData = q.mData
  PROVE  /\ Contents(q) # <<>> /\ Head(Contents(q)) = peek(q)
         /\ Contents(p) = Tail(Contents(q))
<1>1. /\ mCapacity \in Nat \ {0} /\ q.mStart \in Nat /\ q.mSize \in Nat
      /\ q.mStart < mCapacity /\ q.mSize <= mCapacity
  BY CapacityAssumption DEF Indexed, Slots
<1>2. p.mStart = IF q.mStart + 1 < mCapacity THEN q.mStart + 1 ELSE 0
  BY <1>1, WrapsOnce
<1>3. Indexed(p)
  BY <1>1, <1>2 DEF Indexed, Slots
<1> DEFINE c == Contents(q)
           d == Contents(p)
<1>4. /\ c \in Seq(V) /\ Len(c) = q.mSize
      /\ \A k \in 1 .. q.mSize : c[k] = q.mData[SlotOf(q, k)]
  BY ContentsSeq, ZenonT(30)
<1>5. /\ d \in Seq(V) /\ Len(d) = q.mSize - 1
      /\ \A k \in 1 .. q.mSize - 1 : d[k] = q.mData[SlotOf(p, k)]
  BY <1>3, ContentsSeq
<1> HIDE DEF c, d
<1>6. c # <<>> /\ 1 \in 1 .. q.mSize
  BY <1>1, <1>4
<1>7. Head(c) = peek(q)
  <2>1. Head(c) = c[1]
    BY <1>4, <1>6
  <2>2. SlotOf(q, 1) = q.mStart
    BY <1>1 DEF SlotOf
  <2> QED BY <1>4, <1>6, <2>1, <2>2 DEF peek
<1>8. /\ Tail(c) \in Seq(V) /\ Len(Tail(c)) = q.mSize - 1
      /\ \A i \in 1 .. q.mSize - 1 : Tail(c)[i] = c[i + 1]
  BY <1>4, <1>6, HeadTailProperties
<1>9. ASSUME NEW k \in 1 .. q.mSize - 1 PROVE d[k] = Tail(c)[k]
  <2>1. k + 1 \in 1 .. q.mSize
    BY <1>1
  <2>2. SlotOf(p, k) = SlotOf(q, k + 1)
    BY <1>1, <1>2 DEF SlotOf
  <2> QED BY <1>4, <1>5, <1>8, <2>1, <2>2
<1>10. d = Tail(c)
  BY <1>5, <1>8, <1>9, SeqEqual
<1> QED BY <1>6, <1>7, <1>10 DEF c, d

(***************************************************************************)
(* MultiHal                                                                *)
(***************************************************************************)

(* A queue, its writer task, and the region between them.                  *)
DeviceOK(q, w) ==
  /\ q \in Queue(Event) /\ w \in Writer
  /\ w.pc = "full" => q.mSize = mCapacity
  /\ \A s \in Readable(q) : q.mData[s] # NoEvent
  /\ w.pc \in {"poll", "commit"} =>
       /\ w.first = firstWritable(q)
       /\ w.first + w.length <= mCapacity
       /\ q.mSize + w.length <= mCapacity
       /\ w.n <= w.length
       /\ \A s \in w.first .. w.first + w.n - 1 : q.mData[s] # NoEvent

(* How many queues ago poll() looked at queue d, if it went all the way    *)
(* round.                                                                  *)
SinceLooked(d) ==
  IF d < nextReadIndex THEN nextReadIndex - d
  ELSE nextReadIndex + Len(sub_hw_devices) - d

(* While poll() scans, the last empties queues it looked at are empty.     *)
ScanOK ==
  /\ reader.pc = "scan" =>
       \A d \in Devices :
         SinceLooked(d) <= reader.empties => queues[d].mSize = 0
  /\ reader.pc = "wait" => \A d \in Devices : queues[d].mSize = 0
  /\ waiting_for_data <=> reader.pc \in {"wait", "woken"}
  /\ Devices # {} => nextReadIndex \in Devices

DevicesOK == \A d \in Devices : DeviceOK(queues[d], writer[d])

IndInv == TypeOK /\ DevicesOK /\ ScanOK

-----------------------------------------------------------------------------
(* A queue value has its indices in range.                                 *)
LEMMA QueueIndexed ==
  ASSUME NEW q \in Queue(Event)
  PROVE  /\ Indexed(q) /\ q.mData \in [Slots -> Event \cup {NoEvent}]
         /\ q.mStart \in Nat /\ q.mSize \in Nat /\ mCapacity \in Nat \ {0}
         /\ q.mStart < mCapacity /\ q.mSize <= mCapacity
BY CapacityAssumption DEF Queue, Indexed, Slots

(* waitForSpace goes to sleep.                                             *)
LEMMA SleepKeeps ==
  ASSUME NEW q, NEW w, DeviceOK(q, w), w.pc = "reserve", q.mSize = mCapacity
  PROVE  DeviceOK(q, [w EXCEPT !.pc = "full"])
BY DEF DeviceOK, Writer

(* getWritableRegion hands out a region.                                   *)
LEMMA ReserveKeeps ==
  ASSUME NEW q, NEW w, DeviceOK(q, w), q.mSize # mCapacity
  PROVE  DeviceOK(q, [pc |-> "poll", first |-> firstWritable(q), n |-> 0,
                      length |-> getWritableRegion(q, mCapacity)])
<1> DEFINE len == getWritableRegion(q, mCapacity)
           first == firstWritable(q)
<1>1. q \in Queue(Event) /\ Indexed(q) /\ mCapacity \in Nat
  BY QueueIndexed DEF DeviceOK
<1>2. /\ len \in 0 .. mCapacity /\ q.mSize + len <= mCapacity
      /\ first + len <= mCapacity
  BY <1>1, RegionLength
<1>3. first \in Slots /\ first \in Nat
  BY <1>1, FirstWritable DEF Slots
<1> HIDE DEF len, first
<1>4. DeviceOK(q, [pc |-> "poll", first |-> first, n |-> 0, length |-> len])
  BY <1>1, <1>2, <1>3 DEF DeviceOK, Writer, first
<1> QED BY <1>4 DEF len, first

(* The device stores an event in the next slot of the region.              *)
LEMMA StoreKeeps ==
  ASSUME NEW q, NEW w, DeviceOK(q, w), w.pc = "poll", w.n < w.length,
         NEW e \in Event
  PROVE  DeviceOK(store(q, w.first + w.n, e), [w EXCEPT !.n = @ + 1])
<1> DEFINE p == store(q, w.first + w.n, e)
           v == [w EXCEPT !.n = @ + 1]
           slot == w.first + w.n
<1>1. /\ q \in Queue(Event) /\ Indexed(q) /\ mCapacity \in Nat \ {0}
      /\ q.mData \in [Slots -> Event \cup {NoEvent}] /\ w \in Writer
      /\ w.first \in Nat /\ w.n \in Nat /\ w.length \in Nat
      /\ w.length <= mCapacity /\ w.first + w.length <= mCapacity
      /\ e # NoEvent
  BY QueueIndexed, MultiHalAssumption DEF DeviceOK, Writer, Slots
<1>2. slot \in Slots /\ slot \in w.first .. w.first + w.length - 1
  BY <1>1 DEF Slots
<1>3. slot \notin Readable(q)
  BY <1>1, <1>2, RegionDisjoint DEF DeviceOK
<1>4. /\ p \in Queue(Event) /\ p.mStart = q.mStart /\ p.mSize = q.mSize
      /\ p.mData = [q.mData EXCEPT ![slot] = e]
  BY <1>1, <1>2 DEF store, Queue
<1>5. Readable(p) = Readable(q) /\ firstWritable(p) = firstWritable(q)
  BY <1>4 DEF Readable, firstWritable
<1>6. /\ v \in Writer /\ v.pc = "poll" /\ v.first = w.first
      /\ v.length = w.length /\ v.n = w.n + 1
  BY <1>1 DEF Writer
<1>7. Readable(q) \subseteq Slots
  BY <1>1, ReadableInSlots
<1>8. \A s \in Readable(p) : p.mData[s] # NoEvent
  BY <1>1, <1>3, <1>4, <1>5, <1>7 DEF DeviceOK
<1>9. \A s \in v.first .. v.first + v.n - 1 : p.mData[s] # NoEvent
  <2> SUFFICES ASSUME NEW s \in v.first .. v.first + v.n - 1
               PROVE  p.mData[s] # NoEvent
    OBVIOUS
  <2>1. s \in Slots
    BY <1>1, <1>6 DEF Slots
  <2>2. CASE s = slot
    BY <1>1, <1>4, <2>1, <2>2
  <2>3. CASE s # slot
    <3>1. s \in w.first .. w.first + w.n - 1
      BY <1>1, <1>6, <2>3
    <3> QED BY <1>1, <1>4, <2>1, <2>3, <3>1 DEF DeviceOK
  <2> QED BY <2>2, <2>3
<1> HIDE DEF p, v
<1>10. DeviceOK(p, v)
  BY <1>1, <1>4, <1>5, <1>6, <1>8, <1>9 DEF DeviceOK
<1> QED BY <1>10 DEF p, v

(* The device's poll() returns with events.                                *)
LEMMA ReturnKeeps ==
  ASSUME NEW q, NEW w, DeviceOK(q, w), w.pc = "poll"
  PROVE  DeviceOK(q, [w EXCEPT !.pc = "commit"])
BY DEF DeviceOK, Writer

(* The writer starts over: nothing depends on it.                          *)
LEMMA RestartKeeps ==
  ASSUME NEW q, NEW w, DeviceOK(q, w)
  PROVE  DeviceOK(q, NewWriter) /\ DeviceOK(q, [w EXCEPT !.pc = "reserve"])
BY CapacityAssumption DEF DeviceOK, Writer, NewWriter, Slots

(* markAsWritten publishes what was stored.                                *)
LEMMA CommitKeeps ==
  ASSUME NEW q, NEW w, DeviceOK(q, w), w.pc = "commit"
  PROVE  DeviceOK(markAsWritten(q, w.n), NewWriter)
<1> DEFINE p == markAsWritten(q, w.n)
<1>1. /\ q \in Queue(Event) /\ Indexed(q) /\ mCapacity \in Nat \ {0}
      /\ q.mData \in [Slots -> Event \cup {NoEvent}]
      /\ w.first \in Nat /\ w.n \in Nat /\ w.length \in Nat
      /\ w.first = firstWritable(q) /\ q.mSize \in Nat
      /\ w.first + w.n <= mCapacity /\ q.mSize + w.n <= mCapacity
  BY QueueIndexed DEF DeviceOK, Writer, Slots
<1>2. /\ p \in Queue(Event) /\ p.mStart = q.mStart /\ p.mData = q.mData
      /\ p.mSize = q.mSize + w.n
  BY <1>1 DEF markAsWritten, Queue
<1>3. Indexed(p)
  BY <1>2, QueueIndexed
<1> HIDE DEF p
<1>4. Readable(p) \subseteq Readable(q) \cup (w.first .. w.first + w.n - 1)
  BY <1>1, <1>2, <1>3, MarkAdds
<1>5. \A s \in Readable(p) : p.mData[s] # NoEvent
  BY <1>2, <1>4 DEF DeviceOK
<1>6. NewWriter \in Writer /\ NewWriter.pc = "reserve"
  BY CapacityAssumption DEF Writer, NewWriter, Slots
<1>7. DeviceOK(p, NewWriter)
  BY <1>2, <1>5, <1>6 DEF DeviceOK
<1> QED BY <1>7 DEF p

(* poll() takes the oldest event and wakes a writer that waits for space.  *)
LEMMA TakeKeeps ==
  ASSUME NEW q, NEW w, DeviceOK(q, w), q.mSize # 0, NEW v \in Writer,
         \/ v = w /\ w.pc # "full"
         \/ v.pc = "reserve"
  PROVE  DeviceOK(dequeue(q), v)
<1> DEFINE p == dequeue(q)
<1>1. /\ q \in Queue(Event) /\ Indexed(q) /\ mCapacity \in Nat \ {0}
      /\ q.mSize \in Nat /\ q.mStart \in Nat /\ q.mSize <= mCapacity
      /\ q.mData \in [Slots -> Event \cup {NoEvent}]
  BY QueueIndexed DEF DeviceOK
<1> DEFINE next == (q.mStart + 1) % mCapacity
<1>2. next \in Slots /\ p = [q EXCEPT !.mSize = q.mSize - 1, !.mStart = next]
  BY <1>1 DEF Slots, dequeue
<1> HIDE DEF next, p
<1>3. /\ p \in Queue(Event) /\ p.mData = q.mData /\ p.mSize = q.mSize - 1
      /\ p.mStart = next
  <2>1. q.mSize - 1 \in 0 .. mCapacity
    BY <1>1
  <2> QED BY <1>1, <1>2, <2>1 DEF Queue
<1>4. Indexed(p)
  BY <1>3, QueueIndexed
<1>5. firstWritable(p) = firstWritable(q) /\ Readable(p) \subseteq Readable(q)
  BY <1>1, <1>3, <1>4, DequeueKeeps DEF next
<1>6. \A s \in Readable(p) : p.mData[s] # NoEvent
  BY <1>3, <1>5 DEF DeviceOK
<1>7. CASE v = w /\ w.pc # "full"
  <2>1. w \in Writer /\ w.length \in Nat
    BY DEF DeviceOK, Writer
  <2> QED BY <1>1, <1>3, <1>5, <1>6, <1>7, <2>1 DEF DeviceOK, p
<1>8. CASE v.pc = "reserve"
  BY <1>3, <1>6, <1>8 DEF DeviceOK, p
<1> QED BY <1>7, <1>8

-----------------------------------------------------------------------------
(* A step that changes one queue and its writer, and keeps them in order,  *)
(* keeps all devices in order.                                             *)
LEMMA OneDevice ==
  ASSUME TypeOK, DevicesOK, sub_hw_devices' = sub_hw_devices,
         NEW d \in Devices, NEW q, NEW w, DeviceOK(q, w),
         \/ queues' = [queues EXCEPT ![d] = q]
         \/ queues' = queues /\ q = queues[d],
         \/ writer' = [writer EXCEPT ![d] = w]
         \/ writer' = writer /\ w = writer[d]
  PROVE  /\ DevicesOK' /\ Devices' = Devices
         /\ queues' \in [Devices -> Queue(Event)]
         /\ writer' \in [Devices -> Writer]
<1>1. Devices' = Devices
  BY DEF Devices
<1>2. /\ queues \in [Devices -> Queue(Event)] /\ writer \in [Devices -> Writer]
      /\ q \in Queue(Event) /\ w \in Writer
  BY DEF TypeOK, DeviceOK
<1>3. /\ queues' \in [Devices -> Queue(Event)]
      /\ \A e \in Devices : queues'[e] = IF e = d THEN q ELSE queues[e]
  BY <1>2
<1>4. /\ writer' \in [Devices -> Writer]
      /\ \A e \in Devices : writer'[e] = IF e = d THEN w ELSE writer[e]
  BY <1>2
<1>5. ASSUME NEW e \in Devices PROVE DeviceOK(queues'[e], writer'[e])
  <2>1. CASE e = d
    BY <1>3, <1>4, <2>1
  <2>2. CASE e # d
    <3>1. queues'[e] = queues[e] /\ writer'[e] = writer[e]
      BY <1>3, <1>4, <2>2
    <3> QED BY <3>1 DEF DevicesOK
  <2> QED BY <2>1, <2>2
<1> QED BY <1>1, <1>3, <1>4, <1>5 DEF DevicesOK

(* The events devices make are events.                                     *)
LEMMA MadeEvent ==
  ASSUME NEW k \in Nat, NEW kind \in EventKinds
  PROVE  [serial |-> k % Serials, type |-> kind.type, handle |-> kind.handle]
           \in Event
<1>1. k % Serials \in 0 .. Serials - 1
  BY MultiHalAssumption, CapacityAssumption
<1>2. kind.type \in {"DATA", "META_DATA"} /\ kind.handle \in Int
  BY MultiHalAssumption
<1> QED BY <1>1, <1>2 DEF Event

(* Every step of a writer task and its device keeps the devices in order.  *)
LEMMA WriterStep ==
  ASSUME TypeOK, DevicesOK, NEW d \in Devices,
         writerReserve(d) \/ deviceStores(d) \/ deviceReturns(d)
           \/ writerCommit(d)
  PROVE  /\ DevicesOK' /\ Devices' = Devices
         /\ queues' \in [Devices -> Queue(Event)]
         /\ writer' \in [Devices -> Writer]
<1> DEFINE q == queues[d]
           w == writer[d]
<1>0. /\ DeviceOK(q, w) /\ sub_hw_devices' = sub_hw_devices
      /\ w.n \in Nat /\ made[d] \in Nat
  BY DEF DevicesOK, writerReserve, deviceStores, deviceReturns, writerCommit,
         TypeOK, Writer
<1>1. CASE writerReserve(d)
  <2>1. CASE q.mSize = mCapacity /\ writer' = [writer EXCEPT ![d].pc = "full"]
    <3>1. DeviceOK(q, [w EXCEPT !.pc = "full"])
      BY <1>0, <1>1, <2>1, SleepKeeps DEF writerReserve
    <3> QED BY <1>0, <1>1, <2>1, <3>1, OneDevice DEF writerReserve
  <2>2. CASE q.mSize # mCapacity
    <3> DEFINE v == [pc |-> "poll", first |-> firstWritable(q), n |-> 0,
                     length |-> getWritableRegion(q, mCapacity)]
    <3>1. DeviceOK(q, v)
      BY <1>0, <2>2, ReserveKeeps
    <3>2. writer' = [writer EXCEPT ![d] = v] /\ queues' = queues
      BY <1>1, <2>2 DEF writerReserve
    <3> QED BY <1>0, <3>1, <3>2, OneDevice
  <2> QED BY <1>1, <2>1, <2>2 DEF writerReserve
<1>2. CASE deviceStores(d)
  <2> DEFINE e(kind) == [serial |-> (made[d] + w.n) % Serials,
                         type |-> kind.type, handle |-> kind.handle]
  <2>1. PICK kind \in EventKinds :
          queues' = [queues EXCEPT ![d] = store(q, w.first + w.n, e(kind))]
    BY <1>2 DEF deviceStores
  <2>2. e(kind) \in Event
    BY <1>0, MadeEvent
  <2> HIDE DEF e
  <2>3. DeviceOK(store(q, w.first + w.n, e(kind)), [w EXCEPT !.n = @ + 1])
    BY <1>0, <1>2, <2>2, StoreKeeps DEF deviceStores
  <2>4. writer' = [writer EXCEPT ![d] = [w EXCEPT !.n = @ + 1]]
    BY <1>2 DEF deviceStores
  <2> QED BY <1>0, <2>1, <2>3, <2>4, OneDevice
<1>3. CASE deviceReturns(d)
  <2>1. DeviceOK(q, [w EXCEPT !.pc = "commit"]) /\ DeviceOK(q, NewWriter)
    BY <1>0, <1>3, ReturnKeeps, RestartKeeps DEF deviceReturns
  <2>2. CASE writer' = [writer EXCEPT ![d].pc = "commit"]
    BY <1>0, <1>3, <2>1, <2>2, OneDevice DEF deviceReturns
  <2>3. CASE writer' = [writer EXCEPT ![d] = NewWriter]
    BY <1>0, <1>3, <2>1, <2>3, OneDevice DEF deviceReturns
  <2> QED BY <1>3, <2>2, <2>3 DEF deviceReturns
<1>4. CASE writerCommit(d)
  <2>1. DeviceOK(markAsWritten(q, w.n), NewWriter)
    BY <1>0, <1>4, CommitKeeps DEF writerCommit
  <2> QED BY <1>0, <1>4, <2>1, OneDevice DEF writerCommit
<1> QED BY <1>1, <1>2, <1>3, <1>4

(* The event poll() looks at is one that was stored, and stays an event    *)
(* when its handle is replaced.                                            *)
LEMMA TakenEvent ==
  ASSUME NEW q, NEW w, DeviceOK(q, w), q.mSize # 0, NEW i
  PROVE  copy_event_remap_handle(peek(q), i) \in Event
<1>1. /\ Indexed(q) /\ q.mData \in [Slots -> Event \cup {NoEvent}]
      /\ q.mStart \in Nat /\ q.mSize \in Nat /\ mCapacity \in Nat \ {0}
      /\ q.mStart < mCapacity /\ q.mStart \in Slots
  BY QueueIndexed DEF DeviceOK, Indexed
<1>2. q.mStart \in Readable(q)
  BY <1>1, ReadableSlots
<1>3. peek(q) \in Event
  BY <1>1, <1>2 DEF peek, DeviceOK
<1>4. \A f : get_global_handle(f) \in Int
  <2> SUFFICES ASSUME NEW f PROVE get_global_handle(f) \in Int
    OBVIOUS
  <2>1. DOMAIN SensorList \subseteq Int
    BY HandleAssumption
  <2> QED BY <2>1 DEF get_global_handle
<1> QED BY <1>3, <1>4 DEF copy_event_remap_handle, Event

(* Every step of poll(), and every spurious wakeup, keeps the devices in   *)
(* order.                                                                  *)
LEMMA PollStep ==
  ASSUME IndInv, Poll \/ spuriousWakeup
  PROVE  /\ DevicesOK' /\ Devices' = Devices
         /\ queues' \in [Devices -> Queue(Event)]
         /\ writer' \in [Devices -> Writer]
         /\ taken' \in [Devices -> Event \cup {NoEvent}]
<1>0. /\ TypeOK /\ DevicesOK /\ sub_hw_devices' = sub_hw_devices
      /\ Devices' = Devices
  BY DEF IndInv, Poll, spuriousWakeup, pollCalled, pollScans, pollReturns,
         pollWaits, pollResumes, Devices
<1>1. CASE UNCHANGED <<queues, writer, taken>>
  BY <1>0, <1>1 DEF TypeOK, DevicesOK
<1>2. ASSUME pollScans, queues[nextReadIndex].mSize # 0
      PROVE  /\ DevicesOK' /\ queues' \in [Devices -> Queue(Event)]
             /\ writer' \in [Devices -> Writer]
             /\ taken' \in [Devices -> Event \cup {NoEvent}]
  <2> DEFINE d == nextReadIndex
             q == queues[d]
             w == writer[d]
  <2>1. d \in Devices
    BY <1>0, <1>2 DEF pollScans, Scanning, IndInv, ScanOK, TypeOK, Reader, Devices
  <2>2. DeviceOK(q, w) /\ w \in Writer
    BY <1>0, <2>1 DEF DevicesOK, DeviceOK
  <2>3. copy_event_remap_handle(peek(q), d) \in Event
    BY <1>2, <2>2, TakenEvent
  <2>4. taken' \in [Devices -> Event \cup {NoEvent}]
    BY <1>0, <1>2, <2>1, <2>3 DEF pollScans, TypeOK
  <2>5. /\ queues' = [queues EXCEPT ![d] = dequeue(q)]
        /\ writer' = IF dequeueBroadcasts(q) /\ w.pc = "full"
                     THEN [writer EXCEPT ![d] = [w EXCEPT !.pc = "reserve"]]
                     ELSE writer
    BY <1>2 DEF pollScans
  <2>6. CASE w.pc = "full"
    <3>1. dequeueBroadcasts(q)
      BY <2>2, <2>6 DEF dequeueBroadcasts, DeviceOK
    <3>2. /\ [w EXCEPT !.pc = "reserve"] \in Writer
          /\ [w EXCEPT !.pc = "reserve"].pc = "reserve"
      BY <2>2 DEF Writer
    <3>3. DeviceOK(dequeue(q), [w EXCEPT !.pc = "reserve"])
      BY <1>2, <2>2, <3>2, TakeKeeps
    <3> QED BY <1>0, <2>1, <2>4, <2>5, <2>6, <3>1, <3>3, OneDevice
  <2>7. CASE w.pc # "full"
    <3>1. DeviceOK(dequeue(q), w)
      BY <1>2, <2>2, <2>7, TakeKeeps
    <3> QED BY <1>0, <2>1, <2>4, <2>5, <2>7, <3>1, OneDevice
  <2> QED BY <2>6, <2>7
<1>3. ASSUME NEW d \in Devices, writer' = [writer EXCEPT ![d].pc = "reserve"],
             UNCHANGED <<queues, taken>>
      PROVE  /\ DevicesOK' /\ queues' \in [Devices -> Queue(Event)]
             /\ writer' \in [Devices -> Writer]
             /\ taken' \in [Devices -> Event \cup {NoEvent}]
  <2>1. DeviceOK(queues[d], [writer[d] EXCEPT !.pc = "reserve"])
    BY <1>0, RestartKeeps DEF DevicesOK
  <2> QED BY <1>0, <1>3, <2>1, OneDevice DEF TypeOK
<1> QED BY <1>0, <1>1, <1>2, <1>3
        DEF Poll, spuriousWakeup, pollCalled, pollScans, pollReturns, pollWaits,
            pollResumes

(* The next queue in turn, and how long ago the others were looked at.     *)
LEMMA NextInTurn ==
  ASSUME TypeOK, ScanOK, Devices # {}, sub_hw_devices' = sub_hw_devices,
         nextReadIndex' = (nextReadIndex % Len(sub_hw_devices)) + 1
  PROVE  /\ nextReadIndex' \in Devices
         /\ \A d \in Devices :
              IF d = nextReadIndex THEN SinceLooked(d)' = 1
              ELSE SinceLooked(d)' = SinceLooked(d) + 1
         /\ \A d \in Devices : SinceLooked(d) \in 1 .. Len(sub_hw_devices)
<1> DEFINE c == Len(sub_hw_devices)
           x == nextReadIndex
<1>1. c \in Nat \ {0} /\ x \in Nat \ {0} /\ x <= c /\ Devices = 1 .. c
  BY DEF TypeOK, ScanOK, Devices
<1>2. x % c = IF x < c THEN x ELSE 0
  <2> HIDE DEF c, x
  <2>1. x < c + c /\ x \in Nat
    BY <1>1
  <2>2. x % c = IF x < c THEN x ELSE x - c
    BY <1>1, <2>1, WrapsOnce
  <2> QED BY <1>1, <2>2
<1>3. nextReadIndex' = IF x < c THEN x + 1 ELSE 1
  BY <1>1, <1>2
<1> QED BY <1>1, <1>3 DEF SinceLooked

(* ScanOK is kept by the writers: nobody publishes while poll() scans, and *)
(* whoever publishes while it waits wakes it.                              *)
LEMMA ScanWriter ==
  ASSUME IndInv, NEW d \in Devices,
         writerReserve(d) \/ deviceStores(d) \/ deviceReturns(d)
           \/ writerCommit(d)
  PROVE  ScanOK'
<1>0. /\ TypeOK /\ ScanOK /\ queues[d] \in Queue(Event) /\ reader \in Reader
      /\ sub_hw_devices' = sub_hw_devices /\ nextReadIndex' = nextReadIndex
      /\ waiting_for_data' = waiting_for_data /\ Devices' = Devices
      /\ queues \in [Devices -> Queue(Event)]
  BY DEF IndInv, TypeOK, writerReserve, deviceStores, deviceReturns,
         writerCommit, Devices
<1>1. \A e \in Devices : SinceLooked(e)' = SinceLooked(e)
  BY <1>0 DEF SinceLooked
<1>2. CASE reader' = reader /\ \A e \in Devices : queues'[e].mSize = queues[e].mSize
  BY <1>0, <1>1, <1>2 DEF ScanOK
<1>3. CASE writerCommit(d)
  <2>1. reader.pc # "scan" /\ reader'.pc # "scan" /\ reader'.pc # "wait"
    BY <1>0, <1>3 DEF writerCommit, ScanOK, Reader
  <2>2. reader'.pc \in {"wait", "woken"} <=> reader.pc \in {"wait", "woken"}
    BY <1>0, <1>3 DEF writerCommit, ScanOK, Reader
  <2> QED BY <1>0, <2>1, <2>2 DEF ScanOK
<1>4. CASE deviceStores(d)
  <2>1. \A e \in Devices : queues'[e].mSize = queues[e].mSize
    <3> SUFFICES ASSUME NEW e \in Devices
                 PROVE  queues'[e].mSize = queues[e].mSize
      OBVIOUS
    <3>1. queues[e] \in Queue(Event)
      BY <1>0
    <3> QED BY <1>0, <1>4, <3>1 DEF deviceStores, store, Queue
  <2> QED BY <1>2, <1>4, <2>1 DEF deviceStores
<1>5. CASE writerReserve(d) \/ deviceReturns(d)
  BY <1>2, <1>5 DEF writerReserve, deviceReturns
<1> QED BY <1>3, <1>4, <1>5

(* ScanOK is kept by poll(): a queue that was empty when poll() looked at  *)
(* it is still empty when the scan ends.                                   *)
LEMMA ScanPoll ==
  ASSUME IndInv, Poll \/ spuriousWakeup
  PROVE  ScanOK'
<1>0. /\ TypeOK /\ ScanOK /\ reader \in Reader /\ Devices' = Devices
      /\ sub_hw_devices' = sub_hw_devices
      /\ queues \in [Devices -> Queue(Event)]
      /\ Len(sub_hw_devices) \in Nat /\ Devices = 1 .. Len(sub_hw_devices)
  BY DEF IndInv, TypeOK, Poll, spuriousWakeup, pollCalled, pollScans,
         pollReturns, pollWaits, pollResumes, Devices
<1>1. \A d \in Devices : SinceLooked(d) \in 1 .. Len(sub_hw_devices)
  BY <1>0, SMTT(30) DEF SinceLooked, ScanOK, TypeOK
<1>2. CASE pollCalled \/ pollResumes
  <2>0. ~waiting_for_data'
    <3>1. CASE pollCalled
      <4>1. reader.pc \notin {"wait", "woken"}
        BY <3>1 DEF pollCalled
      <4>2. waiting_for_data' = waiting_for_data
        BY <3>1 DEF pollCalled
      <4> QED BY <1>0, <4>1, <4>2 DEF ScanOK
    <3>2. CASE pollResumes
      BY <3>2 DEF pollResumes
    <3> QED BY <1>2, <3>1, <3>2
  <2>1. /\ reader'.pc = "scan" /\ reader'.empties = 0
        /\ queues' = queues /\ nextReadIndex' = nextReadIndex
    <3>1. CASE pollCalled
      BY <3>1 DEF pollCalled
    <3>2. CASE pollResumes
      <4>1. /\ reader' = [reader EXCEPT !.pc = "scan", !.empties = 0]
            /\ queues' = queues /\ nextReadIndex' = nextReadIndex
        BY <3>2 DEF pollResumes
      <4> QED BY <1>0, <4>1 DEF Reader
    <3> QED BY <1>2, <3>1, <3>2
  <2>2. \A d \in Devices : SinceLooked(d)' = SinceLooked(d)
    BY <1>0, <2>1 DEF SinceLooked
  <2> QED BY <1>0, <1>1, <2>0, <2>1, <2>2 DEF ScanOK
<1>3. CASE pollScans
  <2>0. reader.pc = "scan" /\ Devices # {} /\ nextReadIndex \in Devices
    <3>1. reader.pc = "scan" /\ 0 < Len(sub_hw_devices)
      BY <1>0, <1>3 DEF pollScans, Scanning, Reader
    <3> QED BY <1>0, <3>1 DEF ScanOK
  <2>1. reader.pc = "scan" /\ reader'.pc = "scan" /\ Devices # {}
    BY <1>0, <1>3, <2>0 DEF pollScans, Reader
  <2>a. ~waiting_for_data'
    <3>1. waiting_for_data' = waiting_for_data
      BY <1>3 DEF pollScans
    <3>2. reader.pc \notin {"wait", "woken"}
      BY <2>1
    <3> QED BY <1>0, <3>1, <3>2 DEF ScanOK
  <2>2. /\ nextReadIndex' \in Devices
        /\ \A d \in Devices :
             IF d = nextReadIndex THEN SinceLooked(d)' = 1
             ELSE SinceLooked(d)' = SinceLooked(d) + 1
    BY <1>0, <1>3, <2>1, NextInTurn DEF pollScans
  <2>3. CASE queues[nextReadIndex].mSize = 0
    <3>1. reader'.empties = reader.empties + 1 /\ queues' = queues
      BY <1>0, <1>3, <2>3 DEF pollScans, Reader
    <3>2. ASSUME NEW d \in Devices, SinceLooked(d)' <= reader'.empties
          PROVE  queues'[d].mSize = 0
      <4>1. CASE d = nextReadIndex
        BY <2>3, <3>1, <4>1
      <4>2. CASE d # nextReadIndex
        <5>1. SinceLooked(d) <= reader.empties
          BY <1>0, <1>1, <2>2, <3>1, <3>2, <4>2 DEF Reader
        <5> QED BY <1>0, <2>1, <3>1, <5>1 DEF ScanOK
      <4> QED BY <4>1, <4>2
    <3> QED BY <1>0, <2>1, <2>a, <2>2, <3>2 DEF ScanOK
  <2>4. CASE queues[nextReadIndex].mSize # 0
    <3>1. reader'.empties = 0
      BY <1>0, <1>3, <2>4 DEF pollScans, Reader
    <3>2. \A d \in Devices : ~(SinceLooked(d)' <= reader'.empties)
      BY <1>0, <1>1, <2>2, <3>1
    <3> QED BY <1>0, <2>1, <2>a, <2>2, <3>2 DEF ScanOK
  <2> QED BY <2>3, <2>4
<1>4. CASE pollReturns
  BY <1>0, <1>4 DEF pollReturns, ScanOK, Reader
<1>5. CASE pollWaits
  <2>1. /\ reader.pc = "scan" /\ reader'.pc = "wait" /\ waiting_for_data'
        /\ UNCHANGED <<queues, nextReadIndex>>
        /\ reader.empties >= Len(sub_hw_devices)
    BY <1>0, <1>5, MultiHalAssumption DEF pollWaits, Scanning, Reader
  <2>2. \A d \in Devices : queues[d].mSize = 0
    BY <1>0, <1>1, <2>1 DEF ScanOK, Reader
  <2> QED BY <1>0, <2>1, <2>2 DEF ScanOK
<1>6. CASE spuriousWakeup
  <2>1. /\ UNCHANGED <<queues, nextReadIndex, waiting_for_data>>
        /\ \/ reader' = reader
           \/ reader.pc = "wait" /\ reader'.pc = "woken"
    BY <1>0, <1>6 DEF spuriousWakeup, Reader
  <2>2. \A d \in Devices : SinceLooked(d)' = SinceLooked(d)
    BY <1>0, <2>1 DEF SinceLooked
  <2> QED BY <1>0, <2>1, <2>2 DEF ScanOK
<1> QED BY <1>2, <1>3, <1>4, <1>5, <1>6 DEF Poll

(* The variables that belong to no device keep their types.                *)
LEMMA TypeStep ==
  ASSUME IndInv, Next
  PROVE  /\ sub_hw_devices' = sub_hw_devices
         /\ made' \in [Devices -> 0 .. Serials - 1]
         /\ reader' \in Reader
         /\ nextReadIndex' \in Nat \ {0}
         /\ waiting_for_data' \in BOOLEAN
<1>0. /\ TypeOK /\ ScanOK /\ reader \in Reader
      /\ made \in [Devices -> 0 .. Serials - 1]
      /\ nextReadIndex \in Nat \ {0} /\ Len(sub_hw_devices) \in Nat
      /\ writer \in [Devices -> Writer]
  BY DEF IndInv, TypeOK
<1>1. sub_hw_devices' = sub_hw_devices
  BY DEF Next, Poll, spuriousWakeup, pollCalled, pollScans, pollReturns,
         pollWaits, pollResumes, writerReserve, deviceStores, deviceReturns,
         writerCommit
<1>2. waiting_for_data' \in BOOLEAN
  <2>1. waiting_for_data \in BOOLEAN
    BY <1>0 DEF TypeOK
  <2>2. \/ waiting_for_data' = waiting_for_data \/ waiting_for_data' = TRUE
        \/ waiting_for_data' = FALSE
    BY Zenon DEF Next, Poll, spuriousWakeup, pollCalled, pollScans,
           pollReturns, pollWaits, pollResumes, writerReserve, deviceStores,
           deviceReturns, writerCommit
  <2> QED BY <2>1, <2>2
<1>3. made' \in [Devices -> 0 .. Serials - 1]
  <2>1. CASE made' = made
    BY <1>0, <2>1
  <2>2. ASSUME NEW d \in Devices,
               made' = [made EXCEPT ![d] = (@ + writer[d].n) % Serials]
        PROVE  made' \in [Devices -> 0 .. Serials - 1]
    <3>1. made[d] + writer[d].n \in Nat /\ Serials \in Nat \ {0}
      BY <1>0, MultiHalAssumption, CapacityAssumption DEF Writer
    <3>2. (made[d] + writer[d].n) % Serials \in 0 .. Serials - 1
      BY <3>1
    <3> QED BY <1>0, <2>2, <3>2
  <2> QED BY <2>1, <2>2
          DEF Next, Poll, spuriousWakeup, pollCalled, pollScans, pollReturns,
              pollWaits, pollResumes, writerReserve, deviceStores,
              deviceReturns, writerCommit
<1>4. reader' \in Reader
  <2>1. CASE pollScans
    <3>1. reader.eventsRead < maxReads /\ maxReads \in Nat
      BY <2>1, MultiHalAssumption DEF pollScans, Scanning
    <3>2. \/ reader' = [reader EXCEPT !.empties = @ + 1]
          \/ reader' = [reader EXCEPT !.empties = 0, !.eventsRead = @]
          \/ reader' = [reader EXCEPT !.empties = 0, !.eventsRead = @ + 1]
      BY <2>1 DEF pollScans
    <3>3. reader.eventsRead + 1 \in 0 .. maxReads /\ reader.empties + 1 \in Nat
      BY <1>0, <3>1 DEF Reader
    <3>4. CASE reader' = [reader EXCEPT !.empties = @ + 1]
      BY <1>0, <3>3, <3>4 DEF Reader
    <3>5. CASE reader' = [reader EXCEPT !.empties = 0, !.eventsRead = @]
      BY <1>0, <3>5 DEF Reader
    <3>6. CASE reader' = [reader EXCEPT !.empties = 0, !.eventsRead = @ + 1]
      BY <1>0, <3>3, <3>6 DEF Reader
    <3> QED BY <3>2, <3>4, <3>5, <3>6
  <2>2. CASE ~pollScans
    <3>1. \/ reader' = reader
          \/ \E p \in {"out", "wait", "woken"} :
               reader' = [reader EXCEPT !.pc = p]
          \/ reader' = [reader EXCEPT !.pc = "scan", !.empties = 0]
          \/ reader' = [pc |-> "scan", empties |-> 0, eventsRead |-> 0]
      BY <2>2 DEF Next, Poll, spuriousWakeup, pollCalled, pollReturns,
             pollWaits, pollResumes, writerReserve, deviceStores,
             deviceReturns, writerCommit
    <3>2. ASSUME NEW p \in {"out", "wait", "woken"},
                 reader' = [reader EXCEPT !.pc = p]
          PROVE  reader' \in Reader
      BY <1>0, <3>2 DEF Reader
    <3>3. CASE reader' = [reader EXCEPT !.pc = "scan", !.empties = 0]
      BY <1>0, <3>3 DEF Reader
    <3>4. [pc |-> "scan", empties |-> 0, eventsRead |-> 0] \in Reader
      BY MultiHalAssumption DEF Reader
    <3> QED BY <1>0, <3>1, <3>2, <3>3, <3>4
  <2> QED BY <2>1, <2>2
<1>5. nextReadIndex' \in Nat \ {0}
  <2>1. CASE pollScans
    <3>1. Len(sub_hw_devices) \in Nat \ {0}
      BY <1>0, <2>1 DEF pollScans, Scanning, Reader
    <3>2. nextReadIndex % Len(sub_hw_devices) \in Nat
      BY <1>0, <3>1
    <3> QED BY <2>1, <3>2 DEF pollScans
  <2>2. CASE ~pollScans
    BY <1>0, <2>2
       DEF Next, Poll, spuriousWakeup, pollCalled, pollReturns, pollWaits,
           pollResumes, writerReserve, deviceStores, deviceReturns,
           writerCommit
  <2> QED BY <2>1, <2>2
<1> QED BY <1>1, <1>2, <1>3, <1>4, <1>5

(* The initial states.                                                     *)
LEMMA InitOK == Init => IndInv
<1> SUFFICES ASSUME Init PROVE IndInv
  OBVIOUS
<1>0. PICK opened \in SUBSET (1 .. ModuleCount) :
        sub_hw_devices \in [1 .. Cardinality(opened) -> opened]
  BY DEF Init, open_sensors
<1>1. Cardinality(opened) \in Nat
  <2>1. IsFiniteSet(1 .. ModuleCount)
    BY HandleAssumption, FS_Interval
  <2>2. IsFiniteSet(opened)
    BY <2>1, FS_Subset
  <2> QED BY <2>2, FS_CardinalityType
<1>2. sub_hw_devices \in Seq(1 .. ModuleCount)
  <2>1. sub_hw_devices \in [1 .. Cardinality(opened) -> 1 .. ModuleCount]
    BY <1>0
  <2> DEFINE n == Cardinality(opened)
             S == 1 .. ModuleCount
  <2> HIDE DEF n, S
  <2>2. n \in Nat /\ sub_hw_devices \in [1 .. n -> S]
    BY <1>1, <2>1 DEF n, S
  <2>3. sub_hw_devices \in Seq(S)
    BY <2>2
  <2> QED BY <2>3 DEF S
<1>3. /\ mCapacity \in Nat \ {0} /\ Serials \in Nat \ {0} /\ 0 \in Slots
      /\ maxReads \in Nat
  BY CapacityAssumption, MultiHalAssumption DEF Slots
<1>4. /\ NewQueue \in Queue(Event) /\ NewWriter \in Writer
      /\ NewReader \in Reader
  BY <1>3 DEF NewQueue, Queue, NewWriter, Writer, NewReader, Reader
<1>5. TypeOK
  <2>1. made \in [Devices -> 0 .. Serials - 1]
    BY <1>3 DEF Init
  <2>2. queues \in [Devices -> Queue(Event)] /\ writer \in [Devices -> Writer]
    BY <1>4 DEF Init
  <2>3. taken \in [Devices -> Event \cup {NoEvent}]
    BY DEF Init
  <2>4. nextReadIndex \in Nat \ {0} /\ reader \in Reader
    BY <1>4 DEF Init
  <2>5. waiting_for_data \in BOOLEAN
    BY DEF Init
  <2> QED BY <1>2, <2>1, <2>2, <2>3, <2>4, <2>5 DEF TypeOK
<1>6. DeviceOK(NewQueue, NewWriter)
  <2>1. Readable(NewQueue) = {}
    BY DEF Readable, NewQueue
  <2> QED BY <1>4, <2>1 DEF DeviceOK, NewWriter
<1>7. DevicesOK
  BY <1>6 DEF DevicesOK, Init
<1>8. ScanOK
  <2>1. reader.pc = "out" /\ nextReadIndex = 1 /\ waiting_for_data = FALSE
    BY DEF Init, NewReader
  <2>2. Devices # {} => nextReadIndex \in Devices
    BY <1>2, <2>1 DEF Devices
  <2> QED BY <2>1, <2>2 DEF ScanOK
<1> QED BY <1>5, <1>7, <1>8 DEF IndInv

(* IndInv is an inductive invariant of the data path.                      *)
THEOREM DataPathInvariant == Spec => []IndInv
<1>1. IndInv /\ [Next]_vars => IndInv'
  <2> SUFFICES ASSUME IndInv, [Next]_vars PROVE IndInv'
    OBVIOUS
  <2>1. CASE Next
    <3>0. TypeOK /\ DevicesOK /\ taken \in [Devices -> Event \cup {NoEvent}]
      BY DEF IndInv, TypeOK
    <3>1. /\ DevicesOK' /\ Devices' = Devices
          /\ queues' \in [Devices -> Queue(Event)]
          /\ writer' \in [Devices -> Writer]
          /\ taken' \in [Devices -> Event \cup {NoEvent}]
          /\ ScanOK'
      <4>1. CASE Poll \/ spuriousWakeup
        BY <4>1, PollStep, ScanPoll
      <4>2. ASSUME NEW d \in Devices,
                   writerReserve(d) \/ deviceStores(d) \/ deviceReturns(d)
                     \/ writerCommit(d)
            PROVE  /\ DevicesOK' /\ Devices' = Devices
                   /\ queues' \in [Devices -> Queue(Event)]
                   /\ writer' \in [Devices -> Writer]
                   /\ taken' \in [Devices -> Event \cup {NoEvent}]
                   /\ ScanOK'
        <5>1. taken' = taken
          BY <4>2 DEF writerReserve, deviceStores, deviceReturns, writerCommit
        <5> QED BY <3>0, <4>2, <5>1, WriterStep, ScanWriter
      <4> QED BY <2>1, <4>1, <4>2 DEF Next
    <3>2. TypeOK'
      BY <2>1, <3>0, <3>1, TypeStep DEF TypeOK
    <3> QED BY <3>1, <3>2 DEF IndInv
  <2>2. CASE UNCHANGED vars
    BY <2>2 DEF vars, IndInv, TypeOK, DevicesOK, ScanOK, SinceLooked, Devices
  <2> QED BY <2>1, <2>2
<1> QED BY <1>1, InitOK, PTL DEF Spec

(* What IndInv says of the run's invariants.                               *)
LEMMA IndInvImplies ==
  IndInv => /\ TypeOK /\ RegionSafe /\ ReadableInitialised
            /\ NoMissedData /\ NoMissedSpace
<1> SUFFICES ASSUME IndInv
             PROVE  /\ TypeOK /\ RegionSafe /\ ReadableInitialised
                    /\ NoMissedData /\ NoMissedSpace
  OBVIOUS
<1>1. TypeOK /\ NoMissedData
  BY DEF IndInv, ScanOK, NoMissedData
<1>2. ReadableInitialised /\ NoMissedSpace
  BY DEF IndInv, DevicesOK, DeviceOK, ReadableInitialised, NoMissedSpace
<1>3. ASSUME NEW d \in Devices, writer[d].pc \in {"poll", "commit"}
      PROVE  /\ Region(writer[d]) \subseteq Slots
             /\ Region(writer[d]) \cap Readable(queues[d]) = {}
             /\ writer[d].first = firstWritable(queues[d])
             /\ writer[d].n <= writer[d].length
             /\ queues[d].mSize + writer[d].length <= mCapacity
  <2> DEFINE q == queues[d]
             w == writer[d]
  <2>1. DeviceOK(q, w)
    BY DEF IndInv, DevicesOK
  <2> HIDE DEF q, w
  <2>2. /\ w.first = firstWritable(q) /\ w.n <= w.length
        /\ q.mSize + w.length <= mCapacity /\ w.first + w.length <= mCapacity
        /\ w.length \in Nat /\ Indexed(q)
    BY <1>3, <2>1, QueueIndexed DEF DeviceOK, Writer, w
  <2>3. Region(w) \subseteq Slots /\ Region(w) \cap Readable(q) = {}
    BY <2>2, RegionDisjoint DEF Region
  <2> QED BY <2>2, <2>3 DEF q, w
<1> QED BY <1>1, <1>2, <1>3 DEF RegionSafe

(* Type correctness of the data path.                                      *)
THEOREM TypeCorrect == Spec => []TypeOK
BY DataPathInvariant, IndInvImplies, PTL

(* The region a device fills without the lock never overlaps what poll()   *)
(* may read, for any interleaving of writers and poll().                   *)
THEOREM RegionsAreSafe == Spec => []RegionSafe
BY DataPathInvariant, IndInvImplies, PTL

(* poll() never copies a record nobody has written.                        *)
THEOREM ReadsAreInitialised == Spec => []ReadableInitialised
BY DataPathInvariant, IndInvImplies, PTL

(* poll() never sleeps while an event is published: no lost wakeup.        *)
THEOREM NoLostDataWakeup == Spec => []NoMissedData
BY DataPathInvariant, IndInvImplies, PTL

(* No writer sleeps beside a queue with space: no lost wakeup.             *)
THEOREM NoLostSpaceWakeup == Spec => []NoMissedSpace
BY DataPathInvariant, IndInvImplies, PTL

-----------------------------------------------------------------------------
(* The refinement.                                                         *)

(* The records a device has stored but not published lie in its region in  *)
(* the order it made them, numbered from the serial number of its next     *)
(* event; a writer that publishes has something to publish.                *)
StoredInOrder(q, w, from) ==
  /\ w.pc \in {"poll", "commit"} =>
       \A i \in 0 .. w.n - 1 : \E kind \in EventKinds :
         q.mData[w.first + i] =
           [serial |-> (from + i) % Serials,
            type |-> kind.type, handle |-> kind.handle]
  /\ w.pc = "commit" => w.n > 0

(* If every sub-HAL could be opened, the index of a device is the index of *)
(* its module, which is what poll() takes it for.                          *)
AllInPlace == ~OpenMayFail => \A d \in Devices : sub_hw_devices[d] = d

StoredOK == \A d \in Devices : StoredInOrder(queues[d], writer[d], made[d])

StreamInv == IndInv /\ StoredOK /\ AllInPlace

(* A nonempty set of numbers up to a bound has a greatest and a least one. *)
LEMMA Greatest ==
  ASSUME NEW n \in Nat, NEW X, X \subseteq 0 .. n, X # {}
  PROVE  \E x \in X : \A y \in X : x >= y
<1> DEFINE From(x) == x .. n
           T == {From(x) : x \in X}
           R == StrictSubsetOrdering(0 .. n)
           S == SUBSET (0 .. n)
<1>1. T \subseteq S /\ T # {}
  <2>1. ASSUME NEW x \in X PROVE From(x) \subseteq 0 .. n
    BY <2>1
  <2>2. PICK x : x \in X
    OBVIOUS
  <2> QED BY <2>1, <2>2
<1>2. IsWellFoundedOn(R, S)
  <2>1. PICK I : I = 0 .. n
    OBVIOUS
  <2>4. IsFiniteSet(0 .. n)
    BY FS_Interval
  <2>2. FiniteSubsetsOf(I) = SUBSET I
    BY <2>1, <2>4, FS_FiniteSubsetsOfFinite
  <2>3. IsWellFoundedOn(StrictSubsetOrdering(I), FiniteSubsetsOf(I))
    BY FS_StrictSubsetOrderingWellFounded
  <2> QED BY <2>1, <2>2, <2>3
<1> HIDE DEF R, S, T
<1>3. PICK m \in T : \A k \in T : ~(<<k, m>> \in R)
  BY <1>1, <1>2, WFMin
<1>4. PICK x \in X : m = From(x)
  BY <1>3 DEF T
<1>5. ASSUME NEW y \in X, y > x PROVE FALSE
  <2>1. From(y) \in T /\ From(y) \subseteq From(x)
    BY <1>5 DEF T
  <2>2. x \in From(x) /\ x \notin From(y)
    BY <1>5
  <2>3. From(y) \in S /\ From(x) \in S /\ From(y) # From(x)
    BY <1>1, <1>3, <1>4, <2>1, <2>2
  <2> HIDE DEF From
  <2>4. <<From(y), From(x)>> \in R
    BY <2>1, <2>3 DEF StrictSubsetOrdering, R, S
  <2> QED BY <1>3, <1>4, <2>1, <2>4
<1> QED BY <1>5

LEMMA Least ==
  ASSUME NEW n \in Nat, NEW X, X \subseteq 0 .. n, X # {}
  PROVE  \E x \in X : \A y \in X : x <= y
<1> DEFINE Y == {n - x : x \in X}
<1>1. Y \subseteq 0 .. n /\ Y # {}
  <2>1. ASSUME NEW x \in X PROVE n - x \in 0 .. n
    BY <2>1
  <2>2. PICK x : x \in X
    OBVIOUS
  <2> QED BY <2>1, <2>2
<1> HIDE DEF Y
<1>2. PICK y \in Y : \A z \in Y : y >= z
  BY <1>1, Greatest
<1>3. PICK x \in X : y = n - x
  BY <1>2 DEF Y
<1>4. ASSUME NEW z \in X PROVE x <= z
  <2>1. n - z \in Y
    BY DEF Y
  <2> QED BY <1>2, <1>3, <2>1
<1> QED BY <1>4

(* A strictly increasing enumeration of 1 .. n by 1 .. n is the identity.  *)
LEMMA InOrder ==
  ASSUME NEW n \in Nat, NEW f \in [1 .. n -> 1 .. n],
         \A i, j \in 1 .. n : i < j => f[i] < f[j]
  PROVE  \A i \in 1 .. n : f[i] = i
<1> DEFINE low  == {i \in 1 .. n : f[i] < i}
           high == {i \in 1 .. n : f[i] > i}
<1>1. ASSUME low # {} PROVE FALSE
  <2>1. low \subseteq 0 .. n
    OBVIOUS
  <2>2. PICK i \in low : \A y \in low : i <= y
    <3> HIDE DEF low
    <3> QED BY <1>1, <2>1, Least
  <2>3. i \in 1 .. n /\ f[i] \in 1 .. n /\ f[i] < i
    BY <2>2
  <2>4. f[f[i]] < f[i]
    BY <2>3
  <2>5. f[i] \in low
    BY <2>3, <2>4
  <2>6. i <= f[i]
    BY <2>2, <2>5
  <2> QED BY <2>3, <2>6
<1>2. ASSUME high # {} PROVE FALSE
  <2>1. high \subseteq 0 .. n
    OBVIOUS
  <2>2. PICK i \in high : \A y \in high : i >= y
    <3> HIDE DEF high
    <3> QED BY <1>2, <2>1, Greatest
  <2>3. i \in 1 .. n /\ f[i] \in 1 .. n /\ f[i] > i
    BY <2>2
  <2>4. f[f[i]] > f[i]
    BY <2>3
  <2>5. f[i] \in high
    BY <2>3, <2>4
  <2>6. i >= f[i]
    BY <2>2, <2>5
  <2> QED BY <2>3, <2>6
<1> QED BY <1>1, <1>2

LEMMA InitInPlace == Init => StoredOK /\ AllInPlace
<1> SUFFICES ASSUME Init PROVE StoredOK /\ AllInPlace
  OBVIOUS
<1>1. StoredOK
  BY DEF Init, StoredOK, StoredInOrder, NewWriter
<1>2. ASSUME ~OpenMayFail PROVE \A d \in Devices : sub_hw_devices[d] = d
  <2> DEFINE n == ModuleCount
  <2>1. /\ sub_hw_devices \in [1 .. Cardinality(1 .. n) -> 1 .. n]
        /\ \A i, j \in Devices : i < j => sub_hw_devices[i] < sub_hw_devices[j]
    BY <1>2 DEF Init, open_sensors
  <2>2. n \in Nat
    BY HandleAssumption
  <2>3. Cardinality(1 .. n) = n
    BY <2>2, FS_Interval
  <2> HIDE DEF n
  <2>4. sub_hw_devices \in [1 .. n -> 1 .. n] /\ Devices = 1 .. n
    BY <2>1, <2>3 DEF Devices
  <2> QED BY <2>1, <2>2, <2>4, InOrder
<1> QED BY <1>1, <1>2 DEF AllInPlace

(* What a step that changes one device does to the streams.                *)
Pending == [d \in Devices |-> Contents(queues[d])]

(* A step that leaves the readable records, the serial numbers and what    *)
(* was taken alone is no step of the streams.                              *)
LEMMA Unseen ==
  ASSUME Devices' = Devices, sub_hw_devices' = sub_hw_devices,
         \A d \in Devices : Contents(queues'[d]) = Contents(queues[d]),
         made' = made, taken' = taken
  PROVE  UNCHANGED Streams!vars
<1>1. [d \in Devices' |-> Contents(queues'[d])] =
        [d \in Devices |-> Contents(queues[d])]
  OBVIOUS
<1> QED BY <1>1 DEF Streams!vars

(* The device's store is unseen, and it is the next record of the region.  *)
LEMMA StoreStep ==
  ASSUME NEW q, NEW w, NEW from \in Nat, DeviceOK(q, w),
         StoredInOrder(q, w, from), w.pc = "poll", w.n < w.length,
         NEW kind \in EventKinds, NEW e \in Event,
         e = [serial |-> (from + w.n) % Serials,
              type |-> kind.type, handle |-> kind.handle]
  PROVE  /\ Contents(store(q, w.first + w.n, e)) = Contents(q)
         /\ StoredInOrder(store(q, w.first + w.n, e), [w EXCEPT !.n = @ + 1],
                          from)
<1> DEFINE slot == w.first + w.n
           p == store(q, slot, e)
           v == [w EXCEPT !.n = @ + 1]
           V == Event \cup {NoEvent}
<1>1. /\ q \in Queue(Event) /\ Indexed(q) /\ mCapacity \in Nat \ {0}
      /\ q.mData \in [Slots -> V] /\ w \in Writer
      /\ w.first \in Nat /\ w.n \in Nat /\ w.length \in Nat
      /\ w.length <= mCapacity /\ w.first + w.length <= mCapacity
  BY QueueIndexed DEF DeviceOK, Writer, Slots
<1>2. slot \in Slots /\ slot \in w.first .. w.first + w.length - 1
  BY <1>1 DEF Slots
<1>3. slot \notin Readable(q)
  BY <1>1, <1>2, RegionDisjoint DEF DeviceOK
<1>4. /\ p.mStart = q.mStart /\ p.mSize = q.mSize
      /\ p.mData = [q.mData EXCEPT ![slot] = e]
  BY <1>1, <1>2 DEF store, Queue
<1>5. /\ v.pc = "poll" /\ v.first = w.first /\ v.n = w.n + 1
  BY <1>1 DEF Writer
<1> HIDE DEF p, v
<1>6. p.mData \in [Slots -> V]
  BY <1>1, <1>4
<1>7. \A s \in Readable(q) : p.mData[s] = q.mData[s]
  BY <1>1, <1>3, <1>4, ReadableInSlots
<1>8. Contents(p) = Contents(q)
  <2> HIDE DEF V
  <2> QED BY <1>1, <1>4, <1>6, <1>7, StoreUnseen
<1>9. ASSUME NEW i \in 0 .. v.n - 1
      PROVE  \E k \in EventKinds :
               p.mData[v.first + i] =
                 [serial |-> (from + i) % Serials,
                  type |-> k.type, handle |-> k.handle]
  <2>1. i \in Nat /\ i <= w.n /\ v.first + i \in Slots
    <3>1. w.n \in Nat /\ v.n = w.n + 1 /\ v.first = w.first
      BY <1>1, <1>5
    <3>2. i \in Nat /\ i <= w.n
      BY <3>1
    <3>3. w.first + i \in 0 .. mCapacity - 1
      BY <1>1, <3>2
    <3> QED BY <3>1, <3>2, <3>3 DEF Slots
  <2>2. CASE i = w.n
    <3>1. p.mData[v.first + i] = e
      BY <1>1, <1>2, <1>4, <1>5, <2>2
    <3> QED BY <2>2, <3>1
  <2>3. CASE i # w.n
    <3>1. i \in 0 .. w.n - 1 /\ v.first + i # slot
      BY <1>1, <1>5, <2>1, <2>3
    <3>2. p.mData[v.first + i] = q.mData[w.first + i]
      BY <1>1, <1>4, <1>5, <2>1, <3>1
    <3> QED BY <3>1, <3>2 DEF StoredInOrder
  <2> QED BY <2>2, <2>3
<1>10. StoredInOrder(p, v, from)
  BY <1>5, <1>9 DEF StoredInOrder
<1> QED BY <1>8, <1>10 DEF p, v

(* Publishing appends the stored records, numbered in order.               *)
LEMMA CommitStep ==
  ASSUME NEW q, NEW w, NEW from \in Nat, DeviceOK(q, w),
         StoredInOrder(q, w, from), w.pc = "commit"
  PROVE  \E n \in 1 .. (mCapacity - Len(Contents(q))) :
           /\ n = w.n
           /\ \E kinds \in [1 .. n -> EventKinds] :
                Contents(markAsWritten(q, w.n)) =
                  Contents(q) \o Streams!Numbered(from, kinds)
<1> DEFINE n == w.n
           V == Event \cup {NoEvent}
           p == markAsWritten(q, n)
<1>1. /\ q \in Queue(Event) /\ Indexed(q) /\ mCapacity \in Nat \ {0}
      /\ q.mData \in [Slots -> V] /\ w \in Writer
      /\ w.first \in Nat /\ n \in Nat /\ w.length \in Nat /\ q.mSize \in Nat
      /\ n > 0 /\ n <= w.length
      /\ q.mSize + w.length <= mCapacity /\ w.first + w.length <= mCapacity
      /\ w.first = firstWritable(q)
  BY QueueIndexed DEF DeviceOK, Writer, Slots, StoredInOrder
<1>2. q.mSize + n <= mCapacity /\ w.first + n <= mCapacity
  BY <1>1
<1>3. n \in 1 .. (mCapacity - Len(Contents(q)))
  <2>1. Len(Contents(q)) = q.mSize
    <3> HIDE DEF V
    <3> QED BY <1>1, ContentsSeq
  <2> QED BY <1>1, <1>2, <2>1
<1> DEFINE Made(i, kind) == [serial |-> (from + i) % Serials,
                             type |-> kind.type, handle |-> kind.handle]
           kinds == [k \in 1 .. n |-> CHOOSE kind \in EventKinds :
                       q.mData[w.first + (k - 1)] = Made(k - 1, kind)]
           es == Streams!Numbered(from, kinds)
<1>4. ASSUME NEW k \in 1 .. n
      PROVE  /\ kinds[k] \in EventKinds
             /\ q.mData[w.first + (k - 1)] = Made(k - 1, kinds[k])
  <2>1. k - 1 \in 0 .. n - 1
    BY <1>1
  <2>2. \E kind \in EventKinds :
          q.mData[w.first + (k - 1)] = Made(k - 1, kind)
    BY <2>1 DEF StoredInOrder
  <2>3. kinds[k] = CHOOSE kind \in EventKinds :
                     q.mData[w.first + (k - 1)] = Made(k - 1, kind)
    OBVIOUS
  <2> HIDE DEF kinds, Made
  <2> QED BY <2>2, <2>3
<1>5. kinds \in [1 .. n -> EventKinds] /\ DOMAIN kinds = 1 .. n
  BY <1>4
<1> HIDE DEF kinds
<1>6. es = [k \in 1 .. n |-> [serial |-> (from + k - 1) % Serials,
                              type |-> kinds[k].type,
                              handle |-> kinds[k].handle]]
  BY <1>5 DEF Streams!Numbered
<1>7. ASSUME NEW k \in 1 .. n
      PROVE  es[k] \in Event /\ es[k] = q.mData[firstWritable(q) + k - 1]
  <2>1. /\ k - 1 \in Nat /\ from + (k - 1) = from + k - 1
        /\ w.first + (k - 1) = firstWritable(q) + k - 1
    BY <1>1
  <2>2. es[k] = Made(k - 1, kinds[k])
    BY <1>6, <2>1
  <2>3. Made(k - 1, kinds[k]) \in Event
    <3>1. kinds[k] \in EventKinds
      BY <1>4
    <3>2. from + (k - 1) \in Nat
      BY <2>1
    <3> QED BY <3>1, <3>2, MadeEvent
  <2> HIDE DEF Made, es
  <2> QED BY <1>4, <2>1, <2>2, <2>3
<1>8. es \in Seq(V) /\ Len(es) = n
  <2>1. es \in [1 .. n -> V]
    BY <1>6, <1>7
  <2>2. n \in Nat
    BY <1>1
  <2> HIDE DEF es, V, n
  <2>3. es \in Seq(V)
    BY <2>1, <2>2
  <2>4. DOMAIN es = 1 .. n /\ DOMAIN es = 1 .. Len(es) /\ Len(es) \in Nat
    BY <2>1, <2>3, LenProperties
  <2> QED BY <2>2, <2>3, <2>4
<1>9. p.mStart = q.mStart /\ p.mSize = q.mSize + n /\ p.mData = q.mData
  BY <1>1 DEF markAsWritten, Queue
<1> HIDE DEF es, V, p
<1>10. \A i \in 1 .. n : es[i] = q.mData[firstWritable(q) + i - 1]
  BY <1>7
<1>11. Contents(p) = Contents(q) \o es
  <2>1. /\ n \in Nat /\ q.mSize + n <= mCapacity
        /\ firstWritable(q) + n <= mCapacity
    BY <1>1, <1>2
  <2>2. Indexed(q) /\ q.mData \in [Slots -> V] /\ es \in Seq(V) /\ Len(es) = n
    BY <1>1, <1>8
  <2>3. Holds(q, es)
    BY <1>8, <1>10 DEF Holds
  <2> HIDE DEF n, Made
  <2> QED BY <1>9, <2>1, <2>2, <2>3, MarkAppends, SMTT(30)
<1> QED BY <1>3, <1>5, <1>11 DEF es, p

(* Taking takes the head.                                                  *)
LEMMA TakeStep ==
  ASSUME NEW q, NEW w, DeviceOK(q, w), q.mSize # 0
  PROVE  /\ Contents(q) # <<>> /\ Head(Contents(q)) = peek(q)
         /\ Contents(dequeue(q)) = Tail(Contents(q))
         /\ dequeue(q).mData = q.mData
<1> DEFINE V == Event \cup {NoEvent}
           p == dequeue(q)
<1>1. q \in Queue(Event) /\ Indexed(q) /\ q.mData \in [Slots -> V]
  BY QueueIndexed DEF DeviceOK
<1>2. /\ p.mStart = (q.mStart + 1) % mCapacity /\ p.mSize = q.mSize - 1
      /\ p.mData = q.mData
  BY <1>1 DEF dequeue, Queue
<1> HIDE DEF V, p
<1> QED BY <1>1, <1>2, DequeueTakesHead DEF p

-----------------------------------------------------------------------------
(* A step that changes one queue, its writer or its serial number, and     *)
(* keeps the stored records in order, keeps them in order everywhere.      *)
LEMMA OneStored ==
  ASSUME TypeOK, StoredOK, sub_hw_devices' = sub_hw_devices,
         NEW d \in Devices, NEW q, NEW w, NEW from, StoredInOrder(q, w, from),
         \/ queues' = [queues EXCEPT ![d] = q]
         \/ queues' = queues /\ q = queues[d],
         \/ writer' = [writer EXCEPT ![d] = w]
         \/ writer' = writer /\ w = writer[d],
         \/ made' = [made EXCEPT ![d] = from]
         \/ made' = made /\ from = made[d]
  PROVE  StoredOK'
<1>1. /\ Devices' = Devices
      /\ DOMAIN queues = Devices /\ DOMAIN writer = Devices
      /\ DOMAIN made = Devices
  BY DEF Devices, TypeOK
<1>2. ASSUME NEW e \in Devices
      PROVE  StoredInOrder(queues'[e], writer'[e], made'[e])
  <2>1. CASE e = d
    <3>1. queues'[e] = q /\ writer'[e] = w /\ made'[e] = from
      BY <1>1, <2>1
    <3> QED BY <3>1
  <2>2. CASE e # d
    <3>1. /\ queues'[e] = queues[e] /\ writer'[e] = writer[e]
          /\ made'[e] = made[e]
      BY <1>1, <2>2
    <3> QED BY <3>1 DEF StoredOK
  <2> QED BY <2>1, <2>2
<1> QED BY <1>1, <1>2 DEF StoredOK

(* Every step keeps the stored records in order.  A device's own steps are *)
(* the interesting ones; poll() changes no slot and no writer that is      *)
(* filling its region.                                                     *)
LEMMA StoredKept ==
  ASSUME IndInv, StoredOK, Next
  PROVE  StoredOK'
<1>0. /\ TypeOK /\ DevicesOK /\ ScanOK /\ Devices' = Devices
      /\ sub_hw_devices' = sub_hw_devices
      /\ queues \in [Devices -> Queue(Event)] /\ writer \in [Devices -> Writer]
      /\ made \in [Devices -> 0 .. Serials - 1]
      /\ Len(sub_hw_devices) \in Nat /\ Devices = 1 .. Len(sub_hw_devices)
  BY TypeStep DEF IndInv, TypeOK, Devices
<1>2. ASSUME NEW d \in Devices, writerReserve(d) PROVE StoredOK'
  <2>1. queues' = queues /\ made' = made
    BY <1>2 DEF writerReserve
  <2>2. PICK w : /\ writer' = [writer EXCEPT ![d] = w]
                 /\ (w.pc = "full" \/ (w.pc = "poll" /\ w.n = 0))
    <3>1. CASE writer' = [writer EXCEPT ![d].pc = "full"]
      <4> DEFINE w == [writer[d] EXCEPT !.pc = "full"]
      <4>1. w.pc = "full"
        BY <1>0 DEF Writer
      <4>2. writer' = [writer EXCEPT ![d] = w]
        BY <3>1
      <4> QED BY <4>1, <4>2
    <3>2. CASE writer' = [writer EXCEPT ![d] =
             [pc |-> "poll", first |-> firstWritable(queues[d]), n |-> 0,
              length |-> getWritableRegion(queues[d], mCapacity)]]
      <4> DEFINE w == [pc |-> "poll", first |-> firstWritable(queues[d]),
                       n |-> 0,
                       length |-> getWritableRegion(queues[d], mCapacity)]
      <4>1. w.pc = "poll" /\ w.n = 0
        OBVIOUS
      <4>2. writer' = [writer EXCEPT ![d] = w]
        BY <3>2
      <4> QED BY <4>1, <4>2
    <3> QED BY <1>2, <3>1, <3>2 DEF writerReserve
  <2>3. StoredInOrder(queues[d], w, made[d])
    BY <2>2 DEF StoredInOrder
  <2> QED BY <1>0, OneStored, <2>1, <2>2, <2>3
<1>3. ASSUME NEW d \in Devices, deviceStores(d) PROVE StoredOK'
  <2> DEFINE q == queues[d]
             w == writer[d]
             e(kind) == [serial |-> (made[d] + w.n) % Serials,
                         type |-> kind.type, handle |-> kind.handle]
  <2>1. PICK kind \in EventKinds :
          queues' = [queues EXCEPT ![d] = store(q, w.first + w.n, e(kind))]
    BY <1>3 DEF deviceStores
  <2>2. /\ writer' = [writer EXCEPT ![d] = [w EXCEPT !.n = @ + 1]]
        /\ made' = made /\ w.pc = "poll" /\ w.n < w.length
    BY <1>3 DEF deviceStores
  <2>3. /\ made[d] \in Nat /\ w.n \in Nat /\ DeviceOK(q, w)
        /\ StoredInOrder(q, w, made[d])
    BY <1>0 DEF Writer, DevicesOK, StoredOK
  <2>4. e(kind) \in Event
    BY <2>3, MadeEvent
  <2>5. StoredInOrder(store(q, w.first + w.n, e(kind)),
                      [w EXCEPT !.n = @ + 1], made[d])
    BY <2>2, <2>3, <2>4, StoreStep
  <2> HIDE DEF q, w, e
  <2> QED BY <1>0, OneStored, <2>1, <2>2, <2>5
<1>4. ASSUME NEW d \in Devices, deviceReturns(d) PROVE StoredOK'
  <2>1. queues' = queues /\ made' = made /\ writer[d].pc = "poll"
    BY <1>4 DEF deviceReturns
  <2>2. StoredInOrder(queues[d], writer[d], made[d]) /\ writer[d] \in Writer
    BY <1>0 DEF StoredOK
  <2>3. CASE writer[d].n > 0 /\ writer' = [writer EXCEPT ![d].pc = "commit"]
    <3> DEFINE w == [writer[d] EXCEPT !.pc = "commit"]
    <3>1. w.pc = "commit" /\ w.n = writer[d].n /\ w.first = writer[d].first
      BY <2>2 DEF Writer
    <3>2. writer' = [writer EXCEPT ![d] = w]
      BY <2>3
    <3> HIDE DEF w
    <3>3. StoredInOrder(queues[d], w, made[d])
      BY <2>1, <2>2, <2>3, <3>1 DEF StoredInOrder
    <3> QED BY <1>0, OneStored, <2>1, <3>2, <3>3
  <2>4. CASE writer' = [writer EXCEPT ![d] = NewWriter]
    <3>1. StoredInOrder(queues[d], NewWriter, made[d])
      BY DEF StoredInOrder, NewWriter
    <3> QED BY <1>0, OneStored, <2>1, <2>4, <3>1
  <2> QED BY <1>4, <2>3, <2>4 DEF deviceReturns
<1>5. ASSUME NEW d \in Devices, writerCommit(d) PROVE StoredOK'
  <2> DEFINE q == markAsWritten(queues[d], writer[d].n)
             from == (made[d] + writer[d].n) % Serials
  <2>1. /\ queues' = [queues EXCEPT ![d] = q]
        /\ made' = [made EXCEPT ![d] = from]
        /\ writer' = [writer EXCEPT ![d] = NewWriter]
    BY <1>5 DEF writerCommit
  <2> HIDE DEF q, from
  <2>2. StoredInOrder(q, NewWriter, from)
    BY DEF StoredInOrder, NewWriter
  <2> QED BY <1>0, OneStored, <2>1, <2>2
<1>6. CASE pollScans /\ queues[nextReadIndex].mSize # 0
  <2> DEFINE d == nextReadIndex
             q == dequeue(queues[d])
  <2>1. d \in Devices
    <3>1. 0 < Len(sub_hw_devices)
      BY <1>0, <1>6 DEF pollScans, Scanning, Reader, TypeOK
    <3> QED BY <1>0, <3>1 DEF ScanOK
  <2>2. queues' = [queues EXCEPT ![d] = q] /\ made' = made
    BY <1>6 DEF pollScans
  <2>3. /\ DeviceOK(queues[d], writer[d]) /\ writer[d] \in Writer
        /\ StoredInOrder(queues[d], writer[d], made[d])
    BY <1>0, <2>1 DEF DevicesOK, StoredOK
  <2>4. q.mData = queues[d].mData
    BY <1>6, <2>3, TakeStep
  <2> HIDE DEF q
  <2>5. CASE writer' = [writer EXCEPT ![d].pc = "reserve"]
    <3> DEFINE w == [writer[d] EXCEPT !.pc = "reserve"]
    <3>1. w.pc = "reserve" /\ writer' = [writer EXCEPT ![d] = w]
      BY <2>3, <2>5 DEF Writer
    <3> HIDE DEF w
    <3>2. StoredInOrder(q, w, made[d])
      BY <3>1 DEF StoredInOrder
    <3> QED BY <1>0, OneStored, <2>1, <2>2, <3>1, <3>2
  <2>6. CASE writer' = writer
    <3>1. StoredInOrder(q, writer[d], made[d])
      BY <2>3, <2>4 DEF StoredInOrder
    <3> QED BY <1>0, OneStored, <2>1, <2>2, <2>6, <3>1
  <2> QED BY <1>6, <2>5, <2>6 DEF pollScans
<1>7. CASE UNCHANGED <<queues, writer, made>>
  BY <1>0, <1>7 DEF StoredOK
<1>8. CASE spuriousWakeup /\ writer' # writer
  <2>1. PICK d \in Devices : writer' = [writer EXCEPT ![d].pc = "reserve"]
    BY <1>8 DEF spuriousWakeup
  <2>2. queues' = queues /\ made' = made
    BY <1>8 DEF spuriousWakeup
  <2> DEFINE w == [writer[d] EXCEPT !.pc = "reserve"]
  <2>3. w.pc = "reserve" /\ writer' = [writer EXCEPT ![d] = w]
    BY <1>0, <2>1 DEF Writer
  <2> HIDE DEF w
  <2>4. StoredInOrder(queues[d], w, made[d])
    BY <2>3 DEF StoredInOrder
  <2> QED BY <1>0, OneStored, <2>2, <2>3, <2>4
<1>9. CASE Poll \/ spuriousWakeup
  <2>1. CASE pollScans
    <3>1. CASE queues[nextReadIndex].mSize = 0
      <4>1. UNCHANGED <<queues, writer, made>>
        BY <2>1, <3>1 DEF pollScans
      <4> QED BY <1>7, <4>1
    <3> QED BY <1>6, <2>1, <3>1
  <2>2. CASE pollCalled \/ pollReturns \/ pollWaits \/ pollResumes
    <3>1. UNCHANGED <<queues, writer, made>>
      BY <2>2 DEF pollCalled, pollReturns, pollWaits, pollResumes
    <3> QED BY <1>7, <3>1
  <2>3. CASE spuriousWakeup
    <3>1. queues' = queues /\ made' = made
      BY <2>3 DEF spuriousWakeup
    <3> QED BY <1>7, <1>8, <2>3, <3>1
  <2> QED BY <1>9, <2>1, <2>2, <2>3 DEF Poll
<1> QED BY <1>2, <1>3, <1>4, <1>5, <1>9 DEF Next

(* A step that changes the readable records of one queue changes one       *)
(* stream.                                                                 *)
LEMMA OneStream ==
  ASSUME TypeOK, sub_hw_devices' = sub_hw_devices,
         NEW d \in Devices, NEW q, queues' = [queues EXCEPT ![d] = q]
  PROVE  Pending' = [Pending EXCEPT ![d] = Contents(q)]
<1>1. Devices' = Devices /\ DOMAIN queues = Devices
  BY DEF Devices, TypeOK
<1>2. \A e \in Devices :
        Contents(queues'[e]) = IF e = d THEN Contents(q)
                               ELSE Contents(queues[e])
  BY <1>1
<1> QED BY <1>1, <1>2 DEF Pending

(* writerCommit lets events arrive in the stream of its device.            *)
LEMMA CommitArrives ==
  ASSUME IndInv, StoredOK, NEW d \in Devices, writerCommit(d)
  PROVE  Streams!Next
<1> DEFINE q == queues[d]
           w == writer[d]
<1>1. /\ TypeOK /\ DeviceOK(q, w) /\ StoredInOrder(q, w, made[d])
      /\ made[d] \in Nat /\ w.pc = "commit"
      /\ sub_hw_devices' = sub_hw_devices
      /\ queues' = [queues EXCEPT ![d] = markAsWritten(q, w.n)]
      /\ made' = [made EXCEPT ![d] = (@ + w.n) % Serials]
      /\ taken' = taken
  BY DEF IndInv, DevicesOK, StoredOK, TypeOK, writerCommit
<1> HIDE DEF q, w
<1>2. PICK n \in 1 .. (mCapacity - Len(Contents(q))) :
        /\ n = w.n
        /\ \E kinds \in [1 .. n -> EventKinds] :
             Contents(markAsWritten(q, w.n)) =
               Contents(q) \o Streams!Numbered(made[d], kinds)
  BY <1>1, CommitStep
<1>3. PICK kinds \in [1 .. n -> EventKinds] :
        Contents(markAsWritten(q, w.n)) =
          Contents(q) \o Streams!Numbered(made[d], kinds)
  BY <1>2
<1>4. Pending[d] = Contents(q)
  BY DEF Pending, q
<1>5. Pending' = [Pending EXCEPT ![d] = Contents(markAsWritten(q, w.n))]
  BY <1>1, OneStream
<1>6. Pending' = [Pending EXCEPT ![d] =
                    @ \o Streams!Numbered(made[d], kinds)]
  BY <1>3, <1>4, <1>5
<1>7. /\ n \in 1 .. (mCapacity - Len(Pending[d]))
      /\ made' = [made EXCEPT ![d] = (@ + n) % Serials]
      /\ UNCHANGED <<sub_hw_devices, taken>>
  BY <1>1, <1>2, <1>4
<1>8. Streams!Arrive(d)
  BY <1>6, <1>7 DEF Streams!Arrive, Pending
<1> QED BY <1>8 DEF Streams!Next, Streams!Streams, Devices

(* poll() takes the oldest event of the queue it looks at.                 *)
LEMMA ScanTakes ==
  ASSUME IndInv, AllInPlace, ~OpenMayFail,
         pollScans, queues[nextReadIndex].mSize # 0
  PROVE  Streams!Next
<1> DEFINE d == nextReadIndex
           q == queues[d]
<1>1. d \in Devices
  <2>1. reader.empties < Len(sub_hw_devices) /\ reader.empties \in Nat
    BY DEF pollScans, Scanning, IndInv, TypeOK, Reader
  <2>2. Devices # {}
    BY <2>1 DEF IndInv, TypeOK, Devices
  <2> QED BY <2>2 DEF IndInv, ScanOK
<1>2. /\ TypeOK /\ DeviceOK(q, writer[d]) /\ q.mSize # 0
      /\ sub_hw_devices' = sub_hw_devices /\ sub_hw_devices[d] = d
      /\ queues' = [queues EXCEPT ![d] = dequeue(q)]
      /\ taken' = [taken EXCEPT ![d] = copy_event_remap_handle(peek(q), d)]
      /\ made' = made
  BY <1>1 DEF IndInv, DevicesOK, AllInPlace, pollScans
<1> HIDE DEF q
<1>3. /\ Contents(q) # <<>> /\ Head(Contents(q)) = peek(q)
      /\ Contents(dequeue(q)) = Tail(Contents(q))
  BY <1>2, TakeStep
<1>4. Pending[d] = Contents(q)
  BY <1>1 DEF Pending, q
<1>5. Pending' = [Pending EXCEPT ![d] = Contents(dequeue(q))]
  BY <1>1, <1>2, OneStream
<1>6. /\ Pending[d] # <<>>
      /\ Pending' = [Pending EXCEPT ![d] = Tail(@)]
      /\ taken' = [taken EXCEPT ![d] =
           copy_event_remap_handle(Head(Pending[d]), sub_hw_devices[d])]
      /\ UNCHANGED <<sub_hw_devices, made>>
  BY <1>2, <1>3, <1>4, <1>5
<1>7. \A e, m : Streams!copy_event_remap_handle(e, m) =
               copy_event_remap_handle(e, m)
  BY DEF copy_event_remap_handle, get_global_handle, FullHandle,
         Streams!copy_event_remap_handle, Streams!get_global_handle,
         Streams!FullHandle
<1>8. Streams!Take(d)
  BY <1>6, <1>7 DEF Streams!Take, Pending
<1> QED BY <1>1, <1>8 DEF Streams!Next, Streams!Streams, Devices

(* The other steps are unseen.                                             *)
LEMMA OthersUnseen ==
  ASSUME IndInv, StoredOK,
         \/ \E d \in Devices : writerReserve(d) \/ deviceStores(d)
                                 \/ deviceReturns(d)
         \/ pollCalled \/ pollReturns \/ pollWaits \/ pollResumes
         \/ spuriousWakeup
         \/ (pollScans /\ queues[nextReadIndex].mSize = 0)
         \/ UNCHANGED vars
  PROVE  UNCHANGED Streams!vars
<1>1. /\ sub_hw_devices' = sub_hw_devices /\ Devices' = Devices
      /\ made' = made /\ taken' = taken
  BY DEF writerReserve, deviceStores, deviceReturns, pollCalled, pollReturns,
         pollWaits, pollResumes, spuriousWakeup, pollScans, vars, Devices
<1>2. ASSUME NEW d \in Devices, deviceStores(d), NEW e \in Devices
      PROVE  Contents(queues'[e]) = Contents(queues[e])
  <2> DEFINE q == queues[d]
             w == writer[d]
             ev(kind) == [serial |-> (made[d] + w.n) % Serials,
                          type |-> kind.type, handle |-> kind.handle]
  <2>1. PICK kind \in EventKinds :
          queues' = [queues EXCEPT ![d] = store(q, w.first + w.n, ev(kind))]
    BY <1>2 DEF deviceStores
  <2>2. /\ made[d] \in Nat /\ w.n \in Nat /\ DeviceOK(q, w)
        /\ StoredInOrder(q, w, made[d]) /\ w.pc = "poll" /\ w.n < w.length
        /\ DOMAIN queues = Devices
    BY <1>2 DEF IndInv, TypeOK, Writer, DevicesOK, StoredOK, deviceStores
  <2>3. ev(kind) \in Event
    BY <2>2, MadeEvent
  <2>4. Contents(store(q, w.first + w.n, ev(kind))) = Contents(q)
    BY <2>2, <2>3, StoreStep
  <2> HIDE DEF w, ev
  <2>5. CASE e = d
    BY <2>1, <2>2, <2>4, <2>5
  <2>6. CASE e # d
    <3>1. queues'[e] = queues[e]
      BY <2>1, <2>6
    <3> QED BY <3>1
  <2> QED BY <2>5, <2>6
<1>3. CASE \E d \in Devices : deviceStores(d)
  BY <1>1, <1>2, <1>3, Unseen
<1>4. CASE ~ \E d \in Devices : deviceStores(d)
  <2>1. queues' = queues
    BY <1>4 DEF writerReserve, deviceReturns, pollCalled, pollReturns,
                pollWaits, pollResumes, spuriousWakeup, pollScans, vars
  <2> QED BY <1>1, <2>1, Unseen
<1> QED BY <1>3, <1>4

LEMMA InitStreams == Init => Streams!Init
<1> SUFFICES ASSUME Init PROVE Streams!Init
  OBVIOUS
<1>1. sub_hw_devices \in Seq(1 .. ModuleCount)
  BY InitOK DEF IndInv, TypeOK
<1>2. [d \in Devices |-> Contents(queues[d])] = [d \in Devices |-> <<>>]
  <2>1. Contents(NewQueue) = <<>>
    BY DEF Contents, NewQueue
  <2> QED BY <2>1 DEF Init
<1> QED BY <1>1, <1>2 DEF Init, Streams!Init, Streams!Streams, Devices

(* The refinement's invariant.                                             *)
THEOREM StreamInvariant == Spec => []StreamInv
<1>1. Init => StreamInv
  BY InitOK, InitInPlace DEF StreamInv
<1>2. ASSUME StreamInv, IndInv', [Next]_vars PROVE StreamInv'
  <2>1. CASE Next
    <3>1. StoredOK'
      BY <1>2, <2>1, StoredKept DEF StreamInv
    <3>2. sub_hw_devices' = sub_hw_devices
      BY <1>2, <2>1, TypeStep DEF StreamInv
    <3>3. AllInPlace'
      BY <1>2, <3>2 DEF StreamInv, AllInPlace, Devices
    <3> QED BY <1>2, <3>1, <3>3 DEF StreamInv
  <2>2. CASE UNCHANGED vars
    BY <1>2, <2>2 DEF StreamInv, StoredOK, AllInPlace, vars, Devices
  <2> QED BY <1>2, <2>1, <2>2
<1>3. StreamInv /\ IndInv' /\ [Next]_vars => StreamInv'
  BY <1>2
<1> QED BY <1>1, <1>3, DataPathInvariant, PTL DEF Spec

(* The queues, the writer tasks and poll() implement the streams of        *)
(* SensorStreams if every sub-HAL could be opened: nothing a device stores *)
(* without the lock is seen early, lost, seen twice, reordered or          *)
(* attributed to another module, for any number of sub-HALs, any capacity, *)
(* any buffer of the framework and every interleaving.                     *)
THEOREM StreamsAreImplemented ==
  ASSUME ~OpenMayFail
  PROVE  Spec => StreamsImplemented
<1>1. Init => Streams!Init
  BY InitStreams
<1>2. StreamInv /\ [Next]_vars => [Streams!Next]_(Streams!vars)
  <2> SUFFICES ASSUME StreamInv, [Next]_vars
               PROVE  Streams!Next \/ UNCHANGED Streams!vars
    OBVIOUS
  <2>1. ASSUME NEW d \in Devices, writerCommit(d) PROVE Streams!Next
    BY <2>1, CommitArrives DEF StreamInv
  <2>2. CASE pollScans /\ queues[nextReadIndex].mSize # 0
    BY <2>2, ScanTakes DEF StreamInv
  <2>3. CASE \/ \E d \in Devices : writerReserve(d) \/ deviceStores(d)
                                     \/ deviceReturns(d)
             \/ pollCalled \/ pollReturns \/ pollWaits \/ pollResumes
             \/ spuriousWakeup
             \/ (pollScans /\ queues[nextReadIndex].mSize = 0)
             \/ UNCHANGED vars
    BY <2>3, OthersUnseen DEF StreamInv
  <2> QED BY <2>1, <2>2, <2>3 DEF Next, Poll
<1> QED BY <1>1, <1>2, StreamInvariant, PTL
        DEF Spec, StreamsImplemented, Streams!Spec
=============================================================================
