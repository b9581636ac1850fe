-------------------------- MODULE SensorEventQueue --------------------------
(***************************************************************************)
(* SensorEventQueue, the fixed-size circular buffer between a sub-HAL's    *)
(* writer task and the multi-HAL's poll().  The queue hands its writer a   *)
(* contiguous region of the buffer to fill without holding the lock, so    *)
(* the region must stay clear of everything a reader may look at.          *)
(*                                                                         *)
(* A queue is a record of mStart, mSize and mData; slots are numbered from *)
(* zero as in the code.  Each operator is one method, called with          *)
(* queue_mutex held.  The space condition is modelled by the caller.       *)
(***************************************************************************)
EXTENDS Naturals, Sequences

CONSTANTS mCapacity,
          NoEvent      \* what an unused slot holds, and NULL for peek()

ASSUME CapacityAssumption == mCapacity \in Nat \ {0}

Slots == 0 .. mCapacity - 1

Queue(events) ==
  [mStart : Slots, mSize : 0 .. mCapacity,
   mData : [Slots -> events \cup {NoEvent}]]

(* The constructor; new sensors_event_t[] does not initialise the slots.   *)
NewQueue == [mStart |-> 0, mSize |-> 0, mData |-> [i \in Slots |-> NoEvent]]

(* The slots a reader may look at, now or before the next markAsWritten,   *)
(* and what it would find there, oldest first.                             *)
Readable(q) == {(q.mStart + k) % mCapacity : k \in 0 .. q.mSize - 1}
Contents(q) ==
  [k \in 1 .. q.mSize |-> q.mData[(q.mStart + k - 1) % mCapacity]]

firstWritable(q) == (q.mStart + q.mSize) % mCapacity

(* Variant: the region runs into the readable records.                     *)
regionIntoReadable(q, requestedLength) ==
  LET first == firstWritable(q)
      last  == first + requestedLength - 1
  IN  IF q.mSize = mCapacity \/ requestedLength <= 0 THEN 0
      ELSE (IF last > mCapacity - 1 THEN mCapacity - 1 ELSE last) - first + 1

(* getWritableRegion returns the length of the region that starts at       *)
(* firstWritable.                                                          *)
getWritableRegion(q, requestedLength) ==
  LET first == firstWritable(q)
      end   == first + requestedLength - 1
      last  == IF end > mCapacity - 1 THEN mCapacity - 1 ELSE end
  IN  IF q.mSize = mCapacity \/ requestedLength <= 0 THEN 0
      ELSE (IF first < q.mStart /\ last >= q.mStart THEN q.mStart - 1 ELSE last)
           - first + 1

(* The device's poll() stores an event in a slot of its region.            *)
store(q, slot, event) == [q EXCEPT !.mData[slot] = event]

(* Variant: one record too many is published.                              *)
markOneMore(q, count) == [q EXCEPT !.mSize = @ + count + 1]

markAsWritten(q, count) == [q EXCEPT !.mSize = @ + count]

peek(q) == IF q.mSize = 0 THEN NoEvent ELSE q.mData[q.mStart]

(* Variant: the oldest record is dropped from the wrong end.               *)
dequeueNewest(q) == IF q.mSize = 0 THEN q ELSE [q EXCEPT !.mSize = @ - 1]

dequeue(q) ==
  IF q.mSize = 0 THEN q
  ELSE [q EXCEPT !.mSize = @ - 1, !.mStart = (@ + 1) % mCapacity]

(* Variant: the test comes after mSize was decremented.                    *)
broadcastTestedLate(q) == q.mSize - 1 = mCapacity

(* dequeue broadcasts mSpaceAvailableCondition: only a full queue has      *)
(* somebody waiting for space.                                             *)
dequeueBroadcasts(q) == q.mSize = mCapacity
=============================================================================
