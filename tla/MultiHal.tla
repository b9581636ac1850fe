------------------------------ MODULE MultiHal ------------------------------
(***************************************************************************)
(* The data path of the sensors multi-HAL (multihal.cpp): one writer task  *)
(* per opened sub-HAL device, which polls the device into the writable     *)
(* region of its SensorEventQueue, and the framework's poll(), which       *)
(* drains the queues round robin.                                          *)
(*                                                                         *)
(* queue_mutex guards the queues, waiting_for_data and the two condition   *)
(* variables.  A writer's critical section is one action.  poll() holds    *)
(* the mutex over a whole scan, one action per queue it looks at; it has   *)
(* the mutex exactly while reader.pc is "scan".  A device stores its       *)
(* events one at a time without the mutex, also while poll() is scanning.  *)
(***************************************************************************)
EXTENDS SensorHandles, SensorEventQueue, FiniteSets

CONSTANTS OpenMayFail,  \* a sub-HAL's open() may return an error
          EventKinds,   \* type and local handle of the events devices make
          Serials,      \* events of a device are numbered modulo Serials
          maxReads      \* the size of the framework's event buffer

Event == [serial : 0 .. Serials - 1, type : {"DATA", "META_DATA"}, handle : Int]

ASSUME MultiHalAssumption ==
  /\ OpenMayFail \in BOOLEAN
  /\ EventKinds \subseteq [type : {"DATA", "META_DATA"}, handle : Nat]
  /\ Serials \in Nat /\ Serials > mCapacity
  /\ maxReads \in Nat \ {0}
  /\ NoEvent \notin Event

VARIABLES sub_hw_devices,   \* the module of each opened device
          queues,           \* the queue of each opened device
          writer,           \* the writer task of each opened device
          made,             \* serial number of each device's next event
          reader,           \* the framework's thread in poll()
          nextReadIndex,    \* counted from 1
          waiting_for_data,
          taken             \* the last event poll() took from each queue

vars == <<sub_hw_devices, queues, writer, made, reader, nextReadIndex,
          waiting_for_data, taken>>

Devices == DOMAIN sub_hw_devices

(* Writer: "reserve" before the lock, "full" asleep in waitForSpace,       *)
(* "poll" in the device's poll() with n of length slots filled, "commit"   *)
(* before the second lock.                                                 *)
Writer == [pc : {"reserve", "full", "poll", "commit"}, first : Slots,
           length : 0 .. mCapacity, n : 0 .. mCapacity]

NewWriter == [pc |-> "reserve", first |-> 0, length |-> 0, n |-> 0]

(* Reader: "out" of poll(), "scan" holding the lock, "wait" asleep on      *)
(* data_available_cond, "woken" before it has the lock again.              *)
Reader == [pc : {"out", "scan", "wait", "woken"}, empties : Nat,
           eventsRead : 0 .. maxReads]

NewReader == [pc |-> "out", empties |-> 0, eventsRead |-> 0]

(* open_sensors: the devices that could be opened, in module order.        *)
open_sensors ==
  \E opened \in SUBSET (1 .. ModuleCount) :
    /\ OpenMayFail \/ opened = 1 .. ModuleCount
    /\ sub_hw_devices \in [1 .. Cardinality(opened) -> opened]
    /\ \A i, j \in Devices : i < j => sub_hw_devices[i] < sub_hw_devices[j]

Init ==
  /\ open_sensors
  /\ queues = [d \in Devices |-> NewQueue]
  /\ writer = [d \in Devices |-> NewWriter]
  /\ made = [d \in Devices |-> 0]
  /\ reader = NewReader
  /\ nextReadIndex = 1
  /\ waiting_for_data = FALSE
  /\ taken = [d \in Devices |-> NoEvent]

-----------------------------------------------------------------------------
(* The writer takes the lock, sleeps if the queue is full, or reserves a   *)
(* region and drops the lock to poll the device.                           *)
writerReserve(d) ==
  /\ writer[d].pc = "reserve" /\ reader.pc # "scan"
  /\ \/ /\ queues[d].mSize = mCapacity
        /\ writer' = [writer EXCEPT ![d].pc = "full"]
     \/ /\ queues[d].mSize # mCapacity
        /\ writer' = [writer EXCEPT ![d] =
             [pc |-> "poll", first |-> firstWritable(queues[d]), n |-> 0,
              length |-> getWritableRegion(queues[d], mCapacity)]]
  /\ UNCHANGED <<sub_hw_devices, queues, made, reader, nextReadIndex,
                 waiting_for_data, taken>>

(* The device stores an event in the region, without the lock.             *)
deviceStores(d) ==
  /\ writer[d].pc = "poll" /\ writer[d].n < writer[d].length
  /\ \E kind \in EventKinds :
       queues' = [queues EXCEPT ![d] =
         store(@, writer[d].first + writer[d].n,
               [serial |-> (made[d] + writer[d].n) % Serials,
                type |-> kind.type, handle |-> kind.handle])]
  /\ writer' = [writer EXCEPT ![d].n = @ + 1]
  /\ UNCHANGED <<sub_hw_devices, made, reader, nextReadIndex,
                 waiting_for_data, taken>>

(* The device's poll() returns the number of events stored, or an error    *)
(* after which the task starts over.                                       *)
deviceReturns(d) ==
  /\ writer[d].pc = "poll"
  /\ \/ writer[d].n > 0 /\ writer' = [writer EXCEPT ![d].pc = "commit"]
     \/ writer' = [writer EXCEPT ![d] = NewWriter]
  /\ UNCHANGED <<sub_hw_devices, queues, made, reader, nextReadIndex,
                 waiting_for_data, taken>>

(* Variant: the broadcast is left out.                                     *)
commitWithoutBroadcast(d) ==
  /\ writer[d].pc = "commit" /\ reader.pc # "scan"
  /\ queues' = [queues EXCEPT ![d] = markAsWritten(@, writer[d].n)]
  /\ made' = [made EXCEPT ![d] = (@ + writer[d].n) % Serials]
  /\ writer' = [writer EXCEPT ![d] = NewWriter]
  /\ UNCHANGED <<sub_hw_devices, reader, nextReadIndex, waiting_for_data, taken>>

(* The writer takes the lock again, publishes the events and wakes poll(). *)
writerCommit(d) ==
  /\ writer[d].pc = "commit" /\ reader.pc # "scan"
  /\ queues' = [queues EXCEPT ![d] = markAsWritten(@, writer[d].n)]
  /\ made' = [made EXCEPT ![d] = (@ + writer[d].n) % Serials]
  /\ writer' = [writer EXCEPT ![d] = NewWriter]
  /\ reader' = IF waiting_for_data /\ reader.pc = "wait"
               THEN [reader EXCEPT !.pc = "woken"] ELSE reader
  /\ UNCHANGED <<sub_hw_devices, nextReadIndex, waiting_for_data, taken>>

-----------------------------------------------------------------------------
(* Variant: every call starts with the first queue.                        *)
pollCalledFromFirst ==
  /\ reader.pc = "out"
  /\ reader' = [pc |-> "scan", empties |-> 0, eventsRead |-> 0]
  /\ nextReadIndex' = 1
  /\ UNCHANGED <<sub_hw_devices, queues, writer, made, waiting_for_data, taken>>

(* The framework calls poll(), which takes the lock.                       *)
pollCalled ==
  /\ reader.pc = "out"
  /\ reader' = [pc |-> "scan", empties |-> 0, eventsRead |-> 0]
  /\ UNCHANGED <<sub_hw_devices, queues, writer, made, nextReadIndex,
                 waiting_for_data, taken>>

Scanning == /\ reader.empties < Len(sub_hw_devices)
            /\ reader.eventsRead < maxReads

(* The next queue in turn is empty, or its oldest event is copied, counted *)
(* unless its handle is bad, and dequeued; a writer that sleeps on a full  *)
(* queue is woken.                                                         *)
pollScans ==
  /\ reader.pc = "scan" /\ Scanning
  /\ LET d     == nextReadIndex
         event == peek(queues[d])
     IN  \/ /\ queues[d].mSize = 0
            /\ reader' = [reader EXCEPT !.empties = @ + 1]
            /\ UNCHANGED <<queues, writer, taken>>
         \/ /\ queues[d].mSize # 0
            /\ LET copy == copy_event_remap_handle(event, d)
               IN  /\ taken' = [taken EXCEPT ![d] = copy]
                   /\ reader' = [reader EXCEPT
                        !.empties = 0,
                        !.eventsRead = IF badHandle(copy) THEN @ ELSE @ + 1]
            /\ queues' = [queues EXCEPT ![d] = dequeue(@)]
            /\ writer' = IF dequeueBroadcasts(queues[d]) /\
                            writer[d].pc = "full"
                         THEN [writer EXCEPT ![d].pc = "reserve"] ELSE writer
  /\ nextReadIndex' = (nextReadIndex % Len(sub_hw_devices)) + 1
  /\ UNCHANGED <<sub_hw_devices, made, waiting_for_data>>

(* The scan has found something, or the framework's buffer is full.        *)
pollReturns ==
  /\ reader.pc = "scan" /\ ~Scanning /\ reader.eventsRead > 0
  /\ reader' = [reader EXCEPT !.pc = "out"]
  /\ UNCHANGED <<sub_hw_devices, queues, writer, made, nextReadIndex,
                 waiting_for_data, taken>>

(* "The queues have been scanned and none contain data, so wait."          *)
pollWaits ==
  /\ reader.pc = "scan" /\ ~Scanning /\ reader.eventsRead = 0
  /\ reader' = [reader EXCEPT !.pc = "wait"]
  /\ waiting_for_data' = TRUE
  /\ UNCHANGED <<sub_hw_devices, queues, writer, made, nextReadIndex, taken>>

(* The wait is over and the lock held again: another scan.                 *)
pollResumes ==
  /\ reader.pc = "woken"
  /\ reader' = [reader EXCEPT !.pc = "scan", !.empties = 0]
  /\ waiting_for_data' = FALSE
  /\ UNCHANGED <<sub_hw_devices, queues, writer, made, nextReadIndex, taken>>

(* pthread_cond_wait may return without a broadcast.                       *)
spuriousWakeup ==
  /\ \/ /\ reader.pc = "wait"
        /\ reader' = [reader EXCEPT !.pc = "woken"]
        /\ UNCHANGED writer
     \/ /\ \E d \in Devices :
             /\ writer[d].pc = "full"
             /\ writer' = [writer EXCEPT ![d].pc = "reserve"]
        /\ UNCHANGED reader
  /\ UNCHANGED <<sub_hw_devices, queues, made, nextReadIndex,
                 waiting_for_data, taken>>

Poll == pollCalled \/ pollScans \/ pollReturns \/ pollWaits \/ pollResumes

Next ==
  \/ \E d \in Devices : \/ writerReserve(d) \/ deviceStores(d)
                        \/ deviceReturns(d) \/ writerCommit(d)
  \/ Poll
  \/ spuriousWakeup

Spec == Init /\ [][Next]_vars

(* The framework calls poll() again and again, and whoever can have the    *)
(* lock gets it; devices and spurious wakeups owe nothing.                 *)
FairSpec == /\ Spec
            /\ WF_vars(Poll)
            /\ \A d \in 1 .. ModuleCount :
                 WF_vars(d \in Devices /\ (writerReserve(d) \/ writerCommit(d)))

-----------------------------------------------------------------------------
(* The types of the variables.                                             *)
TypeOK ==
  /\ sub_hw_devices \in Seq(1 .. ModuleCount)
  /\ queues \in [Devices -> Queue(Event)]
  /\ writer \in [Devices -> Writer]
  /\ made \in [Devices -> 0 .. Serials - 1]
  /\ reader \in Reader
  /\ nextReadIndex \in Nat \ {0}
  /\ waiting_for_data \in BOOLEAN
  /\ taken \in [Devices -> Event \cup {NoEvent}]

(* "Reading can be done safely after grabbing the mutex lock, while poll() *)
(* writing in a separate thread without a mutex lock": from the moment the *)
(* lock is dropped until the events are published, however much is read    *)
(* in between, the region handed to the device lies inside the array and   *)
(* holds no readable record, and what is published fits.                   *)
Region(w) == w.first .. w.first + w.length - 1

RegionSafe ==
  \A d \in Devices : writer[d].pc \in {"poll", "commit"} =>
    /\ Region(writer[d]) \subseteq Slots
    /\ Region(writer[d]) \cap Readable(queues[d]) = {}
    /\ writer[d].first = firstWritable(queues[d])
    /\ writer[d].n <= writer[d].length
    /\ queues[d].mSize + writer[d].length <= mCapacity

(* poll() never reads a record that nobody has written.                    *)
ReadableInitialised ==
  \A d \in Devices : \A s \in Readable(queues[d]) :
    queues[d].mData[s] # NoEvent

(* poll() never sleeps on data: no event was published between its last    *)
(* look at a queue and its sleep, or while it slept, without waking it.    *)
NoMissedData ==
  reader.pc = "wait" => \A d \in Devices : queues[d].mSize = 0

(* No writer sleeps in waitForSpace beside a queue that has space.         *)
NoMissedSpace ==
  \A d \in Devices : writer[d].pc = "full" => queues[d].mSize = mCapacity

(* The queues, writer tasks and poll() implement the streams of            *)
(* SensorStreams: nothing a device stores without the lock is seen early,  *)
(* lost, seen twice, reordered or attributed to another module.            *)
Streams == INSTANCE SensorStreams
             WITH Capacity <- mCapacity, modules <- sub_hw_devices,
                  pending <- [d \in Devices |-> Contents(queues[d])]

StreamsImplemented == Streams!Spec

(* No stream starves: whatever the others produce and however small the    *)
(* framework's buffer, poll() gets round to every published event.         *)
EveryEventTaken ==
  \A d \in 1 .. ModuleCount, k \in 0 .. Serials - 1 :
    (/\ d \in Devices
     /\ \E i \in 1 .. queues[d].mSize : Contents(queues[d])[i].serial = k) ~>
      (taken[d] # NoEvent /\ taken[d].serial = k)

(* "Remember their devices in a vector parallel to sub_hw_modules": an     *)
(* event handed to the framework carries a handle of the module that made  *)
(* it, never "an incorrect but plausible sensor number".                   *)
DeliveredByOwner ==
  \A d \in Devices :
    taken[d] # NoEvent /\ taken[d].handle # -1 =>
      get_module_index(taken[d].handle) = sub_hw_devices[d]
=============================================================================
