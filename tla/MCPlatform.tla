------------------------------ MODULE MCPlatform ------------------------------
(***************************************************************************)
(* The platform parts on small instances: the library shims, the camera     *)
(* wrapper and the lights.  They share no state: part says which of them a  *)
(* behaviour is about.                                                      *)
(***************************************************************************)
EXTENDS Integers, Sequences, FiniteSets

VARIABLES part,
    vec, bufs, flags, val,
    now, mMessageEnvelopes, mRequests, ready, wakePipe, waking, thread, pending, owed, left,
    gb, call, allocated, sAllocList, natives, registered, reissued,
    service, mSensorServer, mSensors, smcall, tries, notices, missed, answer,
    gVendorModule, wrapper, vendor, leaked, caps, asked,
    devices, vendorOpen, todo, g_lock, led, lcd, last, failed, losses

vecs == <<vec, bufs, flags, val>>
loop == <<now, mMessageEnvelopes, mRequests, ready, wakePipe, waking, thread, pending,
          owed, left>>
graphic == <<gb, call, allocated, sAllocList, natives, registered, reissued>>
sensor == <<service, mSensorServer, mSensors, smcall, tries, notices, missed, answer>>
camera == <<gVendorModule, wrapper, vendor, leaked, caps, asked>>
lights == <<devices, vendorOpen, todo, g_lock, led, lcd, last, failed,
            losses>>

\* What the parts are instantiated with; the values below are those of the run.
CONSTANTS Fds, Whats, Timeouts, MaxTime, Quotas,
          Objects, Handles, Sizes, MaxHandles,
          Sensors, WakeUpTypes, MaxLives,
          NumCameras, IsoValues, ShutterSpeeds, CapabilitySets,
          Threads, Colours, Flashes, MaxBrightness, LCD_BRIGHTNESS_MIN, MaxLosses

\* Waits that end and one that does not.
MCTimeouts == {-1, 1}
\* Behaviours with messages, with fds and with both.
MCQuotas == {[sends |-> 2, regs |-> 0], [sends |-> 1, regs |-> 1],
             [sends |-> 0, regs |-> 2]}
\* A proximity sensor (8) in both versions.
MCSensors == {[type |-> 1, wakeUp |-> FALSE], [type |-> 8, wakeUp |-> TRUE],
              [type |-> 8, wakeUp |-> FALSE]}
MCCapabilitySets ==
    {[ae |-> a, stillHdr |-> b, videoHdr |-> b, active |-> b] :
        a \in {{}, {"auto"}, {"shutter-prio", "iso-prio"},
                {"auto", "iso-prio", "shutter-prio", "manual"}}, b \in BOOLEAN}
\* Darkness, and one bright, one dark and one dim channel.
MCColours == {<<0, 0, 0>>, <<255, 0, 9>>}
\* A flash, and the "always on" that has no dark time.
MCFlashes == {[on |-> 5, off |-> 10], [on |-> 1, off |-> 0]}

\* A poll can register finitely many fds; -1 waits for ever.
ASSUME LooperAssumption ==
    /\ IsFiniteSet(Fds)
    /\ Timeouts \subseteq Int /\ MaxTime \in Nat
    /\ Quotas # {} /\ Quotas \subseteq [sends : Nat, regs : Nat]

\* 0 is the NULL handle.
ASSUME BufferAssumption == 0 \notin Handles

\* Iso values and shutter speeds are positive numbers.
ASSUME CameraAssumption ==
    /\ NumCameras \in Nat
    /\ IsoValues # {} /\ IsoValues \subseteq Nat \ {0} /\ ShutterSpeeds \subseteq Nat \ {0}
    /\ CapabilitySets \subseteq [ae : SUBSET {"auto", "iso-prio", "shutter-prio", "manual"},
                                stillHdr : BOOLEAN, videoHdr : BOOLEAN, active : BOOLEAN]

\* A colour is three bytes; the kernel's range has room for the least backlight.
ASSUME LightsAssumption ==
    /\ "nobody" \notin Threads
    /\ Colours \subseteq (0..255) \X (0..255) \X (0..255)
    /\ Flashes \subseteq [on : Nat, off : Nat]
    /\ MaxBrightness \in Nat /\ LCD_BRIGHTNESS_MIN \in 1..MaxBrightness

\* Two vectors; a capacity of 3 that has to grow.  20 and 21 are equal and can be
\* told apart.
V == INSTANCE VectorImpl WITH Vecs <- {"A", "B"}, Items <- {10, 20, 21},
         MaxTotal <- 4, Capacities <- {3}
L == INSTANCE Looper
G == INSTANCE GraphicBuffer
S == INSTANCE SensorManager WITH call <- smcall
C == INSTANCE CameraWrapper
D == INSTANCE Lights

Init == /\ part \in {"vector", "looper", "buffer", "sensors", "camera", "lights"}
        /\ V!VecInit /\ L!LpInit /\ G!GbInit /\ S!SmInit /\ C!CamInit /\ D!LtInit
        /\ part # "vector" => flags = [trivial |-> TRUE, sorted |-> TRUE]
        /\ part # "looper" => left = CHOOSE q \in Quotas : TRUE
        /\ part # "camera" => caps.ae = {} /\ caps.active

Next ==
    /\ UNCHANGED part
    /\ \/ part = "vector"  /\ V!VecNext /\ UNCHANGED <<loop, graphic, sensor, camera, lights>>
       \/ part = "looper"  /\ L!LpNext  /\ UNCHANGED <<vecs, graphic, sensor, camera, lights>>
       \/ part = "buffer"  /\ G!GbNext  /\ UNCHANGED <<vecs, loop, sensor, camera, lights>>
       \/ part = "sensors" /\ S!SmNext  /\ UNCHANGED <<vecs, loop, graphic, camera, lights>>
       \/ part = "camera"  /\ C!CamNext /\ UNCHANGED <<vecs, loop, graphic, sensor, lights>>
       \/ part = "lights"  /\ D!LtNext  /\ UNCHANGED <<vecs, loop, graphic, sensor, camera>>

Spec == Init /\ [][Next]_<<part, vecs, loop, graphic, sensor, camera, lights>>

\* VectorImpl: vectors that share storage stay apart, the storage is accounted
\* for, and a sorted vector finds what it holds.
VectorsSound == V!Isolated /\ V!StorageAccounted /\ V!SortedFound

\* Looper: no message due is slept over and no signalled fd is dropped.
NothingSleptOver == L!NoMessageSleptOver /\ L!NoEventDropped

\* Looper: messages are delivered in order of their time and sending, when due,
\* and not after they have been removed.
DeliversEarliest == L!DeliversEarliest

\* GraphicBuffer: one owner for every handle, and the allocator's records follow
\* the device.
BuffersAccounted == G!OwnedOnce /\ G!RecordsFollowDevice

\* SensorManager: the notice of a death is on its way, and calls look up the
\* sensors of the service that lives.
DeathIsNoticed == S!DeathIsNoticed

\* Camera: what is set is read back, and vendor devices do not outlive wrappers.
CameraFaithful == C!ParametersReadBack /\ C!VendorBalanced

\* Lights: the LED and the backlight show the last request whose writes succeeded.
ShowsLastRequest == D!ShowsLastRequest
=============================================================================
