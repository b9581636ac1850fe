---------------------------- MODULE CameraWrapper ----------------------------
(***************************************************************************)
(* camera/CameraWrapper.cpp: the wrapper around the vendor camera HAL.      *)
(* Devices are opened and closed under gCameraWrapperLock, a step each;     *)
(* every other call goes to the vendor device.  The wrapper translates the  *)
(* framework's parameters (iso, shutter speed, scene mode, video HDR) to    *)
(* the vendor's and back.  A parameter string is a record of the keys the   *)
(* wrapper looks at; Absent is a key that is not there, Auto the "auto" of  *)
(* iso and shutter speed, whose other values are numbers.                   *)
(***************************************************************************)
EXTENDS Integers, FiniteSets

CONSTANTS NumCameras,      \* get_number_of_cameras of the vendor
          IsoValues, ShutterSpeeds,
          CapabilitySets   \* [ae, stillHdr, videoHdr, active]: what vendors support

VARIABLES gVendorModule,   \* the vendor module is loaded
          wrapper,         \* the wrapper devices: id -> "closed" or "open"
          vendor,          \* the vendor devices: [open, preview, recording, params]
          leaked,          \* vendor devices whose wrapper could not be built
          caps,            \* the vendor's capabilities
          asked            \* what the framework set last, with success

camvars == <<gVendorModule, wrapper, vendor, leaked, caps, asked>>

\* atoi(name); an id equal to the number of cameras passes the check.
Ids == 0..(NumCameras + 1)
Absent == -1
Auto == 0
Framework == [iso : IsoValues \cup {Auto}, shutter : ShutterSpeeds \cup {Auto},
              scene : {"auto", "hdr"}, videoHdr : {"on", "off"}, hint : BOOLEAN]
NothingAsked == [iso |-> Absent]

InitialParams == [sonyIso |-> CHOOSE i \in IsoValues : TRUE, ae |-> "auto",
                  sonyShutter |-> Absent, is |-> "on", vs |-> "off", videoHdr |-> "off",
                  scene |-> "auto", hint |-> FALSE]
Closed == [open |-> FALSE, preview |-> FALSE, recording |-> FALSE, params |-> InitialParams]

CamInit == /\ gVendorModule = FALSE
           /\ wrapper = [i \in Ids |-> "closed"] /\ vendor = [i \in Ids |-> Closed]
           /\ leaked = {} /\ caps \in CapabilitySets
           /\ asked = [i \in Ids |-> NothingAsked]

---------------------------------------------------------------------------
\* camera_fixup_getparams: the framework's view of the vendor's parameters.
GetIso(p) == IF caps.ae = {} THEN Absent
             ELSE IF p.ae \in {"iso-prio", "manual"} THEN p.sonyIso ELSE Auto
GetShutter(p) == IF caps.ae = {} THEN Absent
                 ELSE IF p.ae \in {"shutter-prio", "manual"} THEN p.sonyShutter ELSE Auto
camera_fixup_getparams(p) ==
    [iso |-> GetIso(p), shutter |-> GetShutter(p),
     scene |-> IF p.is = "on-still-hdr" THEN "hdr" ELSE p.scene,
     scenes |-> IF caps.stillHdr THEN {"auto", "hdr"} ELSE {"auto"},
     videoHdr |-> IF caps.videoHdr THEN p.videoHdr ELSE "absent",
     hint |-> p.hint]

\* camera_fixup_setparams, in its order: shutter speed, iso, scene mode, video
\* HDR, recording hint.  Each looks at what the one before it has set.
FixShutter(p, f) ==
    CASE f.shutter = Absent -> p
      [] f.shutter > 0 -> [p EXCEPT !.sonyShutter = f.shutter, !.ae = "shutter-prio"]
      [] OTHER -> IF "auto" \in caps.ae THEN [p EXCEPT !.ae = "auto"] ELSE p

\* Variant: an iso value does not look for a shutter speed.
fixIsoAlone(p, f) ==
    CASE f.iso = Absent -> p
      [] f.iso = Auto -> p
      [] OTHER -> [p EXCEPT !.sonyIso = f.iso, !.ae = "iso-prio"]

FixIso(p, f) ==
    CASE f.iso = Absent -> p
      [] f.iso = Auto -> IF "auto" \in caps.ae /\ p.ae # "shutter-prio"
                         THEN [p EXCEPT !.ae = "auto"] ELSE p
      [] OTHER -> [p EXCEPT !.sonyIso = f.iso,
                            !.ae = IF "iso-prio" \notin caps.ae THEN @
                                   ELSE IF @ = "shutter-prio" THEN "manual" ELSE "iso-prio"]

FixScene(p, f) == [p EXCEPT !.scene = "auto",
                            !.is = IF f.scene = "hdr" THEN "on-still-hdr" ELSE "on"]

FixVideo(p, f) ==
    LET q == IF caps.videoHdr THEN [p EXCEPT !.videoHdr = f.videoHdr] ELSE p
    IN IF f.hint
       THEN [q EXCEPT !.hint = TRUE, !.is = "off",
                      !.vs = IF caps.active THEN "on-intelligent-active" ELSE "on"]
       ELSE [q EXCEPT !.hint = FALSE]

camera_fixup_setparams(p, f) == FixVideo(FixScene(FixIso(FixShutter(p, f), f), f), f)

---------------------------------------------------------------------------
\* camera_device_open.  It fails without the vendor module, without the sensor
\* service, beyond the number of cameras, when the vendor refuses (as it does
\* for a camera it does not have or has open) and when memory runs out; after
\* the vendor has opened, the last of these loses the vendor device.
camera_device_open(id, outcome) ==
    /\ wrapper[id] = "closed"
    /\ LET opens == outcome \in {"no memory", "ok"} /\ id < NumCameras /\ ~vendor[id].open
       IN \/ /\ outcome = "no module" /\ ~gVendorModule
             /\ UNCHANGED <<gVendorModule, wrapper, vendor, leaked>>
          \/ /\ outcome # "no module" /\ ~opens
             /\ gVendorModule' = TRUE /\ UNCHANGED <<wrapper, vendor, leaked>>
          \/ /\ opens
             /\ gVendorModule' = TRUE
             /\ vendor' = [vendor EXCEPT ![id].open = TRUE]
             /\ IF outcome = "ok"
                THEN wrapper' = [wrapper EXCEPT ![id] = "open"] /\ UNCHANGED leaked
                ELSE leaked' = leaked \cup {id} /\ UNCHANGED wrapper
    /\ UNCHANGED <<caps, asked>>

camera_device_close(id) ==
    /\ wrapper[id] = "open"
    /\ wrapper' = [wrapper EXCEPT ![id] = "closed"]
    /\ vendor' = [vendor EXCEPT ![id] = Closed]
    /\ asked' = [asked EXCEPT ![id] = NothingAsked]
    /\ UNCHANGED <<gVendorModule, leaked, caps>>

\* The vendor keeps its own keys and forgets the framework's, or refuses, which
\* is returned.  Without AE modes there is no shutter speed to set.
camera_set_parameters(id, f) ==
    /\ wrapper[id] = "open"
    /\ LET given == IF caps.ae = {} THEN [f EXCEPT !.shutter = Absent] ELSE f
       IN \/ /\ vendor' = [vendor EXCEPT ![id].params = camera_fixup_setparams(@, given)]
             /\ asked' = [asked EXCEPT ![id] = f]
          \/ UNCHANGED <<vendor, asked>>
    /\ UNCHANGED <<gVendorModule, wrapper, leaked, caps>>

\* The calls that are passed on as they are: preview and recording.
VendorPreview(id, on) ==
    /\ wrapper[id] = "open"
    /\ vendor' = [vendor EXCEPT ![id].preview = on]
    /\ UNCHANGED <<gVendorModule, wrapper, leaked, caps, asked>>

VendorRecording(id, on) ==
    /\ wrapper[id] = "open"
    /\ vendor' = [vendor EXCEPT ![id].recording = on]
    /\ UNCHANGED <<gVendorModule, wrapper, leaked, caps, asked>>

\* release stops both; the device stays open.
camera_release(id) ==
    /\ wrapper[id] = "open"
    /\ vendor' = [vendor EXCEPT ![id].preview = FALSE, ![id].recording = FALSE]
    /\ UNCHANGED <<gVendorModule, wrapper, leaked, caps, asked>>

CamNext ==
    \E id \in Ids :
        \/ \E o \in {"no module", "no sensors", "vendor fails", "no memory", "ok"} :
              camera_device_open(id, o)
        \/ camera_device_close(id) \/ camera_release(id)
        \/ \E f \in Framework : camera_set_parameters(id, f)
        \/ \E on \in BOOLEAN : VendorPreview(id, on) \/ VendorRecording(id, on)

CamSpec == CamInit /\ [][CamNext]_camvars

---------------------------------------------------------------------------
\* What the framework set is what it reads back through the vendor's keys: iso
\* and shutter speed in every combination and order, if the vendor has the
\* automatic mode and iso priority that they are set with; the video HDR; and the
\* HDR scene except while recording switches the image stabiliser off.
ReadsBack(f, p) ==
    LET g == camera_fixup_getparams(p)
    IN /\ {"auto", "iso-prio"} \subseteq caps.ae => g.iso = f.iso /\ g.shutter = f.shutter
       /\ ~f.hint => g.scene = f.scene
       /\ caps.videoHdr => g.videoHdr = f.videoHdr
ParametersReadBack ==
    \A id \in Ids : asked[id] # NothingAsked => ReadsBack(asked[id], vendor[id].params)

\* A vendor device is open exactly when its wrapper is, apart from the one a
\* failed open has lost; and no other id ever gets one.
VendorBalanced ==
    \A id \in Ids : /\ vendor[id].open <=> wrapper[id] = "open" \/ id \in leaked
                    /\ vendor[id].open => id < NumCameras

---------------------------------------------------------------------------
\* The inductive invariants behind these two.  Camera ids beyond the vendor's
\* stay closed, and a device that was lost can never be opened again.
Params == [sonyIso : IsoValues \cup {Absent}, ae : {"auto", "iso-prio", "shutter-prio", "manual"},
           sonyShutter : ShutterSpeeds \cup {Absent},
           is : {"on", "off", "on-still-hdr"}, vs : {"off", "on", "on-intelligent-active"},
           videoHdr : {"on", "off"}, scene : {"auto"}, hint : BOOLEAN]
CamTypeOK == /\ wrapper \in [Ids -> {"closed", "open"}]
             /\ vendor \in [Ids -> [open : BOOLEAN, preview : BOOLEAN, recording : BOOLEAN,
                                    params : Params]]
             /\ leaked \subseteq Ids
             /\ caps \in CapabilitySets
             /\ asked \in [Ids -> Framework \cup {NothingAsked}]
LostStaysClosed == \A id \in leaked : wrapper[id] = "closed"
CamInv == CamTypeOK /\ VendorBalanced /\ LostStaysClosed /\ ParametersReadBack
=============================================================================
