--------------------------- MODULE PlatformProofs ---------------------------
(***************************************************************************)
(* Proofs about the platform parts: the client of the sensor service       *)
(* (SensorManager), the camera wrapper (CameraWrapper), the graphic        *)
(* buffers (GraphicBuffer), the lights (Lights) and the message loop       *)
(* (Looper), for every value of their constants.  A step of one part       *)
(* leaves the variables of the others alone, so each part's inductive      *)
(* invariant is one of the whole.                                          *)
(***************************************************************************)
EXTENDS MCPlatform, SequenceTheorems, FiniteSetTheorems, WellFoundedInduction, TLAPS

allvars == <<part, vecs, loop, graphic, sensor, camera, lights>>

(***************************************************************************)
(* SensorManager                                                           *)
(***************************************************************************)

LEMMA SmInitInv == S!SmInit => S!SmInv
BY DEF S!SmInit, S!SmInv, S!SmTypeOK, S!Alive, S!Types

LEMMA SmEnd ==
  ASSUME S!SmInv, NEW a, S!End(a),
         UNCHANGED <<service, mSensorServer, mSensors, notices, missed>>,
         smcall.at = "ready" \/ mSensorServer = 0
  PROVE  S!SmInv'
BY DEF S!SmInv, S!SmTypeOK, S!Alive, S!End

LEMMA SmBegin ==
  ASSUME S!SmInv, NEW op \in {"list", "queue", "default"}, NEW type \in S!Types \cup {0},
         S!Begin(op, type)
  PROVE  S!SmInv'
BY DEF S!SmInv, S!SmTypeOK, S!Alive, S!Begin

(* The service that has been found is up, and the link is still to be made. *)
LEMMA SmGetService ==
  ASSUME S!SmInv, S!getService
  PROVE  S!SmInv'
<1>1. CASE service.up
  BY <1>1 DEF S!SmInv, S!SmTypeOK, S!Alive, S!getService
<1>2. CASE ~service.up /\ tries + 1 < S!MaxTries
  BY <1>2 DEF S!SmInv, S!SmTypeOK, S!Alive, S!getService
<1>3. CASE ~service.up /\ ~(tries + 1 < S!MaxTries)
  <2>1. /\ S!End(S!NoAnswer) /\ mSensorServer = 0
        /\ UNCHANGED <<service, mSensorServer, mSensors, notices, missed>>
    BY <1>3 DEF S!SmInv, S!getService
  <2> QED BY <2>1, SmEnd
<1> QED BY <1>1, <1>2, <1>3

(* A service dies: an incarnation that is linked leaves its notice.         *)
LEMMA SmServiceDies ==
  ASSUME S!SmInv, S!ServiceDies
  PROVE  S!SmInv'
<1>1. CASE S!Alive /\ smcall.at # "link"
  BY <1>1 DEF S!SmInv, S!SmTypeOK, S!Alive, S!ServiceDies
<1>2. CASE ~(S!Alive /\ smcall.at # "link")
  <2>1. /\ service.up /\ service' = [up |-> FALSE, life |-> service.life + 1]
        /\ notices' = notices /\ mSensorServer' = mSensorServer /\ mSensors' = mSensors
        /\ smcall' = smcall /\ missed' = missed
    BY <1>2 DEF S!ServiceDies
  <2>2. /\ service \in [up : BOOLEAN, life : Nat \ {0}]
        /\ mSensorServer \in Nat /\ mSensorServer <= service.life
    BY DEF S!SmInv, S!SmTypeOK
  <2>3. /\ service' \in [up : BOOLEAN, life : Nat \ {0}]
        /\ service'.up = FALSE /\ mSensorServer < service'.life
    BY <2>1, <2>2
  <2>4. S!SmTypeOK'
    BY <2>1, <2>2, <2>3 DEF S!SmInv, S!SmTypeOK
  <2>5. ~S!Alive'
    BY <2>3 DEF S!Alive
  <2>6. /\ ~S!Alive \/ smcall.at = "link"
        /\ mSensorServer # 0 /\ ~S!Alive /\ ~missed /\ smcall.at # "link"
               => mSensorServer \in notices
        /\ smcall.op = "none" <=> smcall.at = "free"
        /\ smcall.at = "find" => mSensorServer = 0
        /\ smcall.at = "link" => mSensorServer # 0 /\ notices = {}
    BY <1>2 DEF S!SmInv
  <2> QED BY <2>1, <2>3, <2>4, <2>5, <2>6 DEF S!SmInv
<1> QED BY <1>1, <1>2

LEMMA SmStep ==
  ASSUME S!SmInv, S!SmNext
  PROVE  S!SmInv'
<1>1. CASE S!Begin("list", 0) \/ S!Begin("queue", 0)
  BY <1>1, SmBegin
<1>2. CASE \E t \in S!Types : S!Begin("default", t)
  BY <1>2, SmBegin
<1>3. CASE S!getService
  BY <1>3, SmGetService
<1>4. CASE S!linkToDeath
  BY <1>4 DEF S!SmInv, S!SmTypeOK, S!Alive, S!linkToDeath
<1>5. CASE S!readSensors
  BY <1>5 DEF S!SmInv, S!SmTypeOK, S!Alive, S!readSensors
<1>12. CASE S!storeSensors
  BY <1>12 DEF S!SmInv, S!SmTypeOK, S!Alive, S!storeSensors
<1>13. CASE S!fillList
  BY <1>13 DEF S!SmInv, S!SmTypeOK, S!Alive, S!fillList
<1>14. CASE S!constructed
  BY <1>14, SmEnd DEF S!constructed
<1>6. CASE S!getSensorList
  BY <1>6, SmEnd DEF S!getSensorList
<1>7. CASE S!getDefaultSensor
  BY <1>7, SmEnd DEF S!getDefaultSensor
<1>8. CASE S!createEventQueue
  BY <1>8, SmEnd DEF S!createEventQueue
<1>9. CASE S!sensorManagerDied
  <2>1. PICK n \in notices : notices' = notices \ {n}
    BY <1>9 DEF S!sensorManagerDied
  <2>2. /\ mSensorServer' = 0 /\ mSensors' = {} /\ service' = service
        /\ smcall' = smcall /\ missed' = missed
    BY <1>9 DEF S!sensorManagerDied
  <2>3. /\ notices \subseteq {mSensorServer} \ {0}
        /\ service \in [up : BOOLEAN, life : Nat \ {0}]
    BY DEF S!SmInv, S!SmTypeOK
  <2>4. notices' = {} /\ n = mSensorServer /\ smcall.at # "link"
    BY <2>1, <2>3 DEF S!SmInv
  <2>5. S!SmTypeOK'
    BY <2>2, <2>3, <2>4 DEF S!SmInv, S!SmTypeOK
  <2>6. ~S!Alive'
    BY <2>2, <2>3 DEF S!Alive
  <2>7. smcall.op = "none" <=> smcall.at = "free"
    BY DEF S!SmInv
  <2>8. ~service.up => 0 < service.life
    BY <2>3
  <2> QED BY <2>2, <2>4, <2>5, <2>6, <2>7, <2>8 DEF S!SmInv
<1>10. CASE S!ServiceDies
  BY <1>10, SmServiceDies
<1>11. CASE S!ServiceStarts
  <2>1. /\ ~service.up /\ service' = [service EXCEPT !.up = TRUE]
        /\ notices' = notices /\ mSensorServer' = mSensorServer /\ mSensors' = mSensors
        /\ smcall' = smcall /\ missed' = missed
    BY <1>11 DEF S!ServiceStarts
  <2>2. /\ service \in [up : BOOLEAN, life : Nat \ {0}]
        /\ mSensorServer \in Nat /\ mSensorServer < service.life
    BY <2>1 DEF S!SmInv, S!SmTypeOK
  <2>3. /\ service' \in [up : BOOLEAN, life : Nat \ {0}]
        /\ service'.up = TRUE /\ service'.life = service.life
    BY <2>1, <2>2
  <2>4. S!SmTypeOK'
    BY <2>1, <2>2, <2>3 DEF S!SmInv, S!SmTypeOK
  <2>5. ~S!Alive /\ ~S!Alive'
    BY <2>1, <2>2, <2>3 DEF S!Alive
  <2> QED BY <2>1, <2>3, <2>4, <2>5 DEF S!SmInv
<1> QED BY <1>1, <1>2, <1>3, <1>4, <1>5, <1>6, <1>7, <1>8, <1>9, <1>10, <1>11, <1>12, <1>13,
           <1>14 DEF S!SmNext

(* While a manager talks to a dead sensor service a notice is on its way    *)
(* (nothing is said of its arrival, which createEventQueue can prevent),    *)
(* unless the service died before linkToDeath, whose failure                *)
(* assertStateLocked does not look at; and while that service lives, calls  *)
(* look up its sensors, although the notice of an earlier death may come in *)
(* the midst of the constructor, which does not hold mLock.                 *)
THEOREM DeathsAreNoticed == Spec => []DeathIsNoticed
<1>1. Init => S!SmInv
  BY SmInitInv DEF Init
<1>2. S!SmInv /\ [Next]_allvars => S!SmInv'
  <2> SUFFICES ASSUME S!SmInv, [Next]_allvars PROVE S!SmInv'
    OBVIOUS
  <2>1. CASE S!SmNext
    BY <2>1, SmStep
  <2>2. CASE UNCHANGED sensor
    BY <2>2 DEF sensor, S!SmInv, S!SmTypeOK, S!Alive
  <2> QED BY <2>1, <2>2 DEF Next, allvars
<1>3. S!SmInv => DeathIsNoticed
  BY DEF S!SmInv, DeathIsNoticed, S!DeathIsNoticed
<1> QED BY <1>1, <1>2, <1>3, PTL DEF Spec, allvars

(***************************************************************************)
(* CameraWrapper                                                           *)
(***************************************************************************)

Modes == {"auto", "iso-prio", "shutter-prio", "manual"}

(* The translation keeps the shape of the vendor's parameters, step by      *)
(* step.                                                                    *)
LEMMA FixShutterEffect ==
  ASSUME caps \in CapabilitySets, NEW p \in C!Params, NEW f,
         f.shutter \in ShutterSpeeds \cup {C!Auto, C!Absent}
  PROVE  /\ C!FixShutter(p, f) \in C!Params
         /\ f.shutter \in ShutterSpeeds =>
               /\ C!FixShutter(p, f).ae = "shutter-prio"
               /\ C!FixShutter(p, f).sonyShutter = f.shutter
         /\ f.shutter = C!Auto /\ "auto" \in caps.ae => C!FixShutter(p, f).ae = "auto"
<1>1. CASE f.shutter = C!Absent
  BY <1>1, CameraAssumption DEF C!FixShutter, C!Absent, C!Auto
<1>2. CASE f.shutter \in ShutterSpeeds
  <2>1. f.shutter # C!Absent /\ f.shutter > 0 /\ f.shutter # C!Auto
    <3>1. PICK n : n = f.shutter
      OBVIOUS
    <3>2. n \in Nat /\ n # 0
      BY <1>2, <3>1, CameraAssumption
    <3>3. n # -1 /\ n > 0
      BY <3>2
    <3> QED BY <3>1, <3>2, <3>3 DEF C!Absent, C!Auto
  <2> QED BY <1>2, <2>1 DEF C!FixShutter, C!Params
<1>3. CASE f.shutter = C!Auto
  BY <1>3, CameraAssumption DEF C!FixShutter, C!Absent, C!Auto, C!Params
<1> QED BY <1>1, <1>2, <1>3

LEMMA FixIsoEffect ==
  ASSUME caps \in CapabilitySets, NEW p \in C!Params, NEW f,
         f.iso \in IsoValues \cup {C!Auto}
  PROVE  /\ C!FixIso(p, f) \in C!Params
         /\ C!FixIso(p, f).sonyShutter = p.sonyShutter
         /\ f.iso \in IsoValues /\ "iso-prio" \in caps.ae =>
               /\ C!FixIso(p, f).sonyIso = f.iso
               /\ C!FixIso(p, f).ae = IF p.ae = "shutter-prio" THEN "manual" ELSE "iso-prio"
         /\ f.iso = C!Auto /\ "auto" \in caps.ae =>
               C!FixIso(p, f).ae = IF p.ae = "shutter-prio" THEN "shutter-prio" ELSE "auto"
<1>1. CASE f.iso \in IsoValues
  <2>1. f.iso # C!Absent /\ f.iso # C!Auto
    BY <1>1, CameraAssumption DEF C!Absent, C!Auto
  <2> QED BY <1>1, <2>1, CameraAssumption DEF C!FixIso, C!Params
<1>2. CASE f.iso = C!Auto
  <2>1. f.iso # C!Absent
    BY <1>2 DEF C!Absent, C!Auto
  <2>2. C!Auto \notin IsoValues
    BY CameraAssumption DEF C!Auto
  <2> QED BY <1>2, <2>1, <2>2, CameraAssumption DEF C!FixIso, C!Params
<1> QED BY <1>1, <1>2

LEMMA FixSceneEffect ==
  ASSUME NEW p \in C!Params, NEW f
  PROVE  /\ C!FixScene(p, f) \in C!Params
         /\ C!FixScene(p, f).sonyShutter = p.sonyShutter
         /\ C!FixScene(p, f).sonyIso = p.sonyIso
         /\ C!FixScene(p, f).ae = p.ae
         /\ C!FixScene(p, f).scene = "auto"
         /\ C!FixScene(p, f).is = IF f.scene = "hdr" THEN "on-still-hdr" ELSE "on"
BY DEF C!FixScene, C!Params

LEMMA FixVideoEffect ==
  ASSUME caps \in CapabilitySets, NEW p \in C!Params, NEW f,
         f.videoHdr \in {"on", "off"}, f.hint \in BOOLEAN
  PROVE  /\ C!FixVideo(p, f) \in C!Params
         /\ C!FixVideo(p, f).sonyShutter = p.sonyShutter
         /\ C!FixVideo(p, f).sonyIso = p.sonyIso
         /\ C!FixVideo(p, f).ae = p.ae
         /\ C!FixVideo(p, f).scene = p.scene
         /\ ~f.hint => C!FixVideo(p, f).is = p.is
         /\ caps.videoHdr => C!FixVideo(p, f).videoHdr = f.videoHdr
<1> DEFINE q == IF caps.videoHdr THEN [p EXCEPT !.videoHdr = f.videoHdr] ELSE p
<1>1. /\ q \in C!Params /\ q.sonyShutter = p.sonyShutter /\ q.sonyIso = p.sonyIso
      /\ q.ae = p.ae /\ q.scene = p.scene /\ q.is = p.is
      /\ caps.videoHdr => q.videoHdr = f.videoHdr
  BY CameraAssumption DEF C!Params
<1>2. C!FixVideo(p, f) =
        IF f.hint
        THEN [q EXCEPT !.hint = TRUE, !.is = "off",
                       !.vs = IF caps.active THEN "on-intelligent-active" ELSE "on"]
        ELSE [q EXCEPT !.hint = FALSE]
  BY DEF C!FixVideo
<1> HIDE DEF q
<1>3. CASE f.hint
  <2>1. C!FixVideo(p, f) =
          [q EXCEPT !.hint = TRUE, !.is = "off",
                    !.vs = IF caps.active THEN "on-intelligent-active" ELSE "on"]
    BY <1>2, <1>3
  <2>2. PICK v : v = IF caps.active THEN "on-intelligent-active" ELSE "on"
    OBVIOUS
  <2>3. v \in {"off", "on", "on-intelligent-active"}
    BY <2>2
  <2>4. C!FixVideo(p, f) = [q EXCEPT !.hint = TRUE, !.is = "off", !.vs = v]
    BY <2>1, <2>2
  <2>5. PICK r : r = [q EXCEPT !.hint = TRUE, !.is = "off"]
    OBVIOUS
  <2>6. /\ r \in C!Params /\ r.sonyShutter = q.sonyShutter /\ r.sonyIso = q.sonyIso
        /\ r.ae = q.ae /\ r.scene = q.scene /\ r.videoHdr = q.videoHdr
    BY <1>1, <2>5 DEF C!Params
  <2>7. C!FixVideo(p, f) = [r EXCEPT !.vs = v]
    BY <2>4, <2>5
  <2> QED BY <1>1, <1>3, <2>3, <2>6, <2>7 DEF C!Params
<1>4. CASE ~f.hint
  <2>1. C!FixVideo(p, f) = [q EXCEPT !.hint = FALSE]
    BY <1>2, <1>4
  <2>2. C!FixVideo(p, f) \in C!Params
    BY <1>1, <2>1 DEF C!Params
  <2>3. /\ C!FixVideo(p, f).sonyShutter = q.sonyShutter /\ C!FixVideo(p, f).sonyIso = q.sonyIso
        /\ C!FixVideo(p, f).ae = q.ae /\ C!FixVideo(p, f).scene = q.scene
        /\ C!FixVideo(p, f).is = q.is /\ C!FixVideo(p, f).videoHdr = q.videoHdr
    BY <1>1, <2>1 DEF C!Params
  <2> QED BY <1>1, <1>4, <2>2, <2>3
<1> QED BY <1>3, <1>4

(* What is set is read back, whatever the vendor's keys held before.        *)
LEMMA SetReadsBack ==
  ASSUME caps \in CapabilitySets, NEW p \in C!Params, NEW f \in C!Framework
  PROVE  LET given == IF caps.ae = {} THEN [f EXCEPT !.shutter = C!Absent] ELSE f
         IN /\ C!camera_fixup_setparams(p, given) \in C!Params
            /\ C!ReadsBack(f, C!camera_fixup_setparams(p, given))
<1> DEFINE g == IF caps.ae = {} THEN [f EXCEPT !.shutter = C!Absent] ELSE f
           a == C!FixShutter(p, g)
           b == C!FixIso(a, g)
           c == C!FixScene(b, g)
           d == C!FixVideo(c, g)
<1>1. /\ f.iso \in IsoValues \cup {C!Auto} /\ f.shutter \in ShutterSpeeds \cup {C!Auto}
      /\ f.videoHdr \in {"on", "off"} /\ f.hint \in BOOLEAN /\ f.scene \in {"auto", "hdr"}
  BY DEF C!Framework
<1>2. /\ g.iso = f.iso /\ g.videoHdr = f.videoHdr /\ g.hint = f.hint /\ g.scene = f.scene
      /\ g.shutter = IF caps.ae = {} THEN C!Absent ELSE f.shutter
  BY DEF C!Framework
<1> HIDE DEF g
<1>3. /\ a \in C!Params
      /\ g.shutter \in ShutterSpeeds => a.ae = "shutter-prio" /\ a.sonyShutter = g.shutter
      /\ g.shutter = C!Auto /\ "auto" \in caps.ae => a.ae = "auto"
  BY <1>1, <1>2, FixShutterEffect
<1> HIDE DEF a
<1>4. /\ b \in C!Params /\ b.sonyShutter = a.sonyShutter
      /\ g.iso \in IsoValues /\ "iso-prio" \in caps.ae =>
            /\ b.sonyIso = g.iso
            /\ b.ae = IF a.ae = "shutter-prio" THEN "manual" ELSE "iso-prio"
      /\ g.iso = C!Auto /\ "auto" \in caps.ae =>
            b.ae = IF a.ae = "shutter-prio" THEN "shutter-prio" ELSE "auto"
  BY <1>1, <1>2, <1>3, FixIsoEffect
<1> HIDE DEF b
<1>5. /\ c \in C!Params /\ c.sonyShutter = b.sonyShutter /\ c.sonyIso = b.sonyIso
      /\ c.ae = b.ae /\ c.scene = "auto"
      /\ c.is = IF g.scene = "hdr" THEN "on-still-hdr" ELSE "on"
  BY <1>4, FixSceneEffect
<1> HIDE DEF c
<1>6. /\ d \in C!Params /\ d.sonyShutter = c.sonyShutter /\ d.sonyIso = c.sonyIso
      /\ d.ae = c.ae /\ d.scene = c.scene
      /\ ~g.hint => d.is = c.is
      /\ caps.videoHdr => d.videoHdr = g.videoHdr
  <2>1. g.videoHdr \in {"on", "off"} /\ g.hint \in BOOLEAN
    BY <1>1, <1>2
  <2> HIDE DEF d
  <2>2. d = C!FixVideo(c, g)
    BY DEF d
  <2> QED BY <1>5, <2>1, <2>2, FixVideoEffect
<1>7. d = C!camera_fixup_setparams(p, g)
  BY DEF C!camera_fixup_setparams, a, b, c
<1> HIDE DEF d
<1>8. ASSUME {"auto", "iso-prio"} \subseteq caps.ae
      PROVE  C!GetIso(d) = f.iso /\ C!GetShutter(d) = f.shutter
  <2>1. "auto" \in caps.ae /\ "iso-prio" \in caps.ae /\ g.shutter = f.shutter
    BY <1>8, <1>2
  <2>2. CASE f.iso \in IsoValues /\ f.shutter \in ShutterSpeeds
    BY <2>1, <2>2, <1>8, <1>2, <1>3, <1>4, <1>5, <1>6 DEF C!GetIso, C!GetShutter
  <2>3. CASE f.iso \in IsoValues /\ f.shutter = C!Auto
    BY <2>1, <2>3, <1>8, <1>2, <1>3, <1>4, <1>5, <1>6 DEF C!GetIso, C!GetShutter
  <2>4. CASE f.iso = C!Auto /\ f.shutter \in ShutterSpeeds
    BY <2>1, <2>4, <1>8, <1>2, <1>3, <1>4, <1>5, <1>6 DEF C!GetIso, C!GetShutter
  <2>5. CASE f.iso = C!Auto /\ f.shutter = C!Auto
    BY <2>1, <2>5, <1>8, <1>2, <1>3, <1>4, <1>5, <1>6 DEF C!GetIso, C!GetShutter
  <2> QED BY <1>1, <2>2, <2>3, <2>4, <2>5
<1>9. C!ReadsBack(f, d)
  <2>1. ~f.hint => (IF d.is = "on-still-hdr" THEN "hdr" ELSE d.scene) = f.scene
    BY <1>1, <1>2, <1>5, <1>6
  <2>2. caps.videoHdr => (IF caps.videoHdr THEN d.videoHdr ELSE "absent") = f.videoHdr
    BY <1>2, <1>6
  <2> QED BY <1>8, <2>1, <2>2 DEF C!ReadsBack, C!camera_fixup_getparams
<1> QED BY <1>6, <1>7, <1>9 DEF g

Devices == [open : BOOLEAN, preview : BOOLEAN, recording : BOOLEAN, params : C!Params]

LEMMA CamInitInv == C!CamInit => C!CamInv
<1> SUFFICES ASSUME C!CamInit PROVE C!CamInv
  OBVIOUS
<1>1. C!InitialParams \in C!Params
  <2>1. (CHOOSE i \in IsoValues : TRUE) \in IsoValues
    BY CameraAssumption
  <2> QED BY <2>1 DEF C!InitialParams, C!Params
<1>2. C!Closed \in Devices /\ ~C!Closed.open
  BY <1>1 DEF C!Closed, Devices
<1>3. C!CamTypeOK
  BY <1>2 DEF C!CamInit, C!CamTypeOK, Devices
<1>4. C!VendorBalanced /\ C!LostStaysClosed /\ C!ParametersReadBack
  BY <1>2 DEF C!CamInit, C!VendorBalanced, C!LostStaysClosed, C!ParametersReadBack
<1> QED BY <1>3, <1>4 DEF C!CamInv

(* A step that changes neither the parameters nor what was asked for keeps  *)
(* what is read back.                                                       *)
LEMMA ReadBackKept ==
  ASSUME C!CamInv, caps' = caps, asked' = asked,
         \A id \in C!Ids : vendor'[id].params = vendor[id].params
  PROVE  C!ParametersReadBack'
<1> SUFFICES ASSUME NEW id \in C!Ids, asked[id] # C!NothingAsked
             PROVE  C!ReadsBack(asked[id], vendor[id].params)'
  BY DEF C!ParametersReadBack
<1>1. C!ReadsBack(asked[id], vendor[id].params)
  BY DEF C!CamInv, C!ParametersReadBack
<1> QED BY <1>1 DEF C!ReadsBack, C!camera_fixup_getparams, C!GetIso, C!GetShutter

(* One vendor device changes, its parameters do not.                        *)
LEMMA VendorStep ==
  ASSUME C!CamInv, NEW id \in C!Ids, NEW d \in Devices,
         d.params = vendor[id].params, vendor' = [vendor EXCEPT ![id] = d],
         wrapper' \in [C!Ids -> {"closed", "open"}], leaked' \subseteq C!Ids,
         UNCHANGED <<caps, asked>>
  PROVE  /\ C!CamTypeOK' /\ C!ParametersReadBack'
         /\ \A i \in C!Ids : vendor'[i] = IF i = id THEN d ELSE vendor[i]
<1>1. vendor \in [C!Ids -> Devices]
  BY DEF C!CamInv, C!CamTypeOK, Devices
<1>2. vendor' \in [C!Ids -> Devices] /\ \A i \in C!Ids : vendor'[i] = IF i = id THEN d ELSE vendor[i]
  BY <1>1
<1>3. C!CamTypeOK'
  BY <1>2 DEF C!CamInv, C!CamTypeOK, Devices
<1>4. C!ParametersReadBack'
  BY <1>2, ReadBackKept
<1> QED BY <1>2, <1>3, <1>4

LEMMA CamOpen ==
  ASSUME C!CamInv, NEW id \in C!Ids,
         NEW o \in {"no module", "no sensors", "vendor fails", "no memory", "ok"},
         C!camera_device_open(id, o)
  PROVE  C!CamInv'
<1> DEFINE Opened == /\ id < NumCameras /\ ~vendor[id].open
                     /\ vendor' = [vendor EXCEPT ![id].open = TRUE]
<1>0. wrapper[id] = "closed" /\ UNCHANGED <<caps, asked>>
  BY DEF C!camera_device_open
<1>1. \/ UNCHANGED <<wrapper, vendor, leaked>>
      \/ Opened /\ leaked' = leaked \cup {id} /\ UNCHANGED wrapper
      \/ Opened /\ wrapper' = [wrapper EXCEPT ![id] = "open"] /\ UNCHANGED leaked
  BY <1>0 DEF C!camera_device_open
<1>2. CASE UNCHANGED <<wrapper, vendor, leaked>>
  <2>1. C!ParametersReadBack'
    BY <1>0, <1>2, ReadBackKept
  <2> QED BY <1>0, <1>2, <2>1 DEF C!CamInv, C!CamTypeOK, C!VendorBalanced, C!LostStaysClosed
<1>3. ASSUME Opened
      PROVE  \E d \in Devices : /\ d.params = vendor[id].params /\ d.open
                                /\ vendor' = [vendor EXCEPT ![id] = d]
  <2>1. vendor[id] \in Devices /\ vendor \in [C!Ids -> Devices]
    BY DEF C!CamInv, C!CamTypeOK, Devices
  <2>2. PICK d : d = [vendor[id] EXCEPT !.open = TRUE]
    OBVIOUS
  <2>3. d \in Devices /\ d.params = vendor[id].params /\ d.open
    BY <2>1, <2>2 DEF Devices
  <2>4. vendor' = [vendor EXCEPT ![id] = d]
    BY <1>3, <2>1, <2>2
  <2> QED BY <2>3, <2>4
<1>4. CASE Opened /\ leaked' = leaked \cup {id} /\ UNCHANGED wrapper
  <2>1. PICK d \in Devices : /\ d.params = vendor[id].params /\ d.open
                             /\ vendor' = [vendor EXCEPT ![id] = d]
    BY <1>3, <1>4
  <2>2. wrapper' \in [C!Ids -> {"closed", "open"}] /\ leaked' \subseteq C!Ids
    BY <1>4 DEF C!CamInv, C!CamTypeOK
  <2>3. /\ C!CamTypeOK' /\ C!ParametersReadBack'
        /\ \A i \in C!Ids : vendor'[i] = IF i = id THEN d ELSE vendor[i]
    BY <1>0, <2>1, <2>2, VendorStep
  <2>4. C!VendorBalanced'
    BY <1>4, <2>1, <2>3 DEF C!CamInv, C!VendorBalanced
  <2>5. C!LostStaysClosed'
    BY <1>0, <1>4 DEF C!CamInv, C!LostStaysClosed
  <2> QED BY <2>3, <2>4, <2>5 DEF C!CamInv
<1>5. CASE Opened /\ wrapper' = [wrapper EXCEPT ![id] = "open"] /\ UNCHANGED leaked
  <2>1. PICK d \in Devices : /\ d.params = vendor[id].params /\ d.open
                             /\ vendor' = [vendor EXCEPT ![id] = d]
    BY <1>3, <1>5
  <2>2. wrapper' \in [C!Ids -> {"closed", "open"}] /\ leaked' \subseteq C!Ids
    BY <1>5 DEF C!CamInv, C!CamTypeOK
  <2>3. /\ C!CamTypeOK' /\ C!ParametersReadBack'
        /\ \A i \in C!Ids : vendor'[i] = IF i = id THEN d ELSE vendor[i]
    BY <1>0, <2>1, <2>2, VendorStep
  <2>4. id \notin leaked /\ \A i \in C!Ids : wrapper'[i] = IF i = id THEN "open" ELSE wrapper[i]
    BY <1>5 DEF C!CamInv, C!CamTypeOK, C!VendorBalanced
  <2>5. C!VendorBalanced'
    BY <1>5, <2>1, <2>3, <2>4 DEF C!CamInv, C!VendorBalanced
  <2>6. C!LostStaysClosed'
    BY <1>5, <2>4 DEF C!CamInv, C!CamTypeOK, C!LostStaysClosed
  <2> QED BY <2>3, <2>5, <2>6 DEF C!CamInv
<1> QED BY <1>1, <1>2, <1>4, <1>5

LEMMA CamClose ==
  ASSUME C!CamInv, NEW id \in C!Ids, C!camera_device_close(id)
  PROVE  C!CamInv'
<1>1. C!InitialParams \in C!Params
  <2>1. (CHOOSE i \in IsoValues : TRUE) \in IsoValues
    BY CameraAssumption
  <2> QED BY <2>1 DEF C!InitialParams, C!Params
<1>2. C!Closed \in Devices /\ ~C!Closed.open
  BY <1>1 DEF C!Closed, Devices
<1>3. /\ vendor' \in [C!Ids -> Devices] /\ wrapper' \in [C!Ids -> {"closed", "open"}]
      /\ asked' \in [C!Ids -> C!Framework \cup {C!NothingAsked}]
      /\ \A i \in C!Ids : /\ vendor'[i] = IF i = id THEN C!Closed ELSE vendor[i]
                          /\ wrapper'[i] = IF i = id THEN "closed" ELSE wrapper[i]
                          /\ asked'[i] = IF i = id THEN C!NothingAsked ELSE asked[i]
  BY <1>2 DEF C!CamInv, C!CamTypeOK, C!camera_device_close, Devices
<1>4. caps' = caps /\ leaked' = leaked /\ id \notin leaked
  BY DEF C!CamInv, C!LostStaysClosed, C!camera_device_close
<1>5. C!CamTypeOK'
  BY <1>3, <1>4 DEF C!CamInv, C!CamTypeOK, Devices
<1>6. C!VendorBalanced' /\ C!LostStaysClosed'
  BY <1>2, <1>3, <1>4 DEF C!CamInv, C!CamTypeOK, C!VendorBalanced, C!LostStaysClosed
<1>7. C!ParametersReadBack'
  <2> SUFFICES ASSUME NEW i \in C!Ids, asked'[i] # C!NothingAsked
               PROVE  C!ReadsBack(asked[i], vendor[i].params)'
    BY DEF C!ParametersReadBack
  <2>1. asked'[i] = asked[i] /\ vendor'[i] = vendor[i]
    BY <1>3
  <2>2. C!ReadsBack(asked[i], vendor[i].params)
    BY <2>1 DEF C!CamInv, C!ParametersReadBack
  <2> QED BY <1>4, <2>1, <2>2 DEF C!ReadsBack, C!camera_fixup_getparams, C!GetIso, C!GetShutter
<1> QED BY <1>5, <1>6, <1>7 DEF C!CamInv

(* The calls that are passed on change one vendor device.                   *)
LEMMA CamPassedOn ==
  ASSUME C!CamInv, NEW id \in C!Ids, NEW d \in Devices,
         d.params = vendor[id].params, d.open = vendor[id].open,
         vendor' = [vendor EXCEPT ![id] = d],
         UNCHANGED <<gVendorModule, wrapper, leaked, caps, asked>>
  PROVE  C!CamInv'
<1>1. wrapper' \in [C!Ids -> {"closed", "open"}] /\ leaked' \subseteq C!Ids
  BY DEF C!CamInv, C!CamTypeOK
<1>2. /\ C!CamTypeOK' /\ C!ParametersReadBack'
      /\ \A i \in C!Ids : vendor'[i] = IF i = id THEN d ELSE vendor[i]
  BY <1>1, VendorStep
<1>3. C!VendorBalanced' /\ C!LostStaysClosed'
  BY <1>2 DEF C!CamInv, C!VendorBalanced, C!LostStaysClosed
<1> QED BY <1>2, <1>3 DEF C!CamInv

LEMMA CamPreview ==
  ASSUME C!CamInv, NEW id \in C!Ids, NEW on \in BOOLEAN, C!VendorPreview(id, on)
  PROVE  C!CamInv'
<1>1. vendor[id] \in Devices /\ vendor \in [C!Ids -> Devices]
  BY DEF C!CamInv, C!CamTypeOK, Devices
<1>2. PICK d : d = [vendor[id] EXCEPT !.preview = on]
  OBVIOUS
<1>3. d \in Devices /\ d.params = vendor[id].params /\ d.open = vendor[id].open
  BY <1>1, <1>2 DEF Devices
<1>4. vendor' = [vendor EXCEPT ![id] = d]
  BY <1>1, <1>2 DEF C!VendorPreview
<1> QED BY <1>3, <1>4, CamPassedOn DEF C!VendorPreview

LEMMA CamRecording ==
  ASSUME C!CamInv, NEW id \in C!Ids, NEW on \in BOOLEAN, C!VendorRecording(id, on)
  PROVE  C!CamInv'
<1>1. vendor[id] \in Devices /\ vendor \in [C!Ids -> Devices]
  BY DEF C!CamInv, C!CamTypeOK, Devices
<1>2. PICK d : d = [vendor[id] EXCEPT !.recording = on]
  OBVIOUS
<1>3. d \in Devices /\ d.params = vendor[id].params /\ d.open = vendor[id].open
  BY <1>1, <1>2 DEF Devices
<1>4. vendor' = [vendor EXCEPT ![id] = d]
  BY <1>1, <1>2 DEF C!VendorRecording
<1> QED BY <1>3, <1>4, CamPassedOn DEF C!VendorRecording

LEMMA CamRelease ==
  ASSUME C!CamInv, NEW id \in C!Ids, C!camera_release(id)
  PROVE  C!CamInv'
<1>1. vendor[id] \in Devices /\ vendor \in [C!Ids -> Devices]
  BY DEF C!CamInv, C!CamTypeOK, Devices
<1>2. PICK d : d = [vendor[id] EXCEPT !.preview = FALSE, !.recording = FALSE]
  OBVIOUS
<1>3. d \in Devices /\ d.params = vendor[id].params /\ d.open = vendor[id].open
  BY <1>1, <1>2 DEF Devices
<1>4. vendor' = [vendor EXCEPT ![id] = d]
  BY <1>1, <1>2 DEF C!camera_release
<1> QED BY <1>3, <1>4, CamPassedOn DEF C!camera_release

LEMMA CamSet ==
  ASSUME C!CamInv, NEW id \in C!Ids, NEW f \in C!Framework, C!camera_set_parameters(id, f)
  PROVE  C!CamInv'
<1> DEFINE given == IF caps.ae = {} THEN [f EXCEPT !.shutter = C!Absent] ELSE f
<1>1. /\ vendor[id] \in Devices /\ vendor \in [C!Ids -> Devices]
      /\ caps \in CapabilitySets /\ vendor[id].params \in C!Params
  BY DEF C!CamInv, C!CamTypeOK, Devices
<1>2. PICK q : q = C!camera_fixup_setparams(vendor[id].params, given)
  OBVIOUS
<1>3. q \in C!Params /\ C!ReadsBack(f, q)
  BY <1>1, <1>2, SetReadsBack
<1>4. PICK d : d = [vendor[id] EXCEPT !.params = q]
  OBVIOUS
<1>5. d \in Devices /\ d.params = q /\ d.open = vendor[id].open
  BY <1>1, <1>3, <1>4 DEF Devices
<1>12. CASE UNCHANGED <<vendor, asked>>
  <2>1. UNCHANGED <<wrapper, vendor, leaked, caps, asked>>
    BY <1>12 DEF C!camera_set_parameters
  <2>2. C!ParametersReadBack'
    BY <2>1, ReadBackKept
  <2> QED BY <2>1, <2>2 DEF C!CamInv, C!CamTypeOK, C!VendorBalanced, C!LostStaysClosed
<1> SUFFICES ASSUME ~UNCHANGED <<vendor, asked>> PROVE C!CamInv'
  BY <1>12
<1>6. vendor' = [vendor EXCEPT ![id].params = q] /\ asked' = [asked EXCEPT ![id] = f]
  BY <1>2 DEF C!camera_set_parameters
<1>7. vendor' = [vendor EXCEPT ![id] = d]
  BY <1>1, <1>4, <1>6
<1>8. /\ vendor' \in [C!Ids -> Devices]
      /\ asked' \in [C!Ids -> C!Framework \cup {C!NothingAsked}]
      /\ \A i \in C!Ids : /\ vendor'[i] = IF i = id THEN d ELSE vendor[i]
                          /\ asked'[i] = IF i = id THEN f ELSE asked[i]
      /\ UNCHANGED <<wrapper, leaked, caps>>
  <2>1. /\ vendor \in [C!Ids -> Devices]
        /\ asked \in [C!Ids -> C!Framework \cup {C!NothingAsked}]
    BY DEF C!CamInv, C!CamTypeOK, Devices
  <2>2. UNCHANGED <<wrapper, leaked, caps>>
    BY DEF C!camera_set_parameters
  <2>3. vendor' \in [C!Ids -> Devices] /\ \A i \in C!Ids : vendor'[i] = IF i = id THEN d ELSE vendor[i]
    BY <1>5, <1>7, <2>1
  <2>4. /\ asked' \in [C!Ids -> C!Framework \cup {C!NothingAsked}]
        /\ \A i \in C!Ids : asked'[i] = IF i = id THEN f ELSE asked[i]
    BY <1>1, <1>6, <2>1
  <2> QED BY <2>2, <2>3, <2>4
<1>9. C!CamTypeOK'
  BY <1>8 DEF C!CamInv, C!CamTypeOK, Devices
<1>10. C!VendorBalanced' /\ C!LostStaysClosed'
  BY <1>5, <1>8 DEF C!CamInv, C!VendorBalanced, C!LostStaysClosed
<1>11. C!ParametersReadBack'
  <2> SUFFICES ASSUME NEW i \in C!Ids, asked'[i] # C!NothingAsked
               PROVE  C!ReadsBack(asked[i], vendor[i].params)'
    BY DEF C!ParametersReadBack
  <2>1. PICK a, b : a = asked'[i] /\ b = vendor'[i].params
    OBVIOUS
  <2>2. C!ReadsBack(a, b)
    <3>1. CASE i = id
      BY <1>3, <1>5, <1>8, <2>1, <3>1
    <3>2. CASE i # id
      BY <1>8, <2>1, <3>2 DEF C!CamInv, C!ParametersReadBack
    <3> QED BY <3>1, <3>2
  <2> QED BY <1>8, <2>1, <2>2 DEF C!ReadsBack, C!camera_fixup_getparams, C!GetIso, C!GetShutter
<1> QED BY <1>9, <1>10, <1>11 DEF C!CamInv

(* What the framework last set on a camera with success is what it reads    *)
(* back, through the translation to the vendor's keys, in every order: the  *)
(* scene, the video HDR and, from a vendor that has the automatic mode and  *)
(* iso priority, iso and shutter speed; and a vendor device is open exactly *)
(* while its wrapper is, apart from one that camera_device_open loses when  *)
(* it runs out of memory.  For every set of capabilities.                   *)
THEOREM CamerasAreFaithful == Spec => []CameraFaithful
<1>1. Init => C!CamInv
  BY CamInitInv DEF Init
<1>2. C!CamInv /\ [Next]_allvars => C!CamInv'
  <2> SUFFICES ASSUME C!CamInv, [Next]_allvars PROVE C!CamInv'
    OBVIOUS
  <2>1. CASE C!CamNext
    <3>1. PICK id \in C!Ids :
            \/ \E o \in {"no module", "no sensors", "vendor fails", "no memory", "ok"} :
                  C!camera_device_open(id, o)
            \/ C!camera_device_close(id) \/ C!camera_release(id)
            \/ \E f \in C!Framework : C!camera_set_parameters(id, f)
            \/ \E on \in BOOLEAN : C!VendorPreview(id, on) \/ C!VendorRecording(id, on)
      BY <2>1 DEF C!CamNext
    <3> QED BY <3>1, CamOpen, CamClose, CamRelease, CamSet, CamPreview, CamRecording
  <2>2. CASE UNCHANGED camera
    <3>1. UNCHANGED <<wrapper, vendor, leaked, caps, asked>>
      BY <2>2 DEF camera
    <3>2. C!ParametersReadBack'
      BY <3>1, ReadBackKept
    <3> QED BY <3>1, <3>2 DEF C!CamInv, C!CamTypeOK, C!VendorBalanced, C!LostStaysClosed
  <2> QED BY <2>1, <2>2 DEF Next, allvars
<1>3. C!CamInv => CameraFaithful
  BY DEF C!CamInv, CameraFaithful
<1> QED BY <1>1, <1>2, <1>3, PTL DEF Spec, allvars

(***************************************************************************)
(* Lights                                                                  *)
(***************************************************************************)

LEMMA CmdsConcat ==
  ASSUME NEW X, NEW s \in Seq(X), NEW t \in Seq(X)
  PROVE  D!Cmds(s \o t) = D!Cmds(s) \cup D!Cmds(t) /\ s \o t \in Seq(X)
<1>1. /\ s \o t \in Seq(X) /\ Len(s \o t) = Len(s) + Len(t)
      /\ Len(s) \in Nat /\ Len(t) \in Nat
      /\ \A i \in 1..Len(s) : (s \o t)[i] = s[i]
      /\ \A j \in 1..Len(t) : (s \o t)[Len(s) + j] = t[j]
  BY ConcatProperties
<1>2. DOMAIN s = 1..Len(s) /\ DOMAIN t = 1..Len(t) /\ DOMAIN (s \o t) = 1..(Len(s) + Len(t))
  BY <1>1
<1>3. PICK m \in Nat, n \in Nat : m = Len(s) /\ n = Len(t)
  BY <1>1
<1>4. ASSUME NEW i \in 1..(m + n)
      PROVE  i \in 1..m \/ \E j \in 1..n : i = m + j
  <2>1. CASE i > m
    <3>1. i - m \in 1..n /\ i = m + (i - m)
      BY <2>1
    <3> QED BY <3>1
  <2> QED BY <2>1
<1>5. ASSUME NEW k \in D!Cmds(s \o t)
      PROVE  k \in D!Cmds(s) \cup D!Cmds(t)
  <2>1. PICK i \in 1..(m + n) : k = (s \o t)[i]
    BY <1>2, <1>3, <1>5 DEF D!Cmds
  <2>2. CASE i \in 1..m
    BY <1>1, <1>2, <1>3, <2>1, <2>2 DEF D!Cmds
  <2>3. CASE \E j \in 1..n : i = m + j
    BY <1>1, <1>2, <1>3, <2>1, <2>3 DEF D!Cmds
  <2> QED BY <1>4, <2>2, <2>3
<1>6. ASSUME NEW k \in D!Cmds(s) PROVE k \in D!Cmds(s \o t)
  <2>1. PICK i \in 1..m : k = s[i]
    BY <1>2, <1>3, <1>6 DEF D!Cmds
  <2>2. i \in 1..(m + n) /\ k = (s \o t)[i]
    BY <1>1, <1>3, <2>1
  <2> QED BY <1>2, <1>3, <2>2 DEF D!Cmds
<1>7. ASSUME NEW k \in D!Cmds(t) PROVE k \in D!Cmds(s \o t)
  <2>1. PICK j \in 1..n : k = t[j]
    BY <1>2, <1>3, <1>7 DEF D!Cmds
  <2>2. m + j \in 1..(m + n) /\ k = (s \o t)[m + j]
    BY <1>1, <1>3, <2>1
  <2> QED BY <1>2, <1>3, <2>2 DEF D!Cmds
<1> QED BY <1>1, <1>5, <1>6, <1>7

LEMMA CmdsHeadTail ==
  ASSUME NEW X, NEW s \in Seq(X), s # << >>
  PROVE  /\ D!Cmds(s) = {Head(s)} \cup D!Cmds(Tail(s))
         /\ Head(s) \in X /\ Tail(s) \in Seq(X)
         /\ Len(s) = 1 => D!Cmds(Tail(s)) = {}
<1>1. /\ Head(s) \in X /\ Tail(s) \in Seq(X) /\ Len(Tail(s)) = Len(s) - 1
      /\ \A i \in 1..Len(Tail(s)) : Tail(s)[i] = s[i + 1]
      /\ Len(s) \in Nat /\ Len(s) # 0 /\ Head(s) = s[1]
  BY HeadTailProperties
<1>2. PICK n \in Nat : n = Len(s) /\ n # 0
  BY <1>1
<1>3. DOMAIN s = 1..n /\ DOMAIN Tail(s) = 1..(n - 1)
  BY <1>1, <1>2
<1>4. ASSUME NEW k \in D!Cmds(s) PROVE k = Head(s) \/ k \in D!Cmds(Tail(s))
  <2>1. PICK i \in 1..n : k = s[i]
    BY <1>3, <1>4 DEF D!Cmds
  <2>2. CASE i = 1
    BY <1>1, <2>1, <2>2
  <2>3. CASE i # 1
    <3>1. i - 1 \in 1..(n - 1) /\ (i - 1) + 1 = i
      BY <2>3
    <3>2. k = Tail(s)[i - 1]
      BY <1>1, <1>2, <2>1, <3>1
    <3> QED BY <1>3, <3>1, <3>2 DEF D!Cmds
  <2> QED BY <2>2, <2>3
<1>5. Head(s) \in D!Cmds(s)
  <2>1. 1 \in 1..n
    BY <1>2
  <2> QED BY <1>1, <1>3, <2>1 DEF D!Cmds
<1>6. ASSUME NEW k \in D!Cmds(Tail(s)) PROVE k \in D!Cmds(s)
  <2>1. PICK i \in 1..(n - 1) : k = Tail(s)[i]
    BY <1>3, <1>6 DEF D!Cmds
  <2>2. i + 1 \in 1..n
    BY <1>2
  <2>3. k = s[i + 1]
    BY <1>1, <1>2, <2>1
  <2> QED BY <1>3, <2>2, <2>3 DEF D!Cmds
<1>7. Len(s) = 1 => D!Cmds(Tail(s)) = {}
  <2> SUFFICES ASSUME n = 1 PROVE D!Cmds(Tail(s)) = {}
    BY <1>2
  <2>1. 1..(n - 1) = {}
    OBVIOUS
  <2> QED BY <1>3, <2>1 DEF D!Cmds
<1> QED BY <1>1, <1>4, <1>5, <1>6, <1>7

LEMMA CmdsOne == \A k : D!Cmds(<<k>>) = {k}
BY DEF D!Cmds

LEMMA CmdsTwo == \A k, l : D!Cmds(<<k, l>>) = {k, l}
BY DEF D!Cmds

(* The bytes of a colour, and what a flash needs to blink.                  *)
LEMMA ColourBytes ==
  ASSUME NEW colour \in D!AllColours
  PROVE  /\ colour[1] \in 0..255 /\ colour[2] \in 0..255 /\ colour[3] \in 0..255
         /\ \A c \in D!Channels : colour[c] \in 0..255
<1>1. colour[1] \in 0..255 /\ colour[2] \in 0..255 /\ colour[3] \in 0..255
  BY LightsAssumption DEF D!AllColours
<1> QED BY <1>1 DEF D!Channels

Blinking(flash) == flash.on > 0 /\ flash.off > 0

(* The commands of one channel: they are about this channel, and no two of  *)
(* them set the same thing.                                                 *)
LEMMA ChannelCommands ==
  ASSUME NEW c \in D!Channels, NEW b \in 0..255, NEW f \in Flashes \cup {D!NoFlash}
  PROVE  /\ D!set_led_channel(c, b, f) \in Seq(D!Commands)
         /\ D!Cmds(D!set_led_channel(c, b, f)) =
               IF b <= 0 THEN {D!Cmd(2, c, 0), D!Cmd(1, c, 0)}
               ELSE {D!Cmd(4, c, b)} \cup
                    IF Blinking(f) THEN {D!Cmd(7, c, f), D!Cmd(2, c, 1)}
                                   ELSE {D!Cmd(2, c, 0), D!Cmd(1, c, 1)}
<1>1. /\ D!Cmd(2, c, 0) \in D!Commands /\ D!Cmd(1, c, 0) \in D!Commands
      /\ D!Cmd(2, c, 1) \in D!Commands /\ D!Cmd(1, c, 1) \in D!Commands
      /\ D!Cmd(4, c, b) \in D!Commands /\ D!Cmd(7, c, f) \in D!Commands
  BY DEF D!Cmd, D!Commands, D!Values
<1>2. CASE b <= 0
  <2>1. D!set_led_channel(c, b, f) = <<D!Cmd(2, c, 0), D!Cmd(1, c, 0)>>
    BY <1>2 DEF D!set_led_channel
  <2>2. D!set_led_channel(c, b, f) \in Seq(D!Commands)
    BY <1>1, <2>1
  <2> QED BY <1>2, <2>1, <2>2, CmdsTwo
<1>3. CASE ~(b <= 0)
  <2> DEFINE rest == IF Blinking(f) THEN <<D!Cmd(7, c, f), D!Cmd(2, c, 1)>>
                                    ELSE <<D!Cmd(2, c, 0), D!Cmd(1, c, 1)>>
  <2>1. D!set_led_channel(c, b, f) = <<D!Cmd(4, c, b)>> \o rest
    BY <1>3 DEF D!set_led_channel, Blinking
  <2>2. <<D!Cmd(4, c, b)>> \in Seq(D!Commands) /\ rest \in Seq(D!Commands)
    BY <1>1
  <2>3. D!Cmds(rest) = IF Blinking(f) THEN {D!Cmd(7, c, f), D!Cmd(2, c, 1)}
                                      ELSE {D!Cmd(2, c, 0), D!Cmd(1, c, 1)}
    BY CmdsTwo
  <2> HIDE DEF rest
  <2>4. /\ D!Cmds(<<D!Cmd(4, c, b)>> \o rest) = D!Cmds(<<D!Cmd(4, c, b)>>) \cup D!Cmds(rest)
        /\ <<D!Cmd(4, c, b)>> \o rest \in Seq(D!Commands)
    BY <2>2, CmdsConcat
  <2> QED BY <1>3, <2>1, <2>3, <2>4, CmdsOne
<1> QED BY <1>2, <1>3

(* The backlight is dark only when darkness is asked for, and within the    *)
(* kernel's range.                                                          *)
LEMMA BacklightRange ==
  ASSUME NEW colour \in D!AllColours
  PROVE  /\ D!BacklightValue(colour) \in 0..MaxBrightness
         /\ D!BacklightValue(colour) = 0 <=> D!rgb_to_brightness(colour) = 0
<1>1. PICK r \in 0..255, g \in 0..255, b \in 0..255 :
         r = colour[1] /\ g = colour[2] /\ b = colour[3]
  BY ColourBytes
<1>2. PICK n : n = ((77 * r) + (150 * g) + (29 * b)) \div 256
  OBVIOUS
<1>3. n \in 0..255
  BY <1>2
<1>4. D!rgb_to_brightness(colour) = n
  BY <1>1, <1>2 DEF D!rgb_to_brightness
<1>5. PICK m, l : m = MaxBrightness /\ l = LCD_BRIGHTNESS_MIN /\ m \in Nat /\ l \in 1..m
  BY LightsAssumption
<1>6. PICK s : s = (m * n) \div 255
  OBVIOUS
<1>7. s \in 0..m
  <2>1. m * n \in Nat /\ m * n <= m * 255
    BY <1>3, <1>5
  <2>2. PICK p \in Nat : p = m * n
    BY <2>1
  <2> QED BY <1>5, <1>6, <2>1, <2>2
<1>8. D!BacklightValue(colour) = IF n = 0 THEN 0 ELSE IF s < l THEN l ELSE s
  BY <1>4, <1>5, <1>6 DEF D!BacklightValue
<1>9. /\ (IF n = 0 THEN 0 ELSE IF s < l THEN l ELSE s) \in 0..m
      /\ (IF n = 0 THEN 0 ELSE IF s < l THEN l ELSE s) = 0 <=> n = 0
  BY <1>3, <1>5, <1>7
<1> QED BY <1>4, <1>5, <1>8, <1>9

LEMMA WantedShape ==
  ASSUME D!LtTypeOK, NEW c \in D!Channels
  PROVE  /\ \A k \in D!Wanted(c) : k.led = c /\ k.cmd \in {1, 2, 4, 7} /\ k \in D!Commands
         /\ \A k, l \in D!Wanted(c) : k.cmd = l.cmd => k = l
<1>1. PICK b, f : b = last.led.colour[c] /\ f = last.led.flash
  OBVIOUS
<1>2. b \in 0..255 /\ f \in Flashes \cup {D!NoFlash}
  BY <1>1, ColourBytes DEF D!LtTypeOK
<1>3. D!Wanted(c) = IF b <= 0 THEN {D!Cmd(2, c, 0), D!Cmd(1, c, 0)}
               ELSE {D!Cmd(4, c, b)} \cup
                    IF Blinking(f) THEN {D!Cmd(7, c, f), D!Cmd(2, c, 1)}
                                   ELSE {D!Cmd(2, c, 0), D!Cmd(1, c, 1)}
  BY <1>1, <1>2, ChannelCommands DEF D!Wanted
<1>4. CASE b <= 0
  BY <1>2, <1>3, <1>4 DEF D!Cmd, D!Commands, D!Values
<1>5. CASE ~(b <= 0) /\ Blinking(f)
  BY <1>2, <1>3, <1>5 DEF D!Cmd, D!Commands, D!Values
<1>6. CASE ~(b <= 0) /\ ~Blinking(f)
  BY <1>2, <1>3, <1>6 DEF D!Cmd, D!Commands, D!Values
<1> QED BY <1>4, <1>5, <1>6

LEMMA FilesShape ==
  ASSUME D!LtTypeOK
  PROVE  /\ \A k \in D!WantedFiles : k.led \in 1..2 /\ k.cmd = 0 /\ k \in D!Commands
         /\ \A k, l \in D!WantedFiles : k.led = l.led => k = l
<1>1. D!BacklightValue(last.backlight) \in D!Values
  BY BacklightRange DEF D!LtTypeOK, D!Values
<1> QED BY <1>1 DEF D!WantedFiles, D!Cmd, D!Commands, D!Channels

(* No two wanted commands set the same thing.                               *)
LEMMA WantedApart ==
  ASSUME D!LtTypeOK, NEW k \in D!AllWanted, NEW l \in D!AllWanted
  PROVE  /\ k \in D!Commands /\ (k.cmd = 0 => k.led \in 1..2)
         /\ k.cmd = l.cmd /\ k.led = l.led => k = l
<1>1. 1 \in D!Channels /\ 2 \in D!Channels /\ 3 \in D!Channels
  BY DEF D!Channels
<1>2. \A n \in D!AllWanted :
         \/ n \in D!WantedFiles /\ n.cmd = 0
         \/ n \in D!Wanted(1) /\ n.cmd # 0 /\ n.led = 1
         \/ n \in D!Wanted(2) /\ n.cmd # 0 /\ n.led = 2
         \/ n \in D!Wanted(3) /\ n.cmd # 0 /\ n.led = 3
  BY <1>1, WantedShape, FilesShape DEF D!AllWanted
<1>3. k \in D!Commands /\ (k.cmd = 0 => k.led \in 1..2)
  BY <1>1, <1>2, WantedShape, FilesShape
<1>4. CASE k \in D!WantedFiles /\ k.cmd = 0
  BY <1>2, <1>3, <1>4, FilesShape
<1>5. CASE k \in D!Wanted(1) /\ k.cmd # 0 /\ k.led = 1
  BY <1>1, <1>2, <1>3, <1>5, WantedShape
<1>6. CASE k \in D!Wanted(2) /\ k.cmd # 0 /\ k.led = 2
  BY <1>1, <1>2, <1>3, <1>6, WantedShape
<1>7. CASE k \in D!Wanted(3) /\ k.cmd # 0 /\ k.led = 3
  BY <1>1, <1>2, <1>3, <1>7, WantedShape
<1> QED BY <1>2, <1>4, <1>5, <1>6, <1>7

LEMMA WantedKept == last' = last => D!AllWanted' = D!AllWanted
BY DEF D!AllWanted, D!WantedFiles, D!Wanted

Leds == [D!Channels -> [steady : BOOLEAN, blink : BOOLEAN, brightness : D!Values,
                        timing : D!Values]]

(* A command is carried out and undoes no other.                            *)
LEMMA CommandDone ==
  ASSUME D!LtTypeOK, NEW h \in D!AllWanted,
         IF h.cmd = 0 THEN lcd' = [lcd EXCEPT ![h.led] = h.value] /\ UNCHANGED led
                      ELSE led' = D!led_ctl(led, h) /\ UNCHANGED lcd
  PROVE  /\ led' \in Leds /\ lcd' \in [1..2 -> D!Values]
         /\ \A k \in D!AllWanted : k = h \/ D!Done(k) => D!Done(k)'
<1>1. /\ h \in D!Commands /\ (h.cmd = 0 => h.led \in 1..2)
      /\ \A k \in D!AllWanted : /\ k \in D!Commands /\ (k.cmd = 0 => k.led \in 1..2)
                                /\ k.cmd = h.cmd /\ k.led = h.led => k = h
  BY WantedApart
<1>2. h.cmd \in {0, 1, 2, 4, 7} /\ h.led \in D!Channels /\ h.value \in D!Values
  BY <1>1 DEF D!Commands
<1>3. led \in Leds /\ lcd \in [1..2 -> D!Values]
  BY DEF D!LtTypeOK, Leds
<1>4. \A k \in D!AllWanted : k.cmd \in {0, 1, 2, 4, 7} /\ k.led \in D!Channels
  BY <1>1 DEF D!Commands
<1>5. CASE h.cmd = 0
  <2>1. /\ lcd' \in [1..2 -> D!Values] /\ led' = led
        /\ \A i \in 1..2 : lcd'[i] = IF i = h.led THEN h.value ELSE lcd[i]
    BY <1>1, <1>2, <1>3, <1>5
  <2> QED BY <1>1, <1>3, <1>4, <1>5, <2>1 DEF D!Done
<1>6. CASE h.cmd = 1
  <2>0. PICK v \in BOOLEAN : v = (h.value = 1)
    OBVIOUS
  <2>1. led' = [led EXCEPT ![h.led].steady = v] /\ lcd' = lcd
    BY <1>6, <2>0 DEF D!led_ctl
  <2>2. /\ led' \in Leds
        /\ \A c \in D!Channels :
              /\ led'[c].steady = IF c = h.led THEN v ELSE led[c].steady
              /\ led'[c].blink = led[c].blink
              /\ led'[c].brightness = led[c].brightness /\ led'[c].timing = led[c].timing
    BY <1>2, <1>3, <2>1 DEF Leds
  <2>3. ASSUME NEW k \in D!AllWanted, k = h \/ D!Done(k) PROVE D!Done(k)'
    <3>1. CASE k = h
      <4>1. led'[h.led].steady = v /\ (v <=> h.value = 1)
        BY <1>2, <2>0, <2>2
      <4> QED BY <1>6, <3>1, <4>1 DEF D!Done
    <3>2. CASE k # h
      <4>1. k.cmd # 1 \/ k.led # h.led
        BY <1>1, <1>6, <3>2
      <4>2. /\ led'[k.led].brightness = led[k.led].brightness
            /\ led'[k.led].timing = led[k.led].timing
            /\ led'[k.led].blink = led[k.led].blink
            /\ k.cmd = 1 => led'[k.led].steady = led[k.led].steady
        BY <1>4, <2>2, <4>1
      <4> QED BY <2>1, <2>3, <3>2, <4>2 DEF D!Done
    <3> QED BY <3>1, <3>2
  <2> QED BY <1>3, <2>1, <2>2, <2>3
<1>7. CASE h.cmd = 2
  <2>0. PICK v \in BOOLEAN : v = (h.value = 1)
    OBVIOUS
  <2>1. led' = [led EXCEPT ![h.led].blink = v] /\ lcd' = lcd
    BY <1>7, <2>0 DEF D!led_ctl
  <2>2. /\ led' \in Leds
        /\ \A c \in D!Channels :
              /\ led'[c].blink = IF c = h.led THEN v ELSE led[c].blink
              /\ led'[c].steady = led[c].steady
              /\ led'[c].brightness = led[c].brightness /\ led'[c].timing = led[c].timing
    BY <1>2, <1>3, <2>1 DEF Leds
  <2>3. ASSUME NEW k \in D!AllWanted, k = h \/ D!Done(k) PROVE D!Done(k)'
    <3>1. CASE k = h
      <4>1. led'[h.led].blink = v /\ (v <=> h.value = 1)
        BY <1>2, <2>0, <2>2
      <4> QED BY <1>7, <3>1, <4>1 DEF D!Done
    <3>2. CASE k # h
      <4>1. k.cmd # 2 \/ k.led # h.led
        BY <1>1, <1>7, <3>2
      <4>2. /\ led'[k.led].brightness = led[k.led].brightness
            /\ led'[k.led].timing = led[k.led].timing
            /\ led'[k.led].steady = led[k.led].steady
            /\ k.cmd = 2 => led'[k.led].blink = led[k.led].blink
        BY <1>4, <2>2, <4>1
      <4> QED BY <2>1, <2>3, <3>2, <4>2 DEF D!Done
    <3> QED BY <3>1, <3>2
  <2> QED BY <1>3, <2>1, <2>2, <2>3
<1>8. CASE h.cmd = 4
  <2>1. led' = [led EXCEPT ![h.led].brightness = h.value] /\ lcd' = lcd
    BY <1>8 DEF D!led_ctl
  <2>2. /\ led' \in Leds
        /\ \A c \in D!Channels :
              /\ led'[c].brightness = IF c = h.led THEN h.value ELSE led[c].brightness
              /\ led'[c].steady = led[c].steady
              /\ led'[c].blink = led[c].blink /\ led'[c].timing = led[c].timing
    BY <1>2, <1>3, <2>1 DEF Leds
  <2> QED BY <1>1, <1>3, <1>4, <1>8, <2>1, <2>2 DEF D!Done
<1>9. CASE h.cmd = 7
  <2>1. led' = [led EXCEPT ![h.led].timing = h.value] /\ lcd' = lcd
    BY <1>9 DEF D!led_ctl
  <2>2. /\ led' \in Leds
        /\ \A c \in D!Channels :
              /\ led'[c].timing = IF c = h.led THEN h.value ELSE led[c].timing
              /\ led'[c].steady = led[c].steady
              /\ led'[c].blink = led[c].blink /\ led'[c].brightness = led[c].brightness
    BY <1>2, <1>3, <2>1 DEF Leds
  <2> QED BY <1>1, <1>3, <1>4, <1>9, <2>1, <2>2 DEF D!Done
<1> QED BY <1>2, <1>5, <1>6, <1>7, <1>8, <1>9

LEMMA DoneKept ==
  ASSUME UNCHANGED <<led, lcd>>, NEW k
  PROVE  D!Done(k)' <=> D!Done(k)
BY DEF D!Done

(* A command for a channel is none for the backlight, whose commands name   *)
(* one of its two files.                                                    *)
LEMMA WantedForLed ==
  ASSUME D!LtTypeOK
  PROVE  \A c \in D!Channels : \A k \in D!Wanted(c) : k.cmd # 0 /\ k.led = c
<1> SUFFICES ASSUME NEW c \in D!Channels, NEW k \in D!Wanted(c) PROVE k.cmd # 0 /\ k.led = c
  OBVIOUS
<1>1. PICK b, f : b = last.led.colour[c] /\ f = last.led.flash
  OBVIOUS
<1>2. b \in 0..255 /\ f \in Flashes \cup {D!NoFlash}
  BY <1>1, ColourBytes DEF D!LtTypeOK
<1>3. D!Wanted(c) = IF b <= 0 THEN {D!Cmd(2, c, 0), D!Cmd(1, c, 0)}
               ELSE {D!Cmd(4, c, b)} \cup
                    IF Blinking(f) THEN {D!Cmd(7, c, f), D!Cmd(2, c, 1)}
                                   ELSE {D!Cmd(2, c, 0), D!Cmd(1, c, 1)}
  BY <1>1, <1>2, ChannelCommands DEF D!Wanted
<1> QED BY <1>3 DEF D!Cmd

LEMMA WantedPlace ==
  ASSUME D!LtTypeOK, NEW k \in D!AllWanted, k.cmd = 0
  PROVE  k.led \in 1..2
<1>1. k \in D!WantedFiles
  BY WantedForLed DEF D!AllWanted, D!Channels
<1> QED BY <1>1 DEF D!WantedFiles, D!Cmd

LEMMA LtWrite ==
  ASSUME D!LtInv, NEW t \in Threads, D!Write(t)
  PROVE  D!LtInv'
<1>1. /\ todo[t] # << >> /\ g_lock = t /\ last' = last
      /\ todo' = [todo EXCEPT ![t] = Tail(@)]
      /\ g_lock' = IF Len(todo[t]) = 1 THEN "nobody" ELSE g_lock
  BY DEF D!Write, D!Nobody
<1>2. D!LtTypeOK /\ todo \in [Threads -> Seq(D!Commands)] /\ t # "nobody"
  BY LightsAssumption DEF D!LtInv, D!LtTypeOK
<1>3. PICK s \in Seq(D!Commands) : s = todo[t]
  BY <1>2
<1>4. /\ D!Cmds(s) = {Head(s)} \cup D!Cmds(Tail(s))
      /\ Head(s) \in D!Commands /\ Tail(s) \in Seq(D!Commands)
      /\ Len(s) = 1 => D!Cmds(Tail(s)) = {}
  BY <1>1, <1>3, CmdsHeadTail
<1>5. todo' \in [Threads -> Seq(D!Commands)] /\ todo'[t] = Tail(s)
  BY <1>1, <1>2, <1>3, <1>4
<1>6. D!ToCome = D!Cmds(s)
  BY <1>1, <1>2, <1>3 DEF D!ToCome, D!Nobody
<1>7. D!ToCome' = D!Cmds(Tail(s))
  <2>1. CASE Len(s) = 1
    BY <1>1, <1>3, <1>4, <2>1 DEF D!ToCome, D!Nobody
  <2>2. CASE Len(s) # 1
    <3>1. g_lock' = t
      BY <1>1, <1>3, <2>2
    <3> QED BY <1>2, <1>5, <3>1 DEF D!ToCome, D!Nobody
  <2> QED BY <2>1, <2>2
<1>8. PICK h : h = Head(s)
  OBVIOUS
<1>9. h \in D!AllWanted
  BY <1>4, <1>6, <1>8 DEF D!LtInv
<1>10. \/ /\ IF h.cmd = 0 THEN lcd' = [lcd EXCEPT ![h.led] = h.value] /\ UNCHANGED led
                           ELSE led' = D!led_ctl(led, h) /\ UNCHANGED lcd
          /\ failed' = failed
       \/ /\ failed' = IF h.cmd = 0 THEN [failed EXCEPT !.lcd = failed.lcd \cup {h.led}]
                       ELSE [failed EXCEPT !.led = failed.led \cup {h.led}]
          /\ led' = led /\ lcd' = lcd
  BY <1>3, <1>8 DEF D!Write
<1>11. /\ led' \in Leds /\ lcd' \in [1..2 -> D!Values]
       /\ failed' \in [led : SUBSET D!Channels, lcd : SUBSET (1..2)]
       /\ \A k \in D!AllWanted : k = h \/ D!Done(k) \/ D!Lost(k) => D!Done(k)' \/ D!Lost(k)'
  <2>1. CASE /\ IF h.cmd = 0 THEN lcd' = [lcd EXCEPT ![h.led] = h.value] /\ UNCHANGED led
                             ELSE led' = D!led_ctl(led, h) /\ UNCHANGED lcd
             /\ failed' = failed
    <3>1. /\ led' \in Leds /\ lcd' \in [1..2 -> D!Values]
          /\ \A k \in D!AllWanted : k = h \/ D!Done(k) => D!Done(k)'
      BY <1>2, <1>9, <2>1, CommandDone
    <3>2. \A k : D!Lost(k)' <=> D!Lost(k)
      BY <2>1 DEF D!Lost
    <3> QED BY <1>2, <2>1, <3>1, <3>2 DEF D!LtTypeOK
  <2>2. CASE /\ failed' = IF h.cmd = 0 THEN [failed EXCEPT !.lcd = failed.lcd \cup {h.led}]
                          ELSE [failed EXCEPT !.led = failed.led \cup {h.led}]
             /\ led' = led /\ lcd' = lcd
    <3>1. led' \in Leds /\ lcd' \in [1..2 -> D!Values]
      BY <1>2, <2>2 DEF D!LtTypeOK, Leds
    <3>2. failed \in [led : SUBSET D!Channels, lcd : SUBSET (1..2)]
      BY <1>2 DEF D!LtTypeOK
    <3>3. h \in D!Commands /\ (h.cmd = 0 => h.led \in 1..2)
      <4>1. h \in D!Commands
        BY <1>4, <1>8
      <4>2. h.cmd = 0 => h.led \in 1..2
        BY <1>2, <1>9, WantedPlace
      <4> QED BY <4>1, <4>2
    <3>4. failed' \in [led : SUBSET D!Channels, lcd : SUBSET (1..2)]
      BY <2>2, <3>2, <3>3 DEF D!Commands
    <3>5. /\ failed.led \subseteq failed'.led /\ failed.lcd \subseteq failed'.lcd
          /\ h.led \in IF h.cmd = 0 THEN failed'.lcd ELSE failed'.led
      BY <2>2, <3>2
    <3>6. \A k : D!Lost(k) \/ k = h => D!Lost(k)'
      BY <3>5 DEF D!Lost
    <3>7. \A k : D!Done(k)' <=> D!Done(k)
      BY <2>2, DoneKept
    <3> QED BY <3>1, <3>4, <3>6, <3>7
  <2> QED BY <1>10, <2>1, <2>2
<1>12. D!LtTypeOK'
  BY <1>1, <1>2, <1>5, <1>11 DEF D!LtTypeOK, Leds, D!Nobody
<1>13. D!AllWanted' = D!AllWanted
  BY <1>1, WantedKept
<1>14. D!ToCome' \subseteq D!AllWanted'
  BY <1>4, <1>6, <1>7, <1>13 DEF D!LtInv
<1>15. \A k \in D!AllWanted' : k \in D!ToCome' \/ D!Done(k)' \/ D!Lost(k)'
  <2> SUFFICES ASSUME NEW k \in D!AllWanted PROVE k \in D!ToCome' \/ D!Done(k)' \/ D!Lost(k)'
    BY <1>13
  <2>1. k \in D!ToCome \/ D!Done(k) \/ D!Lost(k)
    BY DEF D!LtInv
  <2> QED BY <1>4, <1>6, <1>7, <1>8, <1>11, <2>1
<1> QED BY <1>12, <1>14, <1>15 DEF D!LtInv

LEMMA LtLed ==
  ASSUME D!LtInv, NEW t \in Threads, NEW name, NEW colour \in Colours, NEW flash \in Flashes,
         D!lights_set_light_led(t, name, colour, flash)
  PROVE  D!LtInv'
<1> DEFINE Prog(c) == D!set_led_channel(c, colour[c], flash)
<1>1. /\ g_lock = "nobody" /\ g_lock' = t /\ UNCHANGED <<led, lcd>>
      /\ todo' = [todo EXCEPT ![t] = (Prog(1) \o Prog(2)) \o Prog(3)]
      /\ last' = [last EXCEPT !.led = [colour |-> colour, flash |-> flash]]
      /\ failed' = [failed EXCEPT !.led = {}]
  BY DEF D!lights_set_light_led, D!Nobody
<1>2. D!LtTypeOK /\ t # "nobody" /\ colour \in D!AllColours
  BY LightsAssumption DEF D!LtInv, D!AllColours
<1>3. /\ last' \in [led : [colour : D!AllColours, flash : Flashes \cup {D!NoFlash}],
                    backlight : D!AllColours]
      /\ last'.led.colour = colour /\ last'.led.flash = flash
      /\ last'.backlight = last.backlight
  BY <1>1, <1>2 DEF D!LtTypeOK
<1>4. \A c \in D!Channels : Prog(c) \in Seq(D!Commands)
  BY <1>2, ColourBytes, ChannelCommands
<1>5. 1 \in D!Channels /\ 2 \in D!Channels /\ 3 \in D!Channels
  BY DEF D!Channels
<1>6. \A c \in D!Channels : D!Wanted(c)' = D!Cmds(Prog(c))
  BY <1>3 DEF D!Wanted
<1> HIDE DEF Prog
<1>7. /\ Prog(1) \o Prog(2) \in Seq(D!Commands)
      /\ D!Cmds(Prog(1) \o Prog(2)) = D!Cmds(Prog(1)) \cup D!Cmds(Prog(2))
  BY <1>4, <1>5, CmdsConcat
<1>8. /\ (Prog(1) \o Prog(2)) \o Prog(3) \in Seq(D!Commands)
      /\ D!Cmds((Prog(1) \o Prog(2)) \o Prog(3))
           = D!Cmds(Prog(1)) \cup D!Cmds(Prog(2)) \cup D!Cmds(Prog(3))
  <2>1. PICK q \in Seq(D!Commands) : q = Prog(1) \o Prog(2)
    BY <1>7
  <2>2. q \o Prog(3) \in Seq(D!Commands) /\ D!Cmds(q \o Prog(3)) = D!Cmds(q) \cup D!Cmds(Prog(3))
    BY <1>4, <1>5, CmdsConcat
  <2> QED BY <1>7, <2>1, <2>2
<1>9. todo' \in [Threads -> Seq(D!Commands)] /\ todo'[t] = (Prog(1) \o Prog(2)) \o Prog(3)
  BY <1>1, <1>2, <1>8 DEF D!LtTypeOK
<1>14. /\ failed' \in [led : SUBSET D!Channels, lcd : SUBSET (1..2)]
       /\ failed'.lcd = failed.lcd
  BY <1>1, <1>2 DEF D!LtTypeOK
<1>10. D!LtTypeOK'
  BY <1>1, <1>2, <1>3, <1>9, <1>14 DEF D!LtTypeOK
<1>11. D!ToCome' = D!Cmds(Prog(1)) \cup D!Cmds(Prog(2)) \cup D!Cmds(Prog(3))
  BY <1>1, <1>2, <1>8, <1>9 DEF D!ToCome, D!Nobody
<1>12. D!AllWanted' = D!WantedFiles \cup D!ToCome'
  <2>1. D!WantedFiles' = D!WantedFiles
    BY <1>3 DEF D!WantedFiles
  <2>2. D!AllWanted' = D!WantedFiles' \cup D!Wanted(1)' \cup D!Wanted(2)' \cup D!Wanted(3)'
    BY DEF D!AllWanted
  <2> QED BY <1>5, <1>6, <1>11, <2>1, <2>2
<1>13. \A k \in D!WantedFiles : D!Done(k)' \/ D!Lost(k)'
  <2>1. D!ToCome = {}
    BY <1>1 DEF D!ToCome, D!Nobody
  <2>2. \A k \in D!WantedFiles : D!Done(k) \/ D!Lost(k)
    BY <2>1 DEF D!LtInv, D!AllWanted
  <2>3. \A k \in D!WantedFiles : k.cmd = 0
    BY DEF D!WantedFiles, D!Cmd
  <2>4. \A k \in D!WantedFiles : D!Lost(k)' <=> D!Lost(k)
    BY <1>14, <2>3 DEF D!Lost
  <2> QED BY <1>1, <2>2, <2>4, DoneKept
<1> QED BY <1>10, <1>12, <1>13 DEF D!LtInv

LEMMA LtBacklight ==
  ASSUME D!LtInv, NEW t \in Threads, NEW colour \in Colours,
         D!lights_set_light_backlight(t, colour)
  PROVE  D!LtInv'
<1> DEFINE v == D!BacklightValue(colour)
<1>1. /\ g_lock = "nobody" /\ g_lock' = t /\ UNCHANGED <<led, lcd>>
      /\ todo' = [todo EXCEPT ![t] = <<D!Cmd(0, 1, v), D!Cmd(0, 2, v)>>]
      /\ last' = [last EXCEPT !.backlight = colour]
      /\ failed' = [failed EXCEPT !.lcd = {}]
  BY DEF D!lights_set_light_backlight, D!Nobody
<1>2. D!LtTypeOK /\ t # "nobody" /\ colour \in D!AllColours
  BY LightsAssumption DEF D!LtInv, D!AllColours
<1>3. /\ last' \in [led : [colour : D!AllColours, flash : Flashes \cup {D!NoFlash}],
                    backlight : D!AllColours]
      /\ last'.led = last.led /\ last'.backlight = colour
  BY <1>1, <1>2 DEF D!LtTypeOK
<1>4. v \in D!Values
  BY <1>2, BacklightRange DEF D!Values
<1>5. D!WantedFiles' = {D!Cmd(0, 1, v), D!Cmd(0, 2, v)}
  BY <1>3 DEF D!WantedFiles
<1> HIDE DEF v
<1>6. <<D!Cmd(0, 1, v), D!Cmd(0, 2, v)>> \in Seq(D!Commands)
  BY <1>4 DEF D!Cmd, D!Commands, D!Channels
<1>7. todo' \in [Threads -> Seq(D!Commands)] /\ todo'[t] = <<D!Cmd(0, 1, v), D!Cmd(0, 2, v)>>
  BY <1>1, <1>2, <1>6 DEF D!LtTypeOK
<1>12. /\ failed' \in [led : SUBSET D!Channels, lcd : SUBSET (1..2)]
       /\ failed'.led = failed.led
  BY <1>1, <1>2 DEF D!LtTypeOK
<1>8. D!LtTypeOK'
  BY <1>1, <1>2, <1>3, <1>7, <1>12 DEF D!LtTypeOK
<1>9. D!ToCome' = D!WantedFiles'
  <2>1. D!ToCome' = D!Cmds(<<D!Cmd(0, 1, v), D!Cmd(0, 2, v)>>)
    BY <1>1, <1>2, <1>7 DEF D!ToCome, D!Nobody
  <2> QED BY <1>5, <2>1, CmdsTwo
<1>10. D!AllWanted' = D!ToCome' \cup D!Wanted(1) \cup D!Wanted(2) \cup D!Wanted(3)
  <2>1. D!Wanted(1)' = D!Wanted(1) /\ D!Wanted(2)' = D!Wanted(2) /\ D!Wanted(3)' = D!Wanted(3)
    BY <1>3 DEF D!Wanted
  <2>2. D!AllWanted' = D!WantedFiles' \cup D!Wanted(1)' \cup D!Wanted(2)' \cup D!Wanted(3)'
    BY DEF D!AllWanted
  <2> QED BY <1>9, <2>1, <2>2
<1>11. \A k \in D!Wanted(1) \cup D!Wanted(2) \cup D!Wanted(3) : D!Done(k)' \/ D!Lost(k)'
  <2>1. D!ToCome = {}
    BY <1>1 DEF D!ToCome, D!Nobody
  <2>2. \A k \in D!Wanted(1) \cup D!Wanted(2) \cup D!Wanted(3) : D!Done(k) \/ D!Lost(k)
    BY <2>1 DEF D!LtInv, D!AllWanted
  <2>3. \A c \in D!Channels : \A k \in D!Wanted(c) : k.cmd # 0
    BY <1>2, WantedForLed
  <2>4. \A k \in D!Wanted(1) \cup D!Wanted(2) \cup D!Wanted(3) : D!Lost(k)' <=> D!Lost(k)
    BY <1>12, <2>3 DEF D!Lost, D!Channels
  <2> QED BY <1>1, <2>2, <2>4, DoneKept
<1> QED BY <1>8, <1>10, <1>11 DEF D!LtInv

LEMMA LtKept ==
  ASSUME D!LtInv, UNCHANGED <<todo, g_lock, led, lcd, last, failed>>
  PROVE  D!LtInv'
<1>1. D!LtTypeOK'
  BY DEF D!LtInv, D!LtTypeOK
<1>2. D!AllWanted' = D!AllWanted /\ D!ToCome' = D!ToCome
  BY WantedKept DEF D!ToCome
<1>3. \A k : D!Lost(k)' <=> D!Lost(k)
  BY DEF D!Lost
<1> QED BY <1>1, <1>2, <1>3, DoneKept DEF D!LtInv

LEMMA LtInitInv == D!LtInit => D!LtInv
<1> SUFFICES ASSUME D!LtInit PROVE D!LtInv
  OBVIOUS
<1>1. <<0, 0, 0>> \in D!AllColours
  BY DEF D!AllColours
<1>2. D!Dark \in [steady : BOOLEAN, blink : BOOLEAN, brightness : D!Values, timing : D!Values]
  BY DEF D!Dark, D!Values
<1>3. 0 \in D!Values
  BY DEF D!Values
<1>4. D!LtTypeOK
  <2>1. todo \in [Threads -> Seq(D!Commands)]
    BY DEF D!LtInit
  <2>2. lcd \in [1..2 -> D!Values]
    BY <1>3 DEF D!LtInit
  <2> QED BY <1>1, <1>2, <2>1, <2>2 DEF D!LtInit, D!LtTypeOK, D!NothingLit
<1>5. D!ToCome = {}
  BY DEF D!LtInit, D!ToCome
<1>6. \A c \in D!Channels : last.led.colour[c] = 0 /\ last.led.flash = D!NoFlash
  BY DEF D!LtInit, D!NothingLit, D!Channels
<1>7. ASSUME NEW c \in D!Channels, NEW k \in D!Wanted(c) PROVE D!Done(k)
  <2>1. D!Wanted(c) = {D!Cmd(2, c, 0), D!Cmd(1, c, 0)}
    <3>1. D!Wanted(c) = D!Cmds(D!set_led_channel(c, 0, D!NoFlash))
      BY <1>6 DEF D!Wanted
    <3>2. D!set_led_channel(c, 0, D!NoFlash) = <<D!Cmd(2, c, 0), D!Cmd(1, c, 0)>>
      BY DEF D!set_led_channel
    <3> QED BY <3>1, <3>2, CmdsTwo
  <2>2. ~led[c].blink /\ ~led[c].steady
    BY DEF D!LtInit, D!Dark
  <2> QED BY <1>7, <2>1, <2>2 DEF D!Done, D!Cmd
<1>8. ASSUME NEW k \in D!WantedFiles PROVE D!Done(k)
  <2>1. D!BacklightValue(last.backlight) = 0
    BY DEF D!LtInit, D!BacklightValue, D!rgb_to_brightness
  <2>2. lcd[1] = 0 /\ lcd[2] = 0
    BY DEF D!LtInit
  <2> QED BY <1>8, <2>1, <2>2 DEF D!WantedFiles, D!Done, D!Cmd
<1>9. 1 \in D!Channels /\ 2 \in D!Channels /\ 3 \in D!Channels
  BY DEF D!Channels
<1>10. \A k \in D!AllWanted : D!Done(k)
  BY <1>7, <1>8, <1>9 DEF D!AllWanted
<1> QED BY <1>4, <1>5, <1>10 DEF D!LtInv

(* What has not been lost of the last requests is done, and then that is    *)
(* what is shown.                                                           *)
LEMMA DoneIsShown ==
  ASSUME D!LtInv, g_lock = "nobody"
  PROVE  /\ \A c \in D!Channels \ failed.led :
              D!Shows(c, last.led.colour[c], last.led.flash)
         /\ failed.lcd = {} => /\ lcd[1] = D!BacklightValue(last.backlight)
                              /\ lcd[2] = D!BacklightValue(last.backlight)
<1>1. D!LtTypeOK /\ \A k \in D!AllWanted : D!Done(k) \/ D!Lost(k)
  BY DEF D!LtInv, D!ToCome, D!Nobody
<1>2. ASSUME NEW c \in D!Channels \ failed.led
      PROVE  D!Shows(c, last.led.colour[c], last.led.flash)
  <2>1. PICK b, f : b = last.led.colour[c] /\ f = last.led.flash
    OBVIOUS
  <2>2. b \in 0..255 /\ f \in Flashes \cup {D!NoFlash}
    BY <1>1, <2>1, ColourBytes DEF D!LtTypeOK
  <2>3. D!Wanted(c) = IF b <= 0 THEN {D!Cmd(2, c, 0), D!Cmd(1, c, 0)}
                 ELSE {D!Cmd(4, c, b)} \cup
                      IF Blinking(f) THEN {D!Cmd(7, c, f), D!Cmd(2, c, 1)}
                                     ELSE {D!Cmd(2, c, 0), D!Cmd(1, c, 1)}
    BY <2>1, <2>2, ChannelCommands DEF D!Wanted
  <2>4. \A k \in D!Wanted(c) : D!Done(k)
    <3>1. \A k \in D!Wanted(c) : k.cmd # 0 /\ k.led = c
      BY <1>1, WantedForLed
    <3>2. \A k \in D!Wanted(c) : ~D!Lost(k)
      BY <3>1 DEF D!Lost
    <3> QED BY <1>1, <3>2 DEF D!AllWanted, D!Channels
  <2>5. CASE b <= 0
    <3>1. D!Done(D!Cmd(2, c, 0)) /\ D!Done(D!Cmd(1, c, 0))
      BY <2>3, <2>4, <2>5
    <3>2. ~led[c].blink /\ ~led[c].steady /\ b = 0
      BY <2>2, <2>5, <3>1 DEF D!Done, D!Cmd
    <3> QED BY <2>1, <3>2 DEF D!Shows
  <2>6. CASE ~(b <= 0) /\ Blinking(f)
    <3>1. D!Done(D!Cmd(4, c, b)) /\ D!Done(D!Cmd(7, c, f)) /\ D!Done(D!Cmd(2, c, 1))
      BY <2>3, <2>4, <2>6
    <3>2. led[c].blink /\ led[c].brightness = b /\ led[c].timing = f /\ b > 0
      BY <2>2, <2>6, <3>1 DEF D!Done, D!Cmd
    <3> QED BY <2>1, <2>6, <3>2 DEF D!Shows, Blinking
  <2>7. CASE ~(b <= 0) /\ ~Blinking(f)
    <3>1. D!Done(D!Cmd(4, c, b)) /\ D!Done(D!Cmd(2, c, 0)) /\ D!Done(D!Cmd(1, c, 1))
      BY <2>3, <2>4, <2>7
    <3>2. ~led[c].blink /\ led[c].steady /\ led[c].brightness = b /\ b > 0
      BY <2>2, <2>7, <3>1 DEF D!Done, D!Cmd
    <3> QED BY <2>1, <2>7, <3>2 DEF D!Shows, Blinking
  <2> QED BY <2>5, <2>6, <2>7
<1>3. ASSUME failed.lcd = {}
      PROVE  /\ lcd[1] = D!BacklightValue(last.backlight)
             /\ lcd[2] = D!BacklightValue(last.backlight)
  <2>1. \A k \in D!WantedFiles : D!Done(k)
    <3>1. \A k \in D!WantedFiles : k.cmd = 0
      BY DEF D!WantedFiles, D!Cmd
    <3>2. \A k \in D!WantedFiles : ~D!Lost(k)
      BY <1>3, <3>1 DEF D!Lost
    <3> QED BY <1>1, <3>2 DEF D!AllWanted
  <2>2. /\ D!Done(D!Cmd(0, 1, D!BacklightValue(last.backlight)))
        /\ D!Done(D!Cmd(0, 2, D!BacklightValue(last.backlight)))
    BY <2>1 DEF D!WantedFiles
  <2> QED BY <2>2 DEF D!Done, D!Cmd
<1> QED BY <1>2, <1>3

(* Outside g_lock every channel of the LED is as the last request to any of *)
(* its three devices wants it, whatever came before, unless a write of that *)
(* request for that channel failed; and after a backlight call without an   *)
(* error both files hold the same value, dark exactly when darkness was     *)
(* asked for: for every set of threads, colours and flashes, the "always    *)
(* on" flash included, and any number of writes that fail.                  *)
THEOREM LightsShowLastRequest == Spec => []ShowsLastRequest
<1>1. Init => D!LtInv
  BY LtInitInv DEF Init
<1>2. D!LtInv /\ [Next]_allvars => D!LtInv'
  <2> SUFFICES ASSUME D!LtInv, [Next]_allvars PROVE D!LtInv'
    OBVIOUS
  <2>1. CASE D!LtNext
    <3>1. CASE \E n \in D!Names : D!open_lights(n) \/ D!lights_device_close(n)
      BY <3>1, LtKept DEF D!open_lights, D!lights_device_close
    <3>2. CASE \E t \in Threads : D!Write(t)
      BY <3>2, LtWrite
    <3>3. CASE \E t \in Threads, c \in Colours : D!lights_set_light_backlight(t, c)
      BY <3>3, LtBacklight
    <3>4. CASE \E t \in Threads, c \in Colours : \E n \in D!LedNames, f \in Flashes :
                  D!lights_set_light_led(t, n, c, f)
      BY <3>4, LtLed
    <3> QED BY <2>1, <3>1, <3>2, <3>3, <3>4 DEF D!LtNext
  <2>2. CASE UNCHANGED lights
    BY <2>2, LtKept DEF lights
  <2> QED BY <2>1, <2>2 DEF Next, allvars
<1>3. D!LtInv => ShowsLastRequest
  <2> SUFFICES ASSUME D!LtInv, g_lock = "nobody" PROVE D!ShowsLastRequest
    BY DEF ShowsLastRequest, D!ShowsLastRequest, D!Nobody
  <2>1. /\ D!BacklightValue(last.backlight) \in 0..MaxBrightness
        /\ D!BacklightValue(last.backlight) = 0 <=> D!rgb_to_brightness(last.backlight) = 0
    BY BacklightRange DEF D!LtInv, D!LtTypeOK
  <2>2. D!BacklightValue(last.backlight) <= MaxBrightness
    BY <2>1, LightsAssumption
  <2> QED BY <2>1, <2>2, DoneIsShown DEF D!ShowsLastRequest
<1> QED BY <1>1, <1>2, <1>3, PTL DEF Spec, allvars

(***************************************************************************)
(* GraphicBuffer                                                           *)
(***************************************************************************)

(* A step of one object's thread: the other objects and their calls stay.   *)
Only(o) ==
  /\ gb' \in [Objects -> G!Buffers] /\ call' \in [Objects -> G!Calls]
  /\ \A p \in Objects \ {o} : gb'[p] = gb[p] /\ call'[p] = call[p]
SetsTyped == /\ allocated' \subseteq Handles /\ sAllocList' \subseteq Handles
             /\ natives' \subseteq Handles /\ registered' \subseteq Handles
             /\ reissued' \subseteq Handles /\ allocated' \cap natives' = {}
(* Only its owner frees a handle.                                           *)
FreesOwn(o) == /\ \A h \in allocated \ allocated' : G!Owns(o, h)
               /\ \A h \in natives \cap registered :
                     h \notin natives' \cap registered' => G!Owns(o, h)
(* What becomes the object's was its own or nobody's.                       *)
TakesFree(o) == \A h \in Handles : G!Owns(o, h)' => G!Owns(o, h) \/ h \notin allocated \cup natives
(* A handle that an unfinished free has released is marked when it is given *)
(* out again, and stays marked until it is freed.                           *)
Marks == /\ \A h \in allocated' \ allocated : h \in G!Doing("remove") => h \in reissued'
         /\ \A h \in allocated' \cap allocated : h \in reissued => h \in reissued'

LEMMA DoingIn ==
  ASSUME NEW op, NEW h
  PROVE  h \in G!Doing(op) <=> \E p \in Objects : call[p].op = op /\ call[p].h = h
BY DEF G!Doing

LEMMA DoingInPrime ==
  ASSUME NEW op, NEW h
  PROVE  h \in G!Doing(op)' <=> \E p \in Objects : call'[p].op = op /\ call'[p].h = h
BY DEF G!Doing

LEMMA OwnerStep ==
  ASSUME G!GbInv, NEW o \in Objects, Only(o), SetsTyped, FreesOwn(o), TakesFree(o), Marks,
         G!CallSound(o)', G!OwnerSound(o)'
  PROVE  /\ G!GbTypeOK'
         /\ allocated' \cap natives' = {}
         /\ \A p \in Objects : G!CallSound(p)' /\ G!OwnerSound(p)'
         /\ \A p, q \in Objects : G!OwnersApart(p, q)'
<1>1. G!GbTypeOK' /\ allocated' \cap natives' = {}
  BY DEF Only, SetsTyped, G!GbTypeOK
<1>2. /\ gb \in [Objects -> G!Buffers] /\ call \in [Objects -> G!Calls]
      /\ allocated \cap natives = {}
      /\ \A p \in Objects : G!CallSound(p) /\ G!OwnerSound(p)
      /\ \A p, q \in Objects : G!OwnersApart(p, q)
  BY DEF G!GbInv, G!GbTypeOK
<1>3. ASSUME NEW p \in Objects, p # o
      PROVE  G!CallSound(p)' /\ G!OwnerSound(p)'
  <2>1. gb'[p] = gb[p] /\ call'[p] = call[p] /\ G!CallSound(p) /\ G!OwnerSound(p)
    BY <1>2, <1>3 DEF Only
  <2>2. \A h \in Handles : G!Owns(p, h) => ~G!Owns(o, h)
    BY <1>2, <1>3 DEF G!OwnersApart
  <2>3. gb[p].handle \in Handles \cup {0} /\ call[p].h \in Handles \cup {0}
    BY <1>2 DEF G!Buffers, G!Calls
  <2>4. G!CallSound(p)'
    <3>1. ASSUME call[p].op = "remove", call[p].h \in allocated' PROVE call[p].h \in reissued'
      <4>1. call[p].h \in G!Doing("remove")
        BY <3>1, DoingIn
      <4>2. call[p].h \in allocated => call[p].h \in reissued
        BY <2>1, <3>1 DEF G!CallSound
      <4> QED BY <3>1, <4>1, <4>2 DEF Marks
    <3> QED BY <2>1, <3>1 DEF G!CallSound
  <2>5. G!OwnerSound(p)'
    <3> SUFFICES ASSUME gb[p].handle # 0, call[p].op \notin {"remove", "refused"}
                 PROVE  /\ gb[p].mOwner = "ownData" => gb[p].handle \in allocated'
                        /\ gb[p].mOwner = "ownHandle" => gb[p].handle \in natives' \cap registered'
      BY <2>1 DEF G!OwnerSound
    <3>1. CASE gb[p].mOwner = "ownData"
      <4>1. gb[p].handle \in allocated /\ G!Owns(p, gb[p].handle)
        BY <2>1, <3>1 DEF G!OwnerSound, G!Owns
      <4> QED BY <2>2, <2>3, <3>1, <4>1 DEF FreesOwn
    <3>2. CASE gb[p].mOwner = "ownHandle"
      <4>1. gb[p].handle \in natives \cap registered /\ G!Owns(p, gb[p].handle)
        BY <2>1, <3>2 DEF G!OwnerSound, G!Owns
      <4> QED BY <2>2, <2>3, <3>2, <4>1 DEF FreesOwn
    <3> QED BY <3>1, <3>2
  <2> QED BY <2>4, <2>5
<1>4. ASSUME NEW p \in Objects, p # o, NEW h \in Handles, G!Owns(p, h)'
      PROVE  ~G!Owns(o, h)'
  <2>1. gb'[p] = gb[p] /\ call'[p] = call[p] /\ G!OwnerSound(p)
    BY <1>2, <1>4 DEF Only
  <2>2. G!Owns(p, h)
    BY <1>4, <2>1 DEF G!Owns
  <2>3. h \in allocated \cup natives
    <3>1. h # 0
      BY BufferAssumption
    <3> QED BY <2>1, <2>2, <3>1 DEF G!OwnerSound, G!Owns
  <2>4. ~G!Owns(o, h)
    BY <1>2, <1>4, <2>2 DEF G!OwnersApart
  <2> QED BY <2>3, <2>4 DEF TakesFree
<1>5. ASSUME NEW p \in Objects, NEW q \in Objects
      PROVE  G!OwnersApart(p, q)'
  <2> SUFFICES ASSUME NEW h \in Handles, G!Owns(p, h)', G!Owns(q, h)' PROVE p = q
    BY DEF G!OwnersApart
  <2>1. CASE p = o \/ q = o
    BY <1>4, <2>1
  <2>2. CASE p # o /\ q # o
    <3>1. gb'[p] = gb[p] /\ call'[p] = call[p] /\ gb'[q] = gb[q] /\ call'[q] = call[q]
      BY <2>2 DEF Only
    <3>2. G!Owns(p, h) /\ G!Owns(q, h)
      BY <3>1 DEF G!Owns
    <3> QED BY <1>2, <3>2 DEF G!OwnersApart
  <2> QED BY <2>1, <2>2
<1> QED BY <1>1, <1>3, <1>5

(* A record is made for a buffer of the device and removed with it, by the  *)
(* call that is about this handle.                                          *)
RecordsKept(o) ==
  /\ \A h \in sAllocList' : h \in sAllocList \/ h \in allocated'
  /\ \A h \in allocated \ allocated' : call'[o].op = "remove" /\ call'[o].h = h
  /\ call[o].op = "remove" => call[o].h \notin sAllocList'
  /\ \A h \in allocated' \ allocated : call'[o].op = "add" /\ call'[o].h = h
  /\ \A h \in sAllocList \ sAllocList' : h \in allocated' \cap allocated => h \in reissued'
  /\ call[o].op = "add" => call[o].h \in sAllocList'

LEMMA RecordStep ==
  ASSUME G!GbInv, NEW o \in Objects, Only(o), Marks, RecordsKept(o)
  PROVE  G!RecordsFollowDevice'
<1>1. /\ sAllocList \subseteq allocated \cup G!Doing("remove")
      /\ allocated \subseteq sAllocList \cup G!Doing("add") \cup reissued
  BY DEF G!GbInv, G!RecordsFollowDevice
<1>2. \A p \in Objects : p # o => call'[p] = call[p]
  BY DEF Only
<1>3. ASSUME NEW h \in sAllocList', h \notin allocated'
      PROVE  h \in G!Doing("remove")'
  <2>1. CASE h \in allocated
    <3>1. call'[o].op = "remove" /\ call'[o].h = h
      BY <1>3, <2>1 DEF RecordsKept
    <3> QED BY <3>1, DoingInPrime
  <2>2. CASE h \notin allocated
    <3>1. h \in sAllocList
      BY <1>3 DEF RecordsKept
    <3>2. PICK p \in Objects : call[p].op = "remove" /\ call[p].h = h
      BY <1>1, <2>2, <3>1, DoingIn
    <3>3. p # o
      BY <1>3, <3>2 DEF RecordsKept
    <3> QED BY <1>2, <3>2, <3>3, DoingInPrime
  <2> QED BY <2>1, <2>2
<1>4. ASSUME NEW h \in allocated', h \notin sAllocList', h \notin reissued'
      PROVE  h \in G!Doing("add")'
  <2>1. CASE h \notin allocated
    <3>1. call'[o].op = "add" /\ call'[o].h = h
      BY <1>4, <2>1 DEF RecordsKept
    <3> QED BY <3>1, DoingInPrime
  <2>2. CASE h \in allocated
    <3>1. h \notin sAllocList
      BY <1>4, <2>2 DEF RecordsKept
    <3>2. h \notin reissued
      BY <1>4, <2>2 DEF Marks
    <3>3. PICK p \in Objects : call[p].op = "add" /\ call[p].h = h
      BY <1>1, <2>2, <3>1, <3>2, DoingIn
    <3>4. p # o
      BY <1>4, <3>3 DEF RecordsKept
    <3> QED BY <1>2, <3>3, <3>4, DoingInPrime
  <2> QED BY <2>1, <2>2
<1> QED BY <1>3, <1>4 DEF G!RecordsFollowDevice

LEMMA GbObjectStep ==
  ASSUME G!GbInv, NEW o \in Objects, Only(o), SetsTyped, FreesOwn(o), TakesFree(o), Marks,
         G!CallSound(o)', G!OwnerSound(o)', RecordsKept(o)
  PROVE  G!GbInv'
BY OwnerStep, RecordStep DEF G!GbInv

(* The state of one object before a step.                                   *)
LEMMA GbFacts ==
  ASSUME G!GbInv, NEW o \in Objects
  PROVE  /\ gb \in [Objects -> G!Buffers] /\ call \in [Objects -> G!Calls]
         /\ gb[o] \in G!Buffers /\ call[o] \in G!Calls
         /\ gb[o].handle \in Handles \cup {0} /\ gb[o].mOwner \in G!Owners
         /\ G!CallSound(o) /\ G!OwnerSound(o)
         /\ allocated \subseteq Handles /\ sAllocList \subseteq Handles
         /\ natives \subseteq Handles /\ registered \subseteq Handles
         /\ reissued \subseteq Handles /\ allocated \cap natives = {}
BY DEF G!GbInv, G!GbTypeOK, G!Buffers

LEMMA DeadTyped ==
  /\ G!Dead \in G!Buffers /\ G!Dead.handle = 0
  /\ G!Quiet \in G!Calls /\ G!Quiet.op = "none"
BY DEF G!Dead, G!Quiet, G!Buffers, G!Calls, G!States, G!Owners

LEMMA OnlyOne ==
  ASSUME G!GbInv, NEW o \in Objects, NEW b \in G!Buffers, NEW k \in G!Calls,
         gb' = [gb EXCEPT ![o] = b], call' = [call EXCEPT ![o] = k]
  PROVE  Only(o) /\ gb'[o] = b /\ call'[o] = k
<1>1. gb \in [Objects -> G!Buffers] /\ call \in [Objects -> G!Calls]
  BY GbFacts
<1> QED BY <1>1 DEF Only

(* An object changes, the device and the records do not: it owns nothing    *)
(* that it did not own before.                                              *)
LEMMA GbQuietStep ==
  ASSUME G!GbInv, NEW o \in Objects, NEW b \in G!Buffers, NEW k \in G!Calls,
         gb' = [gb EXCEPT ![o] = b], call' = [call EXCEPT ![o] = k],
         call[o].op = "none", k.op \in {"none", "parcel"}, b.handle = 0,
         UNCHANGED <<allocated, sAllocList, natives, registered, reissued>>
  PROVE  G!GbInv'
<1>1. Only(o) /\ gb'[o] = b /\ call'[o] = k
  BY OnlyOne
<1>2. SetsTyped
  BY GbFacts DEF SetsTyped
<1>3. FreesOwn(o) /\ Marks
  BY DEF FreesOwn, Marks
<1>4. \A h \in Handles : h # 0
  BY BufferAssumption
<1>5. TakesFree(o)
  BY <1>1, <1>4 DEF TakesFree, G!Owns
<1>6. G!CallSound(o)' /\ G!OwnerSound(o)'
  BY <1>1 DEF G!CallSound, G!OwnerSound
<1>7. RecordsKept(o)
  BY DEF RecordsKept
<1> QED BY <1>1, <1>2, <1>3, <1>5, <1>6, <1>7, GbObjectStep

LEMMA GbConstruct ==
  ASSUME G!GbInv, NEW o \in Objects, G!Construct(o)
  PROVE  G!GbInv'
<1>1. PICK b : b = [state |-> "live", mOwner |-> "ownData", handle |-> 0, size |-> G!NoSize]
  OBVIOUS
<1>2. b \in G!Buffers /\ b.handle = 0
  BY <1>1 DEF G!Buffers, G!States, G!Owners
<1>3. /\ gb' = [gb EXCEPT ![o] = b] /\ call[o] = G!Quiet
      /\ UNCHANGED <<call, allocated, sAllocList, natives, registered, reissued>>
  BY <1>1 DEF G!Construct
<1>4. call' = [call EXCEPT ![o] = G!Quiet]
  BY <1>3, GbFacts
<1> QED BY <1>2, <1>3, <1>4, DeadTyped, GbQuietStep

LEMMA GbWrap ==
  ASSUME G!GbInv, NEW o \in Objects, NEW h \in Handles, NEW size \in Sizes,
         NEW keep \in BOOLEAN, G!Wrap(o, h, size, keep)
  PROVE  G!GbInv'
<1>1. PICK b : b = [state |-> "live", handle |-> h, size |-> size,
                    mOwner |-> IF keep THEN "ownHandle" ELSE "ownNone"]
  OBVIOUS
<1>2. b \in G!Buffers /\ b.handle = h /\ b.mOwner # "ownData"
  BY <1>1 DEF G!Buffers, G!States, G!Owners
<1>3. /\ gb' = [gb EXCEPT ![o] = b] /\ call[o] = G!Quiet
      /\ h \notin allocated \cup natives
      /\ natives' = natives \cup {h} /\ registered' = registered \cup {h}
      /\ UNCHANGED <<call, allocated, sAllocList, reissued>>
  BY <1>1 DEF G!Wrap
<1>4. call' = [call EXCEPT ![o] = G!Quiet]
  BY <1>3, GbFacts
<1>5. Only(o) /\ gb'[o] = b /\ call'[o].op = "none"
  BY <1>2, <1>3, <1>4, DeadTyped, OnlyOne
<1>6. SetsTyped
  BY <1>3, GbFacts DEF SetsTyped
<1>7. FreesOwn(o) /\ Marks
  BY <1>3 DEF FreesOwn, Marks
<1>8. TakesFree(o)
  BY <1>2, <1>3, <1>5 DEF TakesFree, G!Owns
<1>9. G!CallSound(o)' /\ G!OwnerSound(o)'
  BY <1>2, <1>3, <1>5 DEF G!CallSound, G!OwnerSound
<1>10. RecordsKept(o)
  BY <1>3, DeadTyped DEF RecordsKept
<1> QED BY <1>5, <1>6, <1>7, <1>8, <1>9, <1>10, GbObjectStep

(* initSize, alone or after the removal of the record of the old buffer.    *)
LEMMA GbInitSize ==
  ASSUME G!GbInv, NEW o \in Objects, NEW b \in G!Buffers, b.handle = 0, b.mOwner = "ownData",
         NEW size \in Sizes \cup {G!NoSize}, G!initSize(o, b, size),
         UNCHANGED <<natives, registered>>, call[o].op \in {"none", "remove", "refused"},
         sAllocList' = IF call[o].op = "remove" THEN sAllocList \ {call[o].h} ELSE sAllocList
  PROVE  G!GbInv'
<1>0. \A h \in Handles : h # 0
  BY BufferAssumption
<1>1. CASE \E h \in Handles \ (allocated \cup natives) :
              /\ allocated' = allocated \cup {h}
              /\ gb' = [gb EXCEPT ![o] = [b EXCEPT !.handle = h, !.size = size]]
              /\ call' = [call EXCEPT ![o] = [op |-> "add", h |-> h, then |-> G!Dead]]
              /\ reissued' = IF \E p \in Objects : call[p].op = "remove" /\ call[p].h = h
                             THEN reissued \cup {h} ELSE reissued
  <2>1. PICK h \in Handles \ (allocated \cup natives) :
              /\ allocated' = allocated \cup {h}
              /\ gb' = [gb EXCEPT ![o] = [b EXCEPT !.handle = h, !.size = size]]
              /\ call' = [call EXCEPT ![o] = [op |-> "add", h |-> h, then |-> G!Dead]]
              /\ reissued' = IF \E p \in Objects : call[p].op = "remove" /\ call[p].h = h
                             THEN reissued \cup {h} ELSE reissued
    BY <1>1
  <2>2. PICK c, k : /\ c = [b EXCEPT !.handle = h, !.size = size]
                    /\ k = [op |-> "add", h |-> h, then |-> G!Dead]
    OBVIOUS
  <2>3. c \in G!Buffers /\ c.handle = h /\ c.mOwner = "ownData"
    BY <2>2 DEF G!Buffers
  <2>4. k \in G!Calls /\ k.op = "add" /\ k.h = h
    BY <2>2, DeadTyped DEF G!Calls
  <2>5. Only(o) /\ gb'[o] = c /\ call'[o] = k
    <3>1. /\ gb' = [gb EXCEPT ![o] = [b EXCEPT !.handle = h, !.size = size]]
          /\ call' = [call EXCEPT ![o] = [op |-> "add", h |-> h, then |-> G!Dead]]
      BY <2>1, Zenon
    <3>2. gb' = [gb EXCEPT ![o] = c] /\ call' = [call EXCEPT ![o] = k]
      BY <2>2, <3>1, Zenon
    <3> QED BY <2>3, <2>4, <3>2, OnlyOne
  <2>6. reissued \subseteq reissued' /\ reissued' \subseteq reissued \cup {h}
    BY <2>1
  <2>7. SetsTyped
    BY <2>1, <2>6, GbFacts DEF SetsTyped
  <2>8. FreesOwn(o)
    BY <2>1 DEF FreesOwn
  <2>9. TakesFree(o)
    BY <2>3, <2>5 DEF TakesFree, G!Owns
  <2>10. Marks
    <3>1. h \in G!Doing("remove") => h \in reissued'
      BY <2>1, DoingIn
    <3> QED BY <2>1, <2>6, <3>1 DEF Marks
  <2>11. G!CallSound(o)' /\ G!OwnerSound(o)'
    BY <1>0, <2>1, <2>3, <2>4, <2>5 DEF G!CallSound, G!OwnerSound
  <2>12. RecordsKept(o)
    <3>1. call[o].op = "remove" /\ call[o].h \in allocated => call[o].h \in reissued
      BY GbFacts DEF G!CallSound
    <3> QED BY <2>1, <2>4, <2>5, <2>6, <3>1 DEF RecordsKept
  <2> QED BY <2>5, <2>7, <2>8, <2>9, <2>10, <2>11, <2>12, GbObjectStep
<1>2. CASE /\ gb' = [gb EXCEPT ![o] = b]
           /\ call' = [call EXCEPT ![o] = G!Quiet]
           /\ UNCHANGED <<allocated, reissued>>
  <2>1. Only(o) /\ gb'[o] = b /\ call'[o].op = "none"
    BY <1>2, DeadTyped, OnlyOne
  <2>2. SetsTyped
    BY <1>2, GbFacts DEF SetsTyped
  <2>3. FreesOwn(o) /\ Marks
    BY <1>2 DEF FreesOwn, Marks
  <2>4. TakesFree(o)
    BY <1>0, <2>1 DEF TakesFree, G!Owns
  <2>5. G!CallSound(o)' /\ G!OwnerSound(o)'
    BY <2>1 DEF G!CallSound, G!OwnerSound
  <2>6. RecordsKept(o)
    <3>1. call[o].op = "remove" /\ call[o].h \in allocated => call[o].h \in reissued
      BY GbFacts DEF G!CallSound
    <3> QED BY <1>2, <2>1, <3>1 DEF RecordsKept
  <2> QED BY <2>1, <2>2, <2>3, <2>4, <2>5, <2>6, GbObjectStep
<1> QED BY <1>1, <1>2 DEF G!initSize

(* The device's half of free: the object keeps the handle in its hand but   *)
(* no longer owns it.                                                       *)
LEMMA GbFree ==
  ASSUME G!GbInv, NEW o \in Objects, call[o].op = "none", gb[o].handle # 0,
         gb[o].mOwner = "ownData", NEW then \in G!Buffers, G!free(o, then),
         UNCHANGED <<sAllocList, natives, registered>>
  PROVE  G!GbInv'
<1>1. PICK h : h = gb[o].handle
  OBVIOUS
<1>2. h \in Handles /\ h \in allocated /\ G!Owns(o, h)
  BY <1>1, GbFacts DEF G!OwnerSound, G!Owns
<1>3. gb' = gb /\ gb' = [gb EXCEPT ![o] = gb[o]]
  BY GbFacts DEF G!free
<1>4. CASE /\ allocated' = allocated \ {h} /\ reissued' = reissued \ {h}
           /\ call' = [call EXCEPT ![o] = [op |-> "remove", h |-> h, then |-> then]]
  <2>1. PICK k : k = [op |-> "remove", h |-> h, then |-> then]
    OBVIOUS
  <2>2. k \in G!Calls /\ k.op = "remove" /\ k.h = h
    BY <1>2, <2>1 DEF G!Calls
  <2>3. Only(o) /\ gb'[o] = gb[o] /\ call'[o] = k
    BY <1>3, <1>4, <2>1, <2>2, GbFacts, OnlyOne
  <2>4. SetsTyped
    BY <1>4, GbFacts DEF SetsTyped
  <2>5. FreesOwn(o) /\ Marks
    BY <1>2, <1>4 DEF FreesOwn, Marks
  <2>6. TakesFree(o)
    BY <2>2, <2>3 DEF TakesFree, G!Owns
  <2>7. G!CallSound(o)' /\ G!OwnerSound(o)'
    BY <1>1, <1>4, <2>2, <2>3 DEF G!CallSound, G!OwnerSound
  <2>8. RecordsKept(o)
    BY <1>4, <2>2, <2>3 DEF RecordsKept
  <2> QED BY <2>3, <2>4, <2>5, <2>6, <2>7, <2>8, GbObjectStep
<1>5. CASE /\ UNCHANGED <<allocated, reissued>>
           /\ call' = [call EXCEPT ![o] = [op |-> "refused", h |-> h, then |-> then]]
  <2>1. PICK k : k = [op |-> "refused", h |-> h, then |-> then]
    OBVIOUS
  <2>2. k \in G!Calls /\ k.op = "refused" /\ k.h = h
    BY <1>2, <2>1 DEF G!Calls
  <2>3. Only(o) /\ gb'[o] = gb[o] /\ call'[o] = k
    BY <1>3, <1>5, <2>1, <2>2, GbFacts, OnlyOne
  <2>4. SetsTyped
    BY <1>5, GbFacts DEF SetsTyped
  <2>5. FreesOwn(o) /\ Marks
    BY <1>5 DEF FreesOwn, Marks
  <2>6. TakesFree(o)
    BY <2>2, <2>3 DEF TakesFree, G!Owns
  <2>7. G!CallSound(o)' /\ G!OwnerSound(o)'
    BY <1>1, <2>2, <2>3 DEF G!CallSound, G!OwnerSound
  <2>8. RecordsKept(o)
    BY <1>5 DEF RecordsKept
  <2> QED BY <2>3, <2>4, <2>5, <2>6, <2>7, <2>8, GbObjectStep
<1> QED BY <1>1, <1>4, <1>5 DEF G!free

LEMMA GbAllocRecord ==
  ASSUME G!GbInv, NEW o \in Objects, G!alloc_record(o)
  PROVE  G!GbInv'
<1>1. /\ call[o].op = "add" /\ sAllocList' = sAllocList \cup {call[o].h}
      /\ call' = [call EXCEPT ![o] = G!Quiet]
      /\ UNCHANGED <<gb, allocated, natives, registered, reissued>>
  BY DEF G!alloc_record
<1>2. /\ call[o].h = gb[o].handle /\ gb[o].handle # 0 /\ gb[o].mOwner = "ownData"
      /\ gb[o].handle \in allocated
  BY <1>1, GbFacts DEF G!CallSound, G!OwnerSound
<1>3. gb' = [gb EXCEPT ![o] = gb[o]]
  BY <1>1, GbFacts
<1>4. Only(o) /\ gb'[o] = gb[o] /\ call'[o].op = "none"
  BY <1>1, <1>3, GbFacts, DeadTyped, OnlyOne
<1>5. SetsTyped
  BY <1>1, <1>2, GbFacts DEF SetsTyped
<1>6. FreesOwn(o) /\ Marks
  BY <1>1 DEF FreesOwn, Marks
<1>7. TakesFree(o)
  BY <1>1, <1>4 DEF TakesFree, G!Owns
<1>8. G!CallSound(o)' /\ G!OwnerSound(o)'
  BY <1>1, <1>2, <1>4 DEF G!CallSound, G!OwnerSound
<1>9. RecordsKept(o)
  BY <1>1, <1>2 DEF RecordsKept
<1> QED BY <1>4, <1>5, <1>6, <1>7, <1>8, <1>9, GbObjectStep

LEMMA GbFreeRecord ==
  ASSUME G!GbInv, NEW o \in Objects, G!free_record(o)
  PROVE  G!GbInv'
<1>1. PICK b, t : b = [gb[o] EXCEPT !.handle = 0] /\ t = call[o].then
  OBVIOUS
<1>2. /\ call[o].op \in {"remove", "refused"} /\ UNCHANGED <<natives, registered>>
      /\ sAllocList' = IF call[o].op = "remove" THEN sAllocList \ {call[o].h} ELSE sAllocList
      /\ G!Resume(o, b, t)
  BY <1>1 DEF G!free_record
<1>3. b \in G!Buffers /\ b.handle = 0 /\ t \in G!Buffers
  BY <1>1, GbFacts DEF G!Buffers, G!Calls
<1>4. b.mOwner = "ownData"
  BY <1>1, <1>2, GbFacts DEF G!CallSound, G!Buffers
<1>5. CASE t.state = "realloc"
  <2>1. G!initSize(o, b, t.size)
    BY <1>2, <1>5 DEF G!Resume
  <2>2. t.size \in Sizes \cup {G!NoSize}
    BY <1>3 DEF G!Buffers
  <2> QED BY <1>2, <1>3, <1>4, <2>1, <2>2, GbInitSize
<1>6. CASE t.state # "realloc"
  <2>1. PICK c, k : /\ c = IF t = G!Dead THEN G!Dead ELSE b
                    /\ k = IF t.state = "parcel"
                           THEN [op |-> "parcel", h |-> 0, then |-> G!Dead] ELSE G!Quiet
    OBVIOUS
  <2>2. c \in G!Buffers /\ c.handle = 0
    BY <1>3, <2>1, DeadTyped
  <2>3. k \in G!Calls /\ k.op \in {"none", "parcel"}
    BY <2>1, DeadTyped DEF G!Calls
  <2>4. /\ gb' = [gb EXCEPT ![o] = c] /\ call' = [call EXCEPT ![o] = k]
        /\ UNCHANGED <<allocated, reissued>>
    BY <1>2, <1>6, <2>1 DEF G!Resume
  <2>5. Only(o) /\ gb'[o] = c /\ call'[o] = k
    BY <2>2, <2>3, <2>4, OnlyOne
  <2>6. SetsTyped
    BY <1>2, <2>4, GbFacts DEF SetsTyped
  <2>7. FreesOwn(o) /\ Marks
    BY <1>2, <2>4 DEF FreesOwn, Marks
  <2>8. TakesFree(o)
    BY <2>2, <2>5, BufferAssumption DEF TakesFree, G!Owns
  <2>9. G!CallSound(o)' /\ G!OwnerSound(o)'
    BY <2>2, <2>3, <2>5 DEF G!CallSound, G!OwnerSound
  <2>10. RecordsKept(o)
    <3>1. call[o].op = "remove" /\ call[o].h \in allocated => call[o].h \in reissued
      BY GbFacts DEF G!CallSound
    <3> QED BY <1>2, <2>4, <3>1 DEF RecordsKept
  <2> QED BY <2>5, <2>6, <2>7, <2>8, <2>9, <2>10, GbObjectStep
<1> QED BY <1>5, <1>6

LEMMA GbConstructSized ==
  ASSUME G!GbInv, NEW o \in Objects, NEW size \in Sizes, G!ConstructSized(o, size)
  PROVE  G!GbInv'
<1>1. PICK b : b = [state |-> "live", mOwner |-> "ownData", handle |-> 0, size |-> G!NoSize]
  OBVIOUS
<1>2. b \in G!Buffers /\ b.handle = 0 /\ b.mOwner = "ownData"
  BY <1>1 DEF G!Buffers, G!States, G!Owners
<1>3. G!initSize(o, b, size) /\ call[o].op = "none" /\ UNCHANGED <<sAllocList, natives, registered>>
  BY <1>1, DeadTyped DEF G!ConstructSized
<1> QED BY <1>2, <1>3, GbInitSize

LEMMA GbReallocate ==
  ASSUME G!GbInv, NEW o \in Objects, NEW size \in Sizes, G!reallocate(o, size)
  PROVE  G!GbInv'
<1>1. /\ call[o].op = "none" /\ gb[o].mOwner = "ownData"
      /\ UNCHANGED <<sAllocList, natives, registered>>
  BY DeadTyped DEF G!reallocate, G!Live
<1>2. CASE gb[o].handle # 0
  <2>1. PICK t : t = [gb[o] EXCEPT !.state = "realloc", !.size = size]
    OBVIOUS
  <2>2. t \in G!Buffers
    BY <2>1, GbFacts DEF G!Buffers, G!States
  <2>3. G!free(o, t)
    BY <1>2, <2>1 DEF G!reallocate
  <2> QED BY <1>1, <1>2, <2>2, <2>3, GbFree
<1>3. CASE gb[o].handle = 0
  <2>1. G!initSize(o, gb[o], size) /\ gb[o] \in G!Buffers
    BY <1>3, GbFacts DEF G!reallocate
  <2> QED BY <1>1, <1>3, <2>1, GbInitSize
<1> QED BY <1>2, <1>3

(* An object lets go of a handle that is not the allocator's: it closes the *)
(* one it owns, and the native handles of the others stay.                  *)
LEMMA GbLetGo ==
  ASSUME G!GbInv, NEW o \in Objects, NEW b \in G!Buffers, NEW k \in G!Calls,
         gb' = [gb EXCEPT ![o] = b], call' = [call EXCEPT ![o] = k],
         call[o].op = "none", k.op \in {"none", "parcel"}, b.handle = 0,
         IF gb[o].handle # 0 THEN G!CloseHandle(o) ELSE UNCHANGED <<natives, registered>>,
         UNCHANGED <<allocated, sAllocList, reissued>>
  PROVE  G!GbInv'
<1>1. CASE UNCHANGED <<natives, registered>>
  BY <1>1, GbQuietStep
<1>2. CASE /\ gb[o].handle # 0 /\ gb[o].mOwner = "ownHandle"
           /\ natives' = natives \ {gb[o].handle}
           /\ registered' = registered \ {gb[o].handle}
  <2>1. Only(o) /\ gb'[o] = b /\ call'[o] = k
    BY OnlyOne
  <2>2. SetsTyped
    BY <1>2, GbFacts DEF SetsTyped
  <2>3. FreesOwn(o) /\ Marks
    BY <1>2 DEF FreesOwn, Marks, G!Owns
  <2>4. TakesFree(o)
    BY <2>1, BufferAssumption DEF TakesFree, G!Owns
  <2>5. G!CallSound(o)' /\ G!OwnerSound(o)'
    BY <2>1 DEF G!CallSound, G!OwnerSound
  <2>6. RecordsKept(o)
    BY DEF RecordsKept
  <2> QED BY <2>1, <2>2, <2>3, <2>4, <2>5, <2>6, GbObjectStep
<1> QED BY <1>1, <1>2 DEF G!CloseHandle

LEMMA GbDestroy ==
  ASSUME G!GbInv, NEW o \in Objects, G!Destroy(o)
  PROVE  G!GbInv'
<1>1. call[o].op = "none" /\ call[o] = G!Quiet /\ sAllocList' = sAllocList
  BY DeadTyped DEF G!Destroy, G!Live
<1>2. CASE gb[o].handle # 0 /\ gb[o].mOwner = "ownData"
  <2>1. G!free(o, G!Dead) /\ UNCHANGED <<natives, registered>>
    BY <1>2 DEF G!Destroy
  <2> QED BY <1>1, <1>2, <2>1, DeadTyped, GbFree
<1>3. CASE ~(gb[o].handle # 0 /\ gb[o].mOwner = "ownData")
  <2>1. /\ IF gb[o].handle # 0 THEN G!CloseHandle(o) ELSE UNCHANGED <<natives, registered>>
        /\ gb' = [gb EXCEPT ![o] = G!Dead]
        /\ UNCHANGED <<call, allocated, reissued>>
    BY <1>3 DEF G!Destroy
  <2>2. call' = [call EXCEPT ![o] = G!Quiet]
    BY <1>1, <2>1, GbFacts
  <2> QED BY <1>1, <2>1, <2>2, DeadTyped, GbLetGo
<1> QED BY <1>2, <1>3

LEMMA GbUnflatten ==
  ASSUME G!GbInv, NEW o \in Objects, NEW outcome \in {"too large", "good"},
         G!unflatten(o, outcome)
  PROVE  G!GbInv'
<1>1. call[o].op = "none" /\ call[o] = G!Quiet /\ sAllocList' = sAllocList
  BY DeadTyped DEF G!unflatten, G!Live
<1>2. CASE outcome = "too large"
  <2>1. PICK b : b = [gb[o] EXCEPT !.handle = 0, !.size = G!NoSize]
    OBVIOUS
  <2>2. b \in G!Buffers /\ b.handle = 0
    BY <2>1, GbFacts DEF G!Buffers
  <2>3. /\ gb' = [gb EXCEPT ![o] = b]
        /\ UNCHANGED <<call, allocated, natives, registered, reissued>>
    BY <1>2, <2>1, GbFacts DEF G!unflatten
  <2>4. call' = [call EXCEPT ![o] = G!Quiet]
    BY <1>1, <2>3, GbFacts
  <2> QED BY <1>1, <2>2, <2>3, <2>4, DeadTyped, GbQuietStep
<1>3. CASE outcome = "good" /\ gb[o].handle # 0 /\ gb[o].mOwner = "ownData"
  <2>1. PICK t : t = [gb[o] EXCEPT !.state = "parcel"]
    OBVIOUS
  <2>2. t \in G!Buffers
    BY <2>1, GbFacts DEF G!Buffers, G!States
  <2>3. G!free(o, t) /\ UNCHANGED <<natives, registered>>
    BY <1>3, <2>1 DEF G!unflatten
  <2> QED BY <1>1, <1>3, <2>2, <2>3, GbFree
<1>4. CASE outcome = "good" /\ ~(gb[o].handle # 0 /\ gb[o].mOwner = "ownData")
  <2>1. PICK b, k : /\ b = [gb[o] EXCEPT !.handle = 0]
                    /\ k = [op |-> "parcel", h |-> 0, then |-> G!Dead]
    OBVIOUS
  <2>2. b \in G!Buffers /\ b.handle = 0
    BY <2>1, GbFacts DEF G!Buffers
  <2>3. k \in G!Calls /\ k.op = "parcel"
    BY <2>1, DeadTyped DEF G!Calls
  <2>4. /\ IF gb[o].handle # 0 THEN G!CloseHandle(o) ELSE UNCHANGED <<natives, registered>>
        /\ gb' = [gb EXCEPT ![o].handle = 0]
        /\ call' = [call EXCEPT ![o] = k]
        /\ UNCHANGED <<allocated, reissued>>
    BY <1>4, <2>1 DEF G!unflatten
  <2>5. gb' = [gb EXCEPT ![o] = b]
    BY <2>1, <2>4, GbFacts
  <2> QED BY <1>1, <2>2, <2>3, <2>4, <2>5, GbLetGo
<1> QED BY <1>2, <1>3, <1>4

LEMMA GbUnflattenHandle ==
  ASSUME G!GbInv, NEW o \in Objects, NEW h \in Handles, NEW size \in Sizes,
         NEW outcome \in {"no memory", "empty", "register fails", "done"},
         G!unflatten_handle(o, h, size, outcome)
  PROVE  G!GbInv'
<1>1. /\ call[o].op = "parcel" /\ call' = [call EXCEPT ![o] = G!Quiet]
      /\ UNCHANGED <<allocated, sAllocList, reissued>>
      /\ gb[o].handle = 0
  BY GbFacts DEF G!unflatten_handle, G!CallSound
<1>2. CASE outcome = "done"
  <2>1. PICK b : b = [state |-> "live", size |-> size, handle |-> h, mOwner |-> "ownHandle"]
    OBVIOUS
  <2>2. b \in G!Buffers /\ b.handle = h /\ b.mOwner = "ownHandle"
    BY <2>1 DEF G!Buffers, G!States, G!Owners
  <2>3. /\ gb' = [gb EXCEPT ![o] = b] /\ h \notin allocated \cup natives
        /\ natives' = natives \cup {h} /\ registered' = registered \cup {h}
    BY <1>2, <2>1 DEF G!unflatten_handle
  <2>4. Only(o) /\ gb'[o] = b /\ call'[o].op = "none"
    BY <1>1, <2>2, <2>3, DeadTyped, OnlyOne
  <2>5. SetsTyped
    BY <1>1, <2>3, GbFacts DEF SetsTyped
  <2>6. FreesOwn(o) /\ Marks
    BY <1>1, <2>3 DEF FreesOwn, Marks
  <2>7. TakesFree(o)
    BY <2>2, <2>3, <2>4 DEF TakesFree, G!Owns
  <2>8. G!CallSound(o)' /\ G!OwnerSound(o)'
    <3>1. h \in natives' \cap registered'
      BY <2>3
    <3>2. G!CallSound(o)'
      BY <2>4 DEF G!CallSound
    <3>3. G!OwnerSound(o)'
      BY <2>2, <2>4, <3>1 DEF G!OwnerSound
    <3> QED BY <3>2, <3>3
  <2>9. RecordsKept(o)
    BY <1>1 DEF RecordsKept
  <2> QED BY <2>4, <2>5, <2>6, <2>7, <2>8, <2>9, GbObjectStep
<1>3. CASE outcome # "done"
  <2>1. PICK b, w : /\ w = IF outcome = "no memory" THEN gb[o].mOwner ELSE "ownHandle"
                    /\ b = [gb[o] EXCEPT !.size = G!NoSize, !.mOwner = w]
    OBVIOUS
  <2>2. w \in G!Owners
    BY <2>1, GbFacts DEF G!Owners
  <2>3. b \in G!Buffers /\ b.handle = 0
    BY <1>1, <2>1, <2>2, GbFacts DEF G!Buffers
  <2>4. gb' = [gb EXCEPT ![o] = b]
    <3>1. gb' = [gb EXCEPT ![o] = [gb[o] EXCEPT !.size = G!NoSize,
                     !.mOwner = IF outcome = "no memory" THEN gb[o].mOwner ELSE "ownHandle"]]
      BY <1>3 DEF G!unflatten_handle
    <3> QED BY <2>1, <3>1
  <2>5. \/ UNCHANGED <<natives, registered>>
        \/ h \notin allocated /\ natives' = natives \cup {h} /\ registered' = registered
    BY <1>3 DEF G!unflatten_handle
  <2>6. Only(o) /\ gb'[o] = b /\ call'[o].op = "none"
    BY <1>1, <2>3, <2>4, DeadTyped, OnlyOne
  <2>7. SetsTyped
    BY <1>1, <2>5, GbFacts DEF SetsTyped
  <2>8. FreesOwn(o) /\ Marks
    BY <1>1, <2>5 DEF FreesOwn, Marks
  <2>9. TakesFree(o)
    BY <2>3, <2>6, BufferAssumption DEF TakesFree, G!Owns
  <2>10. G!CallSound(o)' /\ G!OwnerSound(o)'
    BY <2>3, <2>6 DEF G!CallSound, G!OwnerSound
  <2>11. RecordsKept(o)
    BY <1>1 DEF RecordsKept
  <2> QED BY <2>6, <2>7, <2>8, <2>9, <2>10, <2>11, GbObjectStep
<1> QED BY <1>2, <1>3

LEMMA GbInitInv == G!GbInit => G!GbInv
<1> SUFFICES ASSUME G!GbInit PROVE G!GbInv
  OBVIOUS
<1>1. /\ \A o \in Objects : gb[o] = G!Dead /\ call[o] = G!Quiet
      /\ gb \in [Objects -> G!Buffers] /\ call \in [Objects -> G!Calls]
  BY DeadTyped DEF G!GbInit
<1>2. G!GbTypeOK /\ allocated \cap natives = {}
  BY <1>1 DEF G!GbInit, G!GbTypeOK
<1>3. \A o \in Objects : G!CallSound(o) /\ G!OwnerSound(o)
  BY <1>1, DeadTyped DEF G!CallSound, G!OwnerSound
<1>4. \A o, p \in Objects : G!OwnersApart(o, p)
  BY <1>1, DeadTyped, BufferAssumption DEF G!OwnersApart, G!Owns
<1>5. G!RecordsFollowDevice
  BY DEF G!GbInit, G!RecordsFollowDevice
<1> QED BY <1>2, <1>3, <1>4, <1>5 DEF G!GbInv

LEMMA OwnersAlive ==
  ASSUME G!GbInv, NEW h \in Handles, NEW o \in Objects, G!Owns(o, h)
  PROVE  IF gb[o].mOwner = "ownData" THEN h \in allocated ELSE h \in natives \cap registered
BY BufferAssumption, GbFacts DEF G!OwnerSound, G!Owns

(* A graphics handle has one owner at most, who finds it alive when it      *)
(* frees it, also when a reallocation or an unflatten fails half way; and   *)
(* the allocator's list follows the gralloc device, up to the handles that  *)
(* the device gives out again before the old record is gone.  For every     *)
(* number of buffers and handles.                                           *)
THEOREM BuffersAreAccounted == Spec => []BuffersAccounted
<1>1. Init => G!GbInv
  BY GbInitInv DEF Init
<1>2. G!GbInv /\ [Next]_allvars => G!GbInv'
  <2> SUFFICES ASSUME G!GbInv, [Next]_allvars PROVE G!GbInv'
    OBVIOUS
  <2>1. CASE G!GbNext
    <3>1. PICK o \in Objects :
            \/ G!Construct(o) \/ G!alloc_record(o) \/ G!free_record(o) \/ G!Destroy(o)
            \/ \E s \in Sizes : G!ConstructSized(o, s) \/ G!reallocate(o, s)
            \/ \E s \in Sizes, h \in Handles : \E k \in BOOLEAN : G!Wrap(o, h, s, k)
            \/ \E r \in {"too large", "good"} : G!unflatten(o, r)
            \/ \E s \in Sizes, h \in Handles :
                  \E r \in {"no memory", "empty", "register fails", "done"} :
                      G!unflatten_handle(o, h, s, r)
      BY <2>1 DEF G!GbNext
    <3> QED BY <3>1, GbConstruct, GbAllocRecord, GbFreeRecord, GbDestroy, GbConstructSized,
               GbReallocate, GbWrap, GbUnflatten, GbUnflattenHandle
  <2>2. CASE UNCHANGED graphic
    <3>1. UNCHANGED <<gb, call, allocated, sAllocList, natives, registered, reissued>>
      BY <2>2 DEF graphic
    <3> QED BY <3>1 DEF G!GbInv, G!GbTypeOK, G!CallSound, G!OwnerSound, G!OwnersApart, G!Owns,
                        G!RecordsFollowDevice, G!Doing
  <2> QED BY <2>1, <2>2 DEF Next, allvars
<1>3. G!GbInv => BuffersAccounted
  <2> SUFFICES ASSUME G!GbInv PROVE G!OwnedOnce
    BY DEF G!GbInv, BuffersAccounted
  <2> SUFFICES ASSUME NEW h \in Handles
               PROVE  /\ G!Cardinality({o \in Objects : G!Owns(o, h)}) <= 1
                      /\ \A o \in Objects : G!Owns(o, h) =>
                            IF gb[o].mOwner = "ownData" THEN h \in allocated
                                                        ELSE h \in natives \cap registered
    BY DEF G!OwnedOnce
  <2>1. PICK W : W = {o \in Objects : G!Owns(o, h)}
    OBVIOUS
  <2>2. \A o, p \in W : o = p
    BY <2>1 DEF G!GbInv, G!OwnersApart
  <2>3. G!Cardinality(W) = Cardinality(W)
    BY DEF Cardinality, G!Cardinality, IsFiniteSet, G!IsFiniteSet
  <2>4. CASE W = {}
    BY <2>1, <2>3, <2>4, FS_EmptySet, OwnersAlive
  <2>5. CASE W # {}
    <3>1. PICK o : W = {o}
      BY <2>2, <2>5
    <3> QED BY <2>1, <2>3, <3>1, FS_Singleton, OwnersAlive
  <2> QED BY <2>4, <2>5
<1> QED BY <1>1, <1>2, <1>3, PTL DEF Spec, allvars

(***************************************************************************)
(* Looper                                                                  *)
(***************************************************************************)

(* A nonempty set of numbers up to a bound has a greatest and a least one.  *)
LEMMA Greatest ==
  ASSUME NEW n \in Nat, NEW X, X \subseteq 0 .. n, X # {}
  PROVE  \E x \in X : \A y \in X : x >= y
<1> DEFINE From(x) == x .. n
           T == {From(x) : x \in X}
           R == StrictSubsetOrdering(0 .. n)
           W == SUBSET (0 .. n)
<1>1. T \subseteq W /\ T # {}
  <2>1. ASSUME NEW x \in X PROVE From(x) \subseteq 0 .. n
    BY <2>1
  <2>2. PICK x : x \in X
    OBVIOUS
  <2> QED BY <2>1, <2>2
<1>2. IsWellFoundedOn(R, W)
  <2>1. PICK I : I = 0 .. n
    OBVIOUS
  <2>2. IsFiniteSet(0 .. n)
    BY FS_Interval
  <2>3. FiniteSubsetsOf(I) = SUBSET I
    BY <2>1, <2>2, FS_FiniteSubsetsOfFinite
  <2>4. IsWellFoundedOn(StrictSubsetOrdering(I), FiniteSubsetsOf(I))
    BY FS_StrictSubsetOrderingWellFounded
  <2> QED BY <2>1, <2>3, <2>4
<1> HIDE DEF R, W, T
<1>3. PICK m \in T : \A k \in T : ~(<<k, m>> \in R)
  BY <1>1, <1>2, WFMin
<1>4. PICK x \in X : m = From(x)
  BY <1>3 DEF T
<1>5. ASSUME NEW y \in X, y > x PROVE FALSE
  <2>1. From(y) \in T /\ From(y) \subseteq From(x)
    BY <1>5 DEF T
  <2>2. x \in From(x) /\ x \notin From(y)
    BY <1>5
  <2>3. From(y) \in W /\ From(x) \in W /\ From(y) # From(x)
    BY <1>1, <1>3, <1>4, <2>1, <2>2
  <2> HIDE DEF From
  <2>4. <<From(y), From(x)>> \in R
    BY <2>1, <2>3 DEF StrictSubsetOrdering, R, W
  <2> QED BY <1>3, <1>4, <2>1, <2>4
<1> QED BY <1>5

LEMMA Least ==
  ASSUME NEW n \in Nat, NEW X, X \subseteq 0 .. n, X # {}
  PROVE  \E x \in X : \A y \in X : x <= y
<1> DEFINE Y == {n - x : x \in X}
<1>1. Y \subseteq 0 .. n /\ Y # {}
  <2>1. ASSUME NEW x \in X PROVE n - x \in 0 .. n
    BY <2>1
  <2>2. PICK x : x \in X
    OBVIOUS
  <2> QED BY <2>1, <2>2
<1> HIDE DEF Y
<1>2. PICK y \in Y : \A z \in Y : y >= z
  BY <1>1, Greatest
<1>3. PICK x \in X : y = n - x
  BY <1>2 DEF Y
<1>4. ASSUME NEW z \in X PROVE x <= z
  <2>1. n - z \in Y
    BY DEF Y
  <2> QED BY <1>2, <1>3, <2>1
<1> QED BY <1>4

(* The next response for the caller is one; it is the first one left.       *)
LEMMA NextIdentIn ==
  ASSUME NEW t \in L!PollingThread
  PROVE  /\ L!NextIdent(t) \in Nat /\ L!NextIdent(t) <= Len(t.responses)
         /\ L!NextIdent(t) = 0 =>
              ~ \E i \in DOMAIN t.responses : i > t.index /\ t.responses[i].kind = "ident"
         /\ L!NextIdent(t) # 0 =>
              /\ L!NextIdent(t) \in DOMAIN t.responses /\ L!NextIdent(t) > t.index
              /\ \A i \in DOMAIN t.responses :
                    i > t.index /\ t.responses[i].kind = "ident" => L!NextIdent(t) <= i
<1> DEFINE rest == {i \in DOMAIN t.responses : i > t.index /\ t.responses[i].kind = "ident"}
<1>1. t.responses \in Seq(L!Response) /\ t.index \in Nat
  BY DEF L!PollingThread
<1>2. DOMAIN t.responses = 1 .. Len(t.responses) /\ Len(t.responses) \in Nat
  BY <1>1, LenProperties
<1>3. L!NextIdent(t) = IF rest = {} THEN 0 ELSE CHOOSE i \in rest : \A j \in rest : i <= j
  BY DEF L!NextIdent
<1>4. CASE rest = {}
  BY <1>2, <1>3, <1>4
<1>5. CASE rest # {}
  <2>1. rest \subseteq 0 .. Len(t.responses)
    BY <1>2
  <2>2. \E i \in rest : \A j \in rest : i <= j
    <3> HIDE DEF rest
    <3> QED BY <1>2, <1>5, <2>1, Least
  <2>3. L!NextIdent(t) \in rest /\ \A j \in rest : L!NextIdent(t) <= j
    <3> HIDE DEF rest
    <3> QED BY <1>3, <1>5, <2>2
  <2> QED BY <1>1, <1>2, <2>3
<1> QED BY <1>4, <1>5

(* A poll begins: it ends by the next wakeup.                               *)
LEMMA PollBegins ==
  ASSUME now \in Int, NEW t \in L!PollingThread, L!pollInner(t)
  PROVE  /\ thread' \in L!PollingThread /\ thread'.pc = "wait"
         /\ thread'.timeout = t.timeout /\ thread'.next = t.next
         /\ thread'.index = 0 /\ thread'.responses = <<>> /\ thread'.current = t.current
         /\ thread'.timeout # 0 => thread'.deadline <= thread'.next
<1>1. t.timeout \in Int /\ t.next \in Int /\ MaxTime \in Nat
  BY LooperAssumption DEF L!PollingThread
<1>2. /\ L!Deadline(t) \in Int
      /\ t.timeout # 0 => L!Deadline(t) <= t.next
  BY <1>1 DEF L!Deadline, L!Never
<1>3. thread' = [t EXCEPT !.pc = "wait", !.deadline = L!Deadline(t), !.result = "WAKE",
                          !.responses = <<>>, !.index = 0, !.cb = 0,
                          !.got = {}, !.woke = FALSE]
  BY DEF L!pollInner
<1>4. /\ thread'.pc = "wait" /\ thread'.deadline = L!Deadline(t)
      /\ thread'.timeout = t.timeout /\ thread'.next = t.next
      /\ thread'.index = 0 /\ thread'.responses = <<>> /\ thread'.current = t.current
  BY <1>3 DEF L!PollingThread
<1>5. thread' \in L!PollingThread
  <2>1. <<>> \in Seq(L!Response)
    BY EmptySeq
  <2> QED BY <1>2, <1>3, <2>1 DEF L!PollingThread
<1> QED BY <1>2, <1>4, <1>5

(* The thread goes back to its caller.                                      *)
LEMMA BackInCaller ==
  ASSUME NEW r \in Seq(L!Response), NEW x \in Nat, NEW n \in Int,
         NEW m \in L!Message \cup {L!NoMessage}
  PROVE  L!InCaller(r, x, n, m) \in L!PollingThread
BY DEF L!PollingThread, L!InCaller

LEMMA ReturnKeeps ==
  ASSUME NEW t \in L!PollingThread, NEW k \in Nat
  PROVE  /\ L!Return(t, k) \in L!PollingThread /\ L!Return(t, k).pc = "idle"
         /\ L!Return(t, k).next = t.next /\ L!Return(t, k).current = t.current
         /\ L!Return(t, k).responses =
              IF k = Len(t.responses) THEN <<>> ELSE t.responses
         /\ L!Return(t, k).index = IF k = Len(t.responses) THEN 0 ELSE k
<1>1. PICK r, x : /\ r = IF k = Len(t.responses) THEN <<>> ELSE t.responses
                  /\ x = IF k = Len(t.responses) THEN 0 ELSE k
  OBVIOUS
<1>2. /\ t.responses \in Seq(L!Response) /\ <<>> \in Seq(L!Response)
      /\ t.next \in Int /\ t.current \in L!Message \cup {L!NoMessage}
  BY EmptySeq DEF L!PollingThread
<1>3. r \in Seq(L!Response) /\ x \in Nat
  BY <1>1, <1>2
<1>4. L!Return(t, k) = L!InCaller(r, x, t.next, t.current)
  BY <1>1 DEF L!Return
<1>5. L!Return(t, k) \in L!PollingThread
  BY <1>2, <1>3, <1>4, BackInCaller
<1>6. /\ L!Return(t, k).pc = "idle" /\ L!Return(t, k).responses = r
      /\ L!Return(t, k).next = t.next /\ L!Return(t, k).current = t.current
      /\ L!Return(t, k).index = x
  BY <1>4 DEF L!InCaller
<1> QED BY <1>1, <1>5, <1>6

(* pollOnce hands out a response, or begins a poll when none is left.       *)
LEMMA PollOnceKeeps ==
  ASSUME L!LpTypeOK, NEW t \in L!PollingThread, L!OwedIn(owed, t), L!pollOnce(t)
  PROVE  /\ thread' \in L!PollingThread /\ thread'.pc \in {"idle", "wait"}
         /\ thread'.next = t.next /\ thread'.current = t.current
         /\ thread'.pc = "wait" =>
              /\ thread'.responses = <<>> /\ thread'.index = 0
              /\ thread'.timeout # 0 => thread'.deadline <= thread'.next
         /\ L!OwedIn(owed', thread')
<1> DEFINE n == L!NextIdent(t)
<1>1. /\ t.responses \in Seq(L!Response) /\ t.index \in Nat /\ now \in Int
      /\ DOMAIN t.responses = 1 .. Len(t.responses) /\ Len(t.responses) \in Nat
      /\ t.end \in Int /\ t.timeout \in Int
  BY LenProperties DEF L!PollingThread, L!LpTypeOK
<1>2. ASSUME NEW k \in 0 .. Len(t.responses)
      PROVE  /\ L!Return(t, k) \in L!PollingThread /\ L!Return(t, k).pc = "idle"
             /\ L!Return(t, k).next = t.next /\ L!Return(t, k).current = t.current
             /\ L!Return(t, k).responses =
                  IF k = Len(t.responses) THEN <<>> ELSE t.responses
             /\ L!Return(t, k).index = IF k = Len(t.responses) THEN 0 ELSE k
  <2>1. k \in Nat
    BY <1>2
  <2> QED BY <1>1, <2>1, ReturnKeeps
<1>3. CASE n # 0
  <2>1. thread' = L!Return(t, n) /\ owed' = owed \ {t.responses[n].fd}
    BY <1>3 DEF L!pollOnce
  <2>2. n \in 0 .. Len(t.responses)
    BY <1>1, NextIdentIn
  <2>3. ASSUME NEW f \in owed'
        PROVE  \E i \in DOMAIN thread'.responses :
                 /\ i > thread'.index /\ thread'.responses[i].kind = "ident"
                 /\ thread'.responses[i].fd = f
    <3>1. f \in owed /\ f # t.responses[n].fd
      BY <2>1, <2>3
    <3>2. PICK i \in DOMAIN t.responses : /\ i > t.index /\ t.responses[i].kind = "ident"
                                          /\ t.responses[i].fd = f
      BY <3>1 DEF L!OwedIn
    <3>3. n <= i /\ n # i
      BY <1>3, <3>1, <3>2, NextIdentIn
    <3>4. i > n /\ n # Len(t.responses)
      BY <1>1, <2>2, <3>2, <3>3
    <3>5. thread'.responses = t.responses /\ thread'.index = n
      BY <1>2, <2>1, <2>2, <3>4
    <3> QED BY <3>2, <3>4, <3>5
  <2> HIDE DEF n
  <2>4. L!OwedIn(owed', thread')
    BY <2>3 DEF L!OwedIn
  <2> QED BY <1>2, <2>1, <2>2, <2>4
<1>4. CASE n = 0
  <2>1. owed = {} /\ owed' = owed
    BY <1>4, NextIdentIn DEF L!OwedIn, L!pollOnce
  <2>2. \A r : L!OwedIn(owed', r)
    BY <2>1 DEF L!OwedIn
  <2>3. CASE t.result = "none"
    <3>1. L!pollInner(t)
      BY <1>4, <2>3 DEF L!pollOnce
    <3> QED BY <1>1, <2>2, <3>1, PollBegins
  <2>4. CASE t.result # "none" /\ L!PollsAgain(t)
    <3> DEFINE u == [t EXCEPT !.timeout = IF @ > 0 THEN t.end - now ELSE @]
    <3>1. L!pollInner(u)
      BY <1>4, <2>4 DEF L!pollOnce
    <3>2. (IF t.timeout > 0 THEN t.end - now ELSE t.timeout) \in Int
      BY <1>1
    <3>3. u \in L!PollingThread /\ u.next = t.next /\ u.current = t.current
      BY <3>2 DEF L!PollingThread
    <3> HIDE DEF u
    <3> QED BY <1>1, <2>2, <3>1, <3>3, PollBegins
  <2>5. CASE t.result # "none" /\ ~L!PollsAgain(t)
    <3>1. thread' = L!Return(t, Len(t.responses))
      BY <1>4, <2>5 DEF L!pollOnce
    <3>2. Len(t.responses) \in 0 .. Len(t.responses)
      BY <1>1
    <3> QED BY <1>2, <2>2, <3>1, <3>2
  <2> QED BY <2>3, <2>4, <2>5
<1> QED BY <1>3, <1>4

LEMMA LpCard == \A W : L!Cardinality(W) = Cardinality(W)
BY DEF Cardinality, L!Cardinality, IsFiniteSet, L!IsFiniteSet

(* The queue as the lemmas below use it.                                    *)
Earlier(m, n) == m.uptime < n.uptime \/ (m.uptime = n.uptime /\ m.id < n.id)

LEMMA QueueFacts ==
  ASSUME L!LpTypeOK, L!QueueInOrder
  PROVE  /\ mMessageEnvelopes \in Seq(L!Message)
         /\ Len(mMessageEnvelopes) \in Nat
         /\ DOMAIN mMessageEnvelopes = 1 .. Len(mMessageEnvelopes)
         /\ \A i \in 1 .. Len(mMessageEnvelopes) :
               /\ mMessageEnvelopes[i] \in L!Message /\ mMessageEnvelopes[i] \in pending
               /\ mMessageEnvelopes[i].uptime \in Int /\ mMessageEnvelopes[i].id \in Int
               /\ mMessageEnvelopes[i].id < -left.sends
         /\ \A i, j \in 1 .. Len(mMessageEnvelopes) :
               i < j => Earlier(mMessageEnvelopes[i], mMessageEnvelopes[j])
         /\ \A m \in pending :
               \E i \in 1 .. Len(mMessageEnvelopes) : m = mMessageEnvelopes[i]
         /\ now \in Int /\ left.sends \in Nat
<1>1. mMessageEnvelopes \in Seq(L!Message) /\ now \in Int /\ left.sends \in Nat
  BY DEF L!LpTypeOK
<1>2. /\ Len(mMessageEnvelopes) \in Nat
      /\ DOMAIN mMessageEnvelopes = 1 .. Len(mMessageEnvelopes)
  BY <1>1, LenProperties
<1>3. \A i \in 1 .. Len(mMessageEnvelopes) : mMessageEnvelopes[i] \in L!Message
  BY <1>1, ElementOfSeq
<1>4. \A m \in L!Message : m.uptime \in Int /\ m.id \in Int
  BY DEF L!Message
<1>5. PICK q : q = mMessageEnvelopes
  OBVIOUS
<1>6. pending = {q[i] : i \in 1 .. Len(q)} /\ \A i \in 1 .. Len(q) : q[i].id < -left.sends
  BY <1>2, <1>5 DEF L!QueueInOrder
<1>7. \A i, j \in 1 .. Len(q) : i < j => Earlier(q[i], q[j])
  BY <1>2, <1>5 DEF L!QueueInOrder, Earlier
<1>8. /\ \A i \in 1 .. Len(q) : q[i] \in pending
      /\ \A m \in pending : \E i \in 1 .. Len(q) : m = q[i]
  BY <1>6
<1>9. \A i \in 1 .. Len(q) :
         /\ q[i] \in L!Message /\ q[i] \in pending
         /\ q[i].uptime \in Int /\ q[i].id \in Int /\ q[i].id < -left.sends
  BY <1>3, <1>4, <1>5, <1>6, <1>8
<1>10. q \in Seq(L!Message) /\ Len(q) \in Nat /\ DOMAIN q = 1 .. Len(q)
  BY <1>1, <1>2, <1>5
<1> QED BY ONLY <1>1, <1>5, <1>7, <1>8, <1>9, <1>10

LEMMA QueueStep ==
  ASSUME NEW q \in Seq(L!Message), NEW p, NEW s \in Nat,
         mMessageEnvelopes' = q, pending' = p, left'.sends = s,
         \A i \in 1 .. Len(q) : q[i] \in p,
         \A m \in p : \E i \in 1 .. Len(q) : m = q[i],
         \A i \in 1 .. Len(q) : q[i].id < -s,
         \A i, j \in 1 .. Len(q) : i < j => Earlier(q[i], q[j])
  PROVE  L!QueueInOrder'
<1>1. DOMAIN q = 1 .. Len(q)
  BY LenProperties
<1>2. p = {q[i] : i \in DOMAIN q}
  BY <1>1
<1>3. /\ \A i \in DOMAIN q : q[i].id < -s
      /\ \A i, j \in DOMAIN q : i < j => \/ q[i].uptime < q[j].uptime
                                       \/ (q[i].uptime = q[j].uptime /\ q[i].id < q[j].id)
  BY <1>1 DEF Earlier
<1> QED BY <1>2, <1>3 DEF L!QueueInOrder

(* Every message that is left is as late as the head, when there is one.    *)
LEMMA HeadIsFirst ==
  ASSUME L!LpTypeOK, L!QueueInOrder, NEW m \in pending
  PROVE  /\ mMessageEnvelopes # <<>> /\ 1 \in 1 .. Len(mMessageEnvelopes)
         /\ Head(mMessageEnvelopes) = mMessageEnvelopes[1]
         /\ m = Head(mMessageEnvelopes) \/ Earlier(Head(mMessageEnvelopes), m)
         /\ Head(mMessageEnvelopes).uptime <= m.uptime
<1>1. PICK i \in 1 .. Len(mMessageEnvelopes) : m = mMessageEnvelopes[i]
  BY QueueFacts
<1>2. /\ mMessageEnvelopes \in Seq(L!Message) /\ Len(mMessageEnvelopes) \in Nat
      /\ 1 \in 1 .. Len(mMessageEnvelopes)
  BY <1>1, QueueFacts
<1>3. mMessageEnvelopes # <<>> /\ Head(mMessageEnvelopes) = mMessageEnvelopes[1]
  BY <1>2, EmptySeq
<1>4. i = 1 \/ Earlier(mMessageEnvelopes[1], mMessageEnvelopes[i])
  BY <1>1, <1>2, QueueFacts
<1>5. mMessageEnvelopes[1].uptime \in Int /\ mMessageEnvelopes[i].uptime \in Int
  BY <1>1, <1>2, QueueFacts
<1> QED BY <1>1, <1>2, <1>3, <1>4, <1>5 DEF Earlier

(* The message loop hands out the first message when it is due, and else    *)
(* leaves the time of the next wakeup behind.                               *)
Delivered(t) ==
  thread'.current # t.current /\ thread'.current # L!NoMessage =>
     /\ thread'.current \in pending /\ thread'.current.uptime <= now
     /\ \A n \in pending : \/ thread'.current.uptime < n.uptime
                           \/ thread'.current.uptime = n.uptime /\ thread'.current.id <= n.id

LEMMA SendOrScheduleKeeps ==
  ASSUME L!LpTypeOK, L!QueueInOrder, UNCHANGED left,
         NEW t \in L!PollingThread, L!SendOrSchedule(t)
  PROVE  /\ mMessageEnvelopes' \in Seq(L!Message) /\ L!QueueInOrder'
         /\ thread' \in L!PollingThread /\ thread'.pc \in {"sending", "responses"}
         /\ thread'.responses = t.responses /\ thread'.index = t.index
         /\ thread'.pc = "responses" => \A m \in pending' : ~(m.uptime < thread'.next)
         /\ Delivered(t)
<1> DEFINE q == mMessageEnvelopes
<1>0. q \in Seq(L!Message) /\ Len(q) \in Nat /\ MaxTime \in Nat
  BY QueueFacts, LooperAssumption
<1>1. CASE q # <<>> /\ Head(q).uptime <= now
  <2>1. /\ thread' = [t EXCEPT !.pc = "sending", !.current = Head(q)]
        /\ mMessageEnvelopes' = Tail(q) /\ pending' = pending \ {Head(q)}
    BY <1>1 DEF L!SendOrSchedule
  <2>2. /\ Head(q) \in L!Message /\ Head(q) = q[1] /\ 1 \in 1 .. Len(q)
        /\ Tail(q) \in Seq(L!Message) /\ Len(Tail(q)) = Len(q) - 1
        /\ \A i \in 1 .. Len(Tail(q)) : Tail(q)[i] = q[i + 1] /\ i + 1 \in 1 .. Len(q)
    BY <1>0, <1>1, HeadTailProperties, EmptySeq
  <2>3. /\ thread' \in L!PollingThread /\ thread'.pc = "sending"
        /\ thread'.responses = t.responses /\ thread'.index = t.index
        /\ thread'.current = Head(q)
    BY <2>1, <2>2 DEF L!PollingThread
  <2>4. L!QueueInOrder'
    <3>1. PICK r : r = Tail(q)
      OBVIOUS
    <3>2. \A i \in 1 .. Len(r) : r[i] \in pending \ {q[1]}
      <4> SUFFICES ASSUME NEW i \in 1 .. Len(r) PROVE q[i + 1] \in pending /\ q[i + 1] # q[1]
        BY <2>2, <3>1
      <4>1. i \in Nat /\ 1 < i + 1 /\ i + 1 \in 1 .. Len(q)
        BY <2>2, <3>1
      <4>2. Earlier(q[1], q[i + 1]) /\ q[i + 1] \in pending
        BY <2>2, <4>1, QueueFacts
      <4>3. q[1].uptime \in Int /\ q[1].id \in Int
        BY <2>2, QueueFacts
      <4> QED BY <4>2, <4>3 DEF Earlier
    <3>3. \A m \in pending \ {q[1]} : \E i \in 1 .. Len(r) : m = r[i]
      <4> SUFFICES ASSUME NEW m \in pending \ {q[1]} PROVE \E i \in 1 .. Len(r) : m = r[i]
        OBVIOUS
      <4>1. PICK i \in 1 .. Len(q) : m = q[i]
        BY QueueFacts
      <4>2. i - 1 \in 1 .. Len(r) /\ r[i - 1] = q[i]
        BY <1>0, <2>2, <3>1, <4>1
      <4> QED BY <4>1, <4>2
    <3>4. \A i \in 1 .. Len(r) : r[i].id < -left.sends
      BY <2>2, <3>1, QueueFacts
    <3>5. \A i, j \in 1 .. Len(r) : i < j => Earlier(r[i], r[j])
      <4> SUFFICES ASSUME NEW i \in 1 .. Len(r), NEW j \in 1 .. Len(r), i < j
                   PROVE  Earlier(q[i + 1], q[j + 1])
        BY <2>2, <3>1
      <4>1. i + 1 \in 1 .. Len(q) /\ j + 1 \in 1 .. Len(q) /\ i + 1 < j + 1
        BY <2>2, <3>1
      <4> QED BY <4>1, QueueFacts
    <3>6. r \in Seq(L!Message) /\ left.sends \in Nat
      BY <2>2, <3>1, QueueFacts
    <3>7. mMessageEnvelopes' = r /\ pending' = pending \ {q[1]} /\ left'.sends = left.sends
      BY <2>1, <2>2, <3>1
    <3> HIDE DEF q
    <3> QED BY <3>2, <3>3, <3>4, <3>5, <3>6, <3>7, QueueStep
  <2>5. Delivered(t)
    <3>1. \A n \in pending : \/ Head(q).uptime < n.uptime
                             \/ Head(q).uptime = n.uptime /\ Head(q).id <= n.id
      <4> SUFFICES ASSUME NEW n \in pending
                   PROVE  \/ Head(q).uptime < n.uptime
                          \/ Head(q).uptime = n.uptime /\ Head(q).id <= n.id
        OBVIOUS
      <4>1. n = Head(q) \/ Earlier(Head(q), n)
        BY HeadIsFirst
      <4>2. Head(q).uptime \in Int /\ Head(q).id \in Int
        BY <2>2, QueueFacts
      <4>3. PICK i \in 1 .. Len(q) : n = q[i]
        BY QueueFacts
      <4>4. n.id \in Int
        BY <4>3, QueueFacts
      <4> QED BY <4>1, <4>2, <4>4 DEF Earlier
    <3>2. Head(q) \in pending
      BY <2>2, QueueFacts
    <3> QED BY <1>1, <2>3, <3>1, <3>2 DEF Delivered
  <2> QED BY <2>1, <2>2, <2>3, <2>4, <2>5
<1>2. CASE ~(q # <<>> /\ Head(q).uptime <= now)
  <2>1. PICK n : n = IF q = <<>> THEN L!Never ELSE Head(q).uptime
    OBVIOUS
  <2>2. /\ thread' = [t EXCEPT !.pc = "responses", !.current = L!NoMessage, !.next = n]
        /\ UNCHANGED <<mMessageEnvelopes, pending>>
    BY <1>2, <2>1 DEF L!SendOrSchedule
  <2>3. n \in Int
    <3>1. CASE q = <<>>
      BY <1>0, <2>1, <3>1 DEF L!Never
    <3>2. CASE q # <<>>
      <4>1. Head(q) \in L!Message
        BY <1>0, <3>2, HeadTailProperties
      <4> QED BY <2>1, <3>2, <4>1 DEF L!Message
    <3> QED BY <3>1, <3>2
  <2>4. /\ thread' \in L!PollingThread /\ thread'.pc = "responses" /\ thread'.next = n
        /\ thread'.responses = t.responses /\ thread'.index = t.index
        /\ thread'.current = L!NoMessage
    BY <2>2, <2>3 DEF L!PollingThread
  <2>5. ASSUME NEW m \in pending PROVE ~(m.uptime < n)
    <3>1. n <= m.uptime
      BY <2>1, HeadIsFirst
    <3>2. m.uptime \in Int
      BY QueueFacts
    <3> QED BY <2>3, <3>1, <3>2
  <2>6. L!QueueInOrder'
    BY <2>2 DEF L!QueueInOrder
  <2>7. mMessageEnvelopes' \in Seq(L!Message) /\ pending' = pending
    BY <1>0, <2>2
  <2>8. Delivered(t)
    BY <2>4 DEF Delivered
  <2> HIDE DEF q
  <2> QED BY <2>4, <2>5, <2>6, <2>7, <2>8
<1> QED BY <1>1, <1>2

(* The events are handled one by one, in some order, every one once.        *)
LEMMA Listed ==
  ASSUME NEW X, IsFiniteSet(X)
  PROVE  /\ Cardinality(X) \in Nat
         /\ L!SetToSeq(X) \in [1 .. Cardinality(X) -> X]
         /\ \A f \in X : \E i \in 1 .. Cardinality(X) : L!SetToSeq(X)[i] = f
<1>1. PICK n \in Nat : ExistsBijection(1 .. n, X)
  BY FS_NatBijection
<1>2. Cardinality(X) = n /\ L!Cardinality(X) = n
  BY <1>1, FS_CountingElements, LpCard
<1>3. PICK g \in Bijection(1 .. n, X) : TRUE
  BY <1>1 DEF ExistsBijection
<1>4. g \in [1 .. n -> X] /\ L!IsInjective(g)
  BY <1>3 DEF Bijection, Injection, IsInjective, L!IsInjective
<1>5. L!SetToSeq(X) = CHOOSE f \in [1 .. n -> X] : L!IsInjective(f)
  BY <1>2 DEF L!SetToSeq
<1>6. L!SetToSeq(X) \in [1 .. n -> X] /\ L!IsInjective(L!SetToSeq(X))
  BY <1>4, <1>5
<1> DEFINE s == L!SetToSeq(X)
<1> HIDE DEF s
<1>7. s \in Injection(1 .. n, X)
  BY <1>6 DEF s, Injection, IsInjective, L!IsInjective
<1>8. s \in Surjection(1 .. n, X)
  <2>1. IsFiniteSet(1 .. n) /\ Cardinality(1 .. n) = n
    BY <1>1, FS_Interval
  <2> QED BY <1>2, <1>7, <2>1, FS_Injection
<1> QED BY <1>1, <1>2, <1>6, <1>8 DEF s, Surjection

LEMMA HandleEventsKeeps ==
  ASSUME L!LpInv, L!HandleEvents
  PROVE  L!LpInv' /\ Delivered(thread)
<1>0. L!LpTypeOK /\ L!QueueInOrder /\ L!OwedResponses /\ thread.pc = "got"
  BY DEF L!LpInv, L!HandleEvents
<1>1. /\ thread \in L!PollingThread /\ thread.got \subseteq Fds /\ thread.index = 0
      /\ mRequests \in [Fds -> {L!NoRequest} \cup [kind : {"callback", "ident"}, reg : Int]]
      /\ wakePipe \in Nat
  BY <1>0 DEF L!LpTypeOK, L!PollingThread, L!OwedResponses
<1>2. PICK known : known = {f \in thread.got : mRequests[f] # L!NoRequest}
  OBVIOUS
<1>3. PICK s : s = L!SetToSeq(known)
  OBVIOUS
<1>4. PICK rs : rs = [i \in DOMAIN s |-> [fd |-> s[i], kind |-> mRequests[s[i]].kind,
                                          reg |-> mRequests[s[i]].reg]]
  OBVIOUS
<1>5. PICK t : t = [thread EXCEPT !.responses = rs]
  OBVIOUS
<1>6. /\ L!SendOrSchedule(t)
      /\ owed' = {f \in known : mRequests[f].kind = "ident"}
      /\ wakePipe' = IF thread.woke THEN 0 ELSE wakePipe
      /\ UNCHANGED <<now, mRequests, ready, waking, left>>
  BY <1>2, <1>3, <1>4, <1>5 DEF L!HandleEvents
<1>7. IsFiniteSet(known)
  <2>1. known \subseteq Fds
    BY <1>1, <1>2
  <2> QED BY <2>1, FS_Subset, LooperAssumption
<1>8. PICK n \in Nat : /\ DOMAIN s = 1 .. n
                       /\ \A i \in 1 .. n : s[i] \in known
                       /\ \A f \in known : \E i \in 1 .. n : s[i] = f
  BY <1>3, <1>7, Listed
<1>9. rs \in Seq(L!Response)
  <2>1. ASSUME NEW i \in 1 .. n PROVE rs[i] \in L!Response
    <3>1. s[i] \in Fds /\ mRequests[s[i]] \in [kind : {"callback", "ident"}, reg : Int]
      BY <1>1, <1>2, <1>8
    <3>2. rs[i] = [fd |-> s[i], kind |-> mRequests[s[i]].kind, reg |-> mRequests[s[i]].reg]
      BY <1>4, <1>8
    <3> QED BY <3>1, <3>2 DEF L!Response
  <2> QED BY <1>4, <1>8, <2>1, IsASeq
<1>10. t \in L!PollingThread /\ t.index = 0 /\ t.responses = rs /\ t.current = thread.current
  BY <1>1, <1>5, <1>9 DEF L!PollingThread
<1>11. /\ mMessageEnvelopes' \in Seq(L!Message) /\ L!QueueInOrder'
       /\ thread' \in L!PollingThread /\ thread'.pc \in {"sending", "responses"}
       /\ thread'.responses = rs /\ thread'.index = 0
       /\ thread'.pc = "responses" => \A m \in pending' : ~(m.uptime < thread'.next)
       /\ Delivered(t)
  BY <1>0, <1>6, <1>10, SendOrScheduleKeeps
<1>12. L!LpTypeOK'
  BY <1>0, <1>1, <1>6, <1>11 DEF L!LpTypeOK
<1>13. L!WakeupScheduled'
  BY <1>11 DEF L!WakeupScheduled
<1>14. L!OwedResponses'
  <2>1. ASSUME NEW f \in owed'
        PROVE  \E i \in DOMAIN rs : i > 0 /\ rs[i].kind = "ident" /\ rs[i].fd = f
    <3>1. f \in known /\ mRequests[f].kind = "ident"
      BY <1>6, <2>1
    <3>2. PICK i \in 1 .. n : s[i] = f
      BY <1>8, <3>1
    <3> QED BY <1>4, <1>8, <3>1, <3>2
  <2>2. L!OwedIn(owed', thread')
    BY <1>11, <2>1 DEF L!OwedIn
  <2> QED BY <1>11, <2>2 DEF L!OwedResponses
<1>15. Delivered(thread)
  BY <1>10, <1>11 DEF Delivered
<1> QED BY <1>11, <1>12, <1>13, <1>14, <1>15 DEF L!LpInv

(* A step of the polling thread that leaves the queue alone.                *)
LEMMA ThreadStep ==
  ASSUME L!LpInv, NEW t \in L!PollingThread, thread' = t,
         UNCHANGED <<now, mMessageEnvelopes, ready, wakePipe, waking, pending, left>>,
         mRequests' \in [Fds -> {L!NoRequest} \cup [kind : {"callback", "ident"}, reg : Int]],
         t.current = thread.current,
         t.pc \in {"got", "sending"} \/ (t.next = thread.next /\ thread.pc \notin {"got", "sending"}),
         t.pc = "wait" /\ t.timeout # 0 => t.deadline <= t.next,
         L!OwedIn(owed', t),
         t.pc # "idle" => t.index = 0,
         t.pc \in {"wait", "got"} => t.responses = <<>>
  PROVE  L!LpInv' /\ Delivered(thread)
<1>1. L!LpTypeOK'
  BY DEF L!LpInv, L!LpTypeOK
<1>2. L!QueueInOrder'
  BY DEF L!LpInv, L!QueueInOrder
<1>3. L!WakeupScheduled'
  BY DEF L!LpInv, L!WakeupScheduled
<1>4. L!OwedIn(owed', thread')
  OBVIOUS
<1>5. L!OwedResponses'
  BY <1>4 DEF L!OwedResponses
<1>6. Delivered(thread)
  BY DEF Delivered
<1> QED BY <1>1, <1>2, <1>3, <1>5, <1>6 DEF L!LpInv

LEMMA LpFacts ==
  ASSUME L!LpInv
  PROVE  /\ thread \in L!PollingThread /\ L!OwedIn(owed, thread) /\ now \in Int
         /\ mRequests \in [Fds -> {L!NoRequest} \cup [kind : {"callback", "ident"}, reg : Int]]
         /\ ready \subseteq Fds /\ L!LpTypeOK
         /\ thread.pc # "idle" => thread.index = 0
         /\ thread.pc \in {"wait", "got"} => thread.responses = <<>>
BY DEF L!LpInv, L!LpTypeOK, L!OwedResponses

LEMMA PollKeeps ==
  ASSUME L!LpInv, NEW d \in Timeouts, NEW all \in BOOLEAN, L!Poll(d, all)
  PROVE  L!LpInv' /\ Delivered(thread)
<1>1. PICK e : e = IF d > 0 THEN now + d ELSE 0
  OBVIOUS
<1>2. d \in Int /\ e \in Int
  BY <1>1, LpFacts, LooperAssumption
<1>3. PICK t : t = [thread EXCEPT !.timeout = d, !.all = all, !.end = e]
  OBVIOUS
<1>4. /\ L!pollOnce(t) /\ thread.pc = "idle"
      /\ UNCHANGED <<now, mMessageEnvelopes, mRequests, ready, wakePipe, waking, pending, left>>
  BY <1>1, <1>3 DEF L!Poll
<1>5. /\ t \in L!PollingThread /\ t.current = thread.current /\ t.next = thread.next
      /\ t.responses = thread.responses /\ t.index = thread.index
  BY <1>2, <1>3, LpFacts DEF L!PollingThread
<1>6. L!OwedIn(owed, t)
  BY <1>5, LpFacts DEF L!OwedIn
<1>7. /\ thread' \in L!PollingThread /\ thread'.pc \in {"idle", "wait"}
      /\ thread'.next = t.next /\ thread'.current = t.current
      /\ thread'.pc = "wait" =>
           /\ thread'.responses = <<>> /\ thread'.index = 0
           /\ thread'.timeout # 0 => thread'.deadline <= thread'.next
      /\ L!OwedIn(owed', thread')
  BY <1>4, <1>5, <1>6, LpFacts, PollOnceKeeps
<1>8. mRequests' \in [Fds -> {L!NoRequest} \cup [kind : {"callback", "ident"}, reg : Int]]
  BY <1>4, LpFacts
<1>9. PICK u : u = thread'
  OBVIOUS
<1> QED BY <1>4, <1>5, <1>7, <1>8, <1>9, ThreadStep

LEMMA EpollReturnsKeeps ==
  ASSUME L!LpInv, L!EpollReturns
  PROVE  L!LpInv' /\ Delivered(thread)
<1>1. PICK r \in {"WAKE", "TIMEOUT", "ERROR"}, e \in SUBSET Fds, w \in BOOLEAN :
        thread' = [thread EXCEPT !.pc = "got", !.result = r, !.got = e, !.woke = w]
  <2>1. PICK evs : evs = {f \in ready : mRequests[f] # L!NoRequest}
    OBVIOUS
  <2>2. evs \in SUBSET Fds /\ {} \in SUBSET Fds
    BY <2>1, LpFacts
  <2>3. \/ thread' = [thread EXCEPT !.pc = "got", !.result = "WAKE", !.got = evs,
                                    !.woke = wakePipe > 0]
        \/ thread' = [thread EXCEPT !.pc = "got", !.result = "TIMEOUT", !.got = {}, !.woke = FALSE]
        \/ thread' = [thread EXCEPT !.pc = "got", !.result = "WAKE", !.got = {}, !.woke = FALSE]
        \/ thread' = [thread EXCEPT !.pc = "got", !.result = "ERROR", !.got = {}, !.woke = FALSE]
    BY <2>1 DEF L!EpollReturns
  <2>4. (wakePipe > 0) \in BOOLEAN
    OBVIOUS
  <2> QED BY <2>2, <2>3, <2>4
<1>2. /\ thread.pc = "wait"
      /\ UNCHANGED <<now, mMessageEnvelopes, mRequests, ready, wakePipe, waking, pending,
                     owed, left>>
  BY DEF L!EpollReturns
<1>3. PICK t : t = [thread EXCEPT !.pc = "got", !.result = r, !.got = e, !.woke = w]
  OBVIOUS
<1>4. /\ t \in L!PollingThread /\ t.pc = "got" /\ t.current = thread.current
      /\ t.responses = thread.responses /\ t.index = thread.index
  BY <1>3, LpFacts DEF L!PollingThread
<1>5. L!OwedIn(owed', t)
  BY <1>2, <1>4, LpFacts DEF L!OwedIn
<1>6. mRequests' \in [Fds -> {L!NoRequest} \cup [kind : {"callback", "ident"}, reg : Int]]
  BY <1>2, LpFacts
<1> QED BY <1>1, <1>2, <1>3, <1>4, <1>5, <1>6, LpFacts, ThreadStep

LEMMA HandlerReturnsKeeps ==
  ASSUME L!LpInv, L!HandlerReturns
  PROVE  L!LpInv' /\ Delivered(thread)
<1>1. PICK t : t = [thread EXCEPT !.result = "CALLBACK"]
  OBVIOUS
<1>2. /\ L!SendOrSchedule(t) /\ thread.pc = "sending"
      /\ UNCHANGED <<now, mRequests, ready, wakePipe, waking, owed, left>>
  BY <1>1 DEF L!HandlerReturns
<1>3. /\ t \in L!PollingThread /\ t.current = thread.current
      /\ t.responses = thread.responses /\ t.index = thread.index
  BY <1>1, LpFacts DEF L!PollingThread
<1>4. /\ mMessageEnvelopes' \in Seq(L!Message) /\ L!QueueInOrder'
      /\ thread' \in L!PollingThread /\ thread'.pc \in {"sending", "responses"}
      /\ thread'.responses = t.responses /\ thread'.index = t.index
      /\ thread'.pc = "responses" => \A m \in pending' : ~(m.uptime < thread'.next)
      /\ Delivered(t)
  BY <1>2, <1>3, SendOrScheduleKeeps DEF L!LpInv
<1>5. L!LpTypeOK'
  BY <1>2, <1>4, LpFacts DEF L!LpTypeOK
<1>6. L!WakeupScheduled'
  BY <1>4 DEF L!WakeupScheduled
<1>7. L!OwedIn(owed', thread')
  BY <1>2, <1>3, <1>4, LpFacts DEF L!OwedIn
<1>8. L!OwedResponses'
  BY <1>2, <1>3, <1>4, <1>7, LpFacts DEF L!OwedResponses
<1>9. Delivered(thread)
  BY <1>3, <1>4 DEF Delivered
<1> QED BY <1>4, <1>5, <1>6, <1>8, <1>9 DEF L!LpInv

LEMMA NextCallbackKeeps ==
  ASSUME L!LpInv, L!NextCallback
  PROVE  L!LpInv' /\ Delivered(thread)
<1>1. PICK rest : rest = {i \in DOMAIN thread.responses :
                    i > thread.cb /\ thread.responses[i].kind = "callback"}
  OBVIOUS
<1>2. /\ thread.pc = "responses"
      /\ UNCHANGED <<now, mMessageEnvelopes, mRequests, ready, wakePipe, waking, pending, left>>
  BY DEF L!NextCallback
<1>3. mRequests' \in [Fds -> {L!NoRequest} \cup [kind : {"callback", "ident"}, reg : Int]]
  BY <1>2, LpFacts
<1>4. CASE rest = {}
  <2>1. L!pollOnce(thread)
    BY <1>1, <1>4 DEF L!NextCallback
  <2>2. /\ thread' \in L!PollingThread /\ thread'.pc \in {"idle", "wait"}
        /\ thread'.next = thread.next /\ thread'.current = thread.current
        /\ thread'.pc = "wait" =>
             /\ thread'.responses = <<>> /\ thread'.index = 0
             /\ thread'.timeout # 0 => thread'.deadline <= thread'.next
        /\ L!OwedIn(owed', thread')
    BY <2>1, LpFacts, PollOnceKeeps
  <2>3. PICK u : u = thread'
    OBVIOUS
  <2> QED BY <1>2, <1>3, <2>2, <2>3, ThreadStep
<1>5. CASE rest # {}
  <2>1. PICK k : k = CHOOSE i \in rest : \A j \in rest : i <= j
    OBVIOUS
  <2>2. thread' = [thread EXCEPT !.pc = "callback", !.cb = k] /\ owed' = owed
    BY <1>1, <1>5, <2>1 DEF L!NextCallback
  <2>3. k \in Nat
    <3>1. thread.responses \in Seq(L!Response)
      BY LpFacts DEF L!PollingThread
    <3>2. rest \subseteq 0 .. Len(thread.responses) /\ Len(thread.responses) \in Nat
      BY <1>1, <3>1, LenProperties
    <3>3. \E i \in rest : \A j \in rest : i <= j
      BY <1>5, <3>2, Least
    <3>4. k \in rest
      BY <2>1, <3>3
    <3>5. PICK n \in Nat : n = Len(thread.responses)
      BY <3>2
    <3> QED BY <3>2, <3>4, <3>5
  <2>4. PICK t : t = [thread EXCEPT !.pc = "callback", !.cb = k]
    OBVIOUS
  <2>5. /\ t \in L!PollingThread /\ t.pc = "callback" /\ t.current = thread.current
        /\ t.next = thread.next /\ t.responses = thread.responses /\ t.index = thread.index
    BY <2>3, <2>4, LpFacts DEF L!PollingThread
  <2>6. L!OwedIn(owed', t)
    BY <2>2, <2>5, LpFacts DEF L!OwedIn
  <2> QED BY <1>2, <1>3, <2>2, <2>4, <2>5, <2>6, LpFacts, ThreadStep
<1> QED BY <1>4, <1>5

LEMMA CallbackReturnsKeeps ==
  ASSUME L!LpInv, NEW keep \in BOOLEAN, L!CallbackReturns(keep)
  PROVE  L!LpInv' /\ Delivered(thread)
<1>1. PICK t : t = [thread EXCEPT !.pc = "responses", !.result = "CALLBACK"]
  OBVIOUS
<1>2. /\ thread.pc = "callback" /\ thread' = t
      /\ mRequests' = IF keep THEN mRequests
           ELSE [mRequests EXCEPT ![thread.responses[thread.cb].fd] = L!NoRequest]
      /\ UNCHANGED <<now, mMessageEnvelopes, ready, wakePipe, waking, pending, owed, left>>
  BY <1>1 DEF L!CallbackReturns
<1>3. /\ t \in L!PollingThread /\ t.pc = "responses" /\ t.current = thread.current
      /\ t.next = thread.next /\ t.responses = thread.responses /\ t.index = thread.index
  BY <1>1, LpFacts DEF L!PollingThread
<1>4. mRequests' \in [Fds -> {L!NoRequest} \cup [kind : {"callback", "ident"}, reg : Int]]
  BY <1>2, LpFacts
<1>5. L!OwedIn(owed', t)
  BY <1>2, <1>3, LpFacts DEF L!OwedIn
<1> QED BY <1>2, <1>3, <1>4, <1>5, LpFacts, ThreadStep

(* Where sendMessageAtTime puts an element.                                 *)
PutAt(r, s, k, e) == r = (SubSeq(s, 1, k) \o <<e>>) \o SubSeq(s, k + 1, Len(s))

LEMMA Extended ==
  ASSUME NEW Elems, NEW a \in Seq(Elems), NEW e \in Elems, NEW c, c = a \o <<e>>
  PROVE  /\ c \in Seq(Elems) /\ Len(c) = Len(a) + 1 /\ c[Len(a) + 1] = e
         /\ \A i \in 1 .. Len(a) : c[i] = a[i]
<1>1. c = Append(a, e)
  BY AppendIsConcat
<1> QED BY <1>1, AppendProperties

LEMMA Joined ==
  ASSUME NEW Elems, NEW a \in Seq(Elems), NEW b \in Seq(Elems), NEW c, c = a \o b
  PROVE  /\ c \in Seq(Elems) /\ Len(c) = Len(a) + Len(b)
         /\ \A i \in 1 .. Len(a) + Len(b) : c[i] = IF i <= Len(a) THEN a[i] ELSE b[i - Len(a)]
BY ConcatProperties

LEMMA CutOut ==
  ASSUME NEW Elems, NEW s \in Seq(Elems), NEW i \in Nat \ {0}, NEW j \in 0 .. Len(s),
         i <= j + 1, NEW c, c = SubSeq(s, i, j)
  PROVE  /\ c \in Seq(Elems) /\ Len(c) = (j - i) + 1
         /\ \A x \in 1 .. (j - i) + 1 : c[x] = s[(i + x) - 1]
<1>1. Len(s) \in Nat /\ \A x \in 1 .. Len(s) : s[x] \in Elems
  BY LenProperties, ElementOfSeq
<1>2. i \in Int /\ j \in Int /\ \A x \in i .. j : s[x] \in Elems
  BY <1>1
<1>3. /\ SubSeq(s, i, j) \in Seq(Elems)
      /\ Len(SubSeq(s, i, j)) = IF i <= j THEN j - i + 1 ELSE 0
      /\ \A x \in 1 .. j - i + 1 : SubSeq(s, i, j)[x] = s[i + x - 1]
  BY ONLY <1>2, SubSeqProperties
<1>4. (IF i <= j THEN j - i + 1 ELSE 0) = (j - i) + 1
  BY <1>2
<1> QED BY <1>3, <1>4

LEMMA Inserted ==
  ASSUME NEW Elems, NEW s \in Seq(Elems), NEW e \in Elems, NEW k \in 0 .. Len(s),
         NEW r, PutAt(r, s, k, e)
  PROVE  /\ r \in Seq(Elems) /\ Len(r) = Len(s) + 1
         /\ \A i \in 1 .. k : r[i] = s[i]
         /\ r[k + 1] = e
         /\ \A i \in k + 1 .. Len(s) : r[i + 1] = s[i]
<1>1. PICK n \in Nat : n = Len(s)
  BY LenProperties
<1>2. k \in Nat /\ k <= n /\ n - k \in Nat /\ k + 1 \in Nat
  BY <1>1
<1>3. PICK a : a = SubSeq(s, 1, k)
  OBVIOUS
<1>4. PICK b : b = SubSeq(s, k + 1, n)
  OBVIOUS
<1>5. a \in Seq(Elems) /\ Len(a) = k /\ \A i \in 1 .. k : a[i] = s[i]
  <2>1. 1 \in Nat \ {0} /\ k \in 0 .. Len(s) /\ 1 <= k + 1
    BY <1>1, <1>2
  <2>2. /\ a \in Seq(Elems) /\ Len(a) = (k - 1) + 1
        /\ \A x \in 1 .. (k - 1) + 1 : a[x] = s[(1 + x) - 1]
    BY ONLY <2>1, <1>3, s \in Seq(Elems), CutOut
  <2>3. (k - 1) + 1 = k /\ \A x \in 1 .. k : (1 + x) - 1 = x
    BY <1>2
  <2> QED BY <2>2, <2>3
<1>6. b \in Seq(Elems) /\ Len(b) = n - k /\ \A i \in 1 .. n - k : b[i] = s[k + i]
  <2>1. k + 1 \in Nat \ {0} /\ n \in 0 .. Len(s) /\ k + 1 <= n + 1
    BY <1>1, <1>2
  <2>2. /\ b \in Seq(Elems) /\ Len(b) = (n - (k + 1)) + 1
        /\ \A x \in 1 .. (n - (k + 1)) + 1 : b[x] = s[((k + 1) + x) - 1]
    BY ONLY <2>1, <1>4, s \in Seq(Elems), CutOut
  <2>3. (n - (k + 1)) + 1 = n - k /\ \A x \in 1 .. n - k : ((k + 1) + x) - 1 = k + x
    BY <1>2
  <2> QED BY <2>2, <2>3
<1>7. PICK c : c = a \o <<e>>
  OBVIOUS
<1>8. /\ c \in Seq(Elems) /\ Len(c) = Len(a) + 1 /\ c[Len(a) + 1] = e
      /\ \A i \in 1 .. Len(a) : c[i] = a[i]
  <2>1. a \in Seq(Elems)
    BY <1>5
  <2> QED BY ONLY <2>1, e \in Elems, <1>7, Extended
<1>9. Len(c) = k + 1 /\ c[k + 1] = e /\ \A i \in 1 .. k : c[i] = s[i]
  BY <1>5, <1>8
<1>10. r = c \o b
  BY <1>1, <1>3, <1>4, <1>7 DEF PutAt
<1>11. /\ r \in Seq(Elems) /\ Len(r) = Len(c) + Len(b)
       /\ \A i \in 1 .. Len(c) + Len(b) : r[i] = IF i <= Len(c) THEN c[i] ELSE b[i - Len(c)]
  <2>1. b \in Seq(Elems) /\ c \in Seq(Elems)
    BY <1>6, <1>8
  <2> QED BY ONLY <2>1, <1>10, Joined
<1>12. Len(c) + Len(b) = n + 1 /\ Len(c) = k + 1
  BY <1>2, <1>6, <1>9
<1>13. \A i \in 1 .. n + 1 : r[i] = IF i <= k + 1 THEN c[i] ELSE b[i - (k + 1)]
  BY <1>11, <1>12
<1>14. \A i \in 1 .. k : r[i] = s[i]
  BY <1>2, <1>9, <1>13
<1>15. r[k + 1] = e
  BY <1>2, <1>9, <1>13
<1>16. ASSUME NEW i \in k + 1 .. n PROVE r[i + 1] = s[i]
  <2>1. /\ i - k \in 1 .. n - k /\ (i + 1) - (k + 1) = i - k /\ k + (i - k) = i
        /\ i + 1 \in 1 .. n + 1 /\ ~(i + 1 <= k + 1)
    BY <1>2
  <2>2. r[i + 1] = b[(i + 1) - (k + 1)] /\ b[i - k] = s[k + (i - k)]
    BY <1>6, <1>13, <2>1
  <2> QED BY <2>1, <2>2
<1> QED BY <1>1, <1>11, <1>12, <1>14, <1>15, <1>16

(* A new message goes behind the messages that are not later: they are the  *)
(* first ones of the queue.                                                 *)
LEMMA PlaceIsPrefix ==
  ASSUME L!LpTypeOK, L!QueueInOrder, NEW u \in Int
  PROVE  /\ L!PlaceOf(u) \in 0 .. Len(mMessageEnvelopes)
         /\ \A i \in 1 .. L!PlaceOf(u) : mMessageEnvelopes[i].uptime <= u
         /\ \A i \in L!PlaceOf(u) + 1 .. Len(mMessageEnvelopes) :
               u < mMessageEnvelopes[i].uptime
<1>1. PICK q : q = mMessageEnvelopes
  OBVIOUS
<1>2. PICK n \in Nat : n = Len(q) /\ DOMAIN q = 1 .. n
  BY <1>1, QueueFacts
<1>3. \A i \in 1 .. n : q[i].uptime \in Int
  BY <1>1, <1>2, QueueFacts
<1>4. \A i, j \in 1 .. n : i < j => q[i].uptime <= q[j].uptime
  BY <1>1, <1>2, <1>3, QueueFacts DEF Earlier
<1>5. PICK X : X = {i \in 1 .. n : u >= q[i].uptime}
  OBVIOUS
<1>6. L!PlaceOf(u) = Cardinality(X)
  BY <1>1, <1>2, <1>5, LpCard DEF L!PlaceOf
<1>7. CASE X = {}
  <2>1. L!PlaceOf(u) = 0
    BY <1>6, <1>7, FS_EmptySet
  <2> QED BY <1>1, <1>2, <1>3, <1>5, <1>7, <2>1
<1>8. CASE X # {}
  <2>1. PICK g \in X : \A i \in X : g >= i
    <3>1. X \subseteq 0 .. n
      BY <1>5
    <3> QED BY <1>2, <1>8, <3>1, Greatest
  <2>2. g \in 1 .. n /\ u >= q[g].uptime
    BY <1>5, <2>1
  <2>3. ASSUME NEW i \in 1 .. g PROVE i \in X
    <3>1. i \in 1 .. n /\ q[i].uptime <= q[g].uptime
      BY <1>3, <1>4, <2>2
    <3> QED BY <1>3, <1>5, <2>2, <3>1
  <2>4. X = 1 .. g
    BY <1>5, <2>1, <2>2, <2>3
  <2>5. L!PlaceOf(u) = g
    BY <1>6, <2>2, <2>4, FS_Interval
  <2>6. \A i \in 1 .. g : q[i].uptime <= u
    BY <1>3, <1>5, <2>2, <2>3
  <2>7. ASSUME NEW i \in g + 1 .. n PROVE u < q[i].uptime
    <3>1. i \in 1 .. n /\ i \notin X
      BY <2>2, <2>4
    <3> QED BY <1>3, <1>5, <3>1
  <2> QED BY <1>1, <1>2, <2>2, <2>5, <2>6, <2>7
<1> QED BY <1>7, <1>8

LEMMA SendKeeps ==
  ASSUME L!LpInv, NEW u \in now .. MaxTime, NEW w \in Whats, L!sendMessageAtTime(u, w)
  PROVE  L!LpInv'
<1>0. /\ L!LpTypeOK /\ L!QueueInOrder /\ L!WakeupScheduled /\ L!OwedResponses
      /\ waking \in Nat /\ now \in Int /\ left \in [sends : Nat, regs : Nat]
  BY DEF L!LpInv, L!LpTypeOK
<1>1. u \in Int
  BY <1>0, LooperAssumption
<1>2. PICK m : m = [uptime |-> u, what |-> w, id |-> -left.sends]
  OBVIOUS
<1>3. PICK k : k = L!PlaceOf(u)
  OBVIOUS
<1>4. PICK q, n : q = mMessageEnvelopes /\ n = Len(q)
  OBVIOUS
<1>5. PICK r : PutAt(r, q, k, m)
  BY DEF PutAt
<1>6. PICK s : s = left.sends
  OBVIOUS
<1>7. /\ s > 0 /\ left' = [left EXCEPT !.sends = s - 1]
      /\ mMessageEnvelopes' = L!InsertAt(q, k + 1, m) /\ pending' = pending \cup {m}
      /\ waking' = waking + (IF L!NeedsWake(k) THEN 1 ELSE 0)
      /\ UNCHANGED <<now, mRequests, ready, wakePipe, thread, owed>>
  BY <1>2, <1>3, <1>4, <1>6 DEF L!sendMessageAtTime
<1>8. s \in Nat /\ s - 1 \in Nat /\ left'.sends = s - 1 /\ left' \in [sends : Nat, regs : Nat]
  BY <1>0, <1>6, <1>7
<1>9. m \in L!Message /\ m.uptime = u /\ m.id = -s
  BY <1>1, <1>2, <1>6, <1>8 DEF L!Message
<1>10. /\ q \in Seq(L!Message) /\ n \in Nat /\ k \in 0 .. n
       /\ \A i \in 1 .. n : /\ q[i] \in pending /\ q[i].id < -s
                            /\ q[i].uptime \in Int /\ q[i].id \in Int
       /\ \A i, j \in 1 .. n : i < j => Earlier(q[i], q[j])
       /\ \A p \in pending : \E i \in 1 .. n : p = q[i]
       /\ \A i \in 1 .. k : q[i].uptime <= u
       /\ \A i \in k + 1 .. n : u < q[i].uptime
  BY <1>0, <1>1, <1>3, <1>4, <1>6, QueueFacts, PlaceIsPrefix
<1>11. /\ r \in Seq(L!Message) /\ Len(r) = n + 1
       /\ \A i \in 1 .. k : r[i] = q[i]
       /\ r[k + 1] = m
       /\ \A i \in k + 1 .. n : r[i + 1] = q[i]
  <2>1. k \in 0 .. Len(q) /\ n = Len(q)
    BY <1>4, <1>10
  <2>2. q \in Seq(L!Message) /\ m \in L!Message
    BY <1>9, <1>10
  <2>3. /\ r \in Seq(L!Message) /\ Len(r) = Len(q) + 1
        /\ \A i \in 1 .. k : r[i] = q[i]
        /\ r[k + 1] = m
        /\ \A i \in k + 1 .. Len(q) : r[i + 1] = q[i]
    BY <1>5, <2>1, <2>2, Inserted
  <2> QED BY <2>1, <2>3
<1>17. mMessageEnvelopes' = r
  <2>1. (k + 1) - 1 = k
    BY <1>10
  <2>2. mMessageEnvelopes' = (SubSeq(q, 1, (k + 1) - 1) \o <<m>>) \o SubSeq(q, k + 1, Len(q))
    BY <1>7 DEF L!InsertAt
  <2> QED BY <1>5, <2>1, <2>2 DEF PutAt
<1>12. ASSUME NEW i \in 1 .. n + 1
       PROVE  \/ i \in 1 .. k /\ r[i] = q[i]
              \/ i = k + 1 /\ r[i] = m
              \/ i \in k + 2 .. n + 1 /\ i - 1 \in k + 1 .. n /\ r[i] = q[i - 1]
  <2>1. CASE i > k + 1
    <3>1. i - 1 \in k + 1 .. n /\ (i - 1) + 1 = i
      BY <1>10, <2>1
    <3> QED BY <1>10, <1>11, <2>1, <3>1
  <2> QED BY <1>10, <1>11, <2>1
<1>13. L!QueueInOrder'
  <2>1. \A i \in 1 .. Len(r) : r[i] \in pending \cup {m} /\ r[i].id < -(s - 1)
    <3> SUFFICES ASSUME NEW i \in 1 .. n + 1
                 PROVE  r[i] \in pending \cup {m} /\ r[i].id < -(s - 1)
      BY <1>11
    <3>1. CASE r[i] = m
      BY <1>8, <1>9, <3>1
    <3>2. CASE r[i] # m
      <4>1. PICK j \in 1 .. n : r[i] = q[j]
        BY <1>10, <1>12, <3>2
      <4>2. q[j] \in pending /\ q[j].id < -s /\ q[j].id \in Int
        BY <1>10
      <4> QED BY <1>8, <4>1, <4>2
    <3> QED BY <3>1, <3>2
  <2>2. \A p \in pending \cup {m} : \E i \in 1 .. Len(r) : p = r[i]
    <3> SUFFICES ASSUME NEW p \in pending \cup {m} PROVE \E i \in 1 .. n + 1 : p = r[i]
      BY <1>11
    <3>1. CASE p = m
      <4>1. k + 1 \in 1 .. n + 1
        BY <1>10
      <4> QED BY <1>11, <3>1, <4>1
    <3>2. CASE p \in pending
      <4>1. PICK i \in 1 .. n : p = q[i]
        BY <1>10, <3>2
      <4>2. CASE i <= k
        BY <1>10, <1>11, <4>1, <4>2
      <4>3. CASE i > k
        <5>1. i \in k + 1 .. n /\ i + 1 \in 1 .. n + 1
          BY <1>10, <4>3
        <5> QED BY <1>11, <4>1, <5>1
      <4> QED BY <1>10, <4>2, <4>3
    <3> QED BY <3>1, <3>2
  <2>3. \A i, j \in 1 .. Len(r) : i < j => Earlier(r[i], r[j])
    <3> SUFFICES ASSUME NEW i \in 1 .. n + 1, NEW j \in 1 .. n + 1, i < j
                 PROVE  Earlier(r[i], r[j])
      BY <1>11
    <3>1. CASE i \in 1 .. k /\ r[i] = q[i]
      <4>1. CASE j = k + 1 /\ r[j] = m
        <5>1. q[i].uptime <= u /\ q[i].id < -s /\ q[i].uptime \in Int
          BY <1>10, <3>1
        <5> QED BY <1>1, <1>9, <3>1, <4>1, <5>1 DEF Earlier
      <4> QED BY <1>10, <1>12, <3>1, <4>1
    <3>2. CASE i = k + 1 /\ r[i] = m
      <4>1. j - 1 \in k + 1 .. n /\ r[j] = q[j - 1]
        BY <1>10, <1>12, <3>2
      <4>2. u < q[j - 1].uptime
        BY <1>10, <4>1
      <4> QED BY <1>9, <3>2, <4>1, <4>2 DEF Earlier
    <3>3. CASE i \in k + 2 .. n + 1 /\ i - 1 \in k + 1 .. n /\ r[i] = q[i - 1]
      <4>1. j - 1 \in k + 1 .. n /\ r[j] = q[j - 1]
        BY <1>10, <1>12, <3>3
      <4>2. i - 1 \in 1 .. n /\ j - 1 \in 1 .. n /\ i - 1 < j - 1
        BY <1>10, <3>3, <4>1
      <4> QED BY <1>10, <3>3, <4>1, <4>2
    <3> QED BY <1>12, <3>1, <3>2, <3>3
  <2>4. PICK p, x : p = pending \cup {m} /\ x = s - 1
    OBVIOUS
  <2>5. /\ x \in Nat /\ left'.sends = x /\ pending' = p /\ mMessageEnvelopes' = r
        /\ r \in Seq(L!Message)
    BY <1>7, <1>8, <1>11, <1>17, <2>4
  <2>6. /\ \A i \in 1 .. Len(r) : r[i] \in p
        /\ \A y \in p : \E i \in 1 .. Len(r) : y = r[i]
        /\ \A i \in 1 .. Len(r) : r[i].id < -x
    BY <2>1, <2>2, <2>4
  <2> QED BY <2>3, <2>5, <2>6, QueueStep
<1>14. L!WakeupScheduled'
  <2>1. ASSUME thread.pc \notin {"got", "sending"}, NEW p \in pending \cup {m},
               p.uptime < thread.next
        PROVE  wakePipe > 0 \/ waking' > 0
    <3>1. waking' \in Nat /\ waking' >= waking
      BY <1>0, <1>7
    <3>2. \A x \in pending : x.uptime < thread.next => wakePipe > 0 \/ waking > 0
      BY <1>0, <2>1 DEF L!WakeupScheduled
    <3>3. CASE p \in pending
      BY <1>0, <2>1, <3>1, <3>2, <3>3
    <3>4. CASE p = m /\ k = 0
      <4>1. L!NeedsWake(k)
        BY <2>1, <3>4 DEF L!NeedsWake, L!mSendingMessage
      <4> QED BY <1>0, <1>7, <4>1
    <3>5. CASE p = m /\ k # 0
      <4>1. 1 \in 1 .. k /\ 1 \in 1 .. n
        BY <1>10, <3>5
      <4>2. q[1] \in pending /\ q[1].uptime <= u /\ q[1].uptime \in Int
        BY <1>10, <4>1
      <4>3. u < thread.next /\ thread.next \in Int
        BY <1>0, <1>9, <2>1, <3>5 DEF L!LpTypeOK, L!PollingThread
      <4>4. q[1].uptime < thread.next
        BY <1>1, <4>2, <4>3
      <4> QED BY <1>0, <3>1, <3>2, <4>2, <4>4
    <3> QED BY <2>1, <3>3, <3>4, <3>5
  <2> QED BY <1>0, <1>7, <2>1 DEF L!WakeupScheduled
<1>15. L!LpTypeOK'
  <2>1. mMessageEnvelopes' \in Seq(L!Message)
    BY <1>11, <1>17
  <2>2. waking' \in Nat
    BY <1>0, <1>7
  <2>3. now' \in Int /\ left' \in [sends : Nat, regs : Nat]
    BY <1>0, <1>7, <1>8
  <2>4. UNCHANGED <<mRequests, ready, wakePipe, thread>>
    BY <1>7
  <2> QED BY <1>0, <2>1, <2>2, <2>3, <2>4 DEF L!LpTypeOK
<1>16. L!OwedResponses'
  BY <1>0, <1>7 DEF L!OwedResponses, L!OwedIn
<1> QED BY <1>13, <1>14, <1>15, <1>16 DEF L!LpInv

(* What removeMessages leaves is what was to stay, in the same order.       *)
LEMMA RemoveKeeps ==
  ASSUME L!LpInv, NEW whats, L!removeMessages(whats)
  PROVE  L!LpInv'
<1>0. L!LpTypeOK /\ L!QueueInOrder /\ L!WakeupScheduled /\ L!OwedResponses
  BY DEF L!LpInv
<1>1. PICK q, n : q = mMessageEnvelopes /\ n = Len(q)
  OBVIOUS
<1>2. /\ n \in Nat /\ DOMAIN q = 1 .. n
      /\ \A i \in 1 .. n : q[i] \in L!Message /\ q[i] \in pending /\ q[i].id < -left.sends
      /\ \A i, j \in 1 .. n : i < j => Earlier(q[i], q[j])
      /\ \A m \in pending : \E i \in 1 .. n : m = q[i]
      /\ left.sends \in Nat
  BY <1>0, <1>1, QueueFacts
<1>3. PICK stays : stays = {i \in 1 .. n : q[i].what \notin whats}
  OBVIOUS
<1>4. IsFiniteSet(stays)
  <2>1. IsFiniteSet(1 .. n)
    BY <1>2, FS_Interval
  <2> QED BY <1>3, <2>1, FS_Subset
<1>5. PICK c \in Nat : c = Cardinality(stays) /\ c = L!Cardinality(stays)
  BY <1>4, FS_CardinalityType, LpCard
<1>6. PICK place \in [1 .. c -> stays] :
        /\ \A i, j \in 1 .. c : i < j => place[i] < place[j]
        /\ mMessageEnvelopes' = [i \in 1 .. c |-> q[place[i]]]
  <2>1. stays = {i \in DOMAIN mMessageEnvelopes : mMessageEnvelopes[i].what \notin whats}
    BY <1>1, <1>2, <1>3
  <2>2. \E place \in [1 .. L!Cardinality(stays) -> stays] :
           /\ \A i, j \in DOMAIN place : i < j => place[i] < place[j]
           /\ mMessageEnvelopes' = [i \in DOMAIN place |-> mMessageEnvelopes[place[i]]]
    BY <2>1 DEF L!removeMessages
  <2>3. PICK place \in [1 .. c -> stays] :
           /\ \A i, j \in DOMAIN place : i < j => place[i] < place[j]
           /\ mMessageEnvelopes' = [i \in DOMAIN place |-> mMessageEnvelopes[place[i]]]
    BY <1>5, <2>2
  <2>4. DOMAIN place = 1 .. c
    BY <2>3
  <2> QED BY <1>1, <2>3, <2>4
<1>7. /\ pending' = {m \in pending : m.what \notin whats}
      /\ UNCHANGED <<now, mRequests, ready, wakePipe, waking, thread, owed, left>>
  BY DEF L!removeMessages
<1>8. \A i \in 1 .. c : place[i] \in 1 .. n /\ q[place[i]].what \notin whats
  BY <1>3, <1>6
<1>9. place \in Surjection(1 .. c, stays)
  <2>1. \A i, j \in 1 .. c : place[i] = place[j] => i = j
    <3> SUFFICES ASSUME NEW i \in 1 .. c, NEW j \in 1 .. c, place[i] = place[j], i # j
                 PROVE  FALSE
      OBVIOUS
    <3>1. place[i] \in Int /\ place[j] \in Int
      BY <1>8
    <3> QED BY <1>6, <3>1
  <2>2. place \in Injection(1 .. c, stays)
    BY <2>1 DEF Injection, IsInjective
  <2>3. IsFiniteSet(1 .. c) /\ Cardinality(1 .. c) = c
    BY <1>5, FS_Interval
  <2> QED BY <1>4, <1>5, <2>2, <2>3, FS_Injection
<1>10. PICK r : r = [i \in 1 .. c |-> q[place[i]]]
  OBVIOUS
<1>11. r \in Seq(L!Message) /\ Len(r) = c
  <2>1. \A i \in 1 .. c : q[place[i]] \in L!Message
    BY <1>2, <1>8
  <2> QED BY <1>5, <1>10, <2>1, IsASeq
<1>12. L!QueueInOrder'
  <2>1. PICK p, s : p = pending' /\ s = left.sends
    OBVIOUS
  <2>2. \A i \in 1 .. Len(r) : r[i] \in p /\ r[i].id < -s
    <3> SUFFICES ASSUME NEW i \in 1 .. c PROVE r[i] \in p /\ r[i].id < -s
      BY <1>11
    <3> QED BY <1>2, <1>7, <1>8, <1>10, <2>1
  <2>3. \A m \in p : \E i \in 1 .. Len(r) : m = r[i]
    <3> SUFFICES ASSUME NEW m \in p PROVE \E i \in 1 .. c : m = r[i]
      BY <1>11
    <3>1. m \in pending /\ m.what \notin whats
      BY <1>7, <2>1
    <3>2. PICK k \in 1 .. n : m = q[k]
      BY <1>2, <3>1
    <3>3. PICK i \in 1 .. c : place[i] = k
      BY <1>3, <1>9, <3>1, <3>2 DEF Surjection
    <3> QED BY <1>10, <3>2, <3>3
  <2>4. \A i, j \in 1 .. Len(r) : i < j => Earlier(r[i], r[j])
    <3> SUFFICES ASSUME NEW i \in 1 .. c, NEW j \in 1 .. c, i < j PROVE Earlier(r[i], r[j])
      BY <1>11
    <3>1. place[i] \in 1 .. n /\ place[j] \in 1 .. n /\ place[i] < place[j]
      BY <1>6, <1>8
    <3>2. Earlier(q[place[i]], q[place[j]])
      BY <1>2, <3>1
    <3> QED BY <1>10, <3>2
  <2>5. /\ s \in Nat /\ left'.sends = s /\ pending' = p /\ mMessageEnvelopes' = r
    BY <1>2, <1>6, <1>7, <1>10, <2>1
  <2> QED BY <1>11, <2>2, <2>3, <2>4, <2>5, QueueStep
<1>13. L!LpTypeOK'
  BY <1>0, <1>6, <1>7, <1>10, <1>11 DEF L!LpTypeOK
<1>14. L!WakeupScheduled'
  BY <1>0, <1>7 DEF L!WakeupScheduled
<1>15. L!OwedResponses'
  BY <1>0, <1>7 DEF L!OwedResponses, L!OwedIn
<1> QED BY <1>12, <1>13, <1>14, <1>15 DEF L!LpInv

(* The steps that leave the queue and the polling thread alone.             *)
LEMMA ElsewhereKeeps ==
  ASSUME L!LpInv,
         UNCHANGED <<mMessageEnvelopes, thread, pending, owed>>,
         now' \in Int, left' \in [sends : Nat, regs : Nat], left'.sends = left.sends,
         mRequests' \in [Fds -> {L!NoRequest} \cup [kind : {"callback", "ident"}, reg : Int]],
         ready' \subseteq Fds, wakePipe' \in Nat, waking' \in Nat,
         wakePipe > 0 \/ waking > 0 => wakePipe' > 0 \/ waking' > 0
  PROVE  L!LpInv'
<1>0. L!LpTypeOK /\ L!QueueInOrder /\ L!WakeupScheduled /\ L!OwedResponses
  BY DEF L!LpInv
<1>1. L!LpTypeOK'
  BY <1>0 DEF L!LpTypeOK
<1>2. L!QueueInOrder'
  BY <1>0 DEF L!QueueInOrder
<1>3. L!WakeupScheduled'
  BY <1>0 DEF L!WakeupScheduled
<1>4. L!OwedResponses'
  BY <1>0 DEF L!OwedResponses, L!OwedIn
<1> QED BY <1>1, <1>2, <1>3, <1>4 DEF L!LpInv

LEMMA OthersKeep ==
  ASSUME L!LpInv,
         \/ L!wake \/ L!Tick
         \/ \E f \in Fds : \/ \E kind \in {"callback", "ident"} : L!addFd(f, kind)
                           \/ L!removeFd(f) \/ L!DataArrivesOrIsRead(f)
  PROVE  L!LpInv' /\ UNCHANGED thread
<1>0. /\ now \in Int /\ left \in [sends : Nat, regs : Nat] /\ left.sends \in Nat
      /\ left.regs \in Nat
      /\ mRequests \in [Fds -> {L!NoRequest} \cup [kind : {"callback", "ident"}, reg : Int]]
      /\ ready \subseteq Fds /\ wakePipe \in Nat /\ waking \in Nat
  BY DEF L!LpInv, L!LpTypeOK
<1>1. CASE L!wake
  <2>1. /\ waking > 0 /\ waking' = waking - 1
        /\ wakePipe' = IF wakePipe < 1 THEN wakePipe + 1 ELSE wakePipe
        /\ UNCHANGED <<now, mMessageEnvelopes, mRequests, ready, thread, pending, owed, left>>
    BY <1>1 DEF L!wake, L!PipeSize
  <2>2. wakePipe' \in Nat /\ waking' \in Nat /\ wakePipe' > 0
    BY <1>0, <2>1
  <2> QED BY <1>0, <2>1, <2>2, ElsewhereKeeps
<1>2. CASE L!Tick
  <2>1. /\ now' = now + 1
        /\ UNCHANGED <<mMessageEnvelopes, mRequests, ready, wakePipe, waking, thread,
                       pending, owed, left>>
    BY <1>2 DEF L!Tick
  <2>2. now' \in Int
    BY <1>0, <2>1
  <2> QED BY <1>0, <2>1, <2>2, ElsewhereKeeps
<1>3. ASSUME NEW f \in Fds, NEW kind \in {"callback", "ident"}, L!addFd(f, kind)
      PROVE  L!LpInv' /\ UNCHANGED thread
  <2>1. /\ left.regs > 0 /\ left' = [left EXCEPT !.regs = left.regs - 1]
        /\ mRequests' = [mRequests EXCEPT ![f] = [kind |-> kind, reg |-> left.regs]]
        /\ UNCHANGED <<now, mMessageEnvelopes, ready, wakePipe, waking, thread, pending, owed>>
    BY <1>3 DEF L!addFd
  <2>2. left' \in [sends : Nat, regs : Nat] /\ left'.sends = left.sends
    <3>1. left.regs - 1 \in Nat
      BY <1>0, <2>1
    <3> QED BY <1>0, <2>1, <3>1
  <2>3. mRequests' \in [Fds -> {L!NoRequest} \cup [kind : {"callback", "ident"}, reg : Int]]
    <3>1. [kind |-> kind, reg |-> left.regs] \in [kind : {"callback", "ident"}, reg : Int]
      BY <1>0
    <3> QED BY <1>0, <2>1, <3>1
  <2> QED BY <1>0, <2>1, <2>2, <2>3, ElsewhereKeeps
<1>4. ASSUME NEW f \in Fds, L!removeFd(f)
      PROVE  L!LpInv' /\ UNCHANGED thread
  <2>1. /\ mRequests' = [mRequests EXCEPT ![f] = L!NoRequest]
        /\ UNCHANGED <<now, mMessageEnvelopes, ready, wakePipe, waking, thread, pending,
                       owed, left>>
    BY <1>4 DEF L!removeFd
  <2>2. mRequests' \in [Fds -> {L!NoRequest} \cup [kind : {"callback", "ident"}, reg : Int]]
    BY <1>0, <2>1
  <2> QED BY <1>0, <2>1, <2>2, ElsewhereKeeps
<1>5. ASSUME NEW f \in Fds, L!DataArrivesOrIsRead(f)
      PROVE  L!LpInv' /\ UNCHANGED thread
  <2>1. /\ ready' = IF f \in ready THEN ready \ {f} ELSE ready \cup {f}
        /\ UNCHANGED <<now, mMessageEnvelopes, mRequests, wakePipe, waking, thread, pending,
                       owed, left>>
    BY <1>5 DEF L!DataArrivesOrIsRead
  <2>2. ready' \subseteq Fds
    BY <1>0, <2>1
  <2> QED BY <1>0, <2>1, <2>2, ElsewhereKeeps
<1> QED BY <1>1, <1>2, <1>3, <1>4, <1>5

LEMMA LpInitInv ==
  ASSUME L!LpInit
  PROVE  L!LpInv
<1>1. MaxTime \in Nat /\ Quotas \subseteq [sends : Nat, regs : Nat]
  BY LooperAssumption
<1>2. /\ <<>> \in Seq(L!Message) /\ <<>> \in Seq(L!Response) /\ Len(<<>>) = 0
      /\ 0 \in Nat /\ 0 \in Int
  BY EmptySeq
<1>3. /\ now = 0 /\ mMessageEnvelopes = <<>> /\ mRequests = [f \in Fds |-> L!NoRequest]
      /\ ready = {} /\ wakePipe = 0 /\ waking = 0 /\ pending = {} /\ owed = {}
      /\ left \in Quotas
      /\ thread = L!InCaller(<<>>, 0, L!Never, L!NoMessage)
  BY DEF L!LpInit
<1>4. L!Never \in Int
  BY <1>1 DEF L!Never
<1>5. thread \in L!PollingThread
  BY <1>2, <1>3, <1>4, BackInCaller
<1>6. thread.pc = "idle"
  BY <1>3 DEF L!InCaller
<1>7. L!LpTypeOK
  BY <1>1, <1>2, <1>3, <1>5 DEF L!LpTypeOK
<1>8. L!QueueInOrder
  <2>1. DOMAIN mMessageEnvelopes = {}
    BY <1>3
  <2> QED BY <1>3, <2>1 DEF L!QueueInOrder
<1>9. L!WakeupScheduled /\ L!OwedResponses
  BY <1>3, <1>6 DEF L!WakeupScheduled, L!OwedResponses, L!OwedIn
<1> QED BY <1>7, <1>8, <1>9 DEF L!LpInv

LEMMA LpStep ==
  ASSUME L!LpInv, [Next]_allvars
  PROVE  L!LpInv' /\ Delivered(thread)
<1>1. CASE L!LpNext
  <2>1. CASE UNCHANGED thread
    <3>1. Delivered(thread)
      BY <2>1 DEF Delivered
    <3>2. CASE \/ \E d \in Timeouts, all \in BOOLEAN : L!Poll(d, all)
               \/ L!EpollReturns \/ L!HandleEvents \/ L!HandlerReturns \/ L!NextCallback
               \/ \E keep \in BOOLEAN : L!CallbackReturns(keep)
      BY <3>2, PollKeeps, EpollReturnsKeeps, HandleEventsKeeps, HandlerReturnsKeeps,
         NextCallbackKeeps, CallbackReturnsKeeps
    <3>3. CASE \/ \E u \in now .. MaxTime, w \in Whats : L!sendMessageAtTime(u, w)
               \/ L!removeMessages(Whats) \/ \E w \in Whats : L!removeMessages({w})
      BY <3>1, <3>3, SendKeeps, RemoveKeeps
    <3>4. CASE \/ L!wake \/ L!Tick
               \/ \E f \in Fds : \/ \E kind \in {"callback", "ident"} : L!addFd(f, kind)
                                 \/ L!removeFd(f) \/ L!DataArrivesOrIsRead(f)
      BY <3>1, <3>4, OthersKeep
    <3> QED BY <1>1, <3>2, <3>3, <3>4 DEF L!LpNext
  <2>2. CASE ~UNCHANGED thread
    <3>1. CASE \/ \E d \in Timeouts, all \in BOOLEAN : L!Poll(d, all)
               \/ L!EpollReturns \/ L!HandleEvents \/ L!HandlerReturns \/ L!NextCallback
               \/ \E keep \in BOOLEAN : L!CallbackReturns(keep)
      BY <3>1, PollKeeps, EpollReturnsKeeps, HandleEventsKeeps, HandlerReturnsKeeps,
         NextCallbackKeeps, CallbackReturnsKeeps
    <3>2. CASE \/ \E u \in now .. MaxTime, w \in Whats : L!sendMessageAtTime(u, w)
               \/ L!removeMessages(Whats) \/ \E w \in Whats : L!removeMessages({w})
      BY <2>2, <3>2 DEF L!sendMessageAtTime, L!removeMessages
    <3>3. CASE \/ L!wake \/ L!Tick
               \/ \E f \in Fds : \/ \E kind \in {"callback", "ident"} : L!addFd(f, kind)
                                 \/ L!removeFd(f) \/ L!DataArrivesOrIsRead(f)
      BY <2>2, <3>3, OthersKeep
    <3> QED BY <1>1, <3>1, <3>2, <3>3 DEF L!LpNext
  <2> QED BY <2>1, <2>2
<1>2. CASE UNCHANGED loop
  <2>1. UNCHANGED <<now, mMessageEnvelopes, mRequests, ready, wakePipe, waking, thread,
                    pending, owed, left>>
    BY <1>2 DEF loop
  <2>2. L!LpTypeOK'
    BY <2>1 DEF L!LpInv, L!LpTypeOK
  <2>3. L!QueueInOrder'
    BY <2>1 DEF L!LpInv, L!QueueInOrder
  <2>4. L!WakeupScheduled' /\ L!OwedResponses'
    BY <2>1 DEF L!LpInv, L!WakeupScheduled, L!OwedResponses, L!OwedIn
  <2>5. Delivered(thread)
    BY <2>1 DEF Delivered
  <2> QED BY <2>2, <2>3, <2>4, <2>5 DEF L!LpInv
<1> QED BY <1>1, <1>2 DEF Next, allvars

(* No message is slept over: while the polling thread waits, a message that *)
(* is due before the wait ends has its wakeup in the pipe or in the hands   *)
(* of the sender that put it at the head of the queue; and no signalled fd  *)
(* without a callback is dropped when a new poll throws the old responses   *)
(* away.  For every number of messages, fds and times.                      *)
THEOREM NothingIsSleptOver == Spec => []NothingSleptOver
<1>1. Init => L!LpInv
  BY LpInitInv DEF Init
<1>2. L!LpInv /\ [Next]_allvars => L!LpInv'
  BY LpStep
<1>3. L!LpInv => NothingSleptOver
  <2> SUFFICES ASSUME L!LpInv PROVE L!NoMessageSleptOver /\ L!NoEventDropped
    BY DEF NothingSleptOver
  <2>1. L!NoMessageSleptOver
    <3> SUFFICES ASSUME thread.pc = "wait", thread.timeout # 0, NEW m \in pending,
                        m.uptime < thread.deadline
                 PROVE  wakePipe > 0 \/ waking > 0
      BY DEF L!NoMessageSleptOver
    <3>1. thread.deadline <= thread.next
      BY DEF L!LpInv, L!WakeupScheduled
    <3>2. thread.deadline \in Int /\ thread.next \in Int
      BY LpFacts DEF L!PollingThread
    <3>3. m.uptime \in Int
      BY QueueFacts DEF L!LpInv
    <3>4. m.uptime < thread.next
      BY <3>1, <3>2, <3>3
    <3> QED BY <3>4 DEF L!LpInv, L!WakeupScheduled
  <2>2. L!NoEventDropped
    <3> SUFFICES ASSUME thread.pc = "wait", NEW f \in owed PROVE FALSE
      BY DEF L!NoEventDropped
    <3>1. thread.responses = <<>> /\ DOMAIN <<>> = {}
      BY LpFacts
    <3> QED BY <3>1, LpFacts DEF L!OwedIn
  <2> QED BY <2>1, <2>2
<1> QED BY <1>1, <1>2, <1>3, PTL DEF Spec, allvars

(* A message is delivered when it is due, once, never after removeMessages  *)
(* took it, and before every message that is later or was sent later for    *)
(* the same time, whatever the senders do meanwhile.                        *)
THEOREM EarliestIsDelivered == Spec => DeliversEarliest
<1>1. Init => L!LpInv
  BY LpInitInv DEF Init
<1>2. L!LpInv /\ [Next]_allvars => L!LpInv'
  BY LpStep
<1>3. L!LpInv /\ [Next]_allvars
        => [LET m == thread'.current
            IN m # thread.current /\ m # L!NoMessage =>
                 /\ m \in pending /\ m.uptime <= now
                 /\ \A n \in pending : \/ m.uptime < n.uptime
                                       \/ m.uptime = n.uptime /\ m.id <= n.id]_thread
  BY LpStep DEF Delivered
<1> QED BY <1>1, <1>2, <1>3, PTL DEF Spec, allvars, DeliversEarliest, L!DeliversEarliest
=============================================================================
