------------------------ MODULE SensorDaemonProofs ------------------------
(***************************************************************************)
(* Proofs about the sensor daemon: what it keeps on disk (SensordStart),    *)
(* how its samples are made (SensorSample), and how its counts, its sensors *)
(* and its rates follow the channels that are on (SensorDaemon), for every  *)
(* set of channels, of failing sensors and of intervals.                    *)
(***************************************************************************)
EXTENDS MCSensorDaemon, FiniteSetTheorems, SequenceTheorems, WellFoundedInduction, TLAPS

-----------------------------------------------------------------------------
(* The start.                                                              *)

LEMMA BootInit ==
  ASSUME Boot!Init
  PROVE  Boot!StartInv
<1>1. /\ pc = [p \in Pids |-> "off"] /\ another = [p \in Pids |-> 0]
      /\ landmark = 0 /\ file \in Boot!Files
      /\ mem = [p \in Pids |-> "none"] /\ lib = [p \in Pids |-> "none"]
      /\ computed = {file.body} \cap Profiles
      /\ overlap = FALSE /\ cut = FALSE
  BY DEF Boot!Init
<1>2. /\ file \in [head : 0 .. 3, body : Profiles \cup {"none", "old"}]
      /\ file.body = "old" => file.head = 1
      /\ file.body \in Profiles \cup {"none", "old"}
  BY <1>1, StartAssumption DEF Boot!Files
<1>3. Boot!TypeOK
  <2>1. computed \subseteq Profiles /\ landmark \in Pids \cup {0}
    BY <1>1
  <2>2. /\ pc \in [Pids -> Boot!Running \cup {"off", "check", "init", "truncated", "zombie"}]
        /\ another \in [Pids -> Pids \cup {0}]
        /\ mem \in [Pids -> Profiles \cup {"none", "old"}]
        /\ lib \in [Pids -> Profiles \cup {"none", "old"}]
    BY <1>1
  <2> QED BY <1>1, <1>2, <2>1, <2>2 DEF Boot!TypeOK
<1>4. Boot!LandmarkShows
  BY <1>1 DEF Boot!LandmarkShows, Boot!Running, Boot!Saving, Boot!Launching
<1>5. Boot!ProfilesKept
  BY <1>1, <1>2 DEF Boot!ProfilesKept, Boot!Whole
<1> QED BY <1>3, <1>4, <1>5 DEF Boot!StartInv

(* The process p is elsewhere, the others are where they were.             *)
LEMMA BootGoto ==
  ASSUME Boot!StartInv, NEW p \in Pids, NEW l, Boot!Goto(p, l)
  PROVE  /\ pc'[p] = l
         /\ \A q \in Pids : q # p => pc'[q] = pc[q]
         /\ l \in Boot!Running \cup {"off", "check", "init", "truncated", "zombie"} =>
              pc' \in [Pids -> Boot!Running \cup {"off", "check", "init", "truncated", "zombie"}]
BY DEF Boot!StartInv, Boot!TypeOK, Boot!Goto

(* What is kept of the profiles does not depend on a process that is not    *)
(* in the middle of a save, nor on one more that overlapped or was cut.     *)
LEMMA ProfilesStay ==
  ASSUME Boot!StartInv, UNCHANGED <<file, mem, lib, computed>>,
         overlap => overlap', cut => cut',
         \A q \in Pids : pc[q] \in {"version", "size"} =>
                            pc'[q] \in {"version", "size"} \/ cut' \/ overlap'
  PROVE  Boot!ProfilesKept'
<1>1. ASSUME NEW c, Boot!Whole(c) PROVE Boot!Whole(c)'
  BY <1>1 DEF Boot!Whole
<1>2. Boot!ProfilesKept
  BY DEF Boot!StartInv
<1>3. \A p \in Pids : Boot!Whole(lib[p])' /\ Boot!Whole(mem[p])'
  BY <1>1, <1>2 DEF Boot!ProfilesKept, Boot!Whole
<1>4. file'.body = "old" \/ Boot!Whole(file.body)'
  BY <1>1, <1>2 DEF Boot!ProfilesKept, Boot!Whole
<1>5. file'.body = "old" /\ file'.head >= 2 =>
           cut' \/ overlap' \/ \E p \in Pids : pc'[p] \in {"version", "size"}
  BY <1>2 DEF Boot!ProfilesKept
<1> QED BY <1>3, <1>4, <1>5 DEF Boot!ProfilesKept

LEMMA BootStarted ==
  ASSUME Boot!StartInv, NEW p \in Pids, Boot!Started(p)
  PROVE  Boot!StartInv'
<1>1. /\ pc[p] = "off" /\ Boot!Goto(p, "check")
      /\ another' = [another EXCEPT ![p] = landmark]
      /\ overlap' = (overlap \/ \E q \in Pids \ {p} : pc[q] \in {"check", "init", "truncated"})
      /\ UNCHANGED <<landmark, file, mem, lib, computed, cut>>
  BY DEF Boot!Started, Boot!disk, Boot!memory
<1>2. /\ pc'[p] = "check" /\ \A q \in Pids : q # p => pc'[q] = pc[q]
      /\ pc' \in [Pids -> Boot!Running \cup {"off", "check", "init", "truncated", "zombie"}]
  BY <1>1, BootGoto
<1>3. Boot!TypeOK /\ Boot!LandmarkShows
  BY DEF Boot!StartInv
<1>4. /\ another'[p] = landmark /\ \A q \in Pids : q # p => another'[q] = another[q]
      /\ another' \in [Pids -> Pids \cup {0}]
  BY <1>1, <1>3 DEF Boot!TypeOK
<1>5. Boot!TypeOK'
  BY <1>1, <1>2, <1>3, <1>4 DEF Boot!TypeOK
<1>6. Boot!LandmarkShows'
  <2>1. ASSUME ~overlap'
        PROVE  ~overlap /\ \A q \in Pids : q # p => pc[q] \notin Boot!Launching
    BY <1>1, <1>3, <2>1 DEF Boot!TypeOK, Boot!Launching
  <2>2. pc'[p] \in Boot!Launching /\ pc'[p] \notin Boot!Running
    BY <1>2 DEF Boot!Launching, Boot!Running, Boot!Saving
  <2> SUFFICES ASSUME ~overlap', NEW q \in Pids, NEW r \in Pids, q # r
               PROVE  /\ ~(pc'[q] \in Boot!Launching /\ pc'[r] \in Boot!Launching)
                      /\ pc'[r] \in Boot!Running =>
                             /\ landmark' = r
                             /\ pc'[q] \notin Boot!Running \cup {"init", "truncated"}
                             /\ pc'[q] = "check" => another'[q] = r
    BY DEF Boot!LandmarkShows
  <2>3. pc[r] \in Boot!Running => /\ landmark = r
                                  /\ pc[q] \notin Boot!Running \cup {"init", "truncated"}
                                  /\ pc[q] = "check" => another[q] = r
    BY <1>3, <2>1 DEF Boot!LandmarkShows
  <2>4. CASE q = p
    BY <1>1, <1>2, <1>4, <2>1, <2>2, <2>3, <2>4 DEF Boot!Running, Boot!Saving
  <2>5. CASE q # p
    BY <1>1, <1>2, <1>4, <2>1, <2>2, <2>3, <2>5
  <2> QED BY <2>4, <2>5
<1>7. Boot!ProfilesKept'
  BY <1>1, <1>2, ProfilesStay
<1> QED BY <1>5, <1>6, <1>7 DEF Boot!StartInv

LEMMA BootSingletonize ==
  ASSUME Boot!StartInv, NEW p \in Pids, Boot!singletonize(p)
  PROVE  Boot!StartInv'
<1>1. /\ pc[p] = "check"
      /\ Boot!Goto(p, IF Boot!OtherRuns(p, another[p]) THEN "zombie" ELSE "init")
      /\ UNCHANGED <<another, overlap, landmark, file, mem, lib, computed, cut>>
  BY DEF Boot!singletonize, Boot!disk, Boot!memory
<1>2. PICK l : l = IF Boot!OtherRuns(p, another[p]) THEN "zombie" ELSE "init"
  OBVIOUS
<1>3. /\ pc'[p] = l /\ \A q \in Pids : q # p => pc'[q] = pc[q]
      /\ pc' \in [Pids -> Boot!Running \cup {"off", "check", "init", "truncated", "zombie"}]
  BY <1>1, <1>2, BootGoto
<1>4. Boot!TypeOK /\ Boot!LandmarkShows
  BY DEF Boot!StartInv
<1>5. Boot!TypeOK'
  BY <1>1, <1>3, <1>4 DEF Boot!TypeOK
<1>6. Boot!LandmarkShows'
  <2>1. CASE l = "zombie"
    BY <1>1, <1>3, <1>4, <2>1
    DEF Boot!LandmarkShows, Boot!Launching, Boot!Running, Boot!Saving
  <2>2. CASE ~Boot!OtherRuns(p, another[p]) /\ l = "init"
    <3>1. ASSUME ~overlap, NEW q \in Pids, q # p
          PROVE  pc[q] \notin Boot!Running
      BY <1>1, <1>4, <2>2, <3>1, StartAssumption
      DEF Boot!LandmarkShows, Boot!OtherRuns, Boot!Alive
    <3> QED BY <1>1, <1>3, <1>4, <2>2, <3>1
        DEF Boot!LandmarkShows, Boot!Launching, Boot!Running, Boot!Saving
  <2> QED BY <1>2, <2>1, <2>2
<1>7. Boot!ProfilesKept'
  BY <1>1, <1>3, ProfilesStay
<1> QED BY <1>5, <1>6, <1>7 DEF Boot!StartInv

LEMMA BootMark ==
  ASSUME Boot!StartInv, NEW p \in Pids, Boot!mark_land_owner(p)
  PROVE  Boot!StartInv'
<1>1. /\ pc[p] = "init" /\ landmark' = 0 /\ Boot!Goto(p, "truncated")
      /\ UNCHANGED <<another, overlap, file, mem, lib, computed, cut>>
  BY DEF Boot!mark_land_owner, Boot!memory
<1>2. /\ pc'[p] = "truncated" /\ \A q \in Pids : q # p => pc'[q] = pc[q]
      /\ pc' \in [Pids -> Boot!Running \cup {"off", "check", "init", "truncated", "zombie"}]
  BY <1>1, BootGoto
<1>3. Boot!TypeOK /\ Boot!LandmarkShows
  BY DEF Boot!StartInv
<1>4. Boot!TypeOK'
  BY <1>1, <1>2, <1>3 DEF Boot!TypeOK
<1>5. Boot!LandmarkShows'
  BY <1>1, <1>2, <1>3
  DEF Boot!LandmarkShows, Boot!Launching, Boot!Running, Boot!Saving
<1>6. Boot!ProfilesKept'
  BY <1>1, <1>2, ProfilesStay
<1> QED BY <1>4, <1>5, <1>6 DEF Boot!StartInv

(* A profile that is read is whole: without the exception, no process is    *)
(* in a save while another one puts up its landmark.                        *)
LEMMA BootRestore ==
  ASSUME Boot!StartInv, NEW p \in Pids, Boot!algo_init_bst(p)
  PROVE  Boot!StartInv'
<1>1. /\ pc[p] = "truncated" /\ landmark' = p /\ Boot!Goto(p, "running")
      /\ mem' = Boot!restore_sensor_profile(p) /\ lib' = [lib EXCEPT ![p] = mem'[p]]
      /\ UNCHANGED <<another, overlap, file, computed, cut>>
  BY DEF Boot!algo_init_bst
<1>2. /\ pc'[p] = "running" /\ \A q \in Pids : q # p => pc'[q] = pc[q]
      /\ pc' \in [Pids -> Boot!Running \cup {"off", "check", "init", "truncated", "zombie"}]
  BY <1>1, BootGoto DEF Boot!Running
<1>3. Boot!TypeOK /\ Boot!LandmarkShows /\ Boot!ProfilesKept
  BY DEF Boot!StartInv
<1>4. PICK c : c = IF file.head = 3 /\ file.body # "none" THEN file.body ELSE "none"
  OBVIOUS
<1>5. c \in Profiles \cup {"none", "old"} /\ Boot!Whole(c)
  <2>1. file.head \in 0 .. 3 /\ file.body \in Profiles \cup {"none", "old"}
    BY <1>3 DEF Boot!TypeOK
  <2>2. CASE c = "old"
    <3>1. file.body = "old" /\ file.head >= 2
      BY <1>4, <2>2
    <3>2. ASSUME NEW q \in Pids, pc[q] \in {"version", "size"} PROVE overlap
      BY <1>1, <1>3, <3>2 DEF Boot!LandmarkShows, Boot!Running, Boot!Saving
    <3>3. cut \/ overlap
      BY <1>3, <3>1, <3>2 DEF Boot!ProfilesKept
    <3> QED BY <2>2, <3>3 DEF Boot!Whole
  <2>3. CASE c # "old"
    BY <1>3, <1>4, <2>1, <2>3 DEF Boot!ProfilesKept, Boot!Whole
  <2> QED BY <1>4, <2>1, <2>2, <2>3
<1>6. /\ mem' \in [Pids -> Profiles \cup {"none", "old"}]
      /\ mem'[p] = c /\ \A q \in Pids : q # p => mem'[q] = mem[q]
  BY <1>1, <1>3, <1>4, <1>5 DEF Boot!TypeOK, Boot!restore_sensor_profile
<1>7. /\ lib' \in [Pids -> Profiles \cup {"none", "old"}]
      /\ lib'[p] = c /\ \A q \in Pids : q # p => lib'[q] = lib[q]
  BY <1>1, <1>3, <1>5, <1>6 DEF Boot!TypeOK
<1>8. Boot!TypeOK'
  BY <1>1, <1>2, <1>3, <1>6, <1>7 DEF Boot!TypeOK
<1>9. Boot!LandmarkShows'
  BY <1>1, <1>2, <1>3
  DEF Boot!LandmarkShows, Boot!Launching, Boot!Running, Boot!Saving
<1>10. Boot!ProfilesKept'
  <2>1. \A d : Boot!Whole(d)' <=> Boot!Whole(d)
    BY <1>1 DEF Boot!Whole
  <2>2. \A q \in Pids : Boot!Whole(lib'[q]) /\ Boot!Whole(mem'[q])
    BY <1>3, <1>5, <1>6, <1>7 DEF Boot!ProfilesKept
  <2>3. \A q \in Pids : pc[q] \in {"version", "size"} => pc'[q] = pc[q]
    BY <1>1, <1>2
  <2> QED BY <1>1, <1>3, <2>1, <2>2, <2>3 DEF Boot!ProfilesKept, Boot!Whole
<1> QED BY <1>8, <1>9, <1>10 DEF Boot!StartInv

(* The library comes to a profile, or is given the one in memory again.     *)
LEMMA BootCalibrated ==
  ASSUME Boot!StartInv, NEW p \in Pids, Boot!Calibrated(p)
  PROVE  Boot!StartInv'
<1>1. PICK c \in Profiles : lib' = [lib EXCEPT ![p] = c] /\ computed' = computed \cup {c}
  BY DEF Boot!Calibrated
<1>2. UNCHANGED <<pc, another, overlap, landmark, file, mem, cut>>
  BY DEF Boot!Calibrated, Boot!process, Boot!disk
<1>3. Boot!TypeOK /\ Boot!LandmarkShows /\ Boot!ProfilesKept
  BY DEF Boot!StartInv
<1>4. /\ lib' \in [Pids -> Profiles \cup {"none", "old"}]
      /\ lib'[p] = c /\ \A q \in Pids : q # p => lib'[q] = lib[q]
  BY <1>1, <1>3 DEF Boot!TypeOK
<1>5. Boot!TypeOK'
  BY <1>1, <1>2, <1>3, <1>4 DEF Boot!TypeOK
<1>6. Boot!LandmarkShows'
  BY <1>2, <1>3 DEF Boot!LandmarkShows
<1>7. Boot!ProfilesKept'
  <2>1. ASSUME NEW d, Boot!Whole(d) PROVE Boot!Whole(d)'
    BY <1>1, <1>2, <2>1 DEF Boot!Whole
  <2>2. \A q \in Pids : Boot!Whole(lib[q])' /\ Boot!Whole(mem[q])'
    <3> SUFFICES ASSUME NEW q \in Pids
                 PROVE  Boot!Whole(lib[q])' /\ Boot!Whole(mem[q])'
      OBVIOUS
    <3>1. Boot!Whole(mem[q]) /\ Boot!Whole(lib[q])
      BY <1>3 DEF Boot!ProfilesKept
    <3>2. Boot!Whole(mem[q])' /\ (q # p => Boot!Whole(lib[q])')
      BY <1>1, <1>2, <1>4, <3>1 DEF Boot!Whole
    <3>3. q = p => Boot!Whole(lib[q])'
      BY <1>1, <1>4 DEF Boot!Whole
    <3> QED BY <3>2, <3>3 DEF Boot!Whole
  <2>3. file'.body = "old" \/ Boot!Whole(file.body)'
    BY <1>1, <1>2, <1>3 DEF Boot!ProfilesKept, Boot!Whole
  <2> QED BY <1>2, <1>3, <2>2, <2>3 DEF Boot!ProfilesKept, Boot!Whole
<1> QED BY <1>5, <1>6, <1>7 DEF Boot!StartInv

LEMMA BootLoad ==
  ASSUME Boot!StartInv, NEW p \in Pids, Boot!algo_load_calib_profile(p)
  PROVE  Boot!StartInv'
<1>1. /\ lib' = [lib EXCEPT ![p] = mem[p]]
      /\ UNCHANGED <<pc, another, overlap, landmark, file, mem, computed, cut>>
  BY DEF Boot!algo_load_calib_profile, Boot!process, Boot!disk
<1>2. Boot!TypeOK /\ Boot!LandmarkShows /\ Boot!ProfilesKept
  BY DEF Boot!StartInv
<1>3. /\ lib' \in [Pids -> Profiles \cup {"none", "old"}]
      /\ lib'[p] = mem[p] /\ \A q \in Pids : q # p => lib'[q] = lib[q]
  BY <1>1, <1>2 DEF Boot!TypeOK
<1>4. Boot!TypeOK'
  BY <1>1, <1>2, <1>3 DEF Boot!TypeOK
<1>5. Boot!LandmarkShows'
  BY <1>1, <1>2 DEF Boot!LandmarkShows
<1>6. Boot!ProfilesKept'
  BY <1>1, <1>2, <1>3 DEF Boot!ProfilesKept, Boot!Whole
<1> QED BY <1>4, <1>5, <1>6 DEF Boot!StartInv

(* A write of the save leaves the landmark to its owner.                    *)
LEMMA SaveShows ==
  ASSUME Boot!StartInv, NEW p \in Pids, NEW l \in Boot!Running, Boot!Goto(p, l),
         pc[p] \in Boot!Running, UNCHANGED <<another, overlap, landmark>>
  PROVE  Boot!LandmarkShows'
<1>1. pc'[p] = l /\ \A q \in Pids : q # p => pc'[q] = pc[q]
  BY BootGoto
<1>2. Boot!LandmarkShows
  BY DEF Boot!StartInv
<1> QED BY <1>1, <1>2 DEF Boot!LandmarkShows, Boot!Launching, Boot!Running, Boot!Saving

LEMMA BootSave ==
  ASSUME Boot!StartInv, NEW p \in Pids, Boot!algo_save_calib_profile(p)
  PROVE  Boot!StartInv'
<1>0. /\ Boot!TypeOK /\ Boot!LandmarkShows /\ Boot!ProfilesKept
      /\ UNCHANGED <<another, overlap, landmark, lib, computed, cut>>
      /\ file \in [head : 0 .. 3, body : Profiles \cup {"none", "old"}]
      /\ mem \in [Pids -> Profiles \cup {"none", "old"}]
  BY DEF Boot!StartInv, Boot!TypeOK, Boot!algo_save_calib_profile
<1>1. \A c : Boot!Whole(c)' <=> Boot!Whole(c)
  BY <1>0 DEF Boot!Whole
<1>2. \A q \in Pids : Boot!Whole(lib[q]) /\ Boot!Whole(mem[q])
  BY <1>0 DEF Boot!ProfilesKept
<1>3. CASE /\ pc[p] = "running" /\ mem' = [mem EXCEPT ![p] = lib[p]]
           /\ file' = [file EXCEPT !.head = IF @ < 1 THEN 1 ELSE @]
           /\ Boot!Goto(p, "magic")
  <2>1. /\ pc'[p] = "magic" /\ \A q \in Pids : q # p => pc'[q] = pc[q]
        /\ pc' \in [Pids -> Boot!Running \cup {"off", "check", "init", "truncated", "zombie"}]
    BY <1>3, BootGoto DEF Boot!Running, Boot!Saving
  <2>2. /\ file' \in [head : 0 .. 3, body : Profiles \cup {"none", "old"}]
        /\ file'.body = file.body /\ (file'.head >= 2 => file.head >= 2)
    BY <1>0, <1>3
  <2>3. /\ mem' \in [Pids -> Profiles \cup {"none", "old"}]
        /\ mem'[p] = lib[p] /\ \A q \in Pids : q # p => mem'[q] = mem[q]
    BY <1>0, <1>3 DEF Boot!TypeOK
  <2>4. Boot!TypeOK'
    BY <1>0, <2>1, <2>2, <2>3 DEF Boot!TypeOK
  <2>5. Boot!LandmarkShows'
    BY <1>0, <1>3, SaveShows DEF Boot!Running, Boot!Saving
  <2>6. \A q \in Pids : pc[q] \in {"version", "size"} => pc'[q] = pc[q]
    BY <1>3, <2>1
  <2>7. \A q \in Pids : Boot!Whole(lib[q])' /\ Boot!Whole(mem[q])'
    BY <1>0, <1>2, <2>3 DEF Boot!Whole
  <2>8. Boot!ProfilesKept'
    BY <1>0, <2>2, <2>6, <2>7 DEF Boot!ProfilesKept, Boot!Whole
  <2> QED BY <2>4, <2>5, <2>8 DEF Boot!StartInv
<1>4. CASE /\ pc[p] = "magic" /\ file' = [file EXCEPT !.head = IF @ < 2 THEN 2 ELSE @]
           /\ Boot!Goto(p, "version") /\ UNCHANGED mem
  <2>1. /\ pc'[p] = "version" /\ \A q \in Pids : q # p => pc'[q] = pc[q]
        /\ pc' \in [Pids -> Boot!Running \cup {"off", "check", "init", "truncated", "zombie"}]
    BY <1>4, BootGoto DEF Boot!Running, Boot!Saving
  <2>2. /\ file' \in [head : 0 .. 3, body : Profiles \cup {"none", "old"}]
        /\ file'.body = file.body
    BY <1>0, <1>4
  <2>3. Boot!TypeOK'
    BY <1>0, <1>4, <2>1, <2>2 DEF Boot!TypeOK
  <2>4. Boot!LandmarkShows'
    BY <1>0, <1>4, SaveShows DEF Boot!Running, Boot!Saving
  <2>5. Boot!ProfilesKept'
    BY <1>0, <1>2, <1>4, <2>1, <2>2 DEF Boot!ProfilesKept, Boot!Whole
  <2> QED BY <2>3, <2>4, <2>5 DEF Boot!StartInv
<1>5. CASE /\ pc[p] = "version" /\ file' = [file EXCEPT !.head = 3]
           /\ Boot!Goto(p, "size") /\ UNCHANGED mem
  <2>1. /\ pc'[p] = "size" /\ \A q \in Pids : q # p => pc'[q] = pc[q]
        /\ pc' \in [Pids -> Boot!Running \cup {"off", "check", "init", "truncated", "zombie"}]
    BY <1>5, BootGoto DEF Boot!Running, Boot!Saving
  <2>2. /\ file' \in [head : 0 .. 3, body : Profiles \cup {"none", "old"}]
        /\ file'.body = file.body
    BY <1>0, <1>5
  <2>3. Boot!TypeOK'
    BY <1>0, <1>5, <2>1, <2>2 DEF Boot!TypeOK
  <2>4. Boot!LandmarkShows'
    BY <1>0, <1>5, SaveShows DEF Boot!Running, Boot!Saving
  <2>5. Boot!ProfilesKept'
    BY <1>0, <1>2, <1>5, <2>1, <2>2 DEF Boot!ProfilesKept, Boot!Whole
  <2> QED BY <2>3, <2>4, <2>5 DEF Boot!StartInv
<1>6. CASE /\ pc[p] = "size" /\ file' = [file EXCEPT !.body = mem[p]]
           /\ Boot!Goto(p, "running") /\ UNCHANGED mem
  <2>1. /\ pc'[p] = "running" /\ \A q \in Pids : q # p => pc'[q] = pc[q]
        /\ pc' \in [Pids -> Boot!Running \cup {"off", "check", "init", "truncated", "zombie"}]
    BY <1>6, BootGoto DEF Boot!Running, Boot!Saving
  <2>2. /\ file' \in [head : 0 .. 3, body : Profiles \cup {"none", "old"}]
        /\ file'.body = mem[p]
    BY <1>0, <1>6
  <2>3. Boot!TypeOK'
    BY <1>0, <1>6, <2>1, <2>2 DEF Boot!TypeOK
  <2>4. Boot!LandmarkShows'
    BY <1>0, <1>6, SaveShows DEF Boot!Running, Boot!Saving
  <2>5. mem[p] = "old" => cut \/ overlap
    <3>1. "old" \notin computed
      BY <1>0, StartAssumption DEF Boot!TypeOK
    <3> QED BY <1>2, <3>1 DEF Boot!Whole
  <2>6. Boot!ProfilesKept'
    BY <1>0, <1>2, <1>6, <2>2, <2>5 DEF Boot!ProfilesKept, Boot!Whole
  <2> QED BY <2>3, <2>4, <2>6 DEF Boot!StartInv
<1> QED BY <1>3, <1>4, <1>5, <1>6 DEF Boot!algo_save_calib_profile

(* A process ends.  In a save of a file of another version the exception    *)
(* begins.                                                                  *)
LEMMA BootEnds ==
  ASSUME Boot!StartInv, NEW p \in Pids, Boot!Ends(p)
  PROVE  Boot!StartInv'
<1>1. /\ cut' = (cut \/ (pc[p] \in Boot!Saving /\ file.body = "old"))
      /\ mem' = [mem EXCEPT ![p] = "none"] /\ lib' = [lib EXCEPT ![p] = "none"]
      /\ Boot!Goto(p, "zombie")
      /\ UNCHANGED <<another, overlap, landmark, file, computed>>
  BY DEF Boot!Ends, Boot!disk
<1>2. Boot!TypeOK /\ Boot!LandmarkShows /\ Boot!ProfilesKept
  BY DEF Boot!StartInv
<1>3. /\ pc'[p] = "zombie" /\ \A q \in Pids : q # p => pc'[q] = pc[q]
      /\ pc' \in [Pids -> Boot!Running \cup {"off", "check", "init", "truncated", "zombie"}]
  BY <1>1, BootGoto
<1>4. /\ mem' \in [Pids -> Profiles \cup {"none", "old"}]
      /\ lib' \in [Pids -> Profiles \cup {"none", "old"}]
      /\ \A q \in Pids : /\ mem'[q] = IF q = p THEN "none" ELSE mem[q]
                         /\ lib'[q] = IF q = p THEN "none" ELSE lib[q]
  BY <1>1, <1>2 DEF Boot!TypeOK
<1>5. cut' \in BOOLEAN
  BY <1>1, <1>2 DEF Boot!TypeOK
<1>6. Boot!TypeOK'
  BY <1>1, <1>2, <1>3, <1>4, <1>5 DEF Boot!TypeOK
<1>7. Boot!LandmarkShows'
  BY <1>1, <1>2, <1>3 DEF Boot!LandmarkShows, Boot!Launching, Boot!Running, Boot!Saving
<1>8. Boot!ProfilesKept'
  <2>1. \A q \in Pids : Boot!Whole(lib[q])' /\ Boot!Whole(mem[q])'
    <3> SUFFICES ASSUME NEW q \in Pids
                 PROVE  Boot!Whole(lib[q])' /\ Boot!Whole(mem[q])'
      OBVIOUS
    <3>1. Boot!Whole(mem[q]) /\ Boot!Whole(lib[q])
      BY <1>2 DEF Boot!ProfilesKept
    <3> QED BY <1>1, <1>4, <3>1 DEF Boot!Whole
  <2>2. file'.body = "old" \/ Boot!Whole(file.body)'
    BY <1>1, <1>2 DEF Boot!ProfilesKept, Boot!Whole
  <2>3. file'.body = "old" /\ file'.head >= 2 =>
            cut' \/ overlap' \/ \E q \in Pids : pc'[q] \in {"version", "size"}
    BY <1>1, <1>2, <1>3 DEF Boot!ProfilesKept, Boot!Saving
  <2> QED BY <2>1, <2>2, <2>3 DEF Boot!ProfilesKept, Boot!Whole
<1> QED BY <1>6, <1>7, <1>8 DEF Boot!StartInv

LEMMA BootReaped ==
  ASSUME Boot!StartInv, NEW p \in Pids, Boot!Reaped(p)
  PROVE  Boot!StartInv'
<1>1. /\ pc[p] = "zombie" /\ Boot!Goto(p, "off") /\ another' = [another EXCEPT ![p] = 0]
      /\ UNCHANGED <<overlap, landmark, file, mem, lib, computed, cut>>
  BY DEF Boot!Reaped, Boot!disk, Boot!memory
<1>2. Boot!TypeOK /\ Boot!LandmarkShows
  BY DEF Boot!StartInv
<1>3. /\ pc'[p] = "off" /\ \A q \in Pids : q # p => pc'[q] = pc[q]
      /\ pc' \in [Pids -> Boot!Running \cup {"off", "check", "init", "truncated", "zombie"}]
  BY <1>1, BootGoto
<1>4. /\ another' \in [Pids -> Pids \cup {0}]
      /\ \A q \in Pids : q # p => another'[q] = another[q]
  BY <1>1, <1>2 DEF Boot!TypeOK
<1>5. Boot!TypeOK'
  BY <1>1, <1>2, <1>3, <1>4 DEF Boot!TypeOK
<1>6. Boot!LandmarkShows'
  BY <1>1, <1>2, <1>3, <1>4
  DEF Boot!LandmarkShows, Boot!Launching, Boot!Running, Boot!Saving
<1>7. Boot!ProfilesKept'
  BY <1>1, <1>3, ProfilesStay
<1> QED BY <1>5, <1>6, <1>7 DEF Boot!StartInv

LEMMA BootStep ==
  ASSUME Boot!StartInv, [Boot!Next]_bootvars
  PROVE  Boot!StartInv'
<1>1. CASE UNCHANGED bootvars
  <2>1. Boot!TypeOK'
    BY <1>1 DEF bootvars, Boot!StartInv, Boot!TypeOK
  <2>2. Boot!LandmarkShows'
    BY <1>1 DEF bootvars, Boot!StartInv, Boot!LandmarkShows
  <2>3. Boot!ProfilesKept'
    BY <1>1, ProfilesStay DEF bootvars
  <2> QED BY <2>1, <2>2, <2>3 DEF Boot!StartInv
<1>2. CASE Boot!Next
  BY <1>2, BootStarted, BootSingletonize, BootMark, BootRestore, BootCalibrated,
     BootLoad, BootSave, BootEnds, BootReaped DEF Boot!Next
<1> QED BY <1>1, <1>2

LEMMA BootClean ==
  ASSUME Boot!StartInv
  PROVE  StartsClean
<1>1. Boot!OneDaemon
  <2> DEFINE R == {p \in Pids : pc[p] \in Boot!Running}
  <2>0. Boot!Cardinality(R) = Cardinality(R)
    BY DEF Boot!Cardinality, Cardinality, Boot!IsFiniteSet, IsFiniteSet
  <2> SUFFICES ASSUME ~overlap PROVE ~(Cardinality(R) > 1)
    BY <2>0 DEF Boot!OneDaemon
  <2>1. CASE R = {}
    BY <2>1, FS_EmptySet
  <2>2. CASE R # {}
    <3>1. PICK p \in Pids : pc[p] \in Boot!Running
      BY <2>2
    <3>2. \A q \in Pids : q # p => pc[q] \notin Boot!Running
      BY <3>1 DEF Boot!StartInv, Boot!LandmarkShows
    <3>3. R = {p}
      BY <3>1, <3>2
    <3>4. Cardinality({p}) = 1
      BY FS_Singleton
    <3> HIDE DEF R
    <3> QED BY <3>3, <3>4
  <2> QED BY <2>1, <2>2
<1>2. Boot!ProfileWhole
  BY DEF Boot!StartInv, Boot!ProfilesKept, Boot!ProfileWhole, Boot!Whole
<1> QED BY <1>1, <1>2 DEF StartsClean

(* SensordStart: two instances of the daemon run at the same time only if   *)
(* one was started in the window that singletonize leaves open, and a       *)
(* library works with a whole profile even after a process ended between    *)
(* two writes of algo_save_calib_profile, the save over a file of another   *)
(* version excepted; for every number of processes and every profile.       *)
THEOREM StartsAreClean == MCSpec => []StartsClean
<1>1. MCInit => Boot!StartInv
  BY BootInit DEF MCInit
<1>2. Boot!StartInv /\ [MCNext]_mcvars => Boot!StartInv'
  BY BootStep DEF MCNext, mcvars
<1>3. Boot!StartInv => StartsClean
  BY BootClean
<1> QED BY <1>1, <1>2, <1>3, PTL DEF MCSpec

-----------------------------------------------------------------------------
(* The samples.                                                            *)

Vectors == Int \X Int \X Int

\* What sixteen bits hold of each axis.
Samples == [1 .. 3 -> Between(-32768, 32767)]

LEMMA MaxOfBounded ==
  ASSUME NEW n \in Nat, NEW X, X \subseteq 0 .. n, X # {}
  PROVE  \E x \in X : \A y \in X : x >= y
<1> DEFINE Above(x) == x .. n
           T == {Above(x) : x \in X}
<1>1. T \subseteq SUBSET (0 .. n) /\ T # {}
  <2>1. ASSUME NEW x \in X PROVE Above(x) \subseteq 0 .. n
    BY <2>1
  <2>2. PICK x : x \in X
    OBVIOUS
  <2> QED BY <2>1, <2>2
<1>2. IsWellFoundedOn(StrictSubsetOrdering(0 .. n), SUBSET (0 .. n))
  <2>1. IsFiniteSet(0 .. n)
    BY FS_Interval
  <2>2. PICK I : I = 0 .. n
    OBVIOUS
  <2>3. FiniteSubsetsOf(I) = SUBSET I
    BY <2>1, <2>2, FS_FiniteSubsetsOfFinite
  <2>4. IsWellFoundedOn(StrictSubsetOrdering(I), FiniteSubsetsOf(I))
    BY FS_StrictSubsetOrderingWellFounded
  <2> QED BY <2>2, <2>3, <2>4
<1>3. PICK m \in T : \A k \in T : ~(<<k, m>> \in StrictSubsetOrdering(0 .. n))
  <2> DEFINE R == StrictSubsetOrdering(0 .. n)
             S == SUBSET (0 .. n)
  <2>1. IsWellFoundedOn(R, S) /\ T \subseteq S /\ T # {}
    BY <1>1, <1>2
  <2> HIDE DEF R, S, T
  <2>2. \E m \in T : \A k \in T : ~(<<k, m>> \in R)
    BY <2>1, WFMin
  <2> QED BY <2>2 DEF R
<1>4. PICK x \in X : m = Above(x)
  BY <1>3
<1>5. ASSUME NEW y \in X, y > x PROVE FALSE
  <2>1. Above(y) \in T /\ Above(y) \subseteq Above(x) /\ x \in Above(x) /\ x \notin Above(y)
    BY <1>5
  <2>2. <<Above(y), Above(x)>> \in StrictSubsetOrdering(0 .. n)
    BY <1>1, <2>1 DEF StrictSubsetOrdering
  <2> QED BY <1>3, <1>4, <2>1, <2>2
<1> QED BY <1>5

(* The lines of the axis file give a sensor one of its eight places.        *)
LEMMA CfgAxis ==
  ASSUME NEW lines \in AxisFiles
  PROVE  Sample!set_cfg_axis(lines, 1) \in 0 .. 7
<1> DEFINE good == {i \in DOMAIN lines : \A j \in 1 .. i : lines[j] # <<>>}
           mine == {i \in good : lines[i][1] = h}
<1>1. Sample!set_cfg_axis(lines, 1) = IF mine = {} THEN 1 ELSE lines[Sample!Max(mine)][2]
  BY DEF Sample!set_cfg_axis
<1>2. lines \in Seq({<<>>} \cup (HW \X (0 .. 7)))
  BY SampleAssumption
<1>3. ASSUME mine # {} PROVE Sample!Max(mine) \in mine
  <2>1. mine \subseteq 0 .. Len(lines) /\ Len(lines) \in Nat
    BY <1>2, LenProperties
  <2>2. \E x \in mine : \A y \in mine : x >= y
    BY <1>3, <2>1, MaxOfBounded
  <2> QED BY <2>2 DEF Sample!Max
<1>4. ASSUME NEW i \in good PROVE lines[i][2] \in 0 .. 7
  <2>1. lines[i] # <<>> /\ lines[i] \in {<<>>} \cup (HW \X (0 .. 7))
    BY <1>2, <1>4, ElementOfSeq, LenProperties
  <2>2. lines[i] \in HW \X (0 .. 7)
    BY <2>1
  <2> QED BY <2>2
<1> HIDE DEF good
<1> QED BY <1>1, <1>3, <1>4

(* Whatever the place, the axes are turned and never mirrored.              *)
LEMMA PlacedTurns ==
  ASSUME NEW v \in Vectors, NEW p \in -1 .. 7
  PROVE  Sample!Placed(v, p) \in Sample!Turns(v)
<1>1. PICK a \in Int, b \in Int, c \in Int : v = <<a, b, c>>
  BY DEF Vectors
<1>2. CASE p = -1
  BY <1>1, <1>2 DEF Sample!Placed, Sample!Turns
<1>3. CASE p = 0
  <2>1. Sample!axis_remap_tab[p + 1] = [swap |-> TRUE, neg |-> {1}]
    BY <1>3 DEF Sample!axis_remap_tab
  <2>2. Sample!Placed(v, p) = [i \in 1 .. 3 |-> IF i \in {1} THEN 0 - <<b, a, c>>[i] ELSE <<b, a, c>>[i]]
    BY <1>1, <1>3, <2>1 DEF Sample!Placed, Sample!hw_remap_sensor_data
  <2>3. Sample!Placed(v, p) = <<-b, a, c>>
    BY <2>2
  <2> QED BY <1>1, <2>3 DEF Sample!Turns
<1>4. CASE p = 1
  <2>1. Sample!axis_remap_tab[p + 1] = [swap |-> FALSE, neg |-> {}]
    BY <1>4 DEF Sample!axis_remap_tab
  <2>2. Sample!Placed(v, p) = [i \in 1 .. 3 |-> IF i \in {} THEN 0 - <<a, b, c>>[i] ELSE <<a, b, c>>[i]]
    BY <1>1, <1>4, <2>1 DEF Sample!Placed, Sample!hw_remap_sensor_data
  <2>3. Sample!Placed(v, p) = <<a, b, c>>
    BY <2>2
  <2> QED BY <1>1, <2>3 DEF Sample!Turns
<1>5. CASE p = 2
  <2>1. Sample!axis_remap_tab[p + 1] = [swap |-> FALSE, neg |-> {1, 2}]
    BY <1>5 DEF Sample!axis_remap_tab
  <2>2. Sample!Placed(v, p) = [i \in 1 .. 3 |-> IF i \in {1, 2} THEN 0 - <<a, b, c>>[i] ELSE <<a, b, c>>[i]]
    BY <1>1, <1>5, <2>1 DEF Sample!Placed, Sample!hw_remap_sensor_data
  <2>3. Sample!Placed(v, p) = <<-a, -b, c>>
    BY <2>2
  <2> QED BY <1>1, <2>3 DEF Sample!Turns
<1>6. CASE p = 3
  <2>1. Sample!axis_remap_tab[p + 1] = [swap |-> TRUE, neg |-> {2}]
    BY <1>6 DEF Sample!axis_remap_tab
  <2>2. Sample!Placed(v, p) = [i \in 1 .. 3 |-> IF i \in {2} THEN 0 - <<b, a, c>>[i] ELSE <<b, a, c>>[i]]
    BY <1>1, <1>6, <2>1 DEF Sample!Placed, Sample!hw_remap_sensor_data
  <2>3. Sample!Placed(v, p) = <<b, -a, c>>
    BY <2>2
  <2> QED BY <1>1, <2>3 DEF Sample!Turns
<1>7. CASE p = 4
  <2>1. Sample!axis_remap_tab[p + 1] = [swap |-> FALSE, neg |-> {1, 3}]
    BY <1>7 DEF Sample!axis_remap_tab
  <2>2. Sample!Placed(v, p) = [i \in 1 .. 3 |-> IF i \in {1, 3} THEN 0 - <<a, b, c>>[i] ELSE <<a, b, c>>[i]]
    BY <1>1, <1>7, <2>1 DEF Sample!Placed, Sample!hw_remap_sensor_data
  <2>3. Sample!Placed(v, p) = <<-a, b, -c>>
    BY <2>2
  <2> QED BY <1>1, <2>3 DEF Sample!Turns
<1>8. CASE p = 5
  <2>1. Sample!axis_remap_tab[p + 1] = [swap |-> TRUE, neg |-> {3}]
    BY <1>8 DEF Sample!axis_remap_tab
  <2>2. Sample!Placed(v, p) = [i \in 1 .. 3 |-> IF i \in {3} THEN 0 - <<b, a, c>>[i] ELSE <<b, a, c>>[i]]
    BY <1>1, <1>8, <2>1 DEF Sample!Placed, Sample!hw_remap_sensor_data
  <2>3. Sample!Placed(v, p) = <<b, a, -c>>
    BY <2>2
  <2> QED BY <1>1, <2>3 DEF Sample!Turns
<1>9. CASE p = 6
  <2>1. Sample!axis_remap_tab[p + 1] = [swap |-> TRUE, neg |-> {1, 2, 3}]
    BY <1>9 DEF Sample!axis_remap_tab
  <2>2. Sample!Placed(v, p) = [i \in 1 .. 3 |-> IF i \in {1, 2, 3} THEN 0 - <<b, a, c>>[i] ELSE <<b, a, c>>[i]]
    BY <1>1, <1>9, <2>1 DEF Sample!Placed, Sample!hw_remap_sensor_data
  <2>3. Sample!Placed(v, p) = <<-b, -a, -c>>
    BY <2>2
  <2> QED BY <1>1, <2>3 DEF Sample!Turns
<1>10. CASE p = 7
  <2>1. Sample!axis_remap_tab[p + 1] = [swap |-> FALSE, neg |-> {2, 3}]
    BY <1>10 DEF Sample!axis_remap_tab
  <2>2. Sample!Placed(v, p) = [i \in 1 .. 3 |-> IF i \in {2, 3} THEN 0 - <<a, b, c>>[i] ELSE <<a, b, c>>[i]]
    BY <1>1, <1>10, <2>1 DEF Sample!Placed, Sample!hw_remap_sensor_data
  <2>3. Sample!Placed(v, p) = <<a, -b, -c>>
    BY <2>2
  <2> QED BY <1>1, <2>3 DEF Sample!Turns
<1> QED BY <1>2, <1>3, <1>4, <1>5, <1>6, <1>7, <1>8, <1>9, <1>10

(* A turn only permutes axes and changes their signs.                       *)
LEMMA TurnsBounded ==
  ASSUME NEW v \in Vectors, NEW n \in Nat,
         \A i \in 1 .. 3 : v[i] \in Between(-n, n), NEW w \in Sample!Turns(v)
  PROVE  w \in Vectors /\ \A i \in 1 .. 3 : w[i] \in Between(-n, n)
<1>1. v[1] \in Between(-n, n) /\ v[2] \in Between(-n, n) /\ v[3] \in Between(-n, n)
  OBVIOUS
<1>2. w \in Vectors /\ w[1] \in Between(-n, n) /\ w[2] \in Between(-n, n) /\ w[3] \in Between(-n, n)
  BY <1>1 DEF Sample!Turns, Vectors, Between
<1> QED BY <1>2

(* A triple of integers is a vector.                                        *)
LEMMA TriplesAreVectors ==
  ASSUME NEW n \in Nat, NEW x \in [1 .. 3 -> Between(-n, n)]
  PROVE  x \in Vectors
<1>1. x = <<x[1], x[2], x[3]>>
  OBVIOUS
<1>2. x[1] \in Int /\ x[2] \in Int /\ x[3] \in Int
  BY DEF Between
<1> QED BY <1>1, <1>2 DEF Vectors

(* A reading of the accelerometer, whatever its place, is turned and scaled. *)
LEMMA AccFaithful ==
  ASSUME NEW v \in [1 .. 3 -> Axis("A")], NEW p \in -1 .. 7
  PROVE  /\ \E w \in Sample!Turns(v) : Sample!hw_acc_read_xyzdata(v, p) = Sample!Shifted(w, 64)
         /\ Sample!hw_acc_read_xyzdata(v, p) \in Samples
<1>1. v \in [1 .. 3 -> Between(-32768, 32768)]
  BY DEF Axis, Between
<1>2. v \in Vectors /\ \A i \in 1 .. 3 : v[i] \in Between(-32768, 32768)
  BY <1>1, TriplesAreVectors
<1>3. PICK w \in Sample!Turns(v) : w = Sample!Placed(v, p)
  BY <1>2, PlacedTurns
<1>4. w \in Vectors /\ \A i \in 1 .. 3 : w[i] \in Between(-32768, 32768)
  BY <1>2, TurnsBounded
<1>5. Sample!hw_acc_read_xyzdata(v, p) = Sample!Shifted(w, 64)
  BY <1>3 DEF Sample!hw_acc_read_xyzdata
<1>6. Sample!Shifted(w, 64) \in Samples
  BY <1>4 DEF Sample!Shifted, Samples, Between
<1> QED BY <1>3, <1>5, <1>6

(* One of the magnetometer fits sixteen bits once its overflow is replaced,  *)
(* and keeps fitting them when it is turned.                                 *)
LEMMA MagFaithful ==
  ASSUME NEW v \in [1 .. 3 -> Axis("M")], NEW p \in -1 .. 7
  PROVE  /\ \E w \in Sample!Turns(Sample!hw_mag_validate_val(v)) :
                Sample!hw_mag_read_xyzdata(v, p) = w
         /\ Sample!hw_mag_read_xyzdata(v, p) \in Samples
<1>1. PICK x : x = Sample!hw_mag_validate_val(v)
  OBVIOUS
<1>2. x \in [1 .. 3 -> Between(-32767, 32767)]
  <2>1. ASSUME NEW i \in 1 .. 3
        PROVE  v[i] \in Between(-131068, 131071) \/ v[i] = -2147483647 - 1
    BY DEF Axis
  <2>2. ASSUME NEW i \in 1 .. 3, v[i] \in Between(-131068, 131071)
        PROVE  v[i] \div 4 \in Between(-32767, 32767)
    BY <2>2 DEF Between
  <2>3. x = [i \in 1 .. 3 |-> IF v[i] = -2147483647 - 1 THEN -32767 ELSE v[i] \div 4]
    BY <1>1 DEF Sample!hw_mag_validate_val, Sample!Shifted, Sample!INT_MIN, Sample!SHRT_MAX
  <2> QED BY <2>1, <2>2, <2>3 DEF Between
<1>3. x \in Vectors /\ \A i \in 1 .. 3 : x[i] \in Between(-32767, 32767)
  BY <1>2, TriplesAreVectors
<1>4. PICK w \in Sample!Turns(x) : w = Sample!Placed(x, p)
  BY <1>3, PlacedTurns
<1>5. w \in Vectors /\ \A i \in 1 .. 3 : w[i] \in Between(-32767, 32767)
  BY <1>3, TurnsBounded
<1>6. Sample!hw_mag_read_xyzdata(v, p) = w
  BY <1>1, <1>4 DEF Sample!hw_mag_read_xyzdata
<1>7. w \in Samples
  BY <1>5 DEF Vectors, Samples, Between
<1> QED BY <1>1, <1>4, <1>6, <1>7

(* What the driver holds becomes a sample that fits sixteen bits.           *)
LEMMA ConvertedFaithful ==
  ASSUME Sample!SampleInv, NEW v \in held
  PROVE  /\ \E w \in Sample!Turns(Sample!Corrected(v)) : Sample!Converted(v) = Sample!InUnits(w)
         /\ Sample!Converted(v) \in Samples
<1>0. h = "A" \/ h = "M"
  BY DEF Sample!SampleInv, Sample!HW
<1>1. place \in -1 .. 7 /\ (v \in Readings[h] \/ v = Sample!Zero)
  BY DEF Sample!SampleInv
<1>2. CASE h = "A"
  <2>1. v \in [1 .. 3 -> Axis("A")]
    <3>1. CASE v \in Readings[h]
      BY <1>2, <3>1, SampleAssumption DEF HW
    <3>2. CASE v = Sample!Zero
      BY <3>2 DEF Sample!Zero, Axis, Between
    <3> QED BY <1>1, <3>1, <3>2
  <2>2. Sample!Converted(v) = Sample!hw_acc_read_xyzdata(v, place)
    BY <1>2 DEF Sample!Converted
  <2>3. Sample!Corrected(v) = v
    BY <1>2 DEF Sample!Corrected
  <2>4. \A w : Sample!InUnits(w) = Sample!Shifted(w, 64)
    BY <1>2 DEF Sample!InUnits
  <2> QED BY <1>1, <2>1, <2>2, <2>3, <2>4, AccFaithful
<1>3. CASE h = "M"
  <2>1. v \in [1 .. 3 -> Axis("M")]
    <3>1. CASE v \in Readings[h]
      BY <1>3, <3>1, SampleAssumption DEF HW
    <3>2. CASE v = Sample!Zero
      BY <3>2 DEF Sample!Zero, Axis, Between
    <3> QED BY <1>1, <3>1, <3>2
  <2>2. Sample!Converted(v) = Sample!hw_mag_read_xyzdata(v, place)
    BY <1>3 DEF Sample!Converted
  <2>3. Sample!Corrected(v) = Sample!hw_mag_validate_val(v)
    BY <1>3 DEF Sample!Corrected
  <2>4. \A w : Sample!InUnits(w) = w
    BY <1>3 DEF Sample!InUnits
  <2> QED BY <1>1, <2>1, <2>2, <2>3, <2>4, MagFaithful
<1> QED BY <1>0, <1>2, <1>3

(* The cast to sixteen bits leaves what fits them.                          *)
LEMMA S16Fits ==
  ASSUME NEW x \in Samples
  PROVE  [i \in 1 .. 3 |-> Sample!S16(x[i])] = x
<1>1. ASSUME NEW i \in 1 .. 3 PROVE Sample!S16(x[i]) = x[i]
  <2>1. PICK y \in Between(-32768, 32767) : y = x[i]
    BY <1>1 DEF Samples
  <2>2. (y + 32768) % 65536 = y + 32768
    BY <2>1 DEF Between
  <2> QED BY <2>1, <2>2 DEF Sample!S16, Between
<1> QED BY <1>1 DEF Samples

LEMMA SampleInit ==
  ASSUME Sample!Init
  PROVE  Sample!SampleInv
<1>1. /\ h \in HW /\ reading = <<0, 0, 0>> /\ held = {<<0, 0, 0>>} /\ g_data = <<0, 0, 0>>
      /\ flip = 0 /\ told = 0 /\ Sample!Zero = <<0, 0, 0>>
  BY DEF Sample!Init, Sample!Zero, Sample!HW, HW
<1>2. place \in -1 .. 7
  <2>1. PICK lines \in AxisFiles : place \in {Sample!set_cfg_axis(lines, 1), -1}
    BY DEF Sample!Init, Sample!DriverPlace
  <2> QED BY <2>1, CfgAxis
<1>3. Sample!SampleFaithful
  <2>1. <<0, 0, 0>> \in Sample!Turns(<<0, 0, 0>>)
    BY DEF Sample!Turns
  <2>2. /\ Sample!Corrected(<<0, 0, 0>>) = <<0, 0, 0>>
        /\ Sample!InUnits(<<0, 0, 0>>) = <<0, 0, 0>>
    BY DEF Sample!hw_mag_validate_val, Sample!Shifted, Sample!INT_MIN, Sample!Corrected,
           Sample!InUnits
  <2> QED BY <1>1, <2>1, <2>2 DEF Sample!SampleFaithful
<1>4. Sample!GestureTold
  BY <1>1 DEF Sample!GestureTold, Sample!data_filter_gest_flip
<1> QED BY <1>1, <1>2, <1>3, <1>4 DEF Sample!SampleInv, Sample!HW, HW

(* What the faithfulness of a sample rests on: the sensor, what its driver   *)
(* held, and the sample itself.                                              *)
LEMMA StillFaithful ==
  ASSUME UNCHANGED h, NEW v \in held', NEW w \in Sample!Turns(Sample!Corrected(v)),
         g_data' = Sample!InUnits(w)
  PROVE  Sample!SampleFaithful'
<1>1. Sample!Corrected(v)' = Sample!Corrected(v)
  BY DEF Sample!Corrected
<1>2. Sample!InUnits(w)' = Sample!InUnits(w)
  BY DEF Sample!InUnits
<1>3. w \in Sample!Turns(Sample!Corrected(v)')
  BY <1>1
<1> QED BY <1>2, <1>3 DEF Sample!SampleFaithful

LEMMA SampleStep ==
  ASSUME Sample!SampleInv, [Sample!Next]_samplevars
  PROVE  Sample!SampleInv'
<1> USE DEF Sample!SampleInv
<1>0. ASSUME UNCHANGED <<h, g_data>>, held \subseteq held'
      PROVE  Sample!SampleFaithful'
  <2>1. PICK v \in held : \E w \in Sample!Turns(Sample!Corrected(v)) : g_data = Sample!InUnits(w)
    BY DEF Sample!SampleFaithful
  <2> QED BY <1>0, <2>1, StillFaithful
<1>1. CASE UNCHANGED samplevars
  BY <1>0, <1>1 DEF samplevars, Sample!GestureTold
<1>2. CASE Sample!Measure
  <2>1. /\ reading' \in Readings[h] /\ held' = held \cup {reading'}
        /\ UNCHANGED <<h, place, fd, g_data, sage, flip, told>>
    BY <1>2 DEF Sample!Measure
  <2>2. Sample!SampleFaithful'
    BY <1>0, <2>1
  <2>3. Sample!GestureTold'
    BY <2>1 DEF Sample!GestureTold
  <2> QED BY <2>1, <2>2, <2>3
<1>3. CASE Sample!Elapse
  BY <1>0, <1>3 DEF Sample!Elapse, Sample!GestureTold
<1>4. CASE Sample!algo_update_data
  <2>1. /\ UNCHANGED <<h, place, fd, reading, held, flip, told>>
        /\ \E o \in Sample!get_data_nb :
              g_data' = IF sage > 0 THEN Sample!DataAfter(o, g_data) ELSE g_data
    BY <1>4 DEF Sample!algo_update_data
  <2>2. \/ g_data' = g_data
        \/ \E v \in held : g_data' = [i \in 1 .. 3 |-> Sample!S16(Sample!Converted(v)[i])]
    <3>1. PICK o \in Sample!get_data_nb :
              g_data' = IF sage > 0 THEN Sample!DataAfter(o, g_data) ELSE g_data
      BY <2>1
    <3>2. o.err \/ \E v \in held : o.val = Sample!Converted(v)
      BY DEF Sample!get_data_nb
    <3> QED BY <3>1, <3>2 DEF Sample!DataAfter
  <2>3. CASE g_data' = g_data
    BY <1>0, <2>1, <2>3 DEF Sample!GestureTold
  <2>4. ASSUME NEW v \in held, g_data' = [i \in 1 .. 3 |-> Sample!S16(Sample!Converted(v)[i])]
        PROVE  Sample!SampleInv'
    <3>1. g_data' = Sample!Converted(v)
      <4>1. PICK x \in Samples : x = Sample!Converted(v)
        BY ConvertedFaithful
      <4>2. [i \in 1 .. 3 |-> Sample!S16(x[i])] = x
        BY S16Fits
      <4> QED BY <2>4, <4>1, <4>2
    <3>2. Sample!SampleFaithful'
      <4>1. PICK w \in Sample!Turns(Sample!Corrected(v)) : g_data' = Sample!InUnits(w)
        BY <3>1, ConvertedFaithful
      <4> QED BY <2>1, <4>1, StillFaithful
    <3>3. Sample!GestureTold'
      BY <2>1 DEF Sample!GestureTold
    <3> QED BY <2>1, <3>2, <3>3
  <2> QED BY <2>2, <2>3, <2>4
<1>5. CASE Sample!get_data_gest_flip
  <2>1. PICK g \in 0 .. 4 : flip' = g /\ told' = Sample!algo_get_proc_data_gest_flip(g)
    BY <1>5 DEF Sample!get_data_gest_flip
  <2>2. UNCHANGED <<h, place, fd, reading, held, g_data>>
    BY <1>5 DEF Sample!get_data_gest_flip
  <2>3. Sample!SampleFaithful'
    BY <1>0, <2>2
  <2>4. Sample!GestureTold'
    BY <2>1 DEF Sample!GestureTold, Sample!algo_get_proc_data_gest_flip,
                Sample!data_filter_gest_flip
  <2> QED BY <2>2, <2>3, <2>4
<1> QED BY <1>1, <1>2, <1>3, <1>4, <1>5 DEF Sample!Next

(* SensorSample: whatever the driver measures within its range, whichever    *)
(* reads fail and whatever axis places from 0 to 7 are configured (others    *)
(* index beyond the table), a sample is one whole reading, turned and not    *)
(* mirrored, that neither the sixteen bits nor an overflow of the            *)
(* magnetometer changes; and the last gesture                                *)
(* algo_get_proc_data_gest_flip could report is the one it told.             *)
THEOREM SamplesAreFaithful == MCSpec => []SamplesFaithful
<1>1. MCInit => Sample!SampleInv
  BY SampleInit DEF MCInit
<1>2. Sample!SampleInv /\ [MCNext]_mcvars => Sample!SampleInv'
  BY SampleStep DEF MCNext, mcvars
<1>3. Sample!SampleInv => SamplesFaithful
  BY DEF Sample!SampleInv, SamplesFaithful
<1> QED BY <1>1, <1>2, <1>3, PTL DEF MCSpec

-----------------------------------------------------------------------------
(* Counting channels.                                                      *)

LEMMA TypesFinite == IsFiniteSet(Types)
<1>1. IsFiniteSet(AllTypes)
  <2> DEFINE seq == <<"A", "M", "O", "G", "VG", "VLA", "VRV", "FLIP">>
  <2>1. seq \in Seq(AllTypes) /\ Len(seq) = 8
    BY DEF AllTypes
  <2>2. ASSUME NEW t \in AllTypes PROVE \E n \in 1 .. 8 : seq[n] = t
    <3>1. /\ seq[1] = "A" /\ seq[2] = "M" /\ seq[3] = "O" /\ seq[4] = "G"
          /\ seq[5] = "VG" /\ seq[6] = "VLA" /\ seq[7] = "VRV" /\ seq[8] = "FLIP"
      OBVIOUS
    <3> QED BY <3>1 DEF AllTypes
  <2> HIDE DEF seq
  <2>3. \A t \in AllTypes : \E n \in 1 .. Len(seq) : seq[n] = t
    BY <2>1, <2>2
  <2> QED BY <2>1, <2>3 DEF IsFiniteSet
<1> QED BY <1>1, FS_Subset, TypesAssumption

(* The channels that are on when t is switched.                            *)
Switched(t, on) == IF on THEN Active \cup {t} ELSE Active \ {t}

(* One channel more or less that is on is one more or less of those among    *)
(* them that need something.                                                 *)
LEMMA CountType ==
  ASSUME NEW X \in SUBSET Types
  PROVE  IsFiniteSet(X) /\ Cardinality(X) \in Nat
BY TypesFinite, FS_Subset, FS_CardinalityType

LEMMA CountMore ==
  ASSUME NEW X \in SUBSET Types, NEW t \in Types \ X, NEW U
  PROVE  Cardinality((X \cup {t}) \cap U) = IF t \in U THEN Cardinality(X \cap U) + 1
                                           ELSE Cardinality(X \cap U)
<1>1. PICK Z \in SUBSET Types : Z = X \cap U
  OBVIOUS
<1>2. IsFiniteSet(Z)
  BY <1>1, CountType
<1>3. CASE t \in U
  <2>1. (X \cup {t}) \cap U = Z \cup {t} /\ t \notin Z
    BY <1>1, <1>3
  <2> QED BY <1>1, <1>2, <1>3, <2>1, FS_AddElement
<1>4. CASE t \notin U
  <2>1. (X \cup {t}) \cap U = X \cap U
    BY <1>4
  <2> QED BY <1>4, <2>1
<1> QED BY <1>3, <1>4

LEMMA CountLess ==
  ASSUME NEW X \in SUBSET Types, NEW t \in X, NEW U
  PROVE  Cardinality((X \ {t}) \cap U) =
            IF t \notin U THEN Cardinality(X \cap U)
            ELSE IF Cardinality(X \cap U) > 0 THEN Cardinality(X \cap U) - 1 ELSE 0
<1>1. PICK Z \in SUBSET Types : Z = X \cap U
  OBVIOUS
<1>2. IsFiniteSet(Z) /\ Cardinality(Z) \in Nat
  BY <1>1, CountType
<1>3. CASE t \in U
  <2>1. (X \ {t}) \cap U = Z \ {t} /\ t \in Z
    BY <1>1, <1>3
  <2>2. Cardinality(Z \ {t}) = Cardinality(Z) - 1 /\ Cardinality(Z) # 0
    BY <1>2, <2>1, FS_RemoveElement, FS_EmptySet
  <2> QED BY <1>1, <1>2, <1>3, <2>1, <2>2
<1>4. CASE t \notin U
  <2>1. (X \ {t}) \cap U = X \cap U
    BY <1>4
  <2> QED BY <1>4, <2>1
<1> QED BY <1>3, <1>4

(* The list of clients with one more or one less.                          *)
LEMMA ListAdd ==
  ASSUME NEW t \in Types, clients \in Seq(Types), IsInjective(clients), t \notin Range(clients)
  PROVE  LET c == list_add_or_del(t, TRUE)
         IN  /\ c \in Seq(Types) /\ IsInjective(c)
             /\ Len(c) = Len(clients) + 1 /\ Range(c) = Range(clients) \cup {t}
<1>1. SelectInSeq(clients, LAMBDA c : c = t) = 0
  BY DEF SelectInSeq, Range
<1>2. list_add_or_del(t, TRUE) = <<t>> \o clients
  BY <1>1 DEF list_add_or_del
<1>3. PICK c : c = <<t>> \o clients
  OBVIOUS
<1>4. /\ c \in Seq(Types) /\ Len(c) = Len(clients) + 1
      /\ c[1] = t /\ \A i \in 1 .. Len(clients) : c[i + 1] = clients[i]
  BY <1>3
<1>5. \A j \in 1 .. Len(c) : j = 1 \/ (j - 1 \in 1 .. Len(clients) /\ c[j] = clients[j - 1])
  BY <1>4
<1>6. \A i \in 1 .. Len(clients) : clients[i] # t
  BY DEF Range
<1>7. IsInjective(c)
  <2>1. ASSUME NEW a \in 1 .. Len(c), NEW b \in 1 .. Len(c), c[a] = c[b]
        PROVE  a = b
    <3>1. CASE a = 1 \/ b = 1
      BY <1>4, <1>5, <1>6, <2>1, <3>1
    <3>2. CASE a # 1 /\ b # 1
      <4>1. clients[a - 1] = clients[b - 1] /\ a - 1 \in 1 .. Len(clients) /\ b - 1 \in 1 .. Len(clients)
        BY <1>5, <2>1, <3>2
      <4>2. a - 1 = b - 1
        BY <4>1 DEF IsInjective
      <4> QED BY <4>2
    <3> QED BY <3>1, <3>2
  <2> QED BY <1>4, <2>1 DEF IsInjective
<1>8. Range(c) = Range(clients) \cup {t}
  <2>1. ASSUME NEW x \in Range(clients) PROVE x \in Range(c)
    <3>1. PICK i \in 1 .. Len(clients) : x = clients[i]
      BY DEF Range
    <3>2. i + 1 \in 1 .. Len(c) /\ c[i + 1] = x
      BY <1>4, <3>1
    <3>3. c[i + 1] \in Range(c)
      BY <1>4, <3>2, SMTT(40) DEF Range
    <3> QED BY <3>2, <3>3
  <2>2. t \in Range(c)
    BY <1>4 DEF Range
  <2>3. ASSUME NEW x \in Range(c) PROVE x \in Range(clients) \cup {t}
    <3>1. PICK j \in 1 .. Len(c) : x = c[j]
      BY <1>4 DEF Range
    <3> QED BY <1>4, <1>5, <3>1 DEF Range
  <2> QED BY <2>1, <2>2, <2>3
<1> QED BY <1>2, <1>3, <1>4, <1>7, <1>8

LEMMA ListDel ==
  ASSUME NEW t \in Types, clients \in Seq(Types), IsInjective(clients), t \in Range(clients)
  PROVE  LET c == list_add_or_del(t, FALSE)
         IN  /\ c \in Seq(Types) /\ IsInjective(c)
             /\ Len(c) = Len(clients) - 1 /\ Range(c) = Range(clients) \ {t}
<1>1. PICK k \in 1 .. Len(clients) : clients[k] = t
  BY DEF Range
<1>2. \A i \in 1 .. Len(clients) : clients[i] = t => i = k
  BY <1>1 DEF IsInjective
<1>3. SelectInSeq(clients, LAMBDA v : v = t) = k
  <2>1. {i \in 1 .. Len(clients) : clients[i] = t} = {k}
    BY <1>1, <1>2
  <2>2. Min({k}) = k
    BY DEF Min
  <2> QED BY <2>1, <2>2 DEF SelectInSeq
<1>4. list_add_or_del(t, FALSE) = RemoveAt(clients, k)
  BY <1>1, <1>3 DEF list_add_or_del, RemoveFirst
<1>5. PICK c : c = RemoveAt(clients, k)
  OBVIOUS
<1>6. /\ c \in Seq(Types) /\ Len(c) = Len(clients) - 1
      /\ \A j \in 1 .. Len(c) : c[j] = IF j < k THEN clients[j] ELSE clients[j + 1]
  <2> DEFINE a == SubSeq(clients, 1, k - 1)
             b == SubSeq(clients, k + 1, Len(clients))
  <2>1. a \in Seq(Types) /\ Len(a) = k - 1 /\ \A j \in 1 .. k - 1 : a[j] = clients[j]
    BY <1>1
  <2>2. /\ b \in Seq(Types) /\ Len(b) = Len(clients) - k
        /\ \A j \in 1 .. Len(clients) - k : b[j] = clients[k + j]
    BY <1>1
  <2>3. c = a \o b
    BY <1>5 DEF RemoveAt
  <2> HIDE DEF a, b
  <2>4. /\ c \in Seq(Types) /\ Len(c) = Len(clients) - 1
        /\ \A j \in 1 .. Len(c) : c[j] = IF j <= k - 1 THEN a[j] ELSE b[j - (k - 1)]
    <3>1. c \in Seq(Types) /\ Len(c) = Len(a) + Len(b)
      BY <2>1, <2>2, <2>3, ConcatProperties
    <3>2. Len(c) = Len(clients) - 1
      BY <1>1, <2>1, <2>2, <3>1
    <3>3. ASSUME NEW j \in 1 .. Len(c)
          PROVE  c[j] = IF j <= Len(a) THEN a[j] ELSE b[j - Len(a)]
      BY <2>1, <2>2, <2>3, <3>1
    <3> QED BY <2>1, <3>1, <3>2, <3>3
  <2>5. ASSUME NEW j \in 1 .. Len(c)
        PROVE  c[j] = IF j < k THEN clients[j] ELSE clients[j + 1]
    <3>1. CASE j < k
      BY <1>1, <2>1, <2>4, <3>1
    <3>2. CASE j >= k
      <4>1. j - (k - 1) \in 1 .. Len(clients) - k /\ k + (j - (k - 1)) = j + 1
        BY <1>1, <2>4, <3>2
      <4> QED BY <1>1, <2>2, <2>4, <3>2, <4>1
    <3> QED BY <1>1, <3>1, <3>2
  <2> QED BY <2>4, <2>5
<1>7. IsInjective(c)
  <2>1. ASSUME NEW a \in 1 .. Len(c), NEW b \in 1 .. Len(c), c[a] = c[b]
        PROVE  a = b
    <3>1. PICK p \in 1 .. Len(clients) : p = IF a < k THEN a ELSE a + 1
      BY <1>1, <1>6
    <3>2. PICK q \in 1 .. Len(clients) : q = IF b < k THEN b ELSE b + 1
      BY <1>1, <1>6
    <3>3. clients[p] = c[a] /\ clients[q] = c[b]
      BY <1>6, <3>1, <3>2
    <3>4. p = q
      BY <2>1, <3>3 DEF IsInjective
    <3> QED BY <1>1, <3>1, <3>2, <3>4
  <2> QED BY <1>6, <2>1 DEF IsInjective
<1>8. Range(c) = Range(clients) \ {t}
  <2>1. ASSUME NEW x \in Range(clients), x # t PROVE x \in Range(c)
    <3>1. PICK i \in 1 .. Len(clients) : x = clients[i]
      BY DEF Range
    <3>2. i # k
      BY <1>1, <2>1, <3>1
    <3>3. PICK j \in 1 .. Len(c) : j = IF i < k THEN i ELSE i - 1
      BY <1>1, <1>6, <3>2
    <3>4. c[j] = x
      BY <1>1, <1>6, <3>1, <3>2, <3>3
    <3> QED BY <1>6, <3>4 DEF Range
  <2>2. ASSUME NEW x \in Range(c) PROVE x \in Range(clients) /\ x # t
    <3>1. PICK j \in 1 .. Len(c) : x = c[j]
      BY <1>6 DEF Range
    <3>2. PICK i \in 1 .. Len(clients) : i = IF j < k THEN j ELSE j + 1
      BY <1>1, <1>6
    <3>3. x = clients[i] /\ i # k
      BY <1>1, <1>6, <3>1, <3>2
    <3> QED BY <1>2, <3>3 DEF Range
  <2> QED BY <2>1, <2>2
<1> QED BY <1>4, <1>5, <1>6, <1>7, <1>8

(* sp_enable_ch keeps its four counts together.                             *)
LEMMA CountsSwitch ==
  ASSUME DaemonTypes, CountsAgree, IsInjective(clients),
         NEW t \in Types, NEW on \in BOOLEAN, state[t] # on,
         clients' = list_add_or_del(t, on),
         modref' = algo_update_mod_dep(t, on), hwref' = algo_update_hw_dep(t, on),
         ref' = IF bypass_proc(t) THEN ref
                ELSE IF on THEN ref + 1 ELSE IF ref > 0 THEN ref - 1 ELSE 0,
         state' = [state EXCEPT ![t] = on]
  PROVE  /\ state' \in [Types -> BOOLEAN] /\ modref' \in [Modules -> Nat]
         /\ hwref' \in [HW -> Nat] /\ ref' \in Nat /\ clients' \in Seq(Types)
         /\ Active' = Switched(t, on)
         /\ CountsAgree' /\ IsInjective(clients')
<1>1. state' \in [Types -> BOOLEAN] /\ Active' = Switched(t, on)
  BY DEF DaemonTypes, Active, Switched
<1>2. Active \in SUBSET Types /\ (on <=> t \notin Active) /\ Range(clients) = Active
  BY DEF DaemonTypes, Active, CountsAgree
<1>3. PICK X \in SUBSET Types : X = Active
  BY <1>2
<1>4. PICK Y : Y = Switched(t, on)
  OBVIOUS
<1>5. Y = (IF on THEN X \cup {t} ELSE X \ {t}) /\ Y \subseteq Types
  BY <1>3, <1>4 DEF Switched
<1>6. ASSUME NEW U, NEW n, n = Cardinality(X \cap U)
      PROVE  /\ n \in Nat
             /\ Cardinality(Y \cap U) = IF t \notin U THEN n
                                        ELSE IF on THEN n + 1 ELSE IF n > 0 THEN n - 1 ELSE 0
  <2>1. n \in Nat
    <3>1. X \cap U \in SUBSET Types
      BY <1>3
    <3> QED BY <1>6, <3>1, CountType
  <2>2. CASE on
    <3>1. t \in Types \ X /\ Y = X \cup {t}
      BY <1>2, <1>3, <1>5, <2>2
    <3>2. Cardinality((X \cup {t}) \cap U) = IF t \in U THEN Cardinality(X \cap U) + 1
                                            ELSE Cardinality(X \cap U)
      BY <3>1, CountMore
    <3> QED BY <1>6, <2>1, <2>2, <3>1, <3>2
  <2>3. CASE ~on
    <3>1. t \in X /\ Y = X \ {t}
      BY <1>2, <1>3, <1>5, <2>3
    <3>2. Cardinality((X \ {t}) \cap U) =
            IF t \notin U THEN Cardinality(X \cap U)
            ELSE IF Cardinality(X \cap U) > 0 THEN Cardinality(X \cap U) - 1 ELSE 0
      BY <3>1, CountLess
    <3> QED BY <1>6, <2>1, <2>3, <3>1, <3>2
  <2> QED BY <2>1, <2>2, <2>3
<1>7. /\ clients' \in Seq(Types) /\ IsInjective(clients')
      /\ Range(clients') = Y /\ Len(clients') = Cardinality(Y)
  <2>1. Len(clients) = Cardinality(X) /\ X \cap Types = X /\ Y \cap Types = Y
    BY <1>3, <1>5 DEF CountsAgree
  <2>2. Len(clients) \in Nat
    BY DEF DaemonTypes
  <2>3. /\ Len(clients) \in Nat
        /\ Cardinality(Y) = IF on THEN Len(clients) + 1
                            ELSE IF Len(clients) > 0 THEN Len(clients) - 1 ELSE 0
    <3>1. PICK n : n = Len(clients)
      OBVIOUS
    <3>2. n = Cardinality(X \cap Types)
      BY <2>1, <3>1
    <3>3. Cardinality(Y \cap Types) = IF t \notin Types THEN n
                                      ELSE IF on THEN n + 1 ELSE IF n > 0 THEN n - 1 ELSE 0
      BY <1>6, <3>2
    <3> QED BY <2>1, <2>2, <3>1, <3>3
  <2>4. CASE on
    <3>1. clients' = list_add_or_del(t, TRUE)
      BY <2>4
    <3>2. t \notin Range(clients) /\ clients \in Seq(Types)
      BY <1>2, <2>4 DEF DaemonTypes
    <3>3. /\ clients' \in Seq(Types) /\ IsInjective(clients')
          /\ Len(clients') = Len(clients) + 1 /\ Range(clients') = Range(clients) \cup {t}
      BY <3>1, <3>2, ListAdd
    <3> QED BY <1>2, <1>3, <1>5, <2>3, <2>4, <3>3
  <2>5. CASE ~on
    <3>1. clients' = list_add_or_del(t, FALSE)
      BY <2>5
    <3>2. t \in Range(clients) /\ clients \in Seq(Types)
      BY <1>2, <2>5 DEF DaemonTypes
    <3>3. /\ clients' \in Seq(Types) /\ IsInjective(clients')
          /\ Len(clients') = Len(clients) - 1 /\ Range(clients') = Range(clients) \ {t}
      BY <3>1, <3>2, ListDel
    <3>4. Len(clients) > 0
      BY <2>2, <3>2 DEF Range
    <3> QED BY <1>2, <1>3, <1>5, <2>2, <2>3, <2>5, <3>3, <3>4
  <2> QED BY <2>4, <2>5
<1>8. ref' \in Nat /\ ref' = Cardinality({x \in Y : ~bypass_proc(x)})
  <2> DEFINE U == {x \in Types : ~bypass_proc(x)}
  <2>1. {x \in X : ~bypass_proc(x)} = X \cap U /\ {x \in Y : ~bypass_proc(x)} = Y \cap U
    BY <1>5
  <2>2. t \in U <=> ~bypass_proc(t)
    OBVIOUS
  <2>3. ref = Cardinality(X \cap U)
    BY <1>3, <2>1 DEF CountsAgree
  <2> HIDE DEF U
  <2>4. /\ ref \in Nat
        /\ Cardinality(Y \cap U) = IF t \notin U THEN ref
                                   ELSE IF on THEN ref + 1 ELSE IF ref > 0 THEN ref - 1 ELSE 0
    BY <1>6, <2>3
  <2>5. ref' = Cardinality(Y \cap U)
    BY <2>2, <2>4
  <2>6. ref' \in Nat
    BY <2>4
  <2> QED BY <2>1, <2>5, <2>6
<1>9. modref' \in [Modules -> Nat]
  BY DEF DaemonTypes, algo_update_mod_dep, Counted
<1>10. ASSUME NEW m \in Modules
       PROVE  modref'[m] = Cardinality({x \in Y : ~bypass_proc(x) /\ m \in ModulesOf(x)})
  <2> DEFINE U == {x \in Types : ~bypass_proc(x) /\ m \in ModulesOf(x)}
             n == modref[m]
  <2>1. /\ {x \in X : ~bypass_proc(x) /\ m \in ModulesOf(x)} = X \cap U
        /\ {x \in Y : ~bypass_proc(x) /\ m \in ModulesOf(x)} = Y \cap U
    BY <1>5
  <2>2. t \in U <=> m \in IF bypass_proc(t) THEN {} ELSE ModulesOf(t)
    OBVIOUS
  <2>3. n = Cardinality(X \cap U)
    BY <1>3, <2>1 DEF CountsAgree
  <2>4. modref'[m] = IF t \notin U THEN n
                     ELSE IF on THEN n + 1 ELSE IF n > 0 THEN n - 1 ELSE 0
    <3>1. DOMAIN modref = Modules
      BY DEF DaemonTypes
    <3> HIDE DEF U
    <3> QED BY <2>2, <3>1 DEF algo_update_mod_dep, Counted
  <2> HIDE DEF U, n
  <2> QED BY <1>6, <2>1, <2>3, <2>4
<1>11. hwref' \in [HW -> Nat]
  BY DEF DaemonTypes, algo_update_hw_dep, Counted
<1>12. ASSUME NEW k \in HW
       PROVE  hwref'[k] = Cardinality({x \in Y : Sensor(k) \in needs(x)})
  <2> DEFINE U == {x \in Types : Sensor(k) \in needs(x)}
             n == hwref[k]
  <2>1. /\ {x \in X : Sensor(k) \in needs(x)} = X \cap U
        /\ {x \in Y : Sensor(k) \in needs(x)} = Y \cap U
    BY <1>5
  <2>2. t \in U <=> k \in {j \in HW : Sensor(j) \in needs(t)}
    OBVIOUS
  <2>3. n = Cardinality(X \cap U)
    BY <1>3, <2>1 DEF CountsAgree
  <2>4. hwref'[k] = IF t \notin U THEN n
                    ELSE IF on THEN n + 1 ELSE IF n > 0 THEN n - 1 ELSE 0
    <3>1. DOMAIN hwref = HW
      BY DEF DaemonTypes
    <3> HIDE DEF U
    <3> QED BY <2>2, <3>1 DEF algo_update_hw_dep, Counted
  <2> HIDE DEF U, n
  <2> QED BY <1>6, <2>1, <2>3, <2>4
<1>13. CountsAgree'
  <2>1. Active' = Y
    BY <1>1, <1>4
  <2> HIDE DEF Active
  <2> QED BY <1>7, <1>8, <1>10, <1>12, <2>1 DEF CountsAgree
<1> QED BY <1>1, <1>7, <1>8, <1>9, <1>11, <1>13

(* A module that a channel needs has been counted for it.                  *)
LEMMA NeededRun ==
  ASSUME DaemonTypes, CountsAgree, NEW t \in Active, ~bypass_proc(t),
         NEW m \in Modules, m \in ModulesOf(t)
  PROVE  m \in Ons(modref)
<1> DEFINE U == {x \in Active : ~bypass_proc(x) /\ m \in ModulesOf(x)}
<1>1. t \in U /\ modref[m] = Cardinality(U) /\ U \subseteq Types
  BY DEF CountsAgree, Active
<1> HIDE DEF U
<1>2. IsFiniteSet(U) /\ Cardinality(U) \in Nat /\ Cardinality(U) # 0
  BY <1>1, TypesFinite, FS_Subset, FS_EmptySet, FS_CardinalityType
<1> QED BY <1>1, <1>2 DEF Ons

(* The modules an event is made from are running while its channel is on.    *)
LEMMA ModulesRun ==
  ASSUME DaemonTypes, CountsAgree
  PROVE  CountsMatch
<1>1. ASSUME NEW t \in Range(clients), ~bypass_proc(t), NEW m \in OutputsOf(t)
      PROVE  m \in Ons(modref)
  <2>1. t \in Active /\ t \in AllTypes
    BY TypesAssumption DEF CountsAgree, Active
  <2>2. m \in Modules /\ m \in ModulesOf(t)
    <3>1. CASE t = "A"
      BY <1>1, <3>1 DEF bypass_proc
    <3>2. CASE t = "M"
      BY <1>1, <3>2 DEF OutputsOf, ModulesOf, needs, Modules
    <3>3. CASE t = "O"
      BY <1>1, <3>3 DEF OutputsOf, ModulesOf, needs, Modules
    <3>4. CASE t \in {"G", "VRV"}
      BY <1>1, <3>4 DEF OutputsOf, ModulesOf, needs, Modules
    <3>5. CASE t = "VG"
      BY <1>1, <3>5 DEF OutputsOf, ModulesOf, needs, Modules
    <3>6. CASE t = "VLA"
      BY <1>1, <3>6 DEF OutputsOf, ModulesOf, needs, Modules
    <3>7. CASE t = "FLIP"
      BY <1>1, <3>7 DEF OutputsOf, ModulesOf, needs, Modules
    <3> QED BY <2>1, <3>1, <3>2, <3>3, <3>4, <3>5, <3>6, <3>7 DEF AllTypes
  <2> QED BY <1>1, <2>1, <2>2, NeededRun
<1> QED BY <1>1 DEF CountsMatch

-----------------------------------------------------------------------------
(* The hardware layer, operation by operation.                             *)

Outcomes == [hw : Hw, dev : Dev, err : BOOLEAN]

LEMMA OutcomeFields ==
  ASSUME NEW k \in Hw, NEW d \in Dev, NEW e \in BOOLEAN
  PROVE  /\ Outcome(k, d, e) \in Outcomes
         /\ Outcome(k, d, e).hw = k /\ Outcome(k, d, e).dev = d /\ Outcome(k, d, e).err = e
BY DEF Outcome, Outcomes

(* A sensor that was switched without an error is in the mode it was to have.*)
LEMMA EnableOutcome ==
  ASSUME NEW id \in HW, NEW k \in Hw, NEW d \in Dev, NEW on \in BOOLEAN,
         NEW w \in SUBSET BOOLEAN, NEW o \in enable(id, k, d, on, w)
  PROVE  /\ o \in Outcomes /\ o.hw = k
         /\ ~o.err => /\ o.dev.mode = (IF ~on THEN "SUSPEND"
                                       ELSE IF id = "A" THEN "NORMAL" ELSE "SLEEP")
                      /\ id = "A" => o.dev.input = on
<1>1. CASE id = "A"
  <2>1. PICK w1 \in w, w2 \in w :
           o = Outcome(k, hw_acc_set_enable_inputev(
                              hw_acc_set_opmode(d, IF on THEN "NORMAL" ELSE "SUSPEND", w1), on, w2),
                       ~(w1 /\ w2))
    BY <1>1 DEF enable, hw_enable_a
  <2>2. w1 \in BOOLEAN /\ w2 \in BOOLEAN
    OBVIOUS
  <2>3. PICK m \in {"NORMAL", "SUSPEND"} : m = IF on THEN "NORMAL" ELSE "SUSPEND"
    OBVIOUS
  <2>4. PICK d1 : d1 = hw_acc_set_opmode(d, m, w1)
    OBVIOUS
  <2>5. d1 \in Dev /\ (w1 => d1.mode = m)
    BY <2>2, <2>4 DEF hw_acc_set_opmode, Dev
  <2>6. PICK d2 : d2 = hw_acc_set_enable_inputev(d1, on, w2)
    OBVIOUS
  <2>7. d2 \in Dev /\ d2.mode = d1.mode /\ (w2 => d2.input = on)
    BY <2>2, <2>5, <2>6 DEF hw_acc_set_enable_inputev, Dev
  <2>8. PICK e \in BOOLEAN : e = ~(w1 /\ w2)
    OBVIOUS
  <2>9. o = Outcome(k, d2, e)
    BY <2>1, <2>3, <2>4, <2>6, <2>8
  <2>10. o \in Outcomes /\ o.hw = k /\ o.dev = d2 /\ o.err = e
    BY <2>7, <2>8, <2>9, OutcomeFields
  <2> QED BY <1>1, <2>3, <2>5, <2>7, <2>8, <2>10
<1>2. CASE id = "M"
  <2>1. PICK w1 \in w :
           o = Outcome(k, hw_mag_set_opmode(d, IF on THEN "SLEEP" ELSE "SUSPEND", w1), ~w1)
    BY <1>2 DEF enable, hw_enable_m
  <2>2. PICK e \in BOOLEAN : e = ~w1
    OBVIOUS
  <2>3. PICK m \in {"SLEEP", "SUSPEND"} : m = IF on THEN "SLEEP" ELSE "SUSPEND"
    OBVIOUS
  <2>4. PICK d1 : d1 = hw_mag_set_opmode(d, m, w1)
    OBVIOUS
  <2>5. d1 \in Dev /\ (w1 => d1.mode = m)
    BY <2>2, <2>4 DEF hw_mag_set_opmode, Dev
  <2>6. o = Outcome(k, d1, e)
    BY <2>1, <2>2, <2>3, <2>4
  <2>7. o \in Outcomes /\ o.hw = k /\ o.dev = d1 /\ o.err = e
    BY <2>2, <2>5, <2>6, OutcomeFields, ZenonT(60)
  <2>8. ~o.err => o.dev.mode = m
    BY <2>2, <2>5, <2>7
  <2>9. m = IF ~on THEN "SUSPEND" ELSE IF id = "A" THEN "NORMAL" ELSE "SLEEP"
    BY <1>2, <2>3
  <2> QED BY <1>2, <2>7, <2>8, <2>9
<1> QED BY <1>1, <1>2 DEF HW

(* restore_cfg may leave the magnetometer asleep without an error.          *)
LEMMA RestoreOutcome ==
  ASSUME NEW id \in HW, NEW k \in Hw, NEW d \in Dev, NEW w \in SUBSET BOOLEAN,
         NEW o \in restore_cfg(id, k, d, w)
  PROVE  /\ o \in Outcomes /\ o.hw = k
         /\ id = "A" => o.dev = d /\ ~o.err
         /\ id = "M" => o.dev.mode \in {"FORCED", d.mode}
<1>1. CASE id = "A"
  <2>1. o = Outcome(k, d, FALSE)
    BY <1>1 DEF restore_cfg
  <2> QED BY <1>1, <2>1, OutcomeFields
<1>2. CASE id = "M"
  <2>1. PICK w1 \in w, w2 \in w, w3 \in w :
           o = Outcome(k, hw_mag_set_opmode(d, "FORCED", w3), ~(w1 /\ w2))
    BY <1>2 DEF restore_cfg
  <2>2. PICK d1 : d1 = hw_mag_set_opmode(d, "FORCED", w3)
    OBVIOUS
  <2>3. PICK e \in BOOLEAN : e = ~(w1 /\ w2)
    OBVIOUS
  <2>4. d1 \in Dev /\ d1.mode \in {"FORCED", d.mode}
    BY <2>2 DEF hw_mag_set_opmode, Dev
  <2>5. o = Outcome(k, d1, e)
    BY <2>1, <2>2, <2>3
  <2>6. o \in Outcomes /\ o.hw = k /\ o.dev = d1
    BY <2>3, <2>4, <2>5, OutcomeFields, ZenonT(60)
  <2> QED BY <1>2, <2>4, <2>6
<1> QED BY <1>1, <1>2 DEF HW

LEMMA RefUpOutcome ==
  ASSUME NEW id \in HW, NEW k \in Hw, NEW d \in Dev, NEW w \in SUBSET BOOLEAN,
         NEW o \in hw_ref_up(id, k, d, w)
  PROVE  /\ o \in Outcomes
         /\ k.ref = 0 /\ ~o.err => /\ o.hw.ref = 1 /\ o.hw.enabled = TRUE
                                   /\ id = "A" => o.dev.mode = "NORMAL" /\ o.dev.input = TRUE
                                   /\ id = "M" => o.dev.mode \in {"FORCED", "SLEEP"}
<1>1. PICK k1 : k1 = [k EXCEPT !.ref = @ + 1]
  OBVIOUS
<1>2. k1 \in Hw /\ k1.ref = k.ref + 1
  BY <1>1 DEF Hw
<1>0. CASE k1.ref # 1
  <2>1. o = Outcome(k1, d, FALSE)
    BY <1>0, <1>1 DEF hw_ref_up
  <2>2. o \in Outcomes
    BY <1>2, <2>1, OutcomeFields
  <2>3. k.ref # 0
    BY <1>0, <1>2 DEF Hw
  <2> QED BY <2>2, <2>3
<1> SUFFICES ASSUME k1.ref = 1
             PROVE  /\ o \in Outcomes
                    /\ ~o.err => /\ o.hw.ref = 1 /\ o.hw.enabled = TRUE
                                 /\ id = "A" => o.dev.mode = "NORMAL" /\ o.dev.input = TRUE
                                 /\ id = "M" => o.dev.mode \in {"FORCED", "SLEEP"}
  BY <1>0
<1>3. PICK p \in enable(id, k1, d, TRUE, w) :
         o \in IF p.err THEN {p}
               ELSE restore_cfg(id, [p.hw EXCEPT !.enabled = TRUE], p.dev, w)
  BY <1>1, <1>2 DEF hw_ref_up
<1>4. /\ p \in Outcomes /\ p.hw = k1
      /\ ~p.err => /\ p.dev.mode = (IF id = "A" THEN "NORMAL" ELSE "SLEEP")
                   /\ id = "A" => p.dev.input = TRUE
  <2>1. PICK on \in BOOLEAN : on = TRUE
    OBVIOUS
  <2>2. p \in enable(id, k1, d, on, w)
    BY <1>3, <2>1
  <2>3. /\ p \in Outcomes /\ p.hw = k1
        /\ ~p.err => /\ p.dev.mode = (IF ~on THEN "SUSPEND"
                                       ELSE IF id = "A" THEN "NORMAL" ELSE "SLEEP")
                     /\ id = "A" => p.dev.input = on
    BY <1>2, <2>2, EnableOutcome
  <2> QED BY <2>1, <2>3
<1>5. CASE p.err
  BY <1>3, <1>4, <1>5
<1>6. CASE ~p.err
  <2>1. PICK k2 : k2 = [k1 EXCEPT !.enabled = TRUE]
    OBVIOUS
  <2>2. k2 \in Hw /\ k2.ref = 1 /\ k2.enabled = TRUE
    BY <1>2, <2>1 DEF Hw
  <2>3. o \in restore_cfg(id, k2, p.dev, w) /\ p.dev \in Dev
    BY <1>3, <1>4, <1>6, <2>1 DEF Outcomes
  <2>4. /\ o \in Outcomes /\ o.hw = k2
        /\ id = "A" => o.dev = p.dev /\ ~o.err
        /\ id = "M" => o.dev.mode \in {"FORCED", p.dev.mode}
    BY <2>2, <2>3, RestoreOutcome
  <2>5. id = "M" => p.dev.mode = "SLEEP"
    BY <1>4, <1>6
  <2> QED BY <1>4, <1>6, <2>2, <2>4, <2>5
<1> QED BY <1>5, <1>6

LEMMA RefDownOutcome ==
  ASSUME NEW id \in HW, NEW k \in Hw, NEW d \in Dev, NEW w \in SUBSET BOOLEAN,
         NEW o \in hw_ref_down(id, k, d, w)
  PROVE  /\ o \in Outcomes
         /\ k.ref = 1 /\ ~o.err => /\ o.hw.ref = 0 /\ o.hw.enabled = FALSE
                                   /\ o.dev.mode = "SUSPEND"
                                   /\ id = "A" => o.dev.input = FALSE
<1>1. CASE k.ref = 1
  <2>1. PICK p \in enable(id, k, d, FALSE, w) :
           o = [p EXCEPT !.hw.enabled = IF p.err THEN @ ELSE FALSE, !.hw.ref = 0]
    BY <1>1 DEF hw_ref_down
  <2>2. /\ p \in Outcomes /\ p.hw = k
        /\ ~p.err => p.dev.mode = "SUSPEND" /\ (id = "A" => p.dev.input = FALSE)
    <3>1. PICK off \in BOOLEAN : off = FALSE
      OBVIOUS
    <3>2. p \in enable(id, k, d, off, w)
      BY <3>1
    <3>3. /\ p \in Outcomes /\ p.hw = k
          /\ ~p.err => /\ p.dev.mode = (IF ~off THEN "SUSPEND"
                                         ELSE IF id = "A" THEN "NORMAL" ELSE "SLEEP")
                       /\ id = "A" => p.dev.input = off
      BY <3>2, EnableOutcome
    <3> QED BY <3>1, <3>3
  <2>3. /\ o.dev = p.dev /\ o.err = p.err
        /\ o.hw.ref = 0 /\ (~p.err => o.hw.enabled = FALSE)
        /\ o \in Outcomes
    <3>1. PICK e \in BOOLEAN : e = IF p.err THEN p.hw.enabled ELSE FALSE
      BY <2>2 DEF Outcomes, Hw
    <3>2. PICK k1 : k1 = [p.hw EXCEPT !.enabled = e]
      OBVIOUS
    <3>3. PICK k2 : k2 = [k1 EXCEPT !.ref = 0]
      OBVIOUS
    <3>4. k2 \in Hw /\ k2.ref = 0 /\ k2.enabled = e
      BY <2>2, <3>1, <3>2, <3>3 DEF Hw
    <3>5. o = [p EXCEPT !.hw = k2]
      BY <2>1, <2>2, <3>1, <3>2, <3>3 DEF Outcomes
    <3> QED BY <2>2, <3>1, <3>4, <3>5 DEF Outcomes
  <2> QED BY <2>2, <2>3
<1>2. CASE k.ref # 1
  <2>1. o = Outcome([k EXCEPT !.ref = IF @ > 0 THEN @ - 1 ELSE @], d, FALSE)
    BY <1>2 DEF hw_ref_down
  <2>2. PICK k1 : k1 = [k EXCEPT !.ref = IF @ > 0 THEN @ - 1 ELSE @]
    OBVIOUS
  <2>3. k1 \in Hw
    BY <2>2 DEF Hw
  <2> QED BY <1>2, <2>1, <2>2, <2>3, OutcomeFields
<1> QED BY <1>1, <1>2

(* What the tables give for a rate.                                        *)
LEMMA Tables ==
  ASSUME NEW q \in Rates
  PROVE  ref_bw[q] \in BW /\ intvl[q] \in Nat
<1>1. q = 0 \/ q = 1 \/ q = 2 \/ q = 3 \/ q = 4 \/ q = 5 \/ q = 6 \/ q = 7
  BY DEF Rates
<1>2. ref_bw[q] = <<0, 0, 0, 1, 1, 2, 3, 4>>[q + 1]
  BY DEF ref_bw
<1>3. intvl[q] = <<1000, 200, 100, 50, 40, 20, 10, 5>>[q + 1]
  BY DEF intvl
<1>4. ref_bw[q] \in 0 .. 4
  BY <1>1, <1>2
<1>5. intvl[q] \in Nat
  BY <1>1, <1>3
<1> QED BY <1>4, <1>5 DEF BW, HW_A_BW_INVALID

(* Giving the accelerometer its bandwidth and delay switches nothing.       *)
LEMMA ProgrammedOutcome ==
  ASSUME NEW o \in Outcomes, NEW r \in [Sensors -> Rates], NEW p \in Programmed(o, r)
  PROVE  /\ p \in Outcomes
         /\ p.hw.ref = o.hw.ref /\ p.hw.enabled = o.hw.enabled
         /\ p.dev.mode = o.dev.mode /\ p.dev.input = o.dev.input
<1>1. PICK q \in Rates : q = r["acc"]
  BY DEF Sensors
<1>2. PICK bw \in BW : bw = ref_bw[q]
  BY Tables
<1>3. PICK ms \in Nat : ms = intvl[q]
  BY Tables
<1>4. PICK b \in set_bw(o.hw, o.dev, bw, Answers("A")) :
         p \in set_delay(b.hw, b.dev, ms, Answers("A"))
  BY <1>1, <1>2, <1>3 DEF Programmed
<1>5. o.hw \in Hw /\ o.dev \in Dev
  BY DEF Outcomes
<1>6. /\ b.hw \in Hw /\ b.dev \in Dev
      /\ b.hw.ref = o.hw.ref /\ b.hw.enabled = o.hw.enabled
      /\ b.dev.mode = o.dev.mode /\ b.dev.input = o.dev.input
  <2>1. PICK k : k = [o.hw EXCEPT !.bw = bw]
    OBVIOUS
  <2>2. PICK d : d = [o.dev EXCEPT !.bw = bw]
    OBVIOUS
  <2>3. k \in Hw /\ k.ref = o.hw.ref /\ k.enabled = o.hw.enabled
    BY <1>5, <2>1 DEF Hw
  <2>4. d \in Dev /\ d.mode = o.dev.mode /\ d.input = o.dev.input
    BY <1>5, <2>2 DEF Dev
  <2>5. \E e \in BOOLEAN : b = Outcome(o.hw, o.dev, e) \/ b = Outcome(k, d, e)
    BY <1>4, <2>1, <2>2 DEF set_bw
  <2> QED BY <1>5, <2>3, <2>4, <2>5, OutcomeFields
<1>7. PICK w1 \in Answers("A") :
         p = Outcome(b.hw, IF w1 THEN [b.dev EXCEPT !.delay = ms] ELSE b.dev, ~w1)
  BY <1>4 DEF set_delay
<1>8. PICK d : d = IF w1 THEN [b.dev EXCEPT !.delay = ms] ELSE b.dev
  OBVIOUS
<1>9. d \in Dev /\ d.mode = b.dev.mode /\ d.input = b.dev.input
  BY <1>6, <1>8 DEF Dev
<1>10. PICK e \in BOOLEAN : e = ~w1
  OBVIOUS
<1>11. p \in Outcomes /\ p.hw = b.hw /\ p.dev = d
  BY <1>6, <1>7, <1>8, <1>9, <1>10, OutcomeFields, ZenonT(60)
<1> QED BY <1>6, <1>9, <1>11

(* Whether a sensor follows its count, said for a count that is given.       *)
LEMMA FollowsTwo ==
  ASSUME NEW k, NEW on \in BOOLEAN
  PROVE  SensorFollows(k, on) <=> /\ on => SensorFollows(k, TRUE)
                                  /\ ~on => SensorFollows(k, FALSE)
<1>1. CASE on = TRUE
  BY <1>1
<1>2. CASE on = FALSE
  BY <1>2
<1> QED BY <1>1, <1>2

(* A sensor that did what was needed before and is switched without an error *)
(* does what is needed now; only the magnetometer may have been left asleep. *)
LEMMA RefOutcome ==
  ASSUME DaemonTypes, NEW id \in HW, NEW need \in SUBSET HW,
         NEW o \in RefOutcomes(id, need),
         id \notin failed => /\ id \in dep => SensorFollows(id, TRUE)
                             /\ id \notin dep => SensorFollows(id, FALSE)
  PROVE  /\ o \in Outcomes
         /\ id \notin failed /\ ~o.err =>
              /\ id \in need => /\ o.hw.ref = 1 /\ o.hw.enabled = TRUE
                                /\ id = "A" => o.dev.mode = "NORMAL" /\ o.dev.input = TRUE
                                /\ id = "M" => o.dev.mode \in {"FORCED", "SLEEP"}
              /\ id \notin need => /\ o.hw.ref = 0 /\ o.hw.enabled = FALSE
                                   /\ o.dev.mode = "SUSPEND"
                                   /\ id = "A" => o.dev.input = FALSE
<1>1. hw[id] \in Hw /\ dev[id] \in Dev /\ Answers(id) \in SUBSET BOOLEAN
  BY DEF DaemonTypes, Answers
<1>2. /\ id \notin failed /\ id \in dep =>
            /\ hw[id].ref = 1 /\ hw[id].enabled = TRUE
            /\ dev[id].mode = (IF id = "A" THEN "NORMAL" ELSE "FORCED")
            /\ id = "A" => dev[id].input = TRUE
      /\ id \notin failed /\ id \notin dep =>
            /\ hw[id].ref = 0 /\ hw[id].enabled = FALSE /\ dev[id].mode = "SUSPEND"
            /\ id = "A" => dev[id].input = FALSE
  BY DEF SensorFollows
<1>3. CASE id \in need /\ id \notin dep
  <2>1. o \in hw_ref_up(id, hw[id], dev[id], Answers(id))
    BY <1>3 DEF RefOutcomes
  <2> QED BY <1>1, <1>2, <1>3, <2>1, RefUpOutcome
<1>4. CASE id \notin need /\ id \in dep
  <2>1. o \in hw_ref_down(id, hw[id], dev[id], Answers(id))
    BY <1>4 DEF RefOutcomes
  <2>2. /\ o \in Outcomes
        /\ hw[id].ref = 1 /\ ~o.err => /\ o.hw.ref = 0 /\ o.hw.enabled = FALSE
                                       /\ o.dev.mode = "SUSPEND"
                                       /\ id = "A" => o.dev.input = FALSE
    BY <1>1, <2>1, RefDownOutcome
  <2>3. id \notin failed => hw[id].ref = 1
    BY <1>2, <1>4
  <2> QED BY <1>4, <2>2, <2>3
<1>5. CASE id \in need <=> id \in dep
  <2>1. o = Outcome(hw[id], dev[id], FALSE)
    BY <1>5 DEF RefOutcomes
  <2>2. o \in Outcomes /\ o.hw = hw[id] /\ o.dev = dev[id]
    BY <1>1, <2>1, OutcomeFields
  <2> QED BY <1>2, <1>5, <2>2
<1> QED BY <1>3, <1>4, <1>5

(* sp_re_check_dep_hw brings every sensor that does not fail to what is      *)
(* needed, and gives the accelerometer its rate.                             *)
LEMMA SwitchFollows ==
  ASSUME DaemonTypes, NEW need \in SUBSET HW, NEW r \in [Sensors -> Rates],
         SwitchHardware(need, r),
         \A k \in HW \ failed : /\ k \in dep => SensorFollows(k, TRUE)
                                /\ k \notin dep => SensorFollows(k, FALSE)
  PROVE  /\ dep' \subseteq HW /\ hw' \in [HW -> Hw] /\ dev' \in [HW -> Dev]
         /\ failed' \subseteq HW /\ failed \subseteq failed'
         /\ \A k \in HW \ failed' : /\ k \in need => SensorFollows(k, TRUE)'
                                    /\ k \notin need => SensorFollows(k, FALSE)'
         /\ "A" \in dep' \ failed' => dev'["A"].delay = intvl[r["acc"]]
<1>0. HW = {"A", "M"}
  BY DEF HW
<1> DEFINE Err(a, m) == {k \in HW : IF k = "A" THEN a.err ELSE m.err}
           Dep(a, m) == (need \ Err(a, m)) \cup (dep \cap Err(a, m))
           Effect(a, m, p) ==
             /\ dep' = Dep(a, m)
             /\ hw' = [k \in HW |-> IF k = "A" THEN p.hw ELSE m.hw]
             /\ dev' = [k \in HW |-> IF k = "A" THEN p.dev ELSE m.dev]
             /\ failed' = failed \cup Err(a, m)
                          \cup (IF "A" \in Dep(a, m) /\ (p.hw.bw # ref_bw[r["acc"]]
                                                         \/ p.dev.delay # intvl[r["acc"]])
                                THEN {"A"} ELSE {})
                          \cup (IF dev'["M"].mode = "SLEEP" THEN {"M"} ELSE {})
<1>a. PICK a \in RefOutcomes("A", need), m \in RefOutcomes("M", need) :
         \E p \in IF "A" \in Dep(a, m) THEN Programmed(a, r) ELSE {a} : Effect(a, m, p)
  BY DEF SwitchHardware
<1>b. PICK p \in IF "A" \in Dep(a, m) THEN Programmed(a, r) ELSE {a} : Effect(a, m, p)
  BY <1>a
<1>c. PICK err : err = Err(a, m)
  OBVIOUS
<1>d. PICK dep1 : dep1 = Dep(a, m)
  OBVIOUS
<1>1. /\ a \in RefOutcomes("A", need) /\ m \in RefOutcomes("M", need)
      /\ err = {k \in HW : IF k = "A" THEN a.err ELSE m.err}
      /\ dep1 = (need \ err) \cup (dep \cap err)
      /\ p \in IF "A" \in dep1 THEN Programmed(a, r) ELSE {a}
      /\ dep' = dep1
      /\ hw' = [k \in HW |-> IF k = "A" THEN p.hw ELSE m.hw]
      /\ dev' = [k \in HW |-> IF k = "A" THEN p.dev ELSE m.dev]
      /\ failed' = failed \cup err
                   \cup (IF "A" \in dep1 /\ (p.hw.bw # ref_bw[r["acc"]]
                                             \/ p.dev.delay # intvl[r["acc"]])
                         THEN {"A"} ELSE {})
                   \cup (IF dev'["M"].mode = "SLEEP" THEN {"M"} ELSE {})
  BY <1>a, <1>b, <1>c, <1>d
<1> HIDE DEF Err, Dep, Effect
<1>2. a \in Outcomes /\ m \in Outcomes
  BY <1>0, <1>1, RefOutcome
<1>3. /\ p \in Outcomes
      /\ p.hw.ref = a.hw.ref /\ p.hw.enabled = a.hw.enabled
      /\ p.dev.mode = a.dev.mode /\ p.dev.input = a.dev.input
  <2>1. CASE "A" \in dep1
    BY <1>1, <1>2, <2>1, ProgrammedOutcome
  <2>2. CASE "A" \notin dep1
    BY <1>1, <1>2, <2>2
  <2> QED BY <2>1, <2>2
<1>4. hw' \in [HW -> Hw] /\ hw'["A"] = p.hw /\ hw'["M"] = m.hw
  BY <1>0, <1>1, <1>2, <1>3 DEF Outcomes
<1>5. dev' \in [HW -> Dev] /\ dev'["A"] = p.dev /\ dev'["M"] = m.dev
  BY <1>0, <1>1, <1>2, <1>3 DEF Outcomes
<1>6. /\ dep' \subseteq HW /\ failed' \subseteq HW /\ failed \subseteq failed'
      /\ err \subseteq failed' /\ (m.dev.mode = "SLEEP" => "M" \in failed')
      /\ \A k \in HW \ err : k \in dep' <=> k \in need
  BY <1>0, <1>1, <1>5 DEF DaemonTypes
<1>7. ASSUME "A" \notin failed'
      PROVE  /\ "A" \in need => SensorFollows("A", TRUE)'
             /\ "A" \notin need => SensorFollows("A", FALSE)'
  <2>1. "A" \notin failed /\ ~a.err /\ ("A" \in dep' <=> "A" \in need)
    BY <1>0, <1>1, <1>6, <1>7
  <2>2. /\ "A" \in need => /\ a.hw.ref = 1 /\ a.hw.enabled = TRUE
                           /\ a.dev.mode = "NORMAL" /\ a.dev.input = TRUE
        /\ "A" \notin need => /\ a.hw.ref = 0 /\ a.hw.enabled = FALSE
                              /\ a.dev.mode = "SUSPEND" /\ a.dev.input = FALSE
    BY <1>0, <1>1, <2>1, RefOutcome
  <2> QED BY <1>3, <1>4, <1>5, <2>1, <2>2 DEF SensorFollows
<1>8. ASSUME "M" \notin failed'
      PROVE  /\ "M" \in need => SensorFollows("M", TRUE)'
             /\ "M" \notin need => SensorFollows("M", FALSE)'
  <2>1. "M" \notin failed /\ ~m.err /\ ("M" \in dep' <=> "M" \in need) /\ m.dev.mode # "SLEEP"
    BY <1>0, <1>1, <1>6, <1>8
  <2>2. /\ "M" \in need => /\ m.hw.ref = 1 /\ m.hw.enabled = TRUE
                           /\ m.dev.mode \in {"FORCED", "SLEEP"}
        /\ "M" \notin need => /\ m.hw.ref = 0 /\ m.hw.enabled = FALSE
                              /\ m.dev.mode = "SUSPEND"
    <3>1. m \in RefOutcomes("M", need) /\ "M" \in HW \ failed
      BY <1>0, <1>1, <2>1
    <3>2. "M" \notin failed /\ ~m.err =>
            /\ "M" \in need => /\ m.hw.ref = 1 /\ m.hw.enabled = TRUE
                               /\ "M" = "A" => m.dev.mode = "NORMAL" /\ m.dev.input = TRUE
                               /\ "M" = "M" => m.dev.mode \in {"FORCED", "SLEEP"}
            /\ "M" \notin need => /\ m.hw.ref = 0 /\ m.hw.enabled = FALSE
                                  /\ m.dev.mode = "SUSPEND"
                                  /\ "M" = "A" => m.dev.input = FALSE
      BY <3>1, RefOutcome
    <3> QED BY <2>1, <3>2
  <2> QED BY <1>4, <1>5, <2>1, <2>2 DEF SensorFollows
<1>9. "A" \in dep' \ failed' => dev'["A"].delay = intvl[r["acc"]]
  BY <1>1, <1>5
<1> QED BY <1>0, <1>4, <1>5, <1>6, <1>7, <1>8, <1>9

-----------------------------------------------------------------------------
(* Rates.                                                                  *)

LEMMA MaxTwo ==
  ASSUME NEW a \in Int, NEW b \in Int
  PROVE  Max({a, b}) = IF a >= b THEN a ELSE b
<1>1. PICK m \in {a, b} : m = IF a >= b THEN a ELSE b
  OBVIOUS
<1>2. \A y \in {a, b} : m >= y
  BY <1>1
<1>3. Max({a, b}) \in {a, b} /\ \A y \in {a, b} : Max({a, b}) >= y
  BY <1>2 DEF Max
<1> QED BY <1>1, <1>2, <1>3

LEMMA MinTwo ==
  ASSUME NEW a \in Int, NEW b \in Int
  PROVE  Min({a, b}) = IF a <= b THEN a ELSE b
<1>1. PICK m \in {a, b} : m = IF a <= b THEN a ELSE b
  OBVIOUS
<1>2. \A y \in {a, b} : m <= y
  BY <1>1
<1>3. Min({a, b}) \in {a, b} /\ \A y \in {a, b} : Min({a, b}) <= y
  BY <1>2 DEF Min
<1> QED BY <1>1, <1>2, <1>3

(* A bounded set of numbers that is not empty has a greatest and a least.    *)
LEMMA MaxOf ==
  ASSUME NEW n \in Nat, NEW X, X \subseteq 0 .. n, X # {}
  PROVE  Max(X) \in X /\ \A y \in X : Max(X) >= y
<1>1. \E x \in X : \A y \in X : x >= y
  BY MaxOfBounded
<1> QED BY <1>1 DEF Max

LEMMA MinOf ==
  ASSUME NEW n \in Nat, NEW X, X \subseteq 0 .. n, X # {}
  PROVE  Min(X) \in X /\ \A y \in X : Min(X) <= y
<1>1. PICK Y : Y = {n - x : x \in X}
  OBVIOUS
<1>2. Y \subseteq 0 .. n /\ Y # {}
  <2>1. \A x \in X : n - x \in 0 .. n
    OBVIOUS
  <2> QED BY <1>1, <2>1
<1>3. PICK y \in Y : \A z \in Y : y >= z
  BY <1>2, MaxOfBounded
<1>4. PICK x \in X : y = n - x
  BY <1>1, <1>3
<1>5. ASSUME NEW z \in X PROVE x <= z
  <2>1. n - z \in Y
    BY <1>1
  <2> QED BY <1>3, <1>4, <2>1
<1> QED BY <1>5 DEF Min

(* The bounds of a product's rates, and a rate brought between them.         *)
LEMMA Bounds ==
  ASSUME NEW t \in AllTypes, NEW s \in Sensors
  PROVE  dr_min(t, s) \in Rates /\ dr_max(t, s) \in Rates /\ dr_min(t, s) <= dr_max(t, s)
<1>1. s = "acc" \/ s = "mag"
  BY DEF Sensors
<1>2. /\ dr_min(t, s) \in {0, 1, 2, 5} /\ dr_max(t, s) \in {0, 2, 5, 6}
      /\ dr_min(t, s) <= dr_max(t, s)
  BY <1>1 DEF dr_min, dr_max, needs, Sensors, AllTypes
<1> QED BY <1>2 DEF Rates

LEMMA Regulated ==
  ASSUME NEW t \in AllTypes, NEW d \in [Sensors -> Rates]
  PROVE  /\ REGULATE_DR(t, d) \in [Sensors -> Rates]
         /\ \A s \in Sensors :
               REGULATE_DR(t, d)[s] = IF d[s] < dr_min(t, s) THEN dr_min(t, s)
                                      ELSE IF d[s] > dr_max(t, s) THEN dr_max(t, s) ELSE d[s]
<1>1. ASSUME NEW s \in Sensors
      PROVE  Min({Max({d[s], dr_min(t, s)}), dr_max(t, s)}) =
                IF d[s] < dr_min(t, s) THEN dr_min(t, s)
                ELSE IF d[s] > dr_max(t, s) THEN dr_max(t, s) ELSE d[s]
  <2>1. PICK x \in Int, lo \in Int, hi \in Int :
            x = d[s] /\ lo = dr_min(t, s) /\ hi = dr_max(t, s) /\ lo <= hi
    BY Bounds DEF Rates
  <2>2. PICK m \in Int : m = Max({x, lo}) /\ m = IF x >= lo THEN x ELSE lo
    BY MaxTwo
  <2>3. Min({m, hi}) = IF m <= hi THEN m ELSE hi
    BY MinTwo
  <2> QED BY <2>1, <2>2, <2>3
<1>2. \A s \in Sensors : REGULATE_DR(t, d)[s] = Min({Max({d[s], dr_min(t, s)}), dr_max(t, s)})
  BY DEF REGULATE_DR
<1>3. \A s \in Sensors : Min({Max({d[s], dr_min(t, s)}), dr_max(t, s)}) \in Rates
  BY <1>1, Bounds
<1>4. REGULATE_DR(t, d) \in [Sensors -> Rates]
  BY <1>3 DEF REGULATE_DR
<1> QED BY <1>1, <1>2, <1>4

(* Once is enough.                                                         *)
LEMMA RegulatedTwice ==
  ASSUME NEW t \in AllTypes, NEW d \in [Sensors -> Rates]
  PROVE  REGULATE_DR(t, REGULATE_DR(t, d)) = REGULATE_DR(t, d)
<1>1. PICK e \in [Sensors -> Rates] : e = REGULATE_DR(t, d)
  BY Regulated
<1>2. REGULATE_DR(t, e) \in [Sensors -> Rates]
  BY Regulated
<1>3. ASSUME NEW s \in Sensors PROVE REGULATE_DR(t, e)[s] = e[s]
  <2>1. e[s] = IF d[s] < dr_min(t, s) THEN dr_min(t, s)
               ELSE IF d[s] > dr_max(t, s) THEN dr_max(t, s) ELSE d[s]
    BY <1>1, Regulated
  <2>2. REGULATE_DR(t, e)[s] = IF e[s] < dr_min(t, s) THEN dr_min(t, s)
                               ELSE IF e[s] > dr_max(t, s) THEN dr_max(t, s) ELSE e[s]
    BY Regulated
  <2>3. PICK x \in Int, lo \in Int, hi \in Int :
            x = d[s] /\ lo = dr_min(t, s) /\ hi = dr_max(t, s) /\ lo <= hi
    BY Bounds DEF Rates
  <2> QED BY <2>1, <2>2, <2>3
<1> QED BY <1>1, <1>2, <1>3

(* fusion_arbitrate_dr serves the most demanding product.                   *)
LEMMA Arbitrated ==
  ASSUME NEW E \in SUBSET Types, NEW d \in [Types -> [Sensors -> Rates]]
  PROVE  /\ Rate(E, d) \in [Sensors -> Rates]
         /\ \A t \in E, s \in Sensors : d[t][s] <= Rate(E, d)[s]
<1>1. ASSUME NEW s \in Sensors
      PROVE  /\ Rate(E, d)[s] \in Rates
             /\ \A t \in E : d[t][s] <= Rate(E, d)[s]
  <2>1. PICK X : X = {0} \cup {d[t][s] : t \in E}
    OBVIOUS
  <2>2. X \subseteq 0 .. 7 /\ X # {}
    BY <2>1 DEF Rates
  <2>3. Max(X) \in X /\ \A y \in X : Max(X) >= y
    BY <2>2, MaxOf
  <2>4. Rate(E, d)[s] = Max(X)
    BY <2>1 DEF Rate, fusion_arbitrate_dr
  <2>5. \A t \in E : d[t][s] \in X
    BY <2>1
  <2> QED BY <2>2, <2>3, <2>4, <2>5 DEF Rates
<1>2. Rate(E, d) \in [Sensors -> Rates]
  <2>1. Rate(E, d) = [s \in Sensors |-> Rate(E, d)[s]]
    BY DEF Rate, fusion_arbitrate_dr
  <2> QED BY <1>1, <2>1
<1> QED BY <1>1, <1>2

LEMMA HzRate ==
  ASSUME NEW hz
  PROVE  algo_hz2data_rate(hz) \in Rates
<1>1. PICK fit : fit = {r \in Rates : hz <= Hz(r)}
  OBVIOUS
<1>2. CASE fit = {}
  BY <1>1, <1>2 DEF algo_hz2data_rate, Rates
<1>3. CASE fit # {}
  <2>1. fit \subseteq 0 .. 7
    BY <1>1 DEF Rates
  <2>2. Min(fit) \in fit
    BY <1>3, <2>1, MinOf
  <2>3. algo_hz2data_rate(hz) = Min(fit)
    BY <1>1, <1>3 DEF algo_hz2data_rate
  <2> QED BY <1>1, <2>2, <2>3
<1> QED BY <1>2, <1>3

LEMMA RatesForType ==
  ASSUME NEW t \in AllTypes, NEW d \in [Sensors -> Rates], NEW v
  PROVE  RatesFor(t, d, v) \in [Sensors -> Rates]
<1>1. PICK q \in Rates : q = algo_hz2data_rate(1000 \div GivenInterval(t, v))
  BY HzRate
<1>2. PICK e : e = [s \in Sensors |-> IF s \in needs(t) THEN q ELSE d[s]]
  OBVIOUS
<1>3. e \in [Sensors -> Rates] /\ RatesFor(t, d, v) = REGULATE_DR(t, e)
  BY <1>1, <1>2 DEF RatesFor
<1> QED BY <1>3, Regulated

-----------------------------------------------------------------------------
(* The counts, the sensors and the wait.                                   *)

(* A sensor follows what the provider takes it for, too.                   *)
LEMMA DepFollows ==
  ASSUME DaemonTypes, up, HwFollows, NEW k \in HW \ failed
  PROVE  /\ k \in dep => SensorFollows(k, TRUE)
         /\ k \notin dep => SensorFollows(k, FALSE)
BY DEF HwFollows, SensorFollows

(* A channel is switched.                                                  *)
LEMMA EnableStep ==
  ASSUME DaemonInv, up, UNCHANGED up, NEW t \in Types, NEW on \in BOOLEAN,
         state[t] # on, sp_enable_ch(t, on)
  PROVE  /\ DaemonInv'
         /\ Active' = Switched(t, on) /\ UNCHANGED given
         /\ dr' = [dr EXCEPT ![t] = REGULATE_DR(t, @)]
         /\ interval' = sp_recalc_interval_re(Ons(modref'), Rate(Active, dr)')
         /\ "A" \in dep' \ failed' => dev'["A"].delay = intvl[Rate(Active, dr)'["acc"]]
<1>1. DaemonTypes /\ CountsAgree /\ IsInjective(clients) /\ HwFollows /\ (re = "wait" => ref = 0)
  BY DEF DaemonInv
<1>2. PICK dr1 : dr1 = [dr EXCEPT ![t] = REGULATE_DR(t, @)]
  OBVIOUS
<1>3. PICK E : E = Switched(t, on)
  OBVIOUS
<1>4. PICK r : r = Rate(E, dr1)
  OBVIOUS
<1>5. PICK refs : refs = algo_update_hw_dep(t, on)
  OBVIOUS
<1>6. PICK ref1 : ref1 = IF bypass_proc(t) THEN ref
                         ELSE IF on THEN ref + 1 ELSE IF ref > 0 THEN ref - 1 ELSE 0
  OBVIOUS
<1>7. PICK need \in SUBSET HW : need = {k \in HW : refs[k] > 0}
  OBVIOUS
<1>8. /\ clients' = list_add_or_del(t, on)
      /\ dr' = dr1 /\ modref' = algo_update_mod_dep(t, on) /\ hwref' = refs
      /\ SwitchHardware(need, r)
      /\ interval' = sp_recalc_interval_re(Ons(modref'), r)
      /\ ref' = ref1
      /\ re' = IF on /\ ~bypass_proc(t) THEN Signalled(ref1) ELSE re
      /\ state' = [state EXCEPT ![t] = on]
      /\ UNCHANGED given
  BY <1>2, <1>3, <1>4, <1>5, <1>6, <1>7 DEF sp_enable_ch, Switched
<1>9. /\ state' \in [Types -> BOOLEAN] /\ modref' \in [Modules -> Nat]
      /\ hwref' \in [HW -> Nat] /\ ref' \in Nat /\ clients' \in Seq(Types)
      /\ Active' = E /\ CountsAgree' /\ IsInjective(clients')
  BY <1>1, <1>3, <1>5, <1>6, <1>8, CountsSwitch
<1>10. dr' \in [Types -> [Sensors -> Rates]] /\ t \in AllTypes
  <2>1. t \in AllTypes /\ dr[t] \in [Sensors -> Rates]
    BY <1>1, TypesAssumption DEF DaemonTypes
  <2>2. REGULATE_DR(t, dr[t]) \in [Sensors -> Rates]
    BY <2>1, Regulated
  <2> QED BY <1>1, <1>2, <1>8, <2>1, <2>2 DEF DaemonTypes
<1>11. r \in [Sensors -> Rates] /\ r = Rate(Active, dr)'
  <2>1. E \in SUBSET Types
    BY <1>3 DEF Switched, Active
  <2>2. Rate(E, dr1) \in [Sensors -> Rates]
    BY <1>8, <1>10, <2>1, Arbitrated
  <2>3. Rate(Active, dr)' = Rate(E, dr1)
    BY <1>8, <1>9 DEF Rate, fusion_arbitrate_dr
  <2> QED BY <1>4, <2>2, <2>3
<1>12. /\ dep' \subseteq HW /\ hw' \in [HW -> Hw] /\ dev' \in [HW -> Dev]
       /\ failed' \subseteq HW
       /\ \A k \in HW \ failed' : /\ k \in need => SensorFollows(k, TRUE)'
                                  /\ k \notin need => SensorFollows(k, FALSE)'
       /\ "A" \in dep' \ failed' => dev'["A"].delay = intvl[r["acc"]]
  <2>1. \A k \in HW \ failed : /\ k \in dep => SensorFollows(k, TRUE)
                               /\ k \notin dep => SensorFollows(k, FALSE)
    BY <1>1, DepFollows
  <2> QED BY <1>1, <1>8, <1>11, <2>1, SwitchFollows
<1>13. DaemonTypes'
  BY <1>9, <1>10, <1>12 DEF DaemonTypes
<1>14. HwFollows'
  <2>1. \A k \in HW \ failed' : /\ hwref'[k] > 0 => SensorFollows(k, TRUE)'
                                /\ ~(hwref'[k] > 0) => SensorFollows(k, FALSE)'
    BY <1>7, <1>8, <1>12
  <2> QED BY <2>1 DEF HwFollows
<1>15. re' = "wait" => ref' = 0
  <2>1. ref \in Nat
    BY <1>1 DEF DaemonTypes
  <2>2. CASE on /\ ~bypass_proc(t)
    <3>1. ref1 = ref + 1 /\ re' = IF ref1 = 1 /\ re = "wait" THEN "woken" ELSE re
      BY <1>6, <1>8, <2>2 DEF Signalled
    <3> QED BY <1>1, <2>1, <3>1
  <2>3. CASE ~(on /\ ~bypass_proc(t))
    <3>1. re' = re /\ (ref = 0 => ref1 = 0)
      BY <1>6, <1>8, <2>3
    <3> QED BY <1>1, <1>8, <3>1
  <2> QED BY <2>2, <2>3
<1>16. DaemonInv'
  BY <1>9, <1>13, <1>14, <1>15 DEF DaemonInv
<1> QED BY <1>2, <1>3, <1>8, <1>9, <1>11, <1>12, <1>16

(* The accelerometer is given another rate.                                *)
LEMMA ProgramFollows ==
  ASSUME DaemonTypes, NEW r \in [Sensors -> Rates],
         NEW p \in IF "A" \in dep THEN Programmed(Outcome(hw["A"], dev["A"], FALSE), r)
                   ELSE {Outcome(hw["A"], dev["A"], FALSE)},
         hw' = [hw EXCEPT !["A"] = p.hw], dev' = [dev EXCEPT !["A"] = p.dev],
         failed' = IF "A" \in dep /\ (p.hw.bw # ref_bw[r["acc"]] \/ p.dev.delay # intvl[r["acc"]])
                   THEN failed \cup {"A"} ELSE failed,
         UNCHANGED <<dep, hwref>>
  PROVE  /\ hw' \in [HW -> Hw] /\ dev' \in [HW -> Dev]
         /\ failed' \subseteq HW /\ failed \subseteq failed'
         /\ \A k \in HW, on \in BOOLEAN : SensorFollows(k, on)' <=> SensorFollows(k, on)
         /\ "A" \in dep' \ failed' => dev'["A"].delay = intvl[r["acc"]]
<1>1. HW = {"A", "M"} /\ hw["A"] \in Hw /\ dev["A"] \in Dev
  BY DEF HW, DaemonTypes
<1>2. PICK o : o = Outcome(hw["A"], dev["A"], FALSE)
  OBVIOUS
<1>3. o \in Outcomes /\ o.hw = hw["A"] /\ o.dev = dev["A"]
  BY <1>1, <1>2, OutcomeFields
<1>4. /\ p \in Outcomes
      /\ p.hw.ref = o.hw.ref /\ p.hw.enabled = o.hw.enabled
      /\ p.dev.mode = o.dev.mode /\ p.dev.input = o.dev.input
  <2>1. CASE "A" \in dep
    <3>1. p \in Programmed(o, r)
      BY <1>2, <2>1
    <3> QED BY <1>3, <3>1, ProgrammedOutcome
  <2>2. CASE "A" \notin dep
    BY <1>2, <1>3, <2>2
  <2> QED BY <2>1, <2>2
<1>5. p.hw \in Hw /\ p.dev \in Dev
  BY <1>4 DEF Outcomes
<1>6. hw' \in [HW -> Hw] /\ hw'["A"] = p.hw /\ hw'["M"] = hw["M"]
  BY <1>1, <1>5 DEF DaemonTypes
<1>7. dev' \in [HW -> Dev] /\ dev'["A"] = p.dev /\ dev'["M"] = dev["M"]
  BY <1>1, <1>5 DEF DaemonTypes
<1>8. ASSUME NEW on \in BOOLEAN
      PROVE  /\ SensorFollows("A", on)' <=> SensorFollows("A", on)
             /\ SensorFollows("M", on)' <=> SensorFollows("M", on)
  BY <1>3, <1>4, <1>6, <1>7 DEF SensorFollows
<1>9. failed' \subseteq HW /\ failed \subseteq failed'
  BY <1>1 DEF DaemonTypes
<1>10. "A" \in dep' \ failed' => dev'["A"].delay = intvl[r["acc"]]
  BY <1>7
<1> QED BY <1>1, <1>6, <1>7, <1>8, <1>9, <1>10

LEMMA DelayStep ==
  ASSUME DaemonInv, up, UNCHANGED up, NEW t \in Types, NEW v,
         algo_on_interval_changed(t, v)
  PROVE  /\ DaemonInv' /\ UNCHANGED <<state, modref>> /\ Active' = Active
         /\ given' = [given EXCEPT ![t] = GivenInterval(t, v)]
         /\ dr' = [dr EXCEPT ![t] = RatesFor(t, @, v)]
         /\ interval' = sp_recalc_interval_re(Ons(modref'), Rate(Active, dr)')
         /\ "A" \in dep' \ failed' => dev'["A"].delay = intvl[Rate(Active, dr)'["acc"]]
<1>1. DaemonTypes /\ CountsAgree /\ IsInjective(clients) /\ HwFollows /\ (re = "wait" => ref = 0)
  BY DEF DaemonInv
<1>2. PICK dr1 : dr1 = [dr EXCEPT ![t] = RatesFor(t, @, v)]
  OBVIOUS
<1>3. PICK r : r = Rate(Active, dr1)
  OBVIOUS
<1>4. PICK o : o = Outcome(hw["A"], dev["A"], FALSE)
  OBVIOUS
<1>5. /\ given' = [given EXCEPT ![t] = GivenInterval(t, v)] /\ dr' = dr1
      /\ interval' = sp_recalc_interval_re(Ons(modref), r)
      /\ UNCHANGED <<counts, hwref, dep, re>>
      /\ \E p \in IF "A" \in dep THEN Programmed(o, r) ELSE {o} :
            /\ hw' = [hw EXCEPT !["A"] = p.hw] /\ dev' = [dev EXCEPT !["A"] = p.dev]
            /\ failed' = IF "A" \in dep /\ (p.hw.bw # ref_bw[r["acc"]]
                                            \/ p.dev.delay # intvl[r["acc"]])
                         THEN failed \cup {"A"} ELSE failed
  BY <1>2, <1>3, <1>4 DEF algo_on_interval_changed
<1>6. UNCHANGED <<state, modref, clients, ref>> /\ Active' = Active /\ Active \subseteq Types
  BY <1>5 DEF counts, Active
<1>7. dr' \in [Types -> [Sensors -> Rates]]
  <2>1. t \in AllTypes /\ dr[t] \in [Sensors -> Rates]
    BY <1>1, TypesAssumption DEF DaemonTypes
  <2>2. RatesFor(t, dr[t], v) \in [Sensors -> Rates]
    BY <2>1, RatesForType
  <2> QED BY <1>1, <1>2, <1>5, <2>2 DEF DaemonTypes
<1>8. r \in [Sensors -> Rates] /\ r = Rate(Active, dr)'
  <2>1. Rate(Active, dr1) \in [Sensors -> Rates]
    BY <1>5, <1>6, <1>7, Arbitrated
  <2>2. Rate(Active, dr)' = Rate(Active, dr1)
    BY <1>5, <1>6 DEF Rate, fusion_arbitrate_dr
  <2> QED BY <1>3, <2>1, <2>2
<1>9. /\ hw' \in [HW -> Hw] /\ dev' \in [HW -> Dev]
      /\ failed' \subseteq HW /\ failed \subseteq failed'
      /\ \A k \in HW, on \in BOOLEAN : SensorFollows(k, on)' <=> SensorFollows(k, on)
      /\ "A" \in dep' \ failed' => dev'["A"].delay = intvl[r["acc"]]
  BY <1>1, <1>4, <1>5, <1>8, ProgramFollows
<1>10. DaemonTypes'
  BY <1>1, <1>5, <1>6, <1>7, <1>9 DEF DaemonTypes
<1>11. HwFollows'
  <2>1. \A k \in HW \ failed' : /\ hwref'[k] > 0 => SensorFollows(k, TRUE)'
                                /\ ~(hwref'[k] > 0) => SensorFollows(k, FALSE)'
    BY <1>1, <1>5, <1>9 DEF HwFollows
  <2> QED BY <2>1 DEF HwFollows
<1>12. CountsAgree' /\ IsInjective(clients)'
  BY <1>1, <1>5, <1>6 DEF CountsAgree
<1>13. re' = "wait" => ref' = 0
  BY <1>1, <1>5, <1>6
<1>14. DaemonInv'
  BY <1>10, <1>11, <1>12, <1>13 DEF DaemonInv
<1> QED BY <1>2, <1>5, <1>6, <1>8, <1>9, <1>14

(* The counts of no channels.                                              *)
LEMMA NoneCounted ==
  /\ NoneOn \in [Types -> BOOLEAN] /\ {t \in Types : NoneOn[t]} = {}
  /\ NoRates \in [Types -> [Sensors -> Rates]]
  /\ NoRefs(Modules) \in [Modules -> Nat] /\ NoRefs(HW) \in [HW -> Nat]
  /\ <<>> \in Seq(Types) /\ IsInjective(<<>>)
  /\ Range(<<>>) = {} /\ Len(<<>>) = 0 /\ Cardinality({}) = 0
  /\ \A k \in HW : NoRefs(HW)[k] = 0
  /\ \A m \in Modules : NoRefs(Modules)[m] = 0
<1>1. NoneOn \in [Types -> BOOLEAN] /\ {t \in Types : NoneOn[t]} = {}
  BY DEF NoneOn
<1>2. NoRates \in [Types -> [Sensors -> Rates]]
  BY DEF NoRates, Rates
<1>3. /\ NoRefs(Modules) \in [Modules -> Nat] /\ NoRefs(HW) \in [HW -> Nat]
      /\ \A k \in HW : NoRefs(HW)[k] = 0
      /\ \A m \in Modules : NoRefs(Modules)[m] = 0
  BY DEF NoRefs
<1>4. <<>> \in Seq(Types) /\ Len(<<>>) = 0
  OBVIOUS
<1>5. Range(<<>>) = {} /\ IsInjective(<<>>)
  BY DEF Range, IsInjective
<1>6. Cardinality({}) = 0
  BY FS_EmptySet
<1> QED BY <1>1, <1>2, <1>3, <1>4, <1>5, <1>6

(* A sensor that was set up is switched off unless a write failed.         *)
LEMMA InitOutcome ==
  ASSUME NEW id \in HW, NEW d \in Dev, NEW w \in SUBSET BOOLEAN,
         NEW o \in hw_init(id, NewHw, d, w)
  PROVE  /\ o \in Outcomes /\ o.hw.ref = 0 /\ o.hw.enabled = FALSE
         /\ ~o.err => /\ o.dev.mode = "SUSPEND"
                      /\ id = "A" => o.dev.input = FALSE
<1>1. NewHw \in Hw /\ NewHw.ref = 0 /\ NewHw.enabled = FALSE
  BY DEF NewHw, Hw, BW, HW_A_BW_INVALID
<1>2. PICK b \in (IF id = "A" THEN hw_init_a(NewHw, d, w) ELSE hw_init_m(NewHw, d)) :
             o \in enable(id, [b.hw EXCEPT !.ref = 0], b.dev, FALSE, w)
  BY DEF hw_init
<1>3. PICK k : k = [b.hw EXCEPT !.ref = 0]
  OBVIOUS
<1>4. k \in Hw /\ k.ref = 0 /\ k.enabled = FALSE /\ b.dev \in Dev
  <2>1. CASE id = "A"
    <3>1. PICK w1 \in w : b = Outcome([NewHw EXCEPT !.bw = HW_A_BW_INVALID],
                                      hw_acc_set_opmode(d, "NORMAL", w1), FALSE)
      BY <1>2, <2>1 DEF hw_init_a
    <3>2. PICK n : n = [NewHw EXCEPT !.bw = HW_A_BW_INVALID]
      OBVIOUS
    <3>3. n \in Hw /\ n.enabled = FALSE
      BY <1>1, <3>2 DEF Hw, BW, HW_A_BW_INVALID
    <3>4. b.hw = n /\ b.dev = hw_acc_set_opmode(d, "NORMAL", w1)
      BY <3>1, <3>2 DEF Outcome
    <3>5. b.dev \in Dev
      BY <3>4 DEF hw_acc_set_opmode, Dev
    <3>6. k \in Hw /\ k.ref = 0 /\ k.enabled = FALSE
      BY <1>3, <3>3, <3>4 DEF Hw
    <3> QED BY <3>5, <3>6
  <2>2. CASE id # "A"
    <3>1. b.hw = NewHw /\ b.dev = d
      BY <1>2, <2>2 DEF hw_init_m, Outcome
    <3> QED BY <1>1, <1>3, <3>1 DEF Hw
  <2> QED BY <2>1, <2>2
<1>5. PICK off \in BOOLEAN : off = FALSE
  OBVIOUS
<1>6. o \in enable(id, k, b.dev, off, w)
  BY <1>2, <1>3, <1>5
<1>7. /\ o \in Outcomes /\ o.hw = k
      /\ ~o.err => /\ o.dev.mode = (IF ~off THEN "SUSPEND"
                                    ELSE IF id = "A" THEN "NORMAL" ELSE "SLEEP")
                   /\ id = "A" => o.dev.input = off
  BY <1>4, <1>6, EnableOutcome
<1> QED BY <1>4, <1>5, <1>7

(* Nothing happens to the counts and the sensors.                          *)
LEMMA IdleStep ==
  ASSUME DaemonInv, UNCHANGED <<up, rates, hardware, counts>>,
         re' = "wait" => ref = 0 \/ re = "wait"
  PROVE  DaemonInv'
<1>1. /\ UNCHANGED <<up, dr, hwref, dep, hw, dev, failed>>
      /\ UNCHANGED <<state, modref, clients, ref>>
  BY DEF rates, hardware, counts
<1>2. DaemonTypes' /\ CountsAgree' /\ IsInjective(clients')
  BY <1>1 DEF DaemonInv, DaemonTypes, CountsAgree, Active
<1>3. HwFollows'
  BY <1>1 DEF DaemonInv, HwFollows, SensorFollows
<1>4. Active' = Active
  BY <1>1 DEF Active
<1> QED BY <1>1, <1>2, <1>3, <1>4 DEF DaemonInv

(* A channel is told the state it is in.                                   *)
LEMMA SetStateStep ==
  ASSUME DaemonInv, up, UNCHANGED up, NEW t \in Types, NEW on \in BOOLEAN,
         channel_set_state(t, on)
  PROVE  DaemonInv'
<1>1. CASE state[t] = on
  <2>1. UNCHANGED <<rates, hardware, counts, re>>
    BY <1>1 DEF channel_set_state
  <2> QED BY <2>1, IdleStep
<1>2. CASE state[t] # on
  <2>1. sp_enable_ch(t, on)
    BY <1>2 DEF channel_set_state
  <2> QED BY <1>2, <2>1, EnableStep
<1> QED BY <1>1, <1>2

LEMMA CommandStep ==
  ASSUME DaemonInv, check_cmd_event
  PROVE  DaemonInv'
<1>1. PICK c \in Commands : channel_on_cmd_received(c)
  BY DEF check_cmd_event
<1>2. up /\ UNCHANGED up
  BY DEF check_cmd_event, TakeCmd
<1>3. c.type \in Types
  BY DaemonAssumption DEF Commands
<1>4. CASE c.cmd = "ACTIVE"
  <2>1. PICK on \in BOOLEAN : on = (c.value = 1)
    OBVIOUS
  <2>2. channel_set_state(c.type, on)
    BY <1>1, <1>4, <2>1 DEF channel_on_cmd_received
  <2> QED BY <1>2, <1>3, <2>2, SetStateStep
<1>5. CASE c.cmd = "DELAY" /\ c.value >= 0
  <2>1. algo_on_interval_changed(c.type, c.value)
    BY <1>1, <1>5 DEF channel_on_cmd_received
  <2> QED BY <1>2, <1>3, <2>1, DelayStep
<1>6. CASE c.cmd # "ACTIVE" /\ ~(c.cmd = "DELAY" /\ c.value >= 0)
  <2>1. UNCHANGED <<rates, hardware, counts, re>>
    BY <1>1, <1>6 DEF channel_on_cmd_received
  <2> QED BY <1>2, <2>1, IdleStep
<1> QED BY <1>4, <1>5, <1>6

(* The process ends.                                                       *)
LEMMA DeathStep ==
  ASSUME DaemonInv, sighandler_generic
  PROVE  DaemonInv'
<1>1. /\ up' = FALSE /\ state' = NoneOn /\ dr' = NoRates
      /\ modref' = NoRefs(Modules) /\ hwref' = NoRefs(HW)
      /\ dep' = {} /\ clients' = <<>> /\ ref' = 0 /\ re' = "lock"
      /\ hw' = [k \in HW |-> NewHw] /\ failed' = {} /\ dev' = dev
  BY DEF sighandler_generic, channel_cntl_destroy
<1>2. NewHw \in Hw
  BY DEF NewHw, Hw, BW, HW_A_BW_INVALID
<1>2a. DaemonTypes'
  BY <1>1, <1>2, NoneCounted DEF DaemonInv, DaemonTypes
<1>3. CountsAgree' /\ IsInjective(clients') /\ Active' = {}
  BY <1>1, NoneCounted DEF CountsAgree, Active
<1>4. HwFollows'
  BY <1>1 DEF HwFollows
<1> QED BY <1>1, <1>2a, <1>3, <1>4 DEF DaemonInv

(* It is started again, with the sensors as they were left.                *)
LEMMA MainStep ==
  ASSUME DaemonInv, main
  PROVE  DaemonInv'
<1>1. PICK a \in hw_init("A", hw["A"], dev["A"], Answers("A")),
           m \in hw_init("M", hw["M"], dev["M"], Answers("M")) :
        /\ hw' = [k \in HW |-> IF k = "A" THEN a.hw ELSE m.hw]
        /\ dev' = [k \in HW |-> IF k = "A" THEN a.dev ELSE m.dev]
        /\ failed' = {k \in HW : IF k = "A" THEN a.err ELSE m.err}
  <2>1. PICK a \in hw_init("A", hw["A"], dev["A"], Answers("A")),
             m \in hw_init("M", hw["M"], dev["M"], Answers("M")) :
          /\ hw' = [k \in HW |-> (IF k = "A" THEN a ELSE m).hw]
          /\ dev' = [k \in HW |-> (IF k = "A" THEN a ELSE m).dev]
          /\ failed' = {k \in HW : (IF k = "A" THEN a ELSE m).err}
    BY DEF main
  <2> QED BY <2>1
<1>2. /\ up' = TRUE /\ ~up
      /\ UNCHANGED <<state, modref, clients, ref, dr, hwref, dep, re>>
  BY DEF main, Start, counts, rates, thread
<1>3. /\ DaemonTypes /\ CountsAgree /\ IsInjective(clients)
      /\ Active = {} /\ dep = {} /\ hw = [k \in HW |-> NewHw]
      /\ (re = "wait" => ref = 0)
  BY <1>2 DEF DaemonInv
<1>4. /\ HW = {"A", "M"} /\ NewHw \in Hw
      /\ hw["A"] = NewHw /\ hw["M"] = NewHw /\ dev["A"] \in Dev /\ dev["M"] \in Dev
  BY <1>3 DEF HW, DaemonTypes, NewHw, Hw, BW, HW_A_BW_INVALID
<1>5. Answers("A") \subseteq BOOLEAN /\ Answers("M") \subseteq BOOLEAN
  BY DEF Answers
<1>6. /\ a \in Outcomes /\ a.hw.ref = 0 /\ a.hw.enabled = FALSE
      /\ ~a.err => a.dev.mode = "SUSPEND" /\ a.dev.input = FALSE
  BY <1>4, <1>5, InitOutcome, ZenonT(60)
<1>7. /\ m \in Outcomes /\ m.hw.ref = 0 /\ m.hw.enabled = FALSE
      /\ ~m.err => m.dev.mode = "SUSPEND"
  BY <1>4, <1>5, InitOutcome, ZenonT(60)
<1>8. a.hw \in Hw /\ a.dev \in Dev /\ m.hw \in Hw /\ m.dev \in Dev
  BY <1>6, <1>7 DEF Outcomes
<1>9. /\ hw' \in [HW -> Hw] /\ hw'["A"] = a.hw /\ hw'["M"] = m.hw
      /\ dev' \in [HW -> Dev] /\ dev'["A"] = a.dev /\ dev'["M"] = m.dev
      /\ failed' \subseteq HW
      /\ ("A" \notin failed' => ~a.err) /\ ("M" \notin failed' => ~m.err)
  BY <1>1, <1>4, <1>8
<1>10. DaemonTypes'
  BY <1>2, <1>3, <1>9 DEF DaemonTypes
<1>11. CountsAgree' /\ Active' = {}
  BY <1>2, <1>3 DEF CountsAgree, Active
<1>12. HwFollows'
  <2>1. \A k \in HW : hwref'[k] = 0
    <3>1. ASSUME NEW k \in HW PROVE hwref[k] = 0
      <4>1. {t \in Active : Sensor(k) \in needs(t)} = {}
        BY <1>3
      <4>2. hwref[k] = Cardinality({t \in Active : Sensor(k) \in needs(t)})
        BY <1>3 DEF CountsAgree
      <4> QED BY <4>1, <4>2, FS_EmptySet
    <3> QED BY <1>2, <3>1
  <2>2. ASSUME NEW k \in HW \ failed' PROVE SensorFollows(k, FALSE)'
    BY <1>2, <1>3, <1>4, <1>6, <1>7, <1>9, <2>2 DEF SensorFollows
  <2>3. ASSUME NEW k \in HW \ failed'
        PROVE  /\ ~(hwref'[k] > 0)
               /\ ~(hwref'[k] > 0) => SensorFollows(k, FALSE)'
    <3>1. ~(hwref'[k] > 0)
      BY <2>1
    <3>2. SensorFollows(k, FALSE)'
      BY <2>2
    <3> QED BY <3>1, <3>2
  <2> QED BY <2>3 DEF HwFollows
<1> QED BY <1>2, <1>3, <1>10, <1>11, <1>12 DEF DaemonInv

-----------------------------------------------------------------------------
(* The two properties.                                                     *)

LEMMA DaemonStart ==
  ASSUME Init
  PROVE  DaemonInv
<1>1. /\ up = FALSE /\ state = NoneOn /\ dr = NoRates
      /\ modref = NoRefs(Modules) /\ hwref = NoRefs(HW)
      /\ dep = {} /\ clients = <<>> /\ ref = 0 /\ re = "lock"
      /\ hw = [k \in HW |-> NewHw] /\ failed = {} /\ dev = [k \in HW |-> BootDev]
  BY DEF Init
<1>2. BootDev \in Dev /\ NewHw \in Hw
  BY DEF BootDev, NewHw, Dev, Hw, BW, HW_A_BW_INVALID
<1>3. DaemonTypes
  BY <1>1, <1>2, NoneCounted DEF DaemonTypes
<1>4. CountsAgree /\ IsInjective(clients) /\ Active = {}
  BY <1>1, NoneCounted DEF CountsAgree, Active
<1>5. HwFollows
  BY <1>1 DEF HwFollows
<1> QED BY <1>1, <1>3, <1>4, <1>5 DEF DaemonInv

LEMMA DaemonStep ==
  ASSUME DaemonInv, [Next]_vars
  PROVE  DaemonInv'
<1>1. CASE check_cmd_event
  BY <1>1, CommandStep
<1>2. CASE SendCmd
  BY <1>2, IdleStep DEF SendCmd, thread
<1>3. CASE re_wait
  BY <1>3, IdleStep DEF re_wait
<1>4. CASE re_proc
  BY <1>4, IdleStep DEF re_proc
<1>5. CASE sp_report_data
  BY <1>5, IdleStep DEF sp_report_data
<1>6. CASE ClockSet
  BY <1>6, IdleStep DEF ClockSet
<1>7. CASE ReadData
  BY <1>7, IdleStep DEF ReadData
<1>8. CASE sighandler_generic
  BY <1>8, DeathStep
<1>9. CASE main
  BY <1>9, MainStep
<1>10. CASE UNCHANGED vars
  BY <1>10, IdleStep DEF vars, thread
<1> QED BY <1>1, <1>2, <1>3, <1>4, <1>5, <1>6, <1>7, <1>8, <1>9, <1>10 DEF Next

LEMMA DaemonAlways == MCSpec => []DaemonInv
<1>1. MCInit => DaemonInv
  BY DaemonStart DEF MCInit
<1>2. DaemonInv /\ [MCNext]_mcvars => DaemonInv'
  <2> SUFFICES ASSUME DaemonInv, [MCNext]_mcvars PROVE DaemonInv'
    OBVIOUS
  <2>1. [Next]_vars
    BY DEF MCNext, mcvars
  <2> QED BY <2>1, DaemonStep
<1> QED BY <1>1, <1>2, PTL DEF MCSpec

(* HardwareIsFollowed: whatever the order of commands, repeated and failed  *)
(* ones and restarts, the four counts sp_enable_ch keeps agree with the     *)
(* channels that are on, every module an event is made from runs, and a     *)
(* sensor none of whose writes failed is on exactly while a channel needs   *)
(* it, for every set of channels and of sensors that may fail.              *)
THEOREM HardwareIsFollowed == MCSpec => []HardwareFollows
<1>1. DaemonInv => HardwareFollows
  BY ModulesRun DEF DaemonInv, HardwareFollows
<1> QED BY <1>1, DaemonAlways, PTL

(* WokenIsNeeded: the thread waits for its condition only while no channel  *)
(* needs it: the one signal sp_enable_ch sends, for the first channel, is   *)
(* enough.                                                                  *)
THEOREM WokenIsNeeded == MCSpec => []WokenWhenNeeded
<1>1. DaemonInv => WokenWhenNeeded
  BY DEF DaemonInv, WokenWhenNeeded
<1> QED BY <1>1, DaemonAlways, PTL

-----------------------------------------------------------------------------
(* The rates.                                                              *)

AllPeriods == {1000, 200, 100, 50, 40, 20, 10, 5}

LEMMA Periods ==
  ASSUME NEW q \in Rates
  PROVE  /\ intvl[q] = IF q = 0 THEN 1000 ELSE IF q = 1 THEN 200 ELSE IF q = 2 THEN 100
                       ELSE IF q = 3 THEN 50 ELSE IF q = 4 THEN 40 ELSE IF q = 5 THEN 20
                       ELSE IF q = 6 THEN 10 ELSE 5
         /\ intvl[q] \in AllPeriods
<1>1. q = 0 \/ q = 1 \/ q = 2 \/ q = 3 \/ q = 4 \/ q = 5 \/ q = 6 \/ q = 7
  BY DEF Rates
<1>2. intvl[q] = <<1000, 200, 100, 50, 40, 20, 10, 5>>[q + 1]
  BY DEF intvl
<1> QED BY <1>1, <1>2 DEF AllPeriods

(* A higher rate has a shorter period.                                     *)
LEMMA PeriodsFall ==
  ASSUME NEW p \in Rates, NEW q \in Rates, p <= q
  PROVE  intvl[q] <= intvl[p]
<1>1. p \in Int /\ q \in Int /\ 0 <= p /\ q <= 7
  BY DEF Rates
<1>2. PICK x, y : x = intvl[p] /\ y = intvl[q]
  OBVIOUS
<1> QED BY <1>1, <1>2, Periods

(* Every period divides a second.                                          *)
LEMMA HzPeriod ==
  ASSUME NEW q \in Rates
  PROVE  Hz(q) * intvl[q] = 1000 /\ Hz(q) \in Nat /\ (q = 6 => Hz(q) = 100)
<1>1. q = 6 => intvl[q] = 10
  BY Periods DEF Rates
<1>2. PICK i \in AllPeriods : i = intvl[q]
  BY Periods
<1>3. PICK z : z = 1000 \div i
  OBVIOUS
<1>4. z * i = 1000 /\ z \in Nat /\ (i = 10 => z = 100)
  <2>1. CASE i = 1000 \/ i = 200 \/ i = 100 \/ i = 50
    BY <1>3, <2>1
  <2>2. CASE i = 40 \/ i = 20 \/ i = 10 \/ i = 5
    BY <1>3, <2>2
  <2> QED BY <1>2, <2>1, <2>2 DEF AllPeriods
<1>5. Hz(q) = z
  BY <1>2, <1>3 DEF Hz
<1> QED BY <1>1, <1>2, <1>4, <1>5

(* The interval a channel is given divides a second and is not below the    *)
(* channel's least.                                                        *)
LEMMA Given ==
  ASSUME NEW t \in AllTypes, NEW v \in Int
  PROVE  /\ GivenInterval(t, v) \in 10 .. 200 /\ 1000 % GivenInterval(t, v) = 0
         /\ interval_min(t) <= GivenInterval(t, v)
<1>1. PICK lo \in {10, 20, 50, 100} : lo = interval_min(t)
  BY DEF interval_min, AllTypes
<1>2. PICK hi \in {100, 200} : hi = interval_max(t)
  BY DEF interval_max
<1>3. lo <= hi
  BY <1>1, <1>2
<1>4. PICK x \in Int : x = Max({v, lo}) /\ x = IF v >= lo THEN v ELSE lo
  BY <1>1, MaxTwo
<1>5. PICK b \in Int : b = Min({x, hi}) /\ b = IF x <= hi THEN x ELSE hi
  <2>1. hi \in Int /\ x \in Int
    BY <1>2, <1>4
  <2>2. Min({x, hi}) = IF x <= hi THEN x ELSE hi
    BY <2>1, MinTwo
  <2>3. Min({x, hi}) \in Int
    BY <2>1, <2>2
  <2> QED BY <2>2, <2>3
<1>6. lo <= b /\ b <= 200 /\ b = Clamped(t, v)
  <2>1. Clamped(t, v) = Min({Max({v, lo}), hi})
    BY <1>1, <1>2 DEF Clamped
  <2>2. lo <= x /\ x \in Int /\ lo \in Int /\ hi \in Int /\ hi <= 200
    BY <1>1, <1>2, <1>4
  <2>3. lo <= b /\ b <= 200
    BY <1>3, <1>5, <2>2
  <2> QED BY <1>4, <1>5, <2>1, <2>3
<1>7. PICK X : X = {d \in 1 .. b : 1000 % d = 0}
  OBVIOUS
<1>8. X \subseteq 0 .. b /\ lo \in X /\ b \in Nat
  <2>1. 1000 % lo = 0 /\ lo \in 1 .. b
    <3>1. 1000 % 10 = 0 /\ 1000 % 20 = 0 /\ 1000 % 50 = 0 /\ 1000 % 100 = 0
      OBVIOUS
    <3> QED BY <1>1, <1>6, <3>1
  <2> QED BY <1>6, <1>7, <2>1
<1>9. PICK g : g = Max(X)
  OBVIOUS
<1>10. g \in X /\ lo <= g
  <2>1. X # {}
    BY <1>8
  <2>2. Max(X) \in X /\ \A y \in X : Max(X) >= y
    BY <1>8, <2>1, MaxOf
  <2>3. g \in X /\ g >= lo
    BY <1>8, <1>9, <2>2
  <2>4. g \in Int /\ lo \in Int
    BY <1>1, <1>8, <2>3
  <2> QED BY <2>3, <2>4
<1>11. GivenInterval(t, v) = g
  BY <1>6, <1>7, <1>9 DEF GivenInterval, get_nearest_divisible_int
<1> QED BY <1>1, <1>6, <1>7, <1>10, <1>11

(* The rate found for that interval has a period that fits into it.        *)
LEMMA HzFits ==
  ASSUME NEW g \in 10 .. 200, 1000 % g = 0
  PROVE  /\ algo_hz2data_rate(1000 \div g) \in Rates
         /\ intvl[algo_hz2data_rate(1000 \div g)] <= g
<1>1. PICK hz : hz = 1000 \div g
  OBVIOUS
<1>2. hz \in Nat /\ hz * g = 1000
  BY <1>1
<1>3. hz <= 100
  BY <1>2
<1>4. PICK fit : fit = {r \in Rates : hz <= Hz(r)}
  OBVIOUS
<1>5. fit # {} /\ fit \subseteq 0 .. 7
  <2>1. 6 \in Rates
    BY DEF Rates
  <2> QED BY <1>3, <1>4, <2>1, HzPeriod DEF Rates
<1>6. PICK q : q = Min(fit)
  OBVIOUS
<1>7. q \in Rates /\ hz <= Hz(q)
  BY <1>4, <1>5, <1>6, MinOf
<1>8. PICK z \in Nat, i \in Nat : z = Hz(q) /\ i = intvl[q] /\ z * i = 1000 /\ hz <= z
  BY <1>7, HzPeriod, Tables
<1>9. i <= g
  <2> SUFFICES ASSUME i > g PROVE FALSE
    OBVIOUS
  <2>1. hz * g <= z * g
    BY <1>2, <1>8
  <2>2. z * g < z * i
    BY <1>8
  <2> QED BY <1>2, <1>8, <2>1, <2>2
<1>10. algo_hz2data_rate(hz) = q
  BY <1>4, <1>5, <1>6 DEF algo_hz2data_rate
<1> QED BY <1>1, <1>7, <1>8, <1>9, <1>10

(* What the fastest rate of a product fits into, and the slowest one.      *)
LEMMA Limits ==
  ASSUME NEW t \in AllTypes, NEW s \in needs(t)
  PROVE  /\ s \in Sensors
         /\ intvl[dr_max(t, s)] <= IF s = "mag" THEN 100 ELSE interval_min(t)
         /\ intvl[dr_min(t, s)] <= 200
<1>1. s = "acc" \/ s = "mag"
  BY DEF needs, Sensors
<1>2. /\ intvl[1] = 200 /\ intvl[2] = 100 /\ intvl[5] = 20 /\ intvl[6] = 10
  BY Periods DEF Rates
<1>3. dr_min(t, s) \in {1, 2, 5}
  BY DEF dr_min
<1>4. CASE s = "mag"
  <2>1. t = "M" \/ t = "O" \/ t = "G" \/ t = "VRV"
    BY <1>4 DEF needs, AllTypes
  <2>2. dr_max(t, s) \in {2, 5}
    BY <1>4, <2>1 DEF dr_max
  <2> QED BY <1>2, <1>3, <1>4, <2>2 DEF Sensors
<1>5. CASE s = "acc"
  <2>1. CASE t \in {"O", "G", "VRV"}
    <3>1. dr_max(t, s) = 5 /\ interval_min(t) \in {20, 50}
      BY <1>5, <2>1 DEF dr_max, interval_min
    <3> QED BY <1>2, <1>3, <1>5, <3>1 DEF Sensors
  <2>2. CASE t \notin {"O", "G", "VRV"}
    <3>1. dr_max(t, s) = 6 /\ interval_min(t) \in {10, 50, 100}
      BY <1>5, <2>2 DEF dr_max, interval_min, AllTypes
    <3> QED BY <1>2, <1>3, <1>5, <3>1 DEF Sensors
  <2> QED BY <2>1, <2>2
<1> QED BY <1>1, <1>4, <1>5

LEMMA RoomFor ==
  ASSUME NEW g \in Nat, NEW s
  PROVE  /\ Max({g, IF s = "mag" THEN 100 ELSE 0}) \in Nat
         /\ g <= Max({g, IF s = "mag" THEN 100 ELSE 0})
         /\ s = "mag" => 100 <= Max({g, IF s = "mag" THEN 100 ELSE 0})
<1>1. PICK x \in Nat : x = (IF s = "mag" THEN 100 ELSE 0) /\ (s = "mag" => x = 100)
  OBVIOUS
<1>2. Max({g, x}) = IF g >= x THEN g ELSE x
  BY MaxTwo
<1>3. Max({g, x}) \in Nat /\ g <= Max({g, x}) /\ x <= Max({g, x})
  BY <1>2
<1> QED BY <1>1, <1>3

(* The rates a product takes for an interval fit into the one it is given.  *)
LEMMA IntervalFits ==
  ASSUME NEW t \in AllTypes, NEW d \in [Sensors -> Rates], NEW v \in Int
  PROVE  /\ REGULATE_DR(t, RatesFor(t, d, v)) = RatesFor(t, d, v)
         /\ \A s \in needs(t) :
               intvl[RatesFor(t, d, v)[s]]
                 <= Max({GivenInterval(t, v), IF s = "mag" THEN 100 ELSE 0})
<1>1. PICK g : g = GivenInterval(t, v)
  OBVIOUS
<1>2. g \in 10 .. 200 /\ 1000 % g = 0 /\ interval_min(t) <= g
  BY <1>1, Given
<1>3. PICK q : q = algo_hz2data_rate(1000 \div g)
  OBVIOUS
<1>4. q \in Rates /\ intvl[q] <= g
  BY <1>2, <1>3, HzFits
<1>5. PICK e : e = [s \in Sensors |-> IF s \in needs(t) THEN q ELSE d[s]]
  OBVIOUS
<1>6. e \in [Sensors -> Rates] /\ RatesFor(t, d, v) = REGULATE_DR(t, e)
  BY <1>1, <1>3, <1>4, <1>5 DEF RatesFor
<1>7. REGULATE_DR(t, REGULATE_DR(t, e)) = REGULATE_DR(t, e)
  BY <1>6, RegulatedTwice
<1>8. ASSUME NEW s \in needs(t)
      PROVE  intvl[REGULATE_DR(t, e)[s]] <= Max({g, IF s = "mag" THEN 100 ELSE 0})
  <2>1. /\ s \in Sensors
        /\ intvl[dr_max(t, s)] <= IF s = "mag" THEN 100 ELSE interval_min(t)
    BY Limits
  <2>2. e[s] = q
    BY <1>5, <2>1
  <2>3. PICK lo \in Rates, hi \in Rates : lo = dr_min(t, s) /\ hi = dr_max(t, s)
    BY <2>1, Bounds
  <2>4. REGULATE_DR(t, e)[s] = IF q < lo THEN lo ELSE IF q > hi THEN hi ELSE q
    BY <1>6, <2>1, <2>2, <2>3, Regulated
  <2>5. PICK m \in Nat : /\ m = Max({g, IF s = "mag" THEN 100 ELSE 0})
                         /\ g <= m /\ (s = "mag" => 100 <= m)
    <3>1. g \in Nat
      BY <1>2
    <3>2. /\ Max({g, IF s = "mag" THEN 100 ELSE 0}) \in Nat
          /\ g <= Max({g, IF s = "mag" THEN 100 ELSE 0})
          /\ s = "mag" => 100 <= Max({g, IF s = "mag" THEN 100 ELSE 0})
      BY <3>1, RoomFor
    <3> QED BY <3>2, Zenon
  <2>6. intvl[q] \in Nat /\ intvl[lo] \in Nat /\ intvl[hi] \in Nat
    BY <1>4, Tables
  <2>7. interval_min(t) \in Int
    BY DEF interval_min, AllTypes
  <2>8. CASE q < lo
    <3>1. intvl[lo] <= intvl[q]
      BY <1>4, <2>8, PeriodsFall DEF Rates
    <3>2. intvl[lo] <= m
      BY <1>2, <1>4, <2>5, <2>6, <3>1
    <3> QED BY <2>4, <2>5, <2>8, <3>2
  <2>9. CASE ~(q < lo) /\ q > hi
    <3>1. intvl[hi] <= m
      BY <1>2, <2>1, <2>3, <2>5, <2>6, <2>7
    <3> QED BY <2>4, <2>5, <2>9, <3>1
  <2>10. CASE ~(q < lo) /\ ~(q > hi)
    <3>1. intvl[q] <= m
      BY <1>2, <1>4, <2>5, <2>6
    <3> QED BY <2>4, <2>5, <2>10, <3>1
  <2> QED BY <2>8, <2>9, <2>10
<1> QED BY <1>1, <1>6, <1>7, <1>8

(* So do the rates of a product that was never given an interval.           *)
LEMMA NoRatesFit ==
  ASSUME NEW t \in Types
  PROVE  /\ Given200[t] = 200 /\ NoneOn[t] = FALSE
         /\ \A s \in needs(t) : intvl[REGULATE_DR(t, NoRates[t])[s]]
                                  <= Max({200, IF s = "mag" THEN 100 ELSE 0})
<1>1. PICK e : e = NoRates[t]
  OBVIOUS
<1>2. e \in [Sensors -> Rates] /\ (\A s \in Sensors : e[s] = 0) /\ t \in AllTypes
  BY <1>1, TypesAssumption DEF NoRates, Rates
<1>3. ASSUME NEW s \in needs(t)
      PROVE  intvl[REGULATE_DR(t, e)[s]] <= Max({200, IF s = "mag" THEN 100 ELSE 0})
  <2>1. s \in Sensors /\ intvl[dr_min(t, s)] <= 200
    BY <1>2, Limits
  <2>2. PICK lo \in Rates, hi \in Rates : lo = dr_min(t, s) /\ hi = dr_max(t, s) /\ lo <= hi
    BY <1>2, <2>1, Bounds
  <2>3. REGULATE_DR(t, e)[s] = IF 0 < lo THEN lo ELSE IF 0 > hi THEN hi ELSE 0
    BY <1>2, <2>1, <2>2, Regulated
  <2>4. REGULATE_DR(t, e)[s] = lo
    BY <2>2, <2>3 DEF Rates
  <2>5. PICK m \in Nat : m = Max({200, IF s = "mag" THEN 100 ELSE 0}) /\ 200 <= m
    <3>1. /\ Max({200, IF s = "mag" THEN 100 ELSE 0}) \in Nat
          /\ 200 <= Max({200, IF s = "mag" THEN 100 ELSE 0})
      BY RoomFor
    <3> QED BY <3>1, Zenon
  <2>6. intvl[lo] \in Nat /\ intvl[lo] <= 200
    BY <2>1, <2>2, Tables
  <2>7. intvl[lo] <= m
    BY <2>5, <2>6
  <2> QED BY <2>4, <2>5, <2>7
<1>4. Given200[t] = 200 /\ NoneOn[t] = FALSE
  BY DEF Given200, NoneOn
<1> QED BY <1>1, <1>3, <1>4

-----------------------------------------------------------------------------
(* The thread's period.                                                    *)

LEMMA CommonDivisor ==
  ASSUME NEW a \in AllPeriods,
         NEW b \in AllPeriods
  PROVE  /\ get_max_comm_div(a, b) \in 5 .. 1000
         /\ a % get_max_comm_div(a, b) = 0 /\ get_max_comm_div(a, b) <= a
         /\ b % get_max_comm_div(a, b) = 0 /\ get_max_comm_div(a, b) <= b
<1>1. /\ a \in 5 .. 1000 /\ b \in 5 .. 1000
      /\ a % 5 = 0 /\ b % 5 = 0
  <2>1. /\ 1000 % 5 = 0 /\ 200 % 5 = 0 /\ 100 % 5 = 0 /\ 50 % 5 = 0
        /\ 40 % 5 = 0 /\ 20 % 5 = 0 /\ 10 % 5 = 0 /\ 5 % 5 = 0
    OBVIOUS
  <2> QED BY <2>1 DEF AllPeriods
<1>2. PICK m \in Int : m = Min({a, b}) /\ m = IF a <= b THEN a ELSE b
  BY <1>1, MinTwo
<1>3. m \in 5 .. 1000 /\ m <= a /\ m <= b
  <2>1. a \in Int /\ b \in Int /\ 5 <= a /\ a <= 1000 /\ 5 <= b
    BY <1>1
  <2>2. m = a \/ m = b
    BY <1>2
  <2>3. m <= a /\ m <= b
    BY <1>2, <2>1, SMTT(20)
  <2>4. 5 <= m
    BY <2>1, <2>2, SMTT(20)
  <2> QED BY <2>1, <2>3, <2>4
<1>4. PICK X : X = {d \in 1 .. m : a % d = 0 /\ b % d = 0}
  BY ZenonT(60)
<1>5. X \subseteq 0 .. m /\ 5 \in X /\ m \in Nat
  BY <1>1, <1>3, <1>4
<1>6. PICK d : d = Max(X)
  OBVIOUS
<1>7. d \in X /\ d >= 5
  <2>1. X # {}
    BY <1>5
  <2>2. Max(X) \in X /\ \A y \in X : Max(X) >= y
    BY <1>5, <2>1, MaxOf, ZenonT(60)
  <2> QED BY <1>5, <1>6, <2>2, SMTT(40)
<1>8. get_max_comm_div(a, b) = d
  BY <1>2, <1>4, <1>6 DEF get_max_comm_div
<1>9. /\ d \in 5 .. 1000 /\ a % d = 0 /\ b % d = 0 /\ d <= a /\ d <= b
  BY <1>1, <1>3, <1>4, <1>7
<1> QED BY <1>8, <1>9

LEMMA SecondDivided ==
  ASSUME NEW i \in AllPeriods
  PROVE  get_max_comm_div(1000, i) = i
<1>1. /\ i \in 5 .. 1000 /\ 1000 % i = 0 /\ i % i = 0
  <2>1. /\ 1000 % 1000 = 0 /\ 1000 % 200 = 0 /\ 1000 % 100 = 0 /\ 1000 % 50 = 0
        /\ 1000 % 40 = 0 /\ 1000 % 20 = 0 /\ 1000 % 10 = 0 /\ 1000 % 5 = 0
    OBVIOUS
  <2>2. /\ 200 % 200 = 0 /\ 100 % 100 = 0 /\ 50 % 50 = 0
        /\ 40 % 40 = 0 /\ 20 % 20 = 0 /\ 10 % 10 = 0 /\ 5 % 5 = 0
    OBVIOUS
  <2> QED BY <2>1, <2>2 DEF AllPeriods
<1>2. PICK m : m = Min({1000, i}) /\ m = i
  <2>1. Min({1000, i}) = IF 1000 <= i THEN 1000 ELSE i
    BY <1>1, MinTwo
  <2> QED BY <1>1, <2>1
<1>3. PICK X : X = {d \in 1 .. m : 1000 % d = 0 /\ i % d = 0}
  OBVIOUS
<1>4. X \subseteq 0 .. i /\ i \in X /\ i \in Nat
  BY <1>1, <1>2, <1>3
<1>5. Max(X) \in X /\ Max(X) >= i
  BY <1>4, MaxOf
<1>6. Max(X) = i
  BY <1>1, <1>2, <1>3, <1>5
<1>7. PICK k : k = 1000
  OBVIOUS
<1>8. m = Min({k, i}) /\ X = {d \in 1 .. m : k % d = 0 /\ i % d = 0}
  BY <1>2, <1>3, <1>7
<1>9. get_max_comm_div(k, i) = Max(X)
  BY <1>8 DEF get_max_comm_div
<1> QED BY <1>6, <1>7, <1>9

(* The period divides that of every sensor the running modules read.       *)
LEMMA PeriodDivides ==
  ASSUME NEW on, NEW r \in [Sensors -> Rates]
  PROVE  /\ sp_recalc_interval_re(on, r) \in 5 .. 1000
         /\ "ACC" \in on => /\ sp_recalc_interval_re(on, r) <= intvl[r["acc"]]
                            /\ intvl[r["acc"]] % sp_recalc_interval_re(on, r) = 0
         /\ "MAG" \in on => /\ sp_recalc_interval_re(on, r) <= intvl[r["mag"]]
                            /\ intvl[r["mag"]] % sp_recalc_interval_re(on, r) = 0
         /\ "ACC" \notin on /\ "MAG" \notin on => sp_recalc_interval_re(on, r) = 1000
<1>1. PICK i \in AllPeriods : i = intvl[r["acc"]]
  BY Periods DEF Sensors
<1>2. PICK j \in AllPeriods : j = intvl[r["mag"]]
  BY Periods DEF Sensors
<1>3. PICK a : a = IF "ACC" \in on THEN i ELSE 1000
  OBVIOUS
<1>4. a \in AllPeriods
  BY <1>1, <1>3 DEF AllPeriods
<1>5. PICK p : p = IF "MAG" \in on THEN get_max_comm_div(a, j) ELSE a
  OBVIOUS
<1>6. algo_get_hint_interval(on, r) = p
  <2>1. get_max_comm_div(1000, i) = i
    BY SecondDivided
  <2> QED BY <1>1, <1>2, <1>3, <1>5, <2>1 DEF algo_get_hint_interval
<1>7. /\ p \in 5 .. 1000 /\ p <= a /\ a % p = 0
      /\ "MAG" \in on => p <= j /\ j % p = 0
  <2>1. CASE "MAG" \in on
    <3>1. /\ get_max_comm_div(a, j) \in 5 .. 1000
          /\ a % get_max_comm_div(a, j) = 0 /\ get_max_comm_div(a, j) <= a
          /\ j % get_max_comm_div(a, j) = 0 /\ get_max_comm_div(a, j) <= j
      BY <1>2, <1>4, CommonDivisor
    <3> QED BY <1>5, <2>1, <3>1
  <2>2. CASE "MAG" \notin on
    <3>1. p = a
      BY <1>5, <2>2
    <3>2. a \in 5 .. 1000 /\ a % a = 0
      BY <1>4 DEF AllPeriods
    <3> QED BY <2>2, <3>1, <3>2
  <2> QED BY <2>1, <2>2
<1>8. sp_recalc_interval_re(on, r) = p
  <2>1. Max({p, 5}) = IF p >= 5 THEN p ELSE 5
    BY <1>7, MaxTwo
  <2>2. Max({p, 5}) = p
    BY <1>7, <2>1
  <2> QED BY <1>6, <2>2 DEF sp_recalc_interval_re, INTV_PROC_MIN
<1>9. "ACC" \notin on /\ "MAG" \notin on => p = 1000
  BY <1>3, <1>5
<1> QED BY <1>1, <1>2, <1>3, <1>7, <1>8, <1>9

LEMMA NoneRuns ==
  ASSUME NEW r \in [Sensors -> Rates]
  PROVE  sp_recalc_interval_re({}, r) = 1000
BY PeriodDivides

(* What RatesInv says of a channel.                                        *)
Fits(t, g, on, d) ==
    /\ \A s \in needs(t) :
          intvl[REGULATE_DR(t, d)[s]] <= Max({g, IF s = "mag" THEN 100 ELSE 0})
    /\ on => REGULATE_DR(t, d) = d

LEMMA NoneFits ==
  ASSUME NEW t \in Types
  PROVE  Fits(t, Given200[t], NoneOn[t], NoRates[t])
<1>1. Given200[t] = 200 /\ NoneOn[t] = FALSE
  BY DEF Given200, NoneOn
<1>2. \A s \in needs(t) : intvl[REGULATE_DR(t, NoRates[t])[s]]
                            <= Max({200, IF s = "mag" THEN 100 ELSE 0})
  BY NoRatesFit, ZenonT(60)
<1>3. Fits(t, 200, FALSE, NoRates[t])
  BY <1>2 DEF Fits
<1> QED BY <1>1, <1>3

LEMMA NoneSum ==
  /\ Ons(NoRefs(Modules)) = {}
  /\ Rate({t \in Types : NoneOn[t]}, NoRates) \in [Sensors -> Rates]
<1>1. Ons(NoRefs(Modules)) = {}
  BY NoneCounted DEF Ons
<1>2. {} \in SUBSET Types /\ NoRates \in [Types -> [Sensors -> Rates]]
  BY NoneCounted
<1>3. Rate({}, NoRates) \in [Sensors -> Rates]
  BY <1>2, Arbitrated
<1> QED BY <1>1, <1>3, NoneCounted

LEMMA RatesStart ==
  ASSUME Init
  PROVE  RatesInv
<1>1. /\ state = NoneOn /\ given = Given200 /\ dr = NoRates
      /\ modref = NoRefs(Modules) /\ dep = {} /\ interval = 1000
  BY DEF Init
<1>2. ASSUME NEW t \in Types PROVE Fits(t, given[t], state[t], dr[t])
  BY <1>1, NoneFits
<1>3. interval = sp_recalc_interval_re(Ons(modref), Rate(Active, dr))
  <2>1. Active = {t \in Types : NoneOn[t]}
    BY <1>1 DEF Active
  <2> QED BY <1>1, <2>1, NoneSum, NoneRuns
<1>4. given \in [Types -> Nat]
  BY <1>1 DEF Given200
<1> QED BY <1>1, <1>2, <1>3, <1>4 DEF RatesInv, RatesFit, Fits

LEMMA RatesDeath ==
  ASSUME sighandler_generic
  PROVE  RatesInv'
<1>1. /\ state' = NoneOn /\ given' = Given200 /\ dr' = NoRates
      /\ modref' = NoRefs(Modules) /\ dep' = {} /\ interval' = 1000
  BY DEF sighandler_generic, channel_cntl_destroy
<1>2. ASSUME NEW t \in Types PROVE Fits(t, given[t], state[t], dr[t])'
  BY <1>1, NoneFits
<1>3. interval' = sp_recalc_interval_re(Ons(modref'), Rate(Active, dr)')
  <2>1. Active' = {t \in Types : NoneOn[t]}
    BY <1>1 DEF Active
  <2>2. Rate(Active, dr)' = Rate({t \in Types : NoneOn[t]}, NoRates)
    BY <1>1, <2>1 DEF Rate, fusion_arbitrate_dr
  <2> QED BY <1>1, <2>2, NoneSum, NoneRuns
<1>4. given' \in [Types -> Nat]
  BY <1>1 DEF Given200
<1> QED BY <1>1, <1>2, <1>3, <1>4 DEF RatesInv, RatesFit, Fits, Ons

LEMMA RatesIdle ==
  ASSUME RatesInv, UNCHANGED <<given, dr, interval, state, modref, dep>>,
         "A" \in dep => UNCHANGED <<dev, failed>>
  PROVE  RatesInv'
<1>1. UNCHANGED <<given, dr, interval, state, modref, dep>>
  OBVIOUS
<1>2. /\ given \in [Types -> Nat]
      /\ \A t \in Types : RatesFit(t) /\ (state[t] => REGULATE_DR(t, dr[t]) = dr[t])
      /\ interval = sp_recalc_interval_re(Ons(modref), Rate(Active, dr))
      /\ "A" \in dep \ failed => dev["A"].delay = intvl[Rate(Active, dr)["acc"]]
  BY DEF RatesInv
<1>3. Active' = Active /\ Rate(Active, dr)' = Rate(Active, dr) /\ Ons(modref)' = Ons(modref)
  BY <1>1 DEF Active, Rate, fusion_arbitrate_dr, Ons
<1>4. \A t \in Types : RatesFit(t)'
  BY <1>1, <1>2 DEF RatesFit
<1>5. interval' = sp_recalc_interval_re(Ons(modref)', Rate(Active, dr)')
  BY <1>1, <1>2, <1>3
<1>6. "A" \in dep' \ failed' => dev'["A"].delay = intvl[Rate(Active, dr)'["acc"]]
  BY <1>1, <1>2, <1>3
<1> QED BY <1>1, <1>2, <1>4, <1>5, <1>6 DEF RatesInv

(* A channel that is switched is given the rates it was checked for.       *)
LEMMA RatesEnable ==
  ASSUME DaemonInv, RatesInv, up, UNCHANGED up, NEW t \in Types, NEW on \in BOOLEAN,
         state[t] # on, sp_enable_ch(t, on)
  PROVE  RatesInv'
<1>1. /\ dr' = [dr EXCEPT ![t] = REGULATE_DR(t, @)] /\ UNCHANGED given
      /\ interval' = sp_recalc_interval_re(Ons(modref'), Rate(Active, dr)')
      /\ "A" \in dep' \ failed' => dev'["A"].delay = intvl[Rate(Active, dr)'["acc"]]
  BY EnableStep
<1>2. /\ given \in [Types -> Nat] /\ dr \in [Types -> [Sensors -> Rates]] /\ state \in [Types -> BOOLEAN]
      /\ \A x \in Types : Fits(x, given[x], state[x], dr[x])
  BY DEF DaemonInv, DaemonTypes, RatesInv, RatesFit, Fits
<1>3. state' = [state EXCEPT ![t] = on]
  BY DEF sp_enable_ch
<1>4. ASSUME NEW x \in Types PROVE Fits(x, given'[x], state'[x], dr'[x])
  <2>1. CASE x = t
    <3>1. PICK e : e = REGULATE_DR(t, dr[t])
      OBVIOUS
    <3>2. dr'[x] = e /\ x = t
      BY <1>1, <1>2, <2>1, <3>1
    <3>3. REGULATE_DR(t, e) = e
      BY <1>2, <3>1, TypesAssumption, RegulatedTwice
    <3>4. Fits(t, given[t], state[t], dr[t])
      BY <1>2
    <3>5. \A s \in needs(t) :
             intvl[REGULATE_DR(t, e)[s]] <= Max({given[t], IF s = "mag" THEN 100 ELSE 0})
      BY <3>1, <3>3, <3>4 DEF Fits
    <3>6. Fits(t, given[t], state'[t], e)
      BY <3>3, <3>5 DEF Fits
    <3> QED BY <1>1, <3>2, <3>6
  <2>2. CASE x # t
    <3>1. dr'[x] = dr[x] /\ state'[x] = state[x]
      BY <1>1, <1>2, <1>3, <2>2
    <3> QED BY <1>1, <1>2, <3>1
  <2> QED BY <2>1, <2>2
<1> QED BY <1>1, <1>2, <1>4 DEF RatesInv, RatesFit, Fits, Ons

LEMMA RatesDelay ==
  ASSUME DaemonInv, RatesInv, up, UNCHANGED up, NEW t \in Types, NEW v \in Int,
         algo_on_interval_changed(t, v)
  PROVE  RatesInv'
<1>1. /\ UNCHANGED <<state, modref>>
      /\ given' = [given EXCEPT ![t] = GivenInterval(t, v)]
      /\ dr' = [dr EXCEPT ![t] = RatesFor(t, @, v)]
      /\ interval' = sp_recalc_interval_re(Ons(modref'), Rate(Active, dr)')
      /\ "A" \in dep' \ failed' => dev'["A"].delay = intvl[Rate(Active, dr)'["acc"]]
  BY DelayStep
<1>2. /\ given \in [Types -> Nat] /\ dr \in [Types -> [Sensors -> Rates]]
      /\ \A x \in Types : Fits(x, given[x], state[x], dr[x])
  BY DEF DaemonInv, DaemonTypes, RatesInv, RatesFit, Fits
<1>3. t \in AllTypes /\ dr[t] \in [Sensors -> Rates]
  BY <1>2, TypesAssumption
<1>4. PICK e, g : e = RatesFor(t, dr[t], v) /\ g = GivenInterval(t, v)
  OBVIOUS
<1>5. /\ REGULATE_DR(t, RatesFor(t, dr[t], v)) = RatesFor(t, dr[t], v)
      /\ \A s \in needs(t) :
            intvl[RatesFor(t, dr[t], v)[s]]
              <= Max({GivenInterval(t, v), IF s = "mag" THEN 100 ELSE 0})
  BY <1>3, IntervalFits
<1>6. REGULATE_DR(t, e) = e /\ g \in Nat
  BY <1>3, <1>4, <1>5, Given
<1>7. \A s \in needs(t) :
         intvl[REGULATE_DR(t, e)[s]] <= Max({g, IF s = "mag" THEN 100 ELSE 0})
  BY <1>4, <1>5, <1>6
<1>8. Fits(t, g, state'[t], e)
  BY <1>6, <1>7 DEF Fits
<1>9. ASSUME NEW x \in Types PROVE Fits(x, given'[x], state'[x], dr'[x])
  <2>1. CASE x = t
    <3>1. given'[x] = g /\ dr'[x] = e /\ x = t
      BY <1>1, <1>2, <1>4, <2>1
    <3> QED BY <1>8, <3>1
  <2>2. CASE x # t
    <3>1. given'[x] = given[x] /\ dr'[x] = dr[x] /\ state'[x] = state[x]
      BY <1>1, <1>2, <2>2
    <3> QED BY <1>2, <3>1
  <2> QED BY <2>1, <2>2
<1>10. given' \in [Types -> Nat]
  BY <1>1, <1>2, <1>4, <1>6
<1> QED BY <1>1, <1>9, <1>10 DEF RatesInv, RatesFit, Fits, Ons

LEMMA RatesCommand ==
  ASSUME DaemonInv, RatesInv, check_cmd_event
  PROVE  RatesInv'
<1>1. PICK c \in Commands : channel_on_cmd_received(c)
  BY DEF check_cmd_event
<1>2. up /\ UNCHANGED up
  BY DEF check_cmd_event, TakeCmd
<1>3. c.type \in Types /\ (c.cmd = "DELAY" => c.value \in Int)
  BY DaemonAssumption DEF Commands
<1>4. CASE c.cmd = "ACTIVE"
  <2>1. PICK on \in BOOLEAN : on = (c.value = 1)
    OBVIOUS
  <2>2. channel_set_state(c.type, on)
    BY <1>1, <1>4, <2>1 DEF channel_on_cmd_received
  <2>3. CASE state[c.type] = on
    <3>1. UNCHANGED <<rates, hardware, counts>>
      BY <2>2, <2>3 DEF channel_set_state
    <3> QED BY <3>1, RatesIdle DEF rates, hardware, counts
  <2>4. CASE state[c.type] # on
    <3>1. sp_enable_ch(c.type, on)
      BY <2>2, <2>4 DEF channel_set_state
    <3> QED BY <1>2, <1>3, <2>4, <3>1, RatesEnable
  <2> QED BY <2>3, <2>4
<1>5. CASE c.cmd = "DELAY" /\ c.value >= 0
  <2>1. algo_on_interval_changed(c.type, c.value)
    BY <1>1, <1>5 DEF channel_on_cmd_received
  <2> QED BY <1>2, <1>3, <1>5, <2>1, RatesDelay
<1>6. CASE c.cmd # "ACTIVE" /\ ~(c.cmd = "DELAY" /\ c.value >= 0)
  <2>1. UNCHANGED <<rates, hardware, counts>>
    BY <1>1, <1>6 DEF channel_on_cmd_received
  <2> QED BY <2>1, RatesIdle DEF rates, hardware, counts
<1> QED BY <1>4, <1>5, <1>6

LEMMA RatesStep ==
  ASSUME DaemonInv, RatesInv, [Next]_vars
  PROVE  RatesInv'
<1> USE DEF rates, hardware, counts
<1>1. CASE check_cmd_event
  BY <1>1, RatesCommand
<1>2. CASE SendCmd
  BY <1>2, RatesIdle DEF SendCmd
<1>3. CASE re_wait
  BY <1>3, RatesIdle DEF re_wait
<1>4. CASE re_proc
  BY <1>4, RatesIdle DEF re_proc
<1>5. CASE sp_report_data
  BY <1>5, RatesIdle DEF sp_report_data
<1>6. CASE ClockSet
  BY <1>6, RatesIdle DEF ClockSet
<1>7. CASE ReadData
  BY <1>7, RatesIdle DEF ReadData
<1>8. CASE sighandler_generic
  BY <1>8, RatesDeath
<1>9. CASE main
  <2>1. "A" \notin dep
    BY <1>9 DEF main, Start, DaemonInv
  <2> QED BY <1>9, <2>1, RatesIdle DEF main
<1>10. CASE UNCHANGED vars
  BY <1>10, RatesIdle DEF vars
<1> QED BY <1>1, <1>2, <1>3, <1>4, <1>5, <1>6, <1>7, <1>8, <1>9, <1>10 DEF Next

(* What the invariant comes to: the sensor is at least as fast as the most  *)
(* demanding of the channels, which is as fast as it was promised.         *)
LEMMA RatesSuffice ==
  ASSUME DaemonInv, RatesInv
  PROVE  RatesServed
<1>1. /\ DaemonTypes /\ CountsAgree /\ given \in [Types -> Nat]
      /\ \A t \in Types : RatesFit(t) /\ (state[t] => REGULATE_DR(t, dr[t]) = dr[t])
      /\ interval = sp_recalc_interval_re(Ons(modref), Rate(Active, dr))
      /\ "A" \in dep \ failed => dev["A"].delay = intvl[Rate(Active, dr)["acc"]]
  BY DEF DaemonInv, RatesInv
<1>2. dr \in [Types -> [Sensors -> Rates]] /\ Active \in SUBSET Types
  BY <1>1 DEF DaemonTypes, Active
<1>3. PICK r : r = Rate(Active, dr)
  OBVIOUS
<1>4. r \in [Sensors -> Rates] /\ \A t \in Active, s \in Sensors : dr[t][s] <= r[s]
  BY <1>2, <1>3, Arbitrated
<1>5. PICK p : p = interval
  OBVIOUS
<1>6. /\ p \in 5 .. 1000
      /\ "ACC" \in Ons(modref) => p <= intvl[r["acc"]] /\ intvl[r["acc"]] % p = 0
      /\ "MAG" \in Ons(modref) => p <= intvl[r["mag"]] /\ intvl[r["mag"]] % p = 0
  BY <1>1, <1>3, <1>4, <1>5, PeriodDivides
<1>7. ASSUME NEW t \in Active
      PROVE  /\ "acc" \in needs(t) /\ "A" \in dep \ failed => dev["A"].delay <= given[t]
             /\ ~bypass_proc(t) =>
                  /\ p <= Max({given[t], IF "mag" \in needs(t) THEN 100 ELSE 0})
                  /\ \A s \in needs(t) : intvl[r[s]] % p = 0
  <2>1. t \in Types /\ state[t] /\ t \in AllTypes /\ given[t] \in Nat
    BY <1>1, TypesAssumption DEF Active
  <2>2. PICK g \in Nat : g = given[t]
    BY <2>1
  <2>3. ASSUME NEW s \in needs(t)
        PROVE  /\ s \in Sensors /\ intvl[r[s]] \in Nat
               /\ intvl[r[s]] <= Max({g, IF s = "mag" THEN 100 ELSE 0})
    <3>1. s \in Sensors
      BY <2>1, Limits
    <3>2. dr[t][s] \in Rates /\ r[s] \in Rates /\ dr[t][s] <= r[s]
      BY <1>2, <1>4, <2>1, <3>1
    <3>3. intvl[r[s]] <= intvl[dr[t][s]] /\ intvl[r[s]] \in Nat /\ intvl[dr[t][s]] \in Nat
      BY <3>2, PeriodsFall, Tables
    <3>4. PICK m : m = Max({g, IF s = "mag" THEN 100 ELSE 0})
      OBVIOUS
    <3>5. m \in Nat
      <4>1. Max({g, IF s = "mag" THEN 100 ELSE 0}) \in Nat
        BY RoomFor
      <4> QED BY <3>4, <4>1
    <3>6. intvl[dr[t][s]] <= m
      <4>1. RatesFit(t) /\ REGULATE_DR(t, dr[t]) = dr[t]
        BY <1>1, <2>1
      <4>2. intvl[dr[t][s]] <= Max({given[t], IF s = "mag" THEN 100 ELSE 0})
        BY <4>1 DEF RatesFit
      <4> QED BY <2>2, <3>4, <4>2
    <3>7. intvl[r[s]] <= m
      BY <3>3, <3>5, <3>6
    <3> QED BY <3>1, <3>3, <3>4, <3>7
  <2>4. ASSUME "acc" \in needs(t), "A" \in dep \ failed
        PROVE  dev["A"].delay <= given[t]
    <3>1. dev["A"].delay = intvl[r["acc"]]
      BY <1>1, <1>3, <2>4
    <3>2. intvl[r["acc"]] <= Max({g, IF "acc" = "mag" THEN 100 ELSE 0})
      BY <2>3, <2>4
    <3>3. Max({g, 0}) = g
      <4>1. Max({g, 0}) = IF g >= 0 THEN g ELSE 0
        BY MaxTwo
      <4> QED BY <4>1
    <3>4. (IF "acc" = "mag" THEN 100 ELSE 0) = 0
      OBVIOUS
    <3> QED BY <2>2, <3>1, <3>2, <3>3, <3>4
  <2>5. ASSUME ~bypass_proc(t), NEW s \in needs(t)
        PROVE  p <= intvl[r[s]] /\ intvl[r[s]] % p = 0
    <3>1. CASE s = "acc"
      <4>1. "ACC" \in Modules /\ "ACC" \in ModulesOf(t)
        BY <3>1 DEF Modules, ModulesOf
      <4>2. "ACC" \in Ons(modref)
        BY <1>1, <2>5, <4>1, NeededRun
      <4> QED BY <1>6, <3>1, <4>2
    <3>2. CASE s = "mag"
      <4>1. "MAG" \in Modules /\ "MAG" \in ModulesOf(t)
        BY <3>2 DEF Modules, ModulesOf
      <4>2. "MAG" \in Ons(modref)
        BY <1>1, <2>5, <4>1, NeededRun
      <4> QED BY <1>6, <3>2, <4>2
    <3> QED BY <2>3, <3>1, <3>2 DEF Sensors
  <2>6. ASSUME ~bypass_proc(t)
        PROVE  p <= Max({given[t], IF "mag" \in needs(t) THEN 100 ELSE 0})
    <3>1. PICK k \in {0, 100} : /\ k = (IF "mag" \in needs(t) THEN 100 ELSE 0)
                                /\ ("mag" \in needs(t) => k = 100)
      OBVIOUS
    <3>2. PICK s : s \in needs(t)
      BY DEF needs, Sensors
    <3>3. PICK j \in {0, 100} : /\ j = (IF s = "mag" THEN 100 ELSE 0)
                                /\ (s # "mag" => j = 0)
      OBVIOUS
    <3>4. j <= k
      BY <3>1, <3>2, <3>3
    <3>5. p <= intvl[r[s]] /\ intvl[r[s]] \in Nat
      BY <2>3, <2>5, <2>6, <3>2
    <3>6. intvl[r[s]] <= Max({g, j})
      <4>1. intvl[r[s]] <= Max({g, IF s = "mag" THEN 100 ELSE 0})
        BY <2>3, <3>2
      <4> QED BY <3>3, <4>1
    <3>7. Max({g, j}) = (IF g >= j THEN g ELSE j) /\ Max({g, k}) = (IF g >= k THEN g ELSE k)
      <4>1. j \in Int /\ k \in Int /\ g \in Int
        BY <3>1, <3>3
      <4> QED BY <4>1, MaxTwo
    <3>8. p <= Max({g, k})
      BY <1>6, <3>1, <3>3, <3>4, <3>5, <3>6, <3>7
    <3> QED BY <2>2, <3>1, <3>8
  <2> QED BY <2>3, <2>4, <2>5, <2>6
<1> QED BY <1>3, <1>5, <1>7 DEF RatesServed

(* RatesAreServed: an accelerometer none of whose writes failed samples at  *)
(* least as often as every channel that is on was promised, and the         *)
(* thread's period divides that of each sensor it reads and is no longer    *)
(* than what a channel was promised, or than 100 ms if the channel reads    *)
(* the magnetometer; after any sequence of switches, intervals, failed      *)
(* writes and restarts and for any interval the HAL may ask for.            *)
THEOREM RatesAreServed == MCSpec => []RatesServed
<1>1. MCInit => RatesInv
  BY RatesStart DEF MCInit
<1>2. DaemonInv /\ RatesInv /\ [MCNext]_mcvars => RatesInv'
  <2> SUFFICES ASSUME DaemonInv, RatesInv, [MCNext]_mcvars PROVE RatesInv'
    OBVIOUS
  <2>1. [Next]_vars
    BY DEF MCNext, mcvars
  <2> QED BY <2>1, RatesStep
<1>3. DaemonInv /\ RatesInv => RatesServed
  BY RatesSuffice
<1> QED BY <1>1, <1>2, <1>3, DaemonAlways, PTL DEF MCSpec
===========================================================================
