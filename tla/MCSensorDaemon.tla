--------------------------- MODULE MCSensorDaemon ---------------------------
(***************************************************************************)
(* The three parts of the sensor daemon on small instances.  They share no  *)
(* state: part says which of them a behaviour is about.                     *)
(***************************************************************************)
EXTENDS SensorDaemon

CONSTANTS Readings, AxisFiles,    \* of the samples
          Pids, Profiles          \* of the start

VARIABLES part, h, place, fd, reading, held, g_data, sage, flip, told,
          pc, another, landmark, file, mem, lib, computed, overlap, cut

MCDelays == {<<"O", 50>>}

\* An axis of the accelerometer is sixteen bits; one of the magnetometer fits
\* them when its two low bits are dropped, or is the least int when it overflowed.
Between(a, b) == {n \in Int : a <= n /\ n <= b}
Axis(s) == IF s = "A" THEN Between(-32768, 32767)
           ELSE Between(-131068, 131071) \cup {-2147483647 - 1}

ASSUME SampleAssumption ==
    /\ \A s \in HW : Readings[s] \subseteq [1 .. 3 -> Axis(s)]
    /\ \A lines \in AxisFiles : lines \in Seq({<<>>} \cup (HW \X (0 .. 7)))

\* No process has the pid 0, and the profiles of this version are not that of
\* another one.
ASSUME StartAssumption == 0 \notin Pids /\ Profiles \cap {"none", "old"} = {}

MCReadings == [s \in HW |-> IF s = "A" THEN {<<64, 5, -32768>>, <<-32768, 32767, 1>>}
                            ELSE {<<64, 5, -32768>>, <<-2147483647 - 1, 20, -20>>}]
MCAxisFiles == {<<>>, <<<<"A", 6>>, <<"M", 4>>>>, <<<<"M", 0>>, <<>>, <<"A", 3>>>>}

Sample == INSTANCE SensorSample WITH age <- sage
Boot == INSTANCE SensordStart

samplevars == <<h, place, fd, reading, held, g_data, sage, flip, told>>
bootvars == <<pc, another, landmark, file, mem, lib, computed, overlap, cut>>
mcvars == <<vars, samplevars, bootvars, part>>

MCInit == /\ part \in {"daemon", "sample", "start"}
          /\ Init /\ Sample!Init /\ Boot!Init
          /\ part # "sample" => h = "A" /\ ~fd /\ place = 1
          /\ part # "start" => file.head = 0

MCNext == \/ part = "daemon" /\ Next /\ UNCHANGED <<samplevars, bootvars, part>>
          \/ part = "sample" /\ Sample!Next /\ UNCHANGED <<vars, bootvars, part>>
          \/ part = "start" /\ Boot!Next /\ UNCHANGED <<vars, samplevars, part>>

MCSpec == MCInit /\ [][MCNext]_mcvars /\ Fairness

\* SensorSample: samples are readings of the driver, and the last gesture is the
\* one the HAL was told of.
SamplesFaithful == Sample!SampleFaithful /\ Sample!GestureTold

\* SensordStart: one daemon at a time, and it works with a whole profile.
StartsClean == Boot!OneDaemon /\ Boot!ProfileWhole
=============================================================================
