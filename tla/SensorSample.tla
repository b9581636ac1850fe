---------------------------- MODULE SensorSample ----------------------------
(***************************************************************************)
(* How a reading of a sensor's driver becomes the sample the algorithms     *)
(* work on (algo_update_data and the get_data functions of the hardware     *)
(* layer), and how the gesture the algorithms see becomes an event.         *)
(***************************************************************************)
EXTENDS Integers, Sequences, FiniteSetsExt

CONSTANTS Readings,     \* what the driver of each sensor may measure
          AxisFiles     \* the contents the axis file may have

HW == {"A", "M"}
INT_MIN  == -2147483647 - 1
SHRT_MAX == 32767
S16(v) == ((v + 32768) % 65536) - 32768         \* the cast to BS_S16
Zero == <<0, 0, 0>>

VARIABLES
    h,          \* the sensor
    place,      \* g_place_a or g_place_m; negative for no remapping
    fd,         \* its value node could be opened
    reading,    \* what the driver holds
    held,       \* all it has held so far
    g_data,     \* the sample
    age,        \* time since g_last_ts, negative when the clock went back
    flip,       \* g_last_value_gest_flip
    told        \* the last gesture that was reported

vars == <<h, place, fd, reading, held, g_data, age, flip, told>>

-----------------------------------------------------------------------------
\* Axes.

\* The eight places a sensor can have: is x exchanged with y, which signs change.
axis_remap_tab ==
    << [swap |-> TRUE,  neg |-> {1}],    [swap |-> FALSE, neg |-> {}],
       [swap |-> FALSE, neg |-> {1, 2}], [swap |-> TRUE,  neg |-> {2}],
       [swap |-> FALSE, neg |-> {1, 3}], [swap |-> TRUE,  neg |-> {3}],
       [swap |-> TRUE,  neg |-> {1, 2, 3}], [swap |-> FALSE, neg |-> {2, 3}] >>

\* The table's rx, ry and rz count in a triple that is exchanged step by step;
\* they come to leaving x and y alone or to exchanging them, and keep z.
hw_remap_sensor_data(v, p) ==
    LET t == axis_remap_tab[p + 1]
        w == IF t.swap THEN <<v[2], v[1], v[3]>> ELSE v
    IN  [i \in 1 .. 3 |-> IF i \in t.neg THEN 0 - w[i] ELSE w[i]]

Placed(v, p) == IF p >= 0 THEN hw_remap_sensor_data(v, p) ELSE v

\* One line of the axis file after another, to the first that is not valid.
set_cfg_axis(lines, dft) ==
    LET read == {i \in DOMAIN lines : \A j \in 1 .. i : lines[j] # <<>>}
        mine == {i \in read : lines[i][1] = h}
    IN  IF mine = {} THEN dft ELSE lines[Max(mine)][2]

\* hw_init: a driver that knows its place has turned the axes already.
DriverPlace(p) == {p, -1}

-----------------------------------------------------------------------------
\* Reading.

Shifted(v, d) == [i \in 1 .. 3 |-> v[i] \div d]      \* >> 6 and >> 2 round down

hw_acc_read_xyzdata(v, p) == Shifted(Placed(v, p), 64)

\* An axis that overflowed comes as the least int.
hw_mag_validate_val(v) ==
    [i \in 1 .. 3 |-> IF v[i] = INT_MIN THEN 0 - SHRT_MAX ELSE Shifted(v, 4)[i]]

hw_mag_read_xyzdata(v, p) == Placed(hw_mag_validate_val(v), p)

Converted(v) ==
    IF h = "A" THEN hw_acc_read_xyzdata(v, place) ELSE hw_mag_read_xyzdata(v, place)

\* What reading the node may come to: a line of three numbers, a shorter one,
\* an error.  A node that could not be opened is three zeros without an error.
get_data_nb ==
    IF ~fd THEN {[val |-> Converted(Zero), err |-> FALSE]}
    ELSE {[val |-> Converted(reading), err |-> FALSE],
          [val |-> Converted(<<reading[1], 0, 0>>), err |-> TRUE],
          [val |-> Converted(Zero), err |-> TRUE]}

\* A failed read is taken as well.
dataEvenOnError(o, old) == [i \in 1 .. 3 |-> S16(o.val[i])]

\* A failed read leaves the sample.
DataAfter(o, old) == IF o.err THEN old ELSE [i \in 1 .. 3 |-> S16(o.val[i])]

Init ==
    /\ h \in HW
    /\ \E lines \in AxisFiles : place \in DriverPlace(set_cfg_axis(lines, 1))
    /\ fd \in BOOLEAN
    /\ reading = Zero /\ held = {Zero} /\ g_data = Zero /\ age = 0
    /\ flip = 0 /\ told = 0

\* The driver measures.
Measure ==
    /\ reading' \in Readings[h]
    /\ held' = held \cup {reading'}
    /\ UNCHANGED <<h, place, fd, g_data, age, flip, told>>

\* The time since the last sample in units of the sensor's interval; -1 is a
\* clock that went back.
Elapse ==
    /\ age' \in {-1, 1}
    /\ UNCHANGED <<h, place, fd, reading, held, g_data, flip, told>>

\* A sensor is read when its interval is over; when the clock went back only
\* the time is noted.
algo_update_data ==
    /\ age # 0
    /\ \E o \in get_data_nb : g_data' = IF age > 0 THEN DataAfter(o, g_data) ELSE g_data
    /\ age' = 0
    /\ UNCHANGED <<h, place, fd, reading, held, flip, told>>

-----------------------------------------------------------------------------
\* The gesture: 0 is unknown, 1 to 3 are reported, 4 is out of range.

data_filter_gest_flip(g) == g > 0 /\ g < 4

\* A gesture is reported when it is another than before and passes the filter.
algo_get_proc_data_gest_flip(g) == IF g # flip /\ data_filter_gest_flip(g) THEN g ELSE told

get_data_gest_flip ==
    /\ \E g \in 0 .. 4 : /\ flip' = g
                         /\ told' = algo_get_proc_data_gest_flip(g)
    /\ UNCHANGED <<h, place, fd, reading, held, g_data, age>>

Next == Measure \/ Elapse \/ algo_update_data \/ get_data_gest_flip

Spec == Init /\ [][Next]_vars

-----------------------------------------------------------------------------
\* Properties.

TypeOK ==
    /\ h \in HW /\ place \in -1 .. 7 /\ fd \in BOOLEAN /\ age \in {-1, 0, 1}
    /\ \A i \in 1 .. 3 : g_data[i] \in -32768 .. 32767
    /\ reading \in held /\ held \subseteq Readings[h] \cup {Zero}
    /\ flip \in 0 .. 4 /\ told \in 0 .. 3

\* The vectors a rotation may make of v that keeps the sensor's board flat: the
\* turns about z, and those that put it upside down.
Turns(v) == {<<v[1], v[2], v[3]>>,  <<-v[1], -v[2], v[3]>>,
             <<-v[2], v[1], v[3]>>, <<v[2], -v[1], v[3]>>,
             <<v[1], -v[2], -v[3]>>, <<-v[1], v[2], -v[3]>>,
             <<v[2], v[1], -v[3]>>, <<-v[2], -v[1], -v[3]>>}

\* A sample is a reading of the driver, whole, turned by a rotation and never
\* mirrored, in the units of the algorithms; neither a read that failed half
\* way, nor an overflow of the magnetometer, nor the cast to 16 bits changes it.
\* A node that could not be opened gives zeros as if they were measured.
Corrected(v) == IF h = "M" THEN hw_mag_validate_val(v) ELSE v
InUnits(w)   == IF h = "M" THEN w ELSE Shifted(w, 64)
SampleFaithful == \E v \in held : \E w \in Turns(Corrected(v)) : g_data = InUnits(w)

\* The last gesture that could be reported is the one the HAL was told of.
GestureTold == data_filter_gest_flip(flip) => told = flip

\* The inductive invariant: what the driver holds or held was measured, and a
\* sample that was right once stays so.
SampleInv ==
    /\ h \in HW /\ place \in -1 .. 7
    /\ reading \in held /\ Zero \in held /\ held \subseteq Readings[h] \cup {Zero}
    /\ SampleFaithful /\ GestureTold
=============================================================================
