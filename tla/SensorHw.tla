------------------------------ MODULE SensorHw ------------------------------
(***************************************************************************)
(* The sensor daemon's hardware layer.  hw is what the daemon keeps about a *)
(* sensor (sensor_hw), dev what its kernel driver holds: the daemon can be  *)
(* restarted, dev stays.  Every setting is written to a sysfs node and the  *)
(* write may fail, so an operation is the set of its possible outcomes; w   *)
(* is the set of answers a write may get, TRUE for success.                 *)
(***************************************************************************)
EXTENDS Integers

HW == {"A", "M"}

HW_A_BW_INVALID == -1
BW == HW_A_BW_INVALID .. 4              \* the bandwidths of map_a_bw

Hw  == [ref : Nat, enabled : BOOLEAN, bw : BW]
Dev == [mode : {"NORMAL", "FORCED", "SUSPEND", "SLEEP"}, input : BOOLEAN,
        bw : BW, delay : Nat]

Outcome(h, d, e) == [hw |-> h, dev |-> d, err |-> e]

\* The driver after a write that is answered with ok.
hw_acc_set_opmode(d, mode, ok) == IF ok THEN [d EXCEPT !.mode = mode] ELSE d
hw_mag_set_opmode(d, mode, ok) == IF ok THEN [d EXCEPT !.mode = mode] ELSE d
hw_acc_set_enable_inputev(d, on, ok) == IF ok THEN [d EXCEPT !.input = on] ELSE d

\* Both nodes are written, whatever the first one answers.
hw_enable_a(h, d, on, w) ==
    {Outcome(h, hw_acc_set_enable_inputev(
                    hw_acc_set_opmode(d, IF on THEN "NORMAL" ELSE "SUSPEND", w1), on, w2),
             ~(w1 /\ w2)) : w1 \in w, w2 \in w}

hw_enable_m(h, d, on, w) ==
    {Outcome(h, hw_mag_set_opmode(d, IF on THEN "SLEEP" ELSE "SUSPEND", w1), ~w1) : w1 \in w}

enable(id, h, d, on, w) ==
    IF id = "A" THEN hw_enable_a(h, d, on, w) ELSE hw_enable_m(h, d, on, w)

\* The accelerometer keeps its settings in suspend mode, the magnetometer is
\* given its repetitions again and put into forced mode.
restore_cfg(id, h, d, w) ==
    IF id = "A" THEN {Outcome(h, d, FALSE)}
    ELSE {Outcome(h, hw_mag_set_opmode(d, "FORCED", w3), ~(w1 /\ w2)) :
              w1 \in w, w2 \in w, w3 \in w}

hw_ref_up(id, h, d, w) ==
    LET up == [h EXCEPT !.ref = @ + 1]
    IN  IF up.ref # 1 THEN {Outcome(up, d, FALSE)}
        ELSE UNION {IF o.err THEN {o}
                    ELSE restore_cfg(id, [o.hw EXCEPT !.enabled = TRUE], o.dev, w) :
                        o \in enable(id, up, d, TRUE, w)}

\* The count goes down even when the sensor could not be switched off.
hw_ref_down(id, h, d, w) ==
    LET down(o) == [o EXCEPT !.hw.enabled = IF o.err THEN @ ELSE FALSE, !.hw.ref = 0]
    IN  IF h.ref = 1 THEN {down(o) : o \in enable(id, h, d, FALSE, w)}
        ELSE {Outcome([h EXCEPT !.ref = IF @ > 0 THEN @ - 1 ELSE @], d, FALSE)}

\* hw_acc_set_bandwidth: a bandwidth that is set already is not written.
set_bw(h, d, bw, w) ==
    IF bw = h.bw THEN {Outcome(h, d, FALSE)}
    ELSE {IF w1 THEN Outcome([h EXCEPT !.bw = bw], [d EXCEPT !.bw = bw], FALSE)
                ELSE Outcome(h, d, TRUE) : w1 \in w}

set_delay(h, d, ms, w) ==
    {Outcome(h, IF w1 THEN [d EXCEPT !.delay = ms] ELSE d, ~w1) : w1 \in w}

\* The accelerometer is woken to be set up, the magnetometer is not.
hw_init_a(h, d, w) ==
    {Outcome([h EXCEPT !.bw = HW_A_BW_INVALID], hw_acc_set_opmode(d, "NORMAL", w1), FALSE) :
        w1 \in w}
hw_init_m(h, d) == {Outcome(h, d, FALSE)}

\* hw_cntl_init: a sensor is set up and switched off.
hw_init(id, h, d, w) ==
    UNION {enable(id, [o.hw EXCEPT !.ref = 0], o.dev, FALSE, w) :
              o \in IF id = "A" THEN hw_init_a(h, d, w) ELSE hw_init_m(h, d)}
=============================================================================
