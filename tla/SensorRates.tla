----------------------------- MODULE SensorRates -----------------------------
(***************************************************************************)
(* The data rates of the sensor daemon: the channels and products it is     *)
(* built with, what each needs of the hardware and of the algorithm         *)
(* library, and the arithmetic that turns the intervals the HAL asks for    *)
(* into a rate for each sensor and a period for the provider's thread.      *)
(*                                                                          *)
(* A data rate is an index into intvl, the slowest first; times are in ms.  *)
(***************************************************************************)
EXTENDS Integers, FiniteSets, FiniteSetsExt

CONSTANT Types      \* the channels built in (SPT_SENSOR_x), each a product

AllTypes == {"A", "M", "O", "G", "VG", "VLA", "VRV", "FLIP"}

ASSUME TypesAssumption == Types # {} /\ Types \subseteq AllTypes

Sensors == {"acc", "mag"}
Modules == {"ACC", "MAG", "CMP", "M4G", "VLA", "FLIP"}

-----------------------------------------------------------------------------
\* The channel table, with the limits set_cfg_misc writes into it.

bypass_proc(t) == t = "A"          \* CFG_BYPASS_PROC_CHANNEL_A
no_delay(t)    == t = "FLIP"

interval_min(t) ==
    CASE t \in {"A", "VG", "VLA"} -> 10
      [] t \in {"M", "O"}         -> 50
      [] t \in {"G", "VRV"}       -> 20
      [] t = "FLIP"               -> 100

interval_max(t) == IF t = "FLIP" THEN 100 ELSE 200

\* SET_SENSOR_DELAY moves the value into the channel's limits.
Clamped(t, v) == Min({Max({v, interval_min(t)}), interval_max(t)})

-----------------------------------------------------------------------------
\* What a product needs.

needs(t) == IF t = "M" THEN {"mag"}
            ELSE IF t \in {"O", "G", "VRV"} THEN Sensors ELSE {"acc"}

ModulesOf(t) ==
    {CASE s = "acc" -> "ACC" [] s = "mag" -> "MAG" : s \in needs(t)}
    \cup (IF t = "O" THEN {"CMP"} ELSE {})
    \cup (IF t \in {"G", "VRV"} THEN {"M4G"} ELSE {})
    \cup (IF t \in {"VG", "VLA"} THEN {"VLA"} ELSE {})
    \cup (IF t = "FLIP" THEN {"FLIP"} ELSE {})

\* The modules whose results make up an event of the channel (get_data_x).
OutputsOf(t) ==
    CASE t = "A"           -> {"ACC"}
      [] t = "M"           -> {"MAG"}
      [] t = "O"           -> {"CMP"}
      [] t \in {"G", "VRV"} -> {"M4G"}
      [] t = "VG"          -> {"ACC", "VLA"}
      [] t = "VLA"         -> {"VLA"}
      [] t = "FLIP"        -> {"FLIP"}

-----------------------------------------------------------------------------
\* Rates.

Rates == 0 .. 7
intvl == [r \in Rates |-> <<1000, 200, 100, 50, 40, 20, 10, 5>>[r + 1]]
ref_bw == [r \in Rates |-> <<0, 0, 0, 1, 1, 2, 3, 4>>[r + 1]]
Hz(r) == 1000 \div intvl[r]

\* The range of rates of a product, 0 .. 0 for a sensor it does not use.
dr_min(t, s) ==
    IF s \notin needs(t)      THEN 0
    ELSE IF t = "A"           THEN 1
    ELSE IF t \in {"G", "VRV"} THEN 5
    ELSE 2

dr_max(t, s) ==
    IF s \notin needs(t)                   THEN 0
    ELSE IF s = "mag" /\ t \in {"M", "O"}  THEN 2
    ELSE IF t \in {"O", "G", "VRV"}        THEN 5
    ELSE 6

REGULATE_DR(t, dr) ==
    [s \in Sensors |-> Min({Max({dr[s], dr_min(t, s)}), dr_max(t, s)})]

\* The slowest rate that is at least hz, the fastest of all if there is none.
algo_hz2data_rate(hz) ==
    LET fit == {r \in Rates : hz <= Hz(r)} IN IF fit = {} THEN 7 ELSE Min(fit)

\* The largest divisor of a that is at most b, which is not 0.
get_nearest_divisible_int(a, b) ==
    IF a = 0 THEN b ELSE IF a <= b THEN a ELSE Max({d \in 1 .. b : a % d = 0})

\* What Euclid's loop leaves, for numbers that are not 0.
get_max_comm_div(a, b) == Max({d \in 1 .. Min({a, b}) : a % d = 0 /\ b % d = 0})

\* The interval a channel is given for one the HAL asks for, and the rates its
\* product takes for that interval.
GivenInterval(t, v) == get_nearest_divisible_int(1000, Clamped(t, v))

RatesFor(t, dr, v) ==
    LET r == algo_hz2data_rate(1000 \div GivenInterval(t, v))
    IN  REGULATE_DR(t, [s \in Sensors |-> IF s \in needs(t) THEN r ELSE dr[s]])

\* The least demanding one is taken.
arbitrateSlowest(enabled, dr) ==
    [s \in Sensors |-> IF enabled = {} THEN 0 ELSE Min({dr[t][s] : t \in enabled})]

\* The rate of a sensor is that of the most demanding of the enabled products.
fusion_arbitrate_dr(enabled, dr) ==
    [s \in Sensors |-> Max({0} \cup {dr[t][s] : t \in enabled})]

\* The period that suits every sensor the algorithm library works on; on are
\* its modules that are switched on.
algo_get_hint_interval(on, rate) ==
    LET a == IF "ACC" \in on THEN get_max_comm_div(1000, intvl[rate["acc"]]) ELSE 1000
    IN  IF "MAG" \in on THEN get_max_comm_div(a, intvl[rate["mag"]]) ELSE a

INTV_PROC_MIN == 5

sp_recalc_interval_re(on, rate) == Max({algo_get_hint_interval(on, rate), INTV_PROC_MIN})
=============================================================================
