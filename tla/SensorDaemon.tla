---------------------------- MODULE SensorDaemon ----------------------------
(***************************************************************************)
(* The sensor daemon: commands from the HAL come in through a FIFO and      *)
(* switch channels on and off or change their intervals; the thread of the  *)
(* one sensor provider (SP_FUSION) samples, runs the algorithms and writes  *)
(* what is due into a second FIFO.  Both work on the provider under         *)
(* lock_ref.  A fault signal ends the process; it is then started again     *)
(* while the sensors' drivers keep what was written to them.                *)
(*                                                                          *)
(* Not in the state: prev_state and lock_state (only the display handling,  *)
(* which is not built, needs them), g_dr_a, g_dr_m (Rate, computed again    *)
(* whenever a product changes), g_active_hws (always curr_hw_dep), op_mode  *)
(* of a module (set when its count leaves or reaches 0).                    *)
(***************************************************************************)
EXTENDS SensorRates, SensorHw, Sequences, SequencesExt

CONSTANTS Delays,       \* the channels and values SET_SENSOR_DELAY comes with
          Faulty,       \* the sensors whose sysfs writes may fail
          MaxCmds,      \* commands waiting in the FIFO
          MaxData,      \* batches of events the data FIFO holds
          MaxAge        \* a channel's time since its last event is capped here

ASSUME DaemonAssumption == /\ Delays \subseteq Types \X Int /\ Faulty \subseteq HW
                           /\ MaxCmds \in Nat \ {0} /\ MaxData \in Nat \ {0}
                           /\ MaxAge \in Nat

VARIABLES
    up,         \* the process is running
    state,      \* channel state, TRUE for NORMAL and FALSE for SLEEP
    given,      \* channel interval
    age,        \* time since ts_last_ev, -1 when the clock was set back behind it
    dr,         \* the rates of each product
    modref,     \* the count of each algorithm module
    hwref,      \* g_ref_hw_a, g_ref_hw_m
    dep,        \* curr_hw_dep, the sensors the provider takes for switched on
    hw, dev,    \* the sensors, see SensorHw
    clients,    \* the provider's list of channels
    ref,        \* the provider's count of channels that need its thread
    interval,   \* the period of the thread
    re,         \* where the thread is
    out,        \* the channels whose events are in buf_out
    cmds,       \* the number of commands in the command FIFO
    data,       \* the batches in the data FIFO
    failed      \* the sensors for which some write failed since they started

rates    == <<given, dr, interval>>
hardware == <<hwref, dep, hw, dev, failed>>
thread   == <<age, re, out, data>>
counts   == <<state, modref, clients, ref>>
vars     == <<up, rates, hardware, thread, counts, cmds>>

Commands == [type : Types, cmd : {"ACTIVE"}, value : {0, 1}]
            \cup {[type |-> d[1], cmd |-> "DELAY", value |-> d[2]] : d \in Delays}

Sensor(id) == IF id = "A" THEN "acc" ELSE "mag"
Active == {t \in Types : state[t]}
Ons(count) == {m \in Modules : count[m] > 0}
Rate(enabled, d) == fusion_arbitrate_dr(enabled, d)

\* One operation on a sensor may fail after each start of the process.
Answers(id) == IF id \in Faulty \ failed THEN BOOLEAN ELSE {TRUE}

NewHw  == [ref |-> 0, enabled |-> FALSE, bw |-> HW_A_BW_INVALID]
BootDev == [mode |-> "SUSPEND", input |-> FALSE, bw |-> HW_A_BW_INVALID, delay |-> 0]

\* What the static tables hold when the process starts.
NoneOn   == [t \in Types |-> FALSE]
Given200 == [t \in Types |-> 200]
NoAge    == [t \in Types |-> 0]
NoRates  == [t \in Types |-> [s \in Sensors |-> 0]]
NoRefs(S) == [x \in S |-> 0]

\* The device has booted and the daemon is not started yet.
Init ==
    /\ up = FALSE /\ cmds = 0 /\ data = 0
    /\ state = NoneOn /\ given = Given200 /\ age = NoAge /\ dr = NoRates
    /\ modref = NoRefs(Modules) /\ hwref = NoRefs(HW)
    /\ dep = {} /\ clients = <<>> /\ ref = 0 /\ interval = 1000
    /\ re = "lock" /\ out = {}
    /\ hw = [h \in HW |-> NewHw] /\ dev = [h \in HW |-> BootDev] /\ failed = {}

-----------------------------------------------------------------------------
\* Switching a channel.

Counted(count, S, on) ==
    [x \in DOMAIN count |-> IF x \notin S THEN count[x]
                            ELSE IF on THEN count[x] + 1
                            ELSE IF count[x] > 0 THEN count[x] - 1 ELSE 0]

\* fusion_on_ch_enabled: a channel that bypasses the algorithms leaves the
\* modules alone.
algo_update_mod_dep(t, on) ==
    Counted(modref, IF bypass_proc(t) THEN {} ELSE ModulesOf(t), on)

algo_update_hw_dep(t, on) == Counted(hwref, {h \in HW : Sensor(h) \in needs(t)}, on)

list_add_or_del(t, on) ==
    LET i == SelectInSeq(clients, LAMBDA c : c = t)
    IN  CASE ~on            -> RemoveFirst(clients, t)
          [] on /\ i = 0    -> <<t>> \o clients
          [] on /\ i # 0    -> SubSeq(clients, i, Len(clients))

\* The outcomes of bringing sensor h from what the provider takes for its
\* state to the one that is needed.
RefOutcomes(h, need) ==
    CASE h \in need /\ h \notin dep -> hw_ref_up(h, hw[h], dev[h], Answers(h))
      [] h \notin need /\ h \in dep -> hw_ref_down(h, hw[h], dev[h], Answers(h))
      [] OTHER                      -> {Outcome(hw[h], dev[h], FALSE)}

\* algo_on_hw_dep_checked, and the end of algo_on_interval_changed: the
\* accelerometer is given the bandwidth and the delay of its rate.
Programmed(o, r) ==
    UNION {set_delay(b.hw, b.dev, intvl[r["acc"]], Answers("A")) :
              b \in set_bw(o.hw, o.dev, ref_bw[r["acc"]], Answers("A"))}

\* sp_re_check_dep_hw, and the notification that follows it.  A sensor whose
\* switching failed is taken to be in its former state.
SwitchHardware(need, r) ==
    \E a \in RefOutcomes("A", need), m \in RefOutcomes("M", need) :
        LET err  == {h \in HW : IF h = "A" THEN a.err ELSE m.err}
            dep1 == (need \ err) \cup (dep \cap err)
        IN  \E p \in IF "A" \in dep1 THEN Programmed(a, r) ELSE {a} :
                /\ dep' = dep1
                /\ hw'  = [h \in HW |-> IF h = "A" THEN p.hw ELSE m.hw]
                /\ dev' = [h \in HW |-> IF h = "A" THEN p.dev ELSE m.dev]
                /\ failed' = failed \cup err
                             \cup (IF "A" \in dep1 /\ (p.hw.bw # ref_bw[r["acc"]]
                                                       \/ p.dev.delay # intvl[r["acc"]])
                                   THEN {"A"} ELSE {})
                             \cup (IF dev'["M"].mode = "SLEEP" THEN {"M"} ELSE {})

\* The signal is sent for every channel but the first.
signalledLate(count) == IF count > 1 /\ re = "wait" THEN "woken" ELSE re

\* The thread is signalled when the first channel that needs it comes.
Signalled(count) == IF count = 1 /\ re = "wait" THEN "woken" ELSE re

\* channel_set_state and sp_enable_ch, under lock_ref.
sp_enable_ch(t, on) ==
    LET enabled == IF on THEN Active \cup {t} ELSE Active \ {t}
        dr1     == [dr EXCEPT ![t] = REGULATE_DR(t, @)]
        r       == Rate(enabled, dr1)
        refs    == algo_update_hw_dep(t, on)
        ref1    == IF bypass_proc(t) THEN ref
                   ELSE IF on THEN ref + 1 ELSE IF ref > 0 THEN ref - 1 ELSE 0
    IN  /\ clients' = list_add_or_del(t, on)
        /\ dr' = dr1
        /\ modref' = algo_update_mod_dep(t, on)
        /\ hwref' = refs
        /\ SwitchHardware({h \in HW : refs[h] > 0}, r)
        /\ interval' = sp_recalc_interval_re(Ons(modref'), r)
        /\ ref' = ref1
        /\ re' = IF on /\ ~bypass_proc(t) THEN Signalled(ref1) ELSE re
        /\ state' = [state EXCEPT ![t] = on]
        /\ age' \in IF on THEN {[age EXCEPT ![t] = a] : a \in {0, MaxAge}} ELSE {[age EXCEPT ![t] = 0]}
        /\ UNCHANGED <<given, out>>

\* The state the channel is in already is not looked at.
setStateAlways(t, on) == sp_enable_ch(t, on)

channel_set_state(t, on) ==
    IF state[t] = on THEN UNCHANGED <<rates, hardware, counts, age, re, out>>
    ELSE sp_enable_ch(t, on)

\* SET_SENSOR_DELAY, under lock_ref: the product's rates, the rates of the
\* sensors, the period of the thread.
algo_on_interval_changed(t, v) ==
    LET dr1 == [dr EXCEPT ![t] = RatesFor(t, @, v)]
        r   == Rate(Active, dr1)
    IN  /\ given' = [given EXCEPT ![t] = GivenInterval(t, v)]
        /\ dr' = dr1
        /\ \E p \in IF "A" \in dep
                    THEN Programmed(Outcome(hw["A"], dev["A"], FALSE), r)
                    ELSE {Outcome(hw["A"], dev["A"], FALSE)} :
              /\ hw' = [hw EXCEPT !["A"] = p.hw] /\ dev' = [dev EXCEPT !["A"] = p.dev]
              /\ failed' = IF "A" \in dep /\ (p.hw.bw # ref_bw[r["acc"]]
                                              \/ p.dev.delay # intvl[r["acc"]])
                           THEN failed \cup {"A"} ELSE failed
        /\ interval' = sp_recalc_interval_re(Ons(modref), r)
        /\ UNCHANGED <<counts, hwref, dep, age, re, out>>

channel_on_cmd_received(c) ==
    CASE c.cmd = "ACTIVE"                -> channel_set_state(c.type, c.value = 1)
      [] c.cmd = "DELAY" /\ c.value >= 0 -> algo_on_interval_changed(c.type, c.value)
      [] OTHER -> UNCHANGED <<rates, hardware, counts, age, re, out>>

\* The main loop takes a command.  Nothing looks at one before: which it is, is
\* chosen here.
\* The thread keeps lock_ref while it writes.
takeWhenNotWriting == up /\ re # "report" /\ cmds > 0 /\ cmds' = cmds - 1

TakeCmd == up /\ cmds > 0 /\ cmds' = cmds - 1

check_cmd_event ==
    /\ TakeCmd
    /\ \E c \in Commands : channel_on_cmd_received(c)
    /\ UNCHANGED <<up, data>>

\* The HAL sends one.
SendCmd ==
    /\ cmds < MaxCmds
    /\ cmds' = cmds + 1
    /\ UNCHANGED <<up, rates, hardware, thread, counts>>

-----------------------------------------------------------------------------
\* The provider's thread.  It holds lock_ref for a whole pass, so that a pass
\* is one step, and sleeps and writes without it.

\* Nobody needs the thread: it waits for the condition, once.
re_wait ==
    /\ up /\ re = "lock" /\ ref = 0
    /\ re' = "wait"
    /\ UNCHANGED <<up, rates, hardware, counts, age, out, cmds, data>>

\* Is the channel due, CFG_TOLERANCE_TIME_PRECISION before its time at the
\* earliest?  A clock that was set back makes it due.
Due(t) == \/ no_delay(t)
          \/ age[t] < 0
          \/ age[t] > 0 /\ age[t] + 2 > given[t]

\* One pass: sample, run the algorithms, collect the events that are due.  The
\* thread comes from its sleep, or from its wait: it was signalled, or
\* pthread_cond_wait returned without a signal.
re_proc ==
    /\ up
    /\ \/ re = "lock" /\ ref # 0
       \/ re \in {"woken", "wait"}
    /\ re' = "report"
    /\ out' = {t \in Range(clients) : state[t] /\ ~bypass_proc(t) /\ Due(t)}
    /\ age' = [t \in Types |-> IF t \in out' THEN 0 ELSE age[t]]
    /\ UNCHANGED <<up, rates, hardware, counts, cmds, data>>

\* Time is kept for the channels whose events the thread collects.
Older(d) == [t \in Types |-> IF ~state[t] \/ bypass_proc(t) THEN 0
                             ELSE IF age[t] < 0 THEN -1 ELSE Min({age[t] + d, MaxAge})]

\* The batch goes into the FIFO; a full FIFO blocks.  Then the thread sleeps for
\* the period that is set now.
sp_report_data ==
    /\ up /\ re = "report"
    /\ out # {} => data < MaxData
    /\ data' = IF out = {} THEN data ELSE data + 1
    /\ out' = {}
    /\ re' = "lock"
    /\ age' = Older(interval)
    /\ UNCHANGED <<up, rates, hardware, counts, cmds>>

\* gettimeofday goes back, or forward by long.
ClockSet ==
    /\ up
    /\ \E a \in {-1, MaxAge} :
          age' = [t \in Types |-> IF state[t] /\ ~bypass_proc(t) THEN a ELSE 0]
    /\ UNCHANGED <<up, rates, hardware, counts, re, out, cmds, data>>

\* The HAL takes a batch.
ReadData ==
    /\ data > 0
    /\ data' = data - 1
    /\ UNCHANGED <<up, rates, hardware, counts, age, re, out, cmds>>

-----------------------------------------------------------------------------
\* A fault signal: the channels are put to sleep and the process ends, with it
\* all it kept; nothing is written to the sensors.
channel_cntl_destroy == state' = NoneOn

sighandler_generic ==
    /\ up /\ up' = FALSE
    /\ channel_cntl_destroy
    /\ given' = Given200 /\ age' = NoAge /\ dr' = NoRates
    /\ modref' = NoRefs(Modules) /\ hwref' = NoRefs(HW)
    /\ dep' = {} /\ clients' = <<>> /\ ref' = 0 /\ interval' = 1000
    /\ re' = "lock" /\ out' = {}
    /\ hw' = [h \in HW |-> NewHw] /\ failed' = {}
    /\ UNCHANGED <<dev, cmds, data>>

\* The process is started: the sensors are set up and switched off, the commands
\* that are in the FIFO already are thrown away (CFG_DISCARD_OLD_CMD).
Start == ~up /\ up' = TRUE

main ==
    /\ Start
    /\ \E a \in hw_init("A", hw["A"], dev["A"], Answers("A")),
          m \in hw_init("M", hw["M"], dev["M"], Answers("M")) :
          LET o(h) == IF h = "A" THEN a ELSE m
          IN  /\ hw' = [h \in HW |-> o(h).hw] /\ dev' = [h \in HW |-> o(h).dev]
              /\ failed' = {h \in HW : o(h).err}
    /\ cmds' = 0
    /\ UNCHANGED <<rates, thread, counts, hwref, dep>>

Next == \/ check_cmd_event \/ SendCmd
        \/ re_wait \/ re_proc \/ sp_report_data
        \/ ClockSet \/ ReadData
        \/ sighandler_generic \/ main

Spec == Init /\ [][Next]_vars

\* Both threads are scheduled and get lock_ref, which neither holds while it
\* sleeps or is blocked; the sleeping thread wakes, a signalled one returns.
Fairness == WF_cmds(TakeCmd) /\ WF_up(Start)
            /\ WF_vars(re_proc /\ re # "wait") /\ WF_vars(sp_report_data)

FairSpec == Spec /\ Fairness

-----------------------------------------------------------------------------
\* Properties.

\* The daemon's variables keep their types.
TypeOK ==
    /\ up \in BOOLEAN /\ state \in [Types -> BOOLEAN]
    /\ given \in [Types -> 1 .. 200] /\ age \in [Types -> -1 .. MaxAge]
    /\ dr \in [Types -> [Sensors -> Rates]]
    /\ modref \in [Modules -> Nat] /\ hwref \in [HW -> Nat]
    /\ dep \subseteq HW /\ hw \in [HW -> Hw] /\ dev \in [HW -> Dev]
    /\ clients \in Seq(Types) /\ ref \in Nat /\ interval \in 5 .. 1000
    /\ re \in {"lock", "wait", "woken", "report"}
    /\ out \subseteq Types /\ cmds \in 0 .. MaxCmds
    /\ data \in 0 .. MaxData /\ failed \subseteq HW

\* The counts kept in four places by sp_enable_ch agree with the channels that
\* are on, whatever the order of commands, repeated ones and failed switches:
\* the provider's list, its thread count, the modules' and the sensors' counts.
\* So the modules an event is made from are running when it is collected.
CountsAgree ==
    /\ Range(clients) = Active /\ Len(clients) = Cardinality(Active)
    /\ ref = Cardinality({t \in Active : ~bypass_proc(t)})
    /\ \A m \in Modules :
           modref[m] = Cardinality({t \in Active : ~bypass_proc(t) /\ m \in ModulesOf(t)})
    /\ \A h \in HW : hwref[h] = Cardinality({t \in Active : Sensor(h) \in needs(t)})

CountsMatch ==
    up => /\ CountsAgree
          /\ \A t \in Range(clients) : bypass_proc(t) \/ OutputsOf(t) \subseteq Ons(modref)

\* A sensor none of whose writes failed is on exactly while a channel needs it,
\* in the daemon's view and in its driver, also after the process died with the
\* sensor on and was started again.
SensorFollows(h, on) ==
    /\ h \in dep <=> on
    /\ hw[h].ref = (IF on THEN 1 ELSE 0) /\ hw[h].enabled = on
    /\ dev[h].mode = (IF ~on THEN "SUSPEND" ELSE IF h = "A" THEN "NORMAL" ELSE "FORCED")
    /\ h = "A" => dev[h].input = on

HwFollows ==
    up => \A h \in HW \ failed : IF hwref[h] > 0 THEN SensorFollows(h, TRUE)
                                                 ELSE SensorFollows(h, FALSE)

\* From the channels that are on down to the registers of the drivers.
HardwareFollows == CountsMatch /\ HwFollows

\* The rates that were worked out channel by channel fit together: the sensor
\* samples at least as often as each channel was promised, and the thread's
\* period divides the period of every sensor it reads and is no longer than a
\* channel's interval, except that the rate of the magnetometer is held at
\* 10 Hz although its channels accept 50 ms.
RatesServed ==
    up => \A t \in Active :
        /\ "acc" \in needs(t) /\ "A" \in dep \ failed => dev["A"].delay <= given[t]
        /\ ~bypass_proc(t) =>
              /\ interval <= Max({given[t], IF "mag" \in needs(t) THEN 100 ELSE 0})
              /\ \A s \in needs(t) : intvl[Rate(Active, dr)[s]] % interval = 0

\* The thread waits only while nobody needs it: the signal sp_enable_ch sends
\* for the first channel is never lost.
WokenWhenNeeded == up /\ re = "wait" => ref = 0

\* The inductive invariant of the counts and the sensors: they agree in a process
\* that has ended as well, and no channel is listed twice.
DaemonTypes ==
    /\ state \in [Types -> BOOLEAN] /\ dr \in [Types -> [Sensors -> Rates]]
    /\ modref \in [Modules -> Nat] /\ hwref \in [HW -> Nat] /\ ref \in Nat
    /\ dep \subseteq HW /\ hw \in [HW -> Hw] /\ dev \in [HW -> Dev]
    /\ clients \in Seq(Types) /\ failed \subseteq HW

DaemonInv ==
    /\ DaemonTypes /\ CountsAgree /\ IsInjective(clients)
    /\ HwFollows /\ (~up => Active = {} /\ dep = {} /\ hw = [h \in HW |-> NewHw])
    /\ re = "wait" => ref = 0

\* That of the rates: a channel that is on has the rates of its product, every
\* channel would get rates that fit its interval if it were switched on, and what
\* was given to the accelerometer and the thread is what these rates come to.
RatesFit(t) ==
    \A s \in needs(t) : intvl[REGULATE_DR(t, dr[t])[s]]
                          <= Max({given[t], IF s = "mag" THEN 100 ELSE 0})

RatesInv ==
    /\ given \in [Types -> Nat]
    /\ \A t \in Types : RatesFit(t) /\ (state[t] => REGULATE_DR(t, dr[t]) = dr[t])
    /\ interval = sp_recalc_interval_re(Ons(modref), Rate(Active, dr))
    /\ "A" \in dep \ failed => dev["A"].delay = intvl[Rate(Active, dr)["acc"]]

\* A command in the FIFO is taken out of it, even if the HAL never reads an
\* event and the thread is blocked in its write.
CommandsTaken == cmds = MaxCmds ~> cmds < MaxCmds

\* If the HAL goes on reading, a channel that needs the thread and stays on gets
\* its events, whatever the clock and the other channels do.
ChannelsReported ==
    []<>(data = 0) => \A t \in Types : (up /\ state[t] /\ ~bypass_proc(t))
                                         ~> (t \in out \/ ~state[t] \/ ~up)

\* What both sides of the FIFOs rely on.
DaemonAnswers == CommandsTaken /\ ChannelsReported
=============================================================================
