# Verification of the Xperia M device tree (device/sony/nicki)

The repository is the LineageOS 15.1 device tree of the Sony Xperia M. Most of
it is configuration; the programs in it are hardware abstraction code in C and
C++. This project models that code where its correctness depends on the order in
which threads, messages and failures meet: TLA+ modules, TLC runs on small
instances, and TLAPS proofs for all instances.

Paths below are relative to `src/device/sony/nicki/`. `PROJECT.json` gives the
source lines of every definition, the hazards at their lines, and the theorems.

## Inventory

| Component | State | Operations | Hard part |
|---|---|---|---|
| AGPS arbiters (`loc_eng_agps.*`) | one of four states, a list of active and inactive subscribers | subscribe, unsubscribe, GRANTED, RELEASED, DENIED, restart | answers that cross new requests, clients that leave, loss of the interface |
| Emergency data call (`DSStateMachine`) | the same, a retry count, timers | the same, retry, hand-over to ordinary SUPL | failing starts, overlapping retries, a client that stays listed when it is handed over |
| AGPS glue (`loc_eng.cpp`, `loc.cpp`) | three interfaces, their clients | route a request by type, offer a release to one after the other, pass the framework's answers | releases and answers that do not say which interface they mean; emergency connections that become ordinary ones |
| Session engine (`loc_eng.cpp`, `LocEngAdapter.*`) | `mNavigating`, position mode, mute state, engine status, aiding data to delete | start, stop, set mode, reports, restart | modem crashes, late reports |
| HAL entry points (`loc.cpp`), XTRA | callbacks, servers, availability of data, ULP capabilities | init, cleanup, set server, update network, inject | what a modem that restarts has forgotten |
| Network initiated requests (`loc_eng_ni.*`) | `rawRequest`, `reqID`, `respRecvd`, `resp`, a thread per request | request, respond, time out, reset | accesses outside `tLock` |
| Message task (`MsgTask.cpp`, `msg_q.c`, `linked_list.c`) | list, `unblocked`, the thread | send, receive, unblock, destroy | lost wakeups, ending |
| API base and contexts (`gps/core`) | array of adapters, event mask, modem handle | add and remove adapters, open, restart events, reports to adapters | an array that nothing locks |
| Daemon connection (`loc_eng_dmn_conn*`) | pipes, server thread | launch, read, answer, unblock, join | start and end of the thread, full pipes, messages nobody knows, notices nobody asked for |
| Timers (`loc_timer.c`) | timer state, its memory | start, stop, fire | stop against fire and free |
| Configuration and target (`loc_cfg.cpp`, `loc_target.cpp`) | parameter table, cached target | read two files, detect a chip | repeated and contradictory lines, an int stored over a byte, a slow detection |
| NMEA (`loc_eng_nmea.cpp`) | satellites and DOP of the last report | generate from a fix, from a satellite report | data cached between two reports |
| Sensor event queue (`SensorEventQueue.*`) | ring buffer | region, mark, peek, dequeue, wait | writes without the lock |
| Multi-HAL (`multihal.cpp`) | devices, queues, handle maps, writer tasks | open, poll, activate, delay, batch, flush, inject, close | writers against poll(), wakeups, fairness |
| Sensor daemon (`sensors/daemon`) | channels, products, reference counts, rates, FIFOs, landmark, profile | enable, disable, set delay, sample, report, save, start | enabling against running, failing drivers, restarts |
| Library shims (`libshims/utils`, `ui`, `gui`) | shared vectors, a poll loop, buffers, a service client | each library's calls | shared storage, wakeups, handles given out again, deaths |
| Camera wrapper, lights | open devices, parameters; LED and backlight | open, close, set and get parameters; set a light | failing vendor calls and missing modes; callers that interleave, failing writes |
| NFC firmware, power, init, closed algorithms | data, property writes, libraries | none | not modelled |

How they interact: the framework's GPS calls, the modem's reports and the
connectivity service's answers all become messages (`LocMsg`) on one `MsgTask`
queue; every handler (`proc`) runs on its thread. So within the GPS engine a
handler is one atomic action, and what is concurrent is the order of messages,
the modem, the service and the few other threads: request threads, retry timers,
the daemon connection's server, and the modem's callback thread, which walks the
array of adapters. In the multi-HAL there is no such queue: one writer task per
sub-HAL and the framework's thread share `queue_mutex`, and the events
themselves are written without it. The sensor daemon is a process of its own
that talks to the HAL through two FIFOs; its command thread and its provider's
thread share `lock_ref`.

What makes the components correct:

- arbiter: what clients believe, what the machine believes and what the service
  does agree; everybody who waits is answered; an interface is not leaked;
- data call: at most one, never without an owner, never granted without a call;
- routing: a connection that was never an emergency one is in one interface's
  list, exactly while the modem waits for it or has it; every release is answered
  and nothing the modem waits for is forgotten;
- session: the modem fixes exactly while the framework navigates, in its mode;
- HAL: a modem that is up has the configuration and the last network status;
- requests: each is answered once, with its own response, and ends;
- message task, daemon connection, timer: order, no loss, no lost wakeup, no
  use of freed memory, an orderly end;
- API base: every adapter's events are registered and delivered to it;
- configuration: the last line wins, and what its store overwrites is known;
- NMEA: what is cached is used once, with the fix it belongs to;
- queue and multi-HAL: no torn or uninitialised read, per-device order, no
  lost wakeup, no starvation;
- sensor daemon: counts and drivers follow the open channels, every client gets
  its rate, the thread sleeps only when nobody needs it, samples are readings,
  a start finds one daemon and a whole profile;
- shims: vectors that share storage stay apart; no message or event is slept
  over; a handle has one owner; the notice of a service's death is on its way;
- camera and lights: parameters that the vendor accepts and can express are read
  back, vendor devices are closed, the LED shows the last request as far as its
  writes succeeded.

## Modules

    AgpsStates ─┬─ AgpsStateMachine ──────────────────── AgpsStateMachineProofs
                ├─ DSStateMachine
                └─ AgpsRouting
    SensorHandles, SensorEventQueue ── MultiHal ─┬─ MCMultiHal
                                          │      └───── MultiHalProofs
                                          └ (refines) SensorStreams
    LocEngSession ────────────────────────────────────── LocEngSessionProofs
    LocEngNi (extended), MsgTask, DmnConn, LocTimer ──
      MCGpsThreads ───────────────────────────────────── GpsThreadsProofs
    DSStateMachine (extended), LocHal, LocApiBase,
      AgpsRouting, LocCfg, Nmea ── MCGpsEngine ───────┬─ GpsEngineProofs
                                                      └─ GpsHalProofs
    SensorRates, SensorHw ── SensorDaemon (extended),
      SensorSample, SensordStart ── MCSensorDaemon ───── SensorDaemonProofs
    VectorImpl, Looper, GraphicBuffer, SensorManager,
      CameraWrapper, Lights ── MCPlatform ────────────── PlatformProofs

Each module keeps the names of the code. Definitions called "Variant" are
plausible mistakes in the definition that follows them; replacing the one by the
other must break a property (the mutants of `PROJECT.json`). Nothing else uses
them.

Four MC modules (MCGpsThreads, MCGpsEngine, MCSensorDaemon, MCPlatform) put parts
that share no state side by side: the variable `part` picks one of them in the
initial state, and every step is one of that part while the others keep their
initial values. So one run explores the sum of their state spaces, not the
product. The parts of MCGpsEngine stop at their bounds and may stutter there. A
property of an MC module names the properties of a part, each of which is stated
and explained in its own module.

### GPS

**AgpsStates** is the set of `onRsrcEvent` methods of the Released, Pending,
Acquired and Releasing states as pure operators: from a machine, an event and a
subscriber to the outcomes (the new machine, who is told what, what is asked of
the service). `Kind` is the class of the subscribers (ATL, BIT, DS); it decides
`waitForCloseComplete`.

**AgpsStateMachine** is one machine with its clients and the service.
`subscribeRsrc`, `unsubscribeRsrc`, `onAnswer` and `handleEngineUp` are the
handlers; `ServiceRequest`, `ServiceRelease` and `ServiceLoss` are the
connectivity service, an external part known from how the code uses it: it
answers requests in order, may deny, and may lose the interface at any time.
`requests` and `responses` are the messages in flight, `view` what each client
was told last. A client asks when idle and gives up while waiting or served. It
is `agnss_nif`, whose answers `loc_agps_open`, `loc_agps_closed` and
`loc_agps_open_failed` give. There is no such model of `wifi_nif`: these three
entry points always name `AGPS_TYPE_SUPL` (`loc.cpp:657`, `685`, `712`), so
nothing ever answers it.

**DSStateMachine** replaces `sendRsrcRequest`: starting a call is synchronous
and may succeed, be busy, unsupported, fail or return something else; a busy
modem is retried by a timer up to `MAX_START_DATA_CALL_RETRIES` times, otherwise
the client is handed to the ordinary SUPL interface (`fallback`) and stays in the
list here. `order` is the
linked list, newest first, because the code picks its first active entry.

**AgpsRouting** composes the machines of AgpsStates: `agnss_nif`, `internet_nif`
and `ds_nif` with its data call and retry timers, the messages of the MsgTask, the
framework and the modem's connections. A request is routed by its type; an
emergency request goes to `ds_nif`, which, when its call cannot be started, sends
`requestATL` for AGPS_TYPE_SUPL for each client that it denies and keeps it listed.
A release carries a handle only and is offered to the machines in the code's
order; the framework's answers carry no type at all. How often a start is retried
is DSStateMachine's business; here it may be retried or not. `es` is the
connections that have been emergency ones, and `late` those that were asked for
anew while `ds_nif` still had an inactive entry for them, which it neither adds
nor makes active again.

**LocEngSession** is the session with its queue, the modem behind the loc api,
and the framework. **LocEngNi** splits every access to `rawRequest` and `reqID`
that happens outside `tLock` into an action of its own.

**LocHal** is the HAL as the framework calls it: which extensions
`loc_get_extension` gives on which target, `loc_init` with the order in which
its messages are queued, cleanup, `loc_eng_reinit` in steps (the network status
is read, then sent), servers, data availability, injections. The modem forgets
everything when it crashes, and what is sent to a closed handle is lost.

**LocApiBase** has one action per read or write of `mLocAdapters`: adding and
removing by clients, the callback thread's walks, and opening and closing the
modem's handle on the MsgTask thread.

**LocCfg** parses lines (a name, a text form, a number) into the parameters with
their validity bits, for the two files in turn, and finds the target with the
chip detection running meanwhile. `DEBUG_LEVEL` and `TIMESTAMP` are one byte each
and are stored through a pointer to int: `apart` says where the linker put one
relative to the other, and `loc_set_config_entry` writes each of the four bytes
that reach a parameter. **Nmea** is which sentences come of which
report, and which report each field was taken from.

**MsgTask** is the queue and its thread, with senders that count their messages
and a destruction at any moment. **DmnConn** is the launcher, the server thread,
the MsgTask thread with its arbiters, and daemons that share one pipe and have one
each; a full pipe blocks its writer. The handlers drop what they do not know
(`dropped`); the arbiters take the rest (`taken`), answer at once, list the
subscriber or say nothing, and may later tell any of those they list, unasked and
any number of times (`told`). **LocTimer** is one timer: the thread's wait
(with spurious wakeups), the callback, the attempts to destroy the mutex and the
release of the memory, and `loc_timer_stop` at each point of them.

### Sensors

**SensorEventQueue** is the ring buffer, **SensorHandles** the maps between
global handles and (module, local handle). **MultiHal** composes them with the
writer tasks (`writerReserve`, `deviceStores`, `deviceReturns`, `writerCommit`)
and `poll()` (`pollCalled`, `pollScans`, `pollReturns`, `pollWaits`,
`pollResumes`). A critical section of a writer is one action; `poll()` holds the
lock over a scan but each queue it looks at is a step, so that the unlocked
stores of devices fall between them; a device stores one event per step. Condition
variables may wake spuriously. **SensorStreams** is the abstract specification:
per device a bounded FIFO that nothing but `Arrive` and `Take` changes.

**SensorRates** is the tables and the arithmetic of intervals and data rates,
**SensorHw** the operations on a sensor as sets of outcomes (each sysfs write may
fail). **SensorDaemon** composes them: commands from the FIFO, channels, the
counts of products, modules and sensors, the provider's thread with its wait and
its reports, the clock, and the end of the process and its restart while the
drivers keep their settings. **SensorSample** is how a reading becomes a sample
and a gesture an event, and **SensordStart** what the daemon leaves on disk.

### Platform

**VectorImpl** is vectors on reference-counted buffers, with allocations that
fail, and `SortedVectorImpl` on top. **Looper** is the polling thread, with the
lock released exactly where the code releases it, against senders and
registrations. **GraphicBuffer** is objects with a thread each, the allocator's
two steps (device, then list), and a device that gives freed handles out again.
**SensorManager** is the constructor's steps without `mLock` and a call's steps
under it, against a service that dies at any of them and whose notice needs
`mLock` too; `missed` says that it died before `linkToDeath`. `createEventQueue`
waits for a living service with `mLock` held, as the code does. **CameraWrapper**
is open and close with their failures and the translation of parameters both
ways, for vendors with and without the modes it translates to; the vendor may
refuse what is set. **Lights** is callers that compute before they take `g_lock`
and write command by command under it, and each write may fail: `led_ctl` only
logs that and its caller goes on.

## Runs

| Run | Instance | What it shows |
|---|---|---|
| AgpsATL | 3 clients, shared interface, 4 messages in flight, 1 restart | `ReleasedListEmpty`, `ViewsAgree`, `OpenMeansHeld`, `PendingAnswerComing`; `EveryoneAnswered` under fairness |
| MultiHal | 2 devices, capacity 2, buffer of 2, serials modulo 3 | `RegionSafe`, `ReadableInitialised`, `NoMissedData`, `NoMissedSpace`, refinement `StreamsImplemented` |
| MultiHalFair | 2 devices, capacity 1, buffer of 1, good and bad handles | `EveryEventTaken` |
| GpsThreads | LocEngNi: 2 requests, 1 restart. MsgTask: 2 senders, 3 messages each. DmnConn: 3 daemons, 2 messages, 2 notices, pipes of 1, 1 failed read. LocTimer: the mutex held up to 6 s | `RequestsOwned`, `MessagesHandled`, `RequestsAccounted`, `TimerSound`; `EveryRequestEnds` and `ThreadsEnd` under fairness |
| LocEng | LocEngSession: 3 queued messages, 2 crashes | `SessionAnnounced`, `SessionSettles` |
| GpsEngine | DS: 2 clients, 2 retry chains, 3 give-ups. LocHal: 3 platforms, queue of 2, 1 crash. LocApiBase: 3 adapters, array of 2, 1 crash. Routing: 2 connections, queue of 2, 1 restart. LocCfg: 1 line per file out of 8, the two bytes at 7 distances. Nmea: 2 satellite reports, 2 fixes | `DataCallSound`, `ModemInformed`, `AdaptersServed`, `ConnInOneMachine`, `ConfigAsWritten`, `SentencesCoherent` |
| SensorDaemon | accelerometer, magnetometer and orientation channels, a magnetometer whose writes fail, 1 command and 1 batch in the FIFOs; 2 processes | `HardwareFollows`, `RatesServed`, `WokenWhenNeeded`, `SamplesFaithful`, `StartsClean`; `DaemonAnswers` under fairness |
| Platform | 2 vectors of 4 items; 2 descriptors, 2 messages; 2 buffer objects, 2 handles; 3 lives of the service; 1 camera of 8 kinds of vendor; 2 callers of the lights, 1 failing write | `VectorsSound`, `NothingSleptOver`, `DeliversEarliest`, `BuffersAccounted`, `DeathIsNoticed`, `CameraFaithful`, `ShowsLastRequest` |
| OpensUnanswered | as GpsEngine | finding: a connection the framework has answered is still waiting |
| MultiHalOpenFails | 2 modules, one may fail to open | finding: events under another module's handle |
| LocEngRestart | 2 crashes | finding: a restart with an invalid mode |
| LocEngNiLate | 2 requests | finding: a request answered with an earlier response |

What the combined properties consist of: `DataCallSound` is `OneDataCall`,
`AcquiredHasCall`, `CallIsOwned`; `AdaptersServed` is `EventsRegistered`,
`CallsDelivered`, `UpFindsHandle`; `ModemInformed` is `ConfigRestored`,
`DataStatusKnown`; `SentencesCoherent` is `PositionCoherent`,
`SatellitesListed`; `ConnInOneMachine` of MCGpsEngine is `ConnInOneMachine` and
`RequestsServed` of AgpsRouting;
`SessionSettles` is `FixMatchesSession`, `MuteEndsWithEngine`; `RequestsOwned` is
`AnsweredOnce`, `PayloadOwnedOnce`, `ThreadOwnsRequest`; `MessagesHandled` is
`InOrder`, `Accounted`, `NoLostWakeup`, `EndsOnlyUnblocked`; `ThreadsEnd` is
`EveryMessageEnds` and `UnblockEnds` of MsgTask, `LaunchEnds` and `UnblockEnds`
of DmnConn, `TimerEnds`; `HardwareFollows` is `CountsMatch`, `HwFollows`;
`DaemonAnswers` is `CommandsTaken`, `ChannelsReported`; `SamplesFaithful` is
`SampleFaithful`, `GestureTold`; `StartsClean` is `OneDaemon`, `ProfileWhole`;
`VectorsSound` is `Isolated`, `StorageAccounted`, `SortedFound`;
`NothingSleptOver` is `NoMessageSleptOver`, `NoEventDropped`; `BuffersAccounted`
is `OwnedOnce`, `RecordsFollowDevice`; `CameraFaithful` is `ParametersReadBack`,
`VendorBalanced`.

Why the bounds are enough. Three clients are one that is served, one that waits
and one that comes or leaves. Four messages in flight allow a request, its
answer, a loss and a crossing release. A queue of two records already wraps, is
full, and is partly read while its region is written; serial numbers modulo
more than the capacity make every queued event of a device distinct. Two crashes
are needed for the second restart of one session. Two requests are one that timed
out or is in progress and one that follows it or is ignored. Two connections and
two messages in flight are one connection that is asked for, given back or handed
over while the other is, and a release that overtakes its request's answer. A pipe
of one message lets every writer find it full; two notices reach one daemon
twice, or two daemons in either order. Six seconds in the mutex outlast the timer thread's
attempts to destroy it, five of which end in a sleep of a second. Three adapters in
an array of two are one that shifts and one that does not fit. One line in each of two files is enough for a
value given twice, in two forms, or in a form that leaves it out, and for a store
over the byte next to it. One failing write is enough for a request shown in part,
and for the next one to repair it. Two reports of
each kind let a fix come before, between and after the satellites it might be
confused with. Two sensors, one with failing writes, and a channel that needs
both let an enabling fail half way; the accelerometer's failures instead of the
magnetometer's give the same result. Two processes are one that dies in a save and
one that starts on what it left. A vector of four items fills the least capacity
and one more copy of it has to grow; two messages and two registrations allow one
to overtake, replace or remove the other. Three lives of the service are two
deaths, the second while the first is still to be told.

Deadlock checking is off where the system really stops: when messages, requests,
daemons and timer are through (GpsThreads, LocEngNiLate), and when the bounds on
messages, registrations and lives are used up (Platform).

### Fairness

- AgpsStateMachine: the MsgTask thread takes the next answer, and the service
  answers requests. Clients, losses and restarts owe nothing.
- MultiHal: the framework calls `poll()` in a loop, and a thread that can have
  the lock gets it. Devices owe nothing.
- MsgTask: only the thread's own loop.
- LocEngNi: MsgTask handles its messages, a request thread runs when it can and
  its timed wait ends. The user need not respond.
- DmnConn: a launch or an unblock that has begun goes on, the server and MsgTask
  threads run, and daemons read their pipes. Daemons need not ask.
- LocTimer: the thread runs, its timed wait ends, a stop that has begun ends.
  Nobody need stop it.
- SensorDaemon: the command thread takes the next command, init starts the
  process again, the provider's thread runs when it is not waiting, and the HAL
  reads the data FIFO.

In GpsThreads the fairness of an action of one part and of an action of another
may share a condition, since a behaviour is about one part only.

### Assumptions about the environment

- LocEngSession: the framework sets a position mode before a start; `stopFix`
  fails only while the modem is down; a running fix can be started again; no ULP
  proxy is loaded (the code's default is a proxy that declines everything); the
  modem ends a single shot with its final report.
- LocEngNi: the request thread can be created; the framework responds at most
  once to a notification.
- AGPS: `agnss_nif` and `internet_nif` admit several subscribers, as
  `loc_eng_agps_init` sets them up.
- AgpsRouting: the modem uses a handle again only when the messages about its last
  use are handled. `RequestsServed` leaves out connections in `late`, and
  `ConnInOneMachine` those in `es`, which `ds_nif` may keep listed.
- LocHal: when a restart has read the network status and the framework changes it
  before it is sent, the modem may be left with the old one until the next
  change; `unsure` marks these behaviours and `DataStatusKnown` leaves them out.
- DmnConn: every message fits its buffer, and writes are atomic (PIPE_BUF).
  `early` marks a launch that a spurious wakeup has let return before the pipes
  are open; `UnblockEnds` leaves the unblocking of such a launch out.
- SensorDaemon: at most one operation of a sensor fails per start of the daemon,
  and only those of a sensor in `Faulty`.
- SensordStart: `overlap` marks two daemons started before either has written its
  landmark, `cut` a save cut short while it replaces a file of another version;
  `OneDaemon` and `ProfileWhole` leave these out.
- GraphicBuffer: `reissued` marks handles that the device gives out again while
  the record of their first use is being removed.
- SensorManager: a death before `linkToDeath` is never noticed (`missed`), and a
  manager that uses what a notice has just cleared beside its constructor has
  crashed; `DeathIsNoticed` leaves out the one, and the model ends at the other.

The constants have assumptions with names, which TLC evaluates in every run and
the proofs cite. Most say that a bound is a natural number or that a name is not
that of a special value. Those that limit what the theorems say:
`SubscriberAssumption` (the machine of AgpsStateMachine serves ATL or BIT
clients), `SampleAssumption` (readings are within what the drivers give, and the
axis files name places 0 to 7: the code indexes with any integer it reads),
`CameraAssumption` (a vendor's exposure modes are any of the four that exist, or
none), `LightsAssumption` (a colour is three bytes, and the kernel's range has
room for the least backlight), `LooperAssumption` (finitely many descriptors).

## Proofs

TLAPS proves the theorems below for every value of the constants that the
assumptions admit: any number of clients, devices, messages, failures and
restarts. Where a module puts parts side by side, the theorem about a part is one
of the whole specification (`MCSpec`, or `Spec` of MCPlatform): a step of another
part leaves the part's variables alone. Every proof has the same shape: an
inductive invariant, defined in the component's module beside the property and
checked by TLC before it was proved; a lemma per handler; the induction step; and
that the invariant implies the property.

**AgpsStateMachineProofs** (`InductiveInvariant`, `TypeCorrect`,
`ReleasedIsEmpty`, `ClientsAgree`, `GrantedIsHeld`, `PendingIsAnswered`).
`IndInv` has three parts, each proved with one lemma per action. *List*: types,
`ReleasedListEmpty`, and that subscribers who do not wait for a close never leave
an inactive entry or a Releasing machine behind (`LeaveAtOnce`). *Channel*:
`OpenMeansHeld`, `PendingAnswerComing` and `GrantIsTrue`, an undelivered GRANTED
is still true or followed by an undelivered RELEASED. That last part is what
makes `OpenMeansHeld` inductive: without it a machine could become Acquired on a
stale answer. *Views*: `ViewsAgree`. What each event does to a machine is stated
first in outcome lemmas (`SubscribeOutcome`, `UnsubscribeOutcome`,
`GrantedOutcome`, `ClosedOutcome`), so that the transition tables are expanded
only there.

**MultiHalProofs** (`RegionLength`, `RegionDisjoint`, `DataPathInvariant`,
`TypeCorrect`, `RegionsAreSafe`, `ReadsAreInitialised`, `NoLostDataWakeup`,
`NoLostSpaceWakeup`, `StreamInvariant`, `StreamsAreImplemented`). The region of
`getWritableRegion` stays in the array and off the readable records; the
wrap-around is handled once, in `WrapsOnce`. `IndInv` says of each device that
its queue and its writer fit (`DeviceOK`: the region, the events stored so far,
and that a sleeping writer has a full queue) and of `poll()` that the queues it
has counted as empty in this scan are still empty (`ScanOK`). `ScanOK` is the
strengthening that `NoMissedData` needs: the decision to sleep rests on several
looks at different times, which only the lock keeps together. `StreamInv` adds
that what a device has stored without the lock is in its place in the region
and numbered without a gap; from it every step of the data path is a step of
SensorStreams or a stutter, if no sub-HAL fails to open (otherwise finding 2
applies).

**GpsThreadsProofs** (`RequestsAreOwned`, `MessagesAreHandled`,
`RequestsAreAccounted`, `TimerIsSound`). `NiInv` adds to `RequestsOwned` what
holds through a restart too: one owner or an answer, and no trace of a request
yet to come. `TaskInv` needs only that `msg` is empty between two messages and that
numbers are given in turn; the rest is counting (`CountIn`). `DcInv` says which
messages can be where, that nothing exists before the pipes are open, and that
who is subscribed has asked. `TimerInv` ties the seconds a stop has held the mutex
to the failed attempts to destroy it: only after five does the thread free what
the stop still uses.

**LocEngSessionProofs** (`SessionsAreAnnounced`, `SessionsSettle`). The first
is inductive as it stands. The second rests on `SessionInv`: after a crash an
`LocSsr` and an `EngineUp` are queued in this order or the modem has not come back
(`HandleComesBack`), a session without a fix has an `EngineUp` to come that starts
it (`FixFollows`), and the engine is on by the time a queued begin of a session is
handled (`EngineOnFirst`).

**GpsEngineProofs** (`DataCallIsSound`, `OneMachinePerConn`,
`AdaptersAreServed`). `CallInv` ties the messages in flight to the call and the
machine's state to both. `RouteInv` says of a connection that was never an
emergency one what the modem's view of it is, by the messages about it
(`ViewSound`), and of any connection that the modem waits for what this rests on:
a queued request, a list, or a call to be retried (`Provided`). It is stated about
each connection alone, so that a step about one need only show that the others'
messages and lists stay. `BaseInv` says what the array is between the three writes
of a removal (`ArraySound`), that the events of every adapter are registered or a
message that registers them is queued (`HandleSound`), and what an undisturbed
walk has passed (`WalkSound`).

**GpsHalProofs** (`ModemIsInformed`). `HalInv`: whenever the modem is up,
each piece of its configuration and the availability of data is there or on its
way past the next opening of the handle (`InformationComing`); what is sent to a
handle that closes is lost, so the order of messages matters.

**PlatformProofs** (`DeathsAreNoticed`, `CamerasAreFaithful`,
`LightsShowLastRequest`, `BuffersAreAccounted`, `NothingIsSleptOver`,
`EarliestIsDelivered`). `SmInv`: no notice comes before the link, a dead
incarnation does not come back, and what was read is what is stored. `CamInv`: a
device that was lost stays closed. `LtInv`: every command of the last request is
done, to come, or one for a channel that a write failed for. `GbInv`: an owner
finds its handle alive, device and native handles never share one, and a handle
allocated under an old record was given out again. `LpInv`: the envelopes are in
order of time and then of sending, a message due before the next wakeup has its
own (`WakeupScheduled`), and what is owed to the caller is among the responses it
has not had.

**SensorDaemonProofs** (`StartsAreClean`, `SamplesAreFaithful`,
`HardwareIsFollowed`, `WokenIsNeeded`, `RatesAreServed`). `StartInv`: while
a daemon runs the landmark is its own and whoever starts has read it there
(`LandmarkShows`); a profile under a right header is whole, but for the process
that is writing it (`ProfilesKept`). `SampleInv`: a sample is made of one reading,
and no turn or cast leaves the range. `DaemonInv`: the counts of products,
modules and sensors are those of the channels that are on, also of a process that
has ended. `RatesInv`: every channel *would* get rates that fit its interval if
it were switched on. That is what makes the arbitration inductive, for a channel
that goes on brings rates that were worked out when it was off.

What the words of a theorem leave out is what its property excludes: sensors whose
write failed (`HardwareIsFollowed`, `RatesAreServed`), starts that overlap and
saves that were cut (`StartsAreClean`), emergency connections (`ConnInOneMachine`),
walks that a removal disturbs (`AdaptersAreServed`), handles given out again
(`BuffersAreAccounted`), channels and files a write failed for
(`LightsShowLastRequest`), vendors without the modes auto and iso-prio
(`CamerasAreFaithful`, iso and shutter only).

Only model-checked: liveness (`EveryoneAnswered`, `EveryEventTaken`,
`EveryRequestEnds`, `ThreadsEnd`, `DaemonAnswers`), which under fairness is outside
the prover's reach; and `VectorsSound`, `ConfigAsWritten` and `SentencesCoherent`,
which compute over sequences and tables that TLC covers for all inputs of the
instance.

## Findings

Four places where the code does not do what a comment of it says; each has a run
that shows the shortest way there.

1. The framework's answer to a data connection that is not SUPL goes to the wrong
   interface, and the modem is never told (`loc.cpp:657`).
2. A sub-HAL that fails to open shifts the handles of those after it
   (`multihal.cpp:791`).
3. A modem restart loses the session's position mode (`loc_eng.cpp:2466`).
4. A response that has passed its test can answer the next request
   (`loc_eng_ni.cpp:339`).

## Observations

Behaviour met while modelling that a reader of the code should know of. No
comment or test says otherwise, or the trigger is outside the models.

AGPS
- A data call start that fails in the Releasing state leaves the machine Pending
  without a call and without a retry (`loc_eng_agps.cpp:563`).
- On a target where `agnss_nif` is not made, a release still uses it.
- `ds_nif` keeps a client that it hands over, and its list is not dropped at a modem
  restart. A client that is asked for anew while its old entry is still inactive is
  neither added nor made active: the request is forgotten (`late`).
- `wifi_nif` is asked for by daemons, but no answer of the framework reaches it.

GPS engine
- A second `loc_init` keeps the first callbacks; cleanup clears a callback that
  other threads may be about to call; injecting XTRA data before init uses a
  null pointer. A server set before init is cleared by init's `memset`, though
  the proxy says that it buffers settings (`loc.cpp:723`).
- `LocApiBase::addAdapter` opens with the new adapter's mask only, and an
  adapter that does not fit is dropped without a word. `removeAdapter` (not called
  in this tree) moves the last adapter down, which a walk in progress can miss.
- `LocCfg`: reading the second file clears the validity bits of the first; a
  hexadecimal number leaves a floating point parameter 0; lines of more than 80
  characters are split; the two parameters of one byte are cut to eight bits, and
  each store may overwrite the other (modelled); a detection that times out is
  remembered as "no chip".
- `Nmea`: a single-shot standalone fix is marked differential; the magnetic
  track is shadowed; a latitude of zero is southern; a report with no satellite
  used keeps the older ones cached; the count in `$GPGSV` is of all systems.

Threads
- `DmnConn`: a spurious wakeup lets the launch return before the pipes are open
  (`early`); a daemon that does not read its pipe blocks the MsgTask thread; an
  oversize message puts the reader out of step. Unblock and join are compiled
  out in this tree.
- `LocTimer`: a spurious wakeup ends the timer without a callback; a stop during
  the wait does not keep a callback already decided from being made; `stop` looks
  at the timer before it has the lock; a failed start returns a freed pointer.
  `stop` is not called in this tree.

Sensor daemon
- A failed enable leaves the sensor's count incremented; the magnetometer is held
  at 10 Hz although a channel may ask for 50 ms or less; a value node that cannot
  be opened gives zeros as data; the clock is wall time; the index of the axis
  map is not checked; `readn` spins at the end of a file.
- Two daemons started together can both find no landmark. A save cut short over
  a file of another version leaves a header that no longer says what follows.

Platform
- `VectorImpl`: when shrinking cannot allocate, nothing is removed and nobody
  told; inserting a vector's own items reads storage that may be released.
- `Looper`: when a callback returns 0 its descriptor number is removed even if it
  was registered anew meanwhile.
- `GraphicBuffer`: a failed `unflatten` or `registerBuffer` loses a handle; a
  failed reallocation keeps width and height without a buffer.
- `SensorManager`: the result of `linkToDeath` is ignored. Creating an event queue
  spins with `mLock` held after the service died, so that `sensorManagerDied`, which
  would clear the connection, never runs (`SensorManager.cpp:157`). The constructor
  connects without `mLock`, and a notice beside it may clear what it is about to use.
- `CameraWrapper`: the id after the last camera passes the check; a failed
  allocation leaves the vendor device open (`leaked`); the HDR scene is lost with
  the recording hint; without the modes auto and iso-prio an iso value is not kept.
- `Lights`: a failing write of an LED command is logged and the caller told nothing;
  the next request repairs it. `sony_lights.h`, which is included, is not in the
  repository.

## Not modelled

NFC firmware and configuration data; the closed BSC library and the conversion
of its results; the text of NMEA sentences, number formats and checksums; logging
and tracing; `wifi_nif` beyond the daemons' side of it; the ULP proxy and the
geofence library; the multi-HAL's control path (each call is forwarded to one
sub-HAL and nothing is kept); calls that the camera wrapper and the buffer mapper only forward; power, init and vendor shims
(property writes, renamed symbols); memory lifetime of single objects (a freed
subscriber that a notification still points to), and torn reads of the unlocked
list search in `retryCallback`.

## Plan

Done: all components above with a module, with proofs of the safety of all of them
but the vectors, the configuration files and the NMEA sentences. Left:

1. the multi-HAL's control path, with `close()` against running writers;
2. `VectorImpl` as a refinement of independent vectors, and its proof;
3. `wifi_nif` with its answers, should `loc.cpp` come to pass the type on;
4. `ds_nif` in AgpsRouting as the whole of DSStateMachine, shown to implement the
   coarser steps used there.
