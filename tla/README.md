# TLA+ models of the HXDL driving control

The repository is the on-board program of an automatic forklift: it takes routes
from a scheduling server, drives from way point to way point, moves the fork, and
reacts to keys, sensors, faults and the network. These modules model its core
logic. TLC checks them on small instances, and TLAPS proves the central
invariants for every value of the constants.

Paths below are relative to the repository. Many sources are GBK encoded.

## 1. The system

One process; `main()` builds singletons, starts threads and runs the main loop.
The threads share memory, and talk through three lists of events, one for each
priority (Normal, Important, Urgent).

| thread | code | what it does |
|---|---|---|
| main loop | `src/main/AgvMainLoop.cpp`, `CAgvCar::HandleEvent` | takes events, runs every handler of the car, the planner's operations, reports to the server |
| timer | `CAgvMainLoop` | posts `ev10msTimer`, `ev100msTimer`, `ev1sTimer` |
| control thread | `CAgvCarControler::Run`, `CAgvMoveHelperForklift::LoopRunning` | drives to the current target, posts `evNextPathPoint` or `evPathMagError` |
| scheduler thread | `CAgvScheduler::Run` | connects, reads the server's messages, posts `evGetNewPath` and others |
| CAN monitor | `CAgvCanOperator`, `CAgvSensor*` | joins and decodes frames, resets the sensors' counters, posts key, lifter and sensor events, sends heart beats |
| network thread | `CAgvNetManager` | sets up and watches Wi-Fi and Ethernet, posts `evNetworkOK` and `evNetworkError` |
| SIGINT | `src/main.cpp` | posts `evSysClose` on top of whatever thread it interrupts |

### Components

State, operations, interaction, what is hard, and what makes it correct:

**Route planner** (`controler/AgvRoutePlanner`). State: the list of way points,
the cursor (`targetPathId`, `lastPathId`), the file `lastpath`, keys of the
settings. Operations: new route, reload, next, back, finish an action, load and
save. Called by the car only, on the main thread. Hard: three copies of the
cursor (object, settings in memory, XML file) written at different moments, a
flap of the network that loads them back in the middle of a route, a crash
inside a save. Correct when the cursor stays inside the route, a reload gives
back the route and the place, and a task is reported once.

**Event helper and main loop** (`event/AgvEventHelper`, `main/AgvMainLoop`).
State: three lists, one mutex. `PushEvent` from every thread, `PopEvent` by the
main loop. Hard: `empty()` is read without the lock, the lists are scanned one
by one while others push, a signal handler pushes. Correct when it behaves as
three FIFO queues with priorities.

**Car** (`controler/AgvCar`). State: status, operate mode, the action under way.
Operations: a handler for each event. Hard: events of different priority
overtake each other, so that a handler meets a route, a lift or a target other
than the one its event was about. Correct when a halted car has no target, a
running one makes progress, and the target driven to is the planner's.

**Car controler and move helper** (`controler/AgvCarControler`,
`controler/AgvMoveHelperForklift`). State: the target and running modes, shared
without a lock by the main and the control thread. Hard: the control thread
ends one target while the main thread sets the next.

**Lifter, keys, other sensors** (`devices/canbus/AgvSensor`). State decoded from
CAN frames; the lifter announces its arrival at a target height once.

**Scheduler client** (`controler/AgvScheduler`, `comm/AgvSocketClient`). State:
the client object, `m_isConnected`, `socketLocker`, the heart-beat counter.
Operations: connect, read, send, disconnect, by two threads. Hard: silent
links, retries, one thread that deletes what the other uses. Correct when every
loss is noticed and announced and the connection comes back.

**CAN operator** (`devices/canbus/AgvCanOperator`). State: one receive buffer
and its mode for all devices. The monitor thread joins the frames of a long
message, hands messages to the sensor manager and sends heart beats when the
bus is idle. Hard: frames are lost, and frames of other devices fall into a
message. Correct when what is handed over is whole, an unfinished message does
not deafen the bus, and heart beats go out.

**Sensor manager** (`devices/canbus/AgvSensorManager`, `CAgvCanSensor`). State:
a counter and a flag of each sensor, changed by the main and the monitor thread
without a lock. Correct when no sensor is lost that was heard, and the car
learns of what is lost or back for good.

**Network manager** (`devices/network`). State: which interfaces are enabled,
the status announced last; addresses belong to the operating system. It sets up
the interfaces at the start, then posts events that start and stop the
scheduler's thread (`utils/AgvThread`). Hard: an outage that is over before its
event is handled, two events for one change, `pthread_cancel` of a thread that
holds `socketLocker`. Correct when one thread at a time uses the client, a
network that stays is used, and one that is gone leaves no thread.

**Settings** (`main/AgvSetting`): keys of an XML file, written by the planner
and by the screen's frames; the next start reads them.

**Path split** (`CAgvMoveHelperForklift::SplitToSubTarget`,
`utils/AgvMathUtils`): a pure algorithm of 800 lines, six ways to a target
written out forward and backward and mirrored. Correct when the legs join, can
be driven, and end at the target.

**Scheduler protocol** (`comm/AgvSchProtocol`): packing and framing of messages.
**Firmware download**: a sequential protocol. **Tracking geometry**:
floating-point control. **Sockets, finder, HTTP, logs**: thin wrappers.

`PROJECT.json` lists every component with its status, and under "hazards" each
thing that is hard to test, at its line, with the property that covers it.

## 2. Modules

```
RouteOps         operators of the planner (data, cursor, file, settings)
  RoutePlanner     the planner with flaps, unreadable files, crashes, restarts
  CarOps           operators of the car, the controler, the lifter
    AgvCar           handlers + queues + control thread + lifter + server + keys
EventBus         abstract: three priority queues with indivisible operations
  EventQueue       the event helper at the grain of its mutex; implements EventBus
MoveHelper       targets and motion: the main thread against the control thread
PathSplit        the legs of a target: a pure algorithm in integer geometry
Scheduler        the scheduler client with its socket and two threads
NetWatch         watch -> events -> main thread -> threads of the scheduler
NetSetup         screen -> settings file -> start -> interfaces
CanOperator      frames -> messages
SensorManager    messages -> counters and flags of the sensors -> events
TargetActions    what a car does at a target (MoveHelper, PathSplit)
CanDevices       the identifiers on the bus (CanOperator, SensorManager)
NetInterfaces    the two interfaces (NetWatch, NetSetup)
MC*              values of constants for TLC
*Proofs          theorems: RouteOps, RoutePlanner, AgvCar, EventQueue, Scheduler;
                 MoveHelperProofs (MoveHelper, PathSplit), CanBusProofs
                 (CanOperator, SensorManager), NetProofs (NetWatch, NetSetup)
```

`AgvCar` composes the planner with the car, the lifter and the control thread,
over the queues as `EventBus` specifies them: what `EventQueue` is shown to
implement is what `AgvCar` relies on (`MayTake`: an event may overtake a more
urgent one only if that one came after the last handler returned).

**RouteOps, RoutePlanner.** A planner is a record with the fields of
`CAgvRoutePlanner`, of the settings it uses, and of the disk; one operator for
each method. `savePathInfo` and `loadPathInfo` keep the order of the code: the
settings in memory, the file, then the XML keys, with the early return when
`fopen` fails. `DiskDuringSave` is the set of disks a crash inside a save can
leave: a truncated file, one key of two, or an unreadable XML file that makes
`LoadAll` fall back on its defaults. All operations run on the main thread, so
each is a step; only crashes split them.

**EventBus, EventQueue.** A step of `EventQueue` is one access to shared state:
lock, list operation, unlock, or the unlocked read of `empty()`. `interrupted`
is the thread the signal handler runs on; that thread does not move until the
handler returns. `posted`, `taken`, `dropped`, `sinceTake` are history.

**CarOps, AgvCar.** A handler of `CAgvCar` is one step and does all its calls:
`GoToNextPoint` alone rewrites actions, looks ahead, jumps over points, presets
the fork and sets the target. The choice `splits` is the verdict of
`SplitToSubTarget`; a target is the station, the mode and the action. Geometry
is reduced to the three tests the handlers make (`align`): in line, far, a
negative angle. `Arrive` is the end of a run of the control thread.
`LifterFrame` is the lifter's decoder: a new height near the target height
announces an arrival, and so does a status that becomes "at top", at any height.
Init is the moment after `evSysReady`.

**MoveHelper.** The two threads that share the target, the running modes and
`initParaFlag` without a lock. A step of the main thread is a write of
`SetTarget` that the control thread could see alone, or a whole `ClearTarget`; a
step of the control thread ends at every sleep, at every command to the drive,
and between its test of a mode and what it does with it. The motion functions
are reduced to what they have in common: start (`Depart`, then `SetFlag`),
`GoOn`, arrive (`ReachLine`, `ReachArc`, `ReachAngle` with its sleep `Rotated`),
`Refuse`. The drive reports its speed late, and `SetSpeed` compares with that
report. `AgvCar` takes the same thread in larger steps (`Arrive`, `StopAgain`);
`Served` is what entitles it to say that a car arrives.

**Scheduler.** A step ends where the other thread could interfere: at every
access to `m_isConnected`, `client` and `socketLocker`, and at every system
call. A peer is `live`, `silent` (up, but nothing comes any more), `eof`,
`reset` or `refused`. Messages are what they lead to: an acknowledgement, a
reply, or nothing.

**PathSplit.** Lengths are in cm and angles in degrees, in the target's frame;
sine and cosine are tables of thousandths for multiples of 15 degrees. The
model keeps every comparison of `SplitToSubTarget` with its limits (20 cm,
20 degrees, one and two radii, the hard-wired radius 280 "for special condition
at HX"), the two copies for forward and backward, the mirror, and `Simplify`
(the removal of legs of 20 cm or less). By how much the car is off an arc or a
slanted line is not computed: `in.off` is an input. The check of the legs,
`Drivable`, is written from what the motion functions need, not from the split.

**NetWatch.** The composition of the network thread, the event queue, the main
thread and any number of scheduler threads. `CAgvThread::Stop` cancels: the
thread dies at its next wait, read or write, and the lock it may hold stays
locked (`Orphaned`). What a thread does with its connection is in `Scheduler`;
here it goes round its loop.

**NetSetup.** The data's way from the screen, in frames that may be lost, into
a static buffer, the settings file and, after a restart, the interfaces. An
address is a short sequence of characters, a frame carries one of them (two of
16 in the code), the conversions of the text and of the speed do what the code
does. Commands of the operating system may fail.

**CanOperator.** A step is one frame or one idle read, as the thread alone
touches its state. A frame carries its device, its kind, and which of the
device's messages it belongs to; content is reduced to that.

**SensorManager.** A step is one access to a counter or a flag, in both
threads. `silent` is history: passes over a sensor since its last message.

## 3. Runs

| run | expects | shows |
|---|---|---|
| `RoutePlanner` | pass, 78 945 states | cursor, saved cursor, reports and loads stay consistent over routes, moves, flaps, unreadable files and two crashes |
| `RoutePlanner_resume` | violation | after a restart a route starts from its first point |
| `EventQueue` | pass, 66 504 states | mutual exclusion, no read of an empty list, nothing lost, refinement of `EventBus`, every event taken |
| `AgvCar` | pass, 437 959 states | status, target and planner agree over one route, directions the car refuses included, with any two keys, faults, timers, network events or lifter reports |
| `AgvCar_live` | pass, 60 790 states | routes finish in spite of a second route or a flap at any moment |
| `MoveHelper` | pass, 271 031 states | no arrival announced twice, a stop stops the car in automatic mode, a target of a settled car is reached |
| `PathSplit` | pass, 13 990 states | the legs join and can be driven with the radius chosen, and those that are left end at the target |
| `Scheduler` | pass, 35 390 states | the client notices silence, tells the car, and reconnects |
| `NetWatch` | pass, 20 680 states | one scheduler thread at a time with one interface, a lasting network is served, a lasting outage leaves no thread |
| `NetSetup` | pass, 1 574 746 states | an address that came whole is in force after the next start, the speed shown is the one set or one less |
| `CanOperator` | pass, 53 542 states | joined messages are whole, unfinished ones do not deafen the bus, heart beats go out |
| `SensorManager` | pass, 150 104 states | no sensor is lost without its silence, and the car learns of what stays |

**Bounds.** Every bound is a constant or is named in a comment.
*Routes*: none, one, two and three points. Three is the smallest route with a
first, a middle and a last point, where the look-ahead of `GoToNextPoint` (one
point) both applies and ends; the routes differ in what the code distinguishes:
run, lift, charge, change of direction, points in line, heights of their own,
and in `AgvCar` a direction the protocol has and the car refuses.
*MaxCrashes* 2: one crash in a save and another while its remains are loaded.
*MaxInputs* 2 with one route in `AgvCar`: every ordered pair of keys, sensor
and network events at any two moments of a route, or frames that only change the
lifter's status; a second route is in `AgvCar_live`. *LiftReports*: moving and
at top in `AgvCar` (at bottom does what moving does, as nobody handles
`evLiftAtBottom`); in `AgvCar_live` every frame says at top, so that the first
one announces an arrival at a height that was not asked for. *MaxPosts* 1 for each of three pushing threads and SIGINT: two
pushes of one thread are ordered by the thread, and the interleavings that
matter are those of different threads with the scan (the proofs have no bound).
`AllTaken` speaks of every event of every thread. The streams of events it sees
end: of a stream of urgent events that never ends it promises nothing, and such
a stream would starve the other lists.
*MoveFault* posts one error at a time where the code repeats it.
*MoveHelper*: three calls of the main thread, each a target, a stop or a key, at
any moment: enough for a target, an interruption and a new target. Three
targets: an arc with a stop at its end, a rotation followed by a backward line
with a lift, a rotation alone. Speeds are 0, that of a start, and a higher one:
a repeated start is what the suppression of `SetSpeed` is about.
*Scheduler*: three failures, so that a connection is lost, remade and lost
again, and four descriptors, so that there are failed attempts in between; the
heart-beat limit 50 of the code is 1 or 2, which the proofs show to be
immaterial for the invariants.
*PathSplit*: ten by eleven positions and twelve headings, forward and backward,
chosen on both sides of every limit of the code (20 and 30 cm, one and two
radii of 150, the radius 280, the range of the split); each pose is an
independent input, and only `needStop` is carried from one target to the next.
*NetWatch*: three changes of the links, so that an outage ends before its event
is handled and comes again, and four threads. `Served` and `AllStop` are not
about the bound: links that change for ever satisfy them.
*NetSetup*: addresses of two frames, one the beginning of the other (the code
compares beginnings), four frames, two starts: a transfer that breaks off, a
whole one, and a start before or after it. Speeds 0, 50 and 255; the theorems
lift all of these bounds.
*CanOperator*: two devices that both send long messages of two data frames, two
lost frames: the end of one message and the start of the next. Four lost frames
in a row refute `WholeMessage` (the end of one message and all of the next but
its end), as its comment says.
*SensorManager*: two sensors, one message that all sensors get, and a limit of
2 instead of 50, which the theorems lift.

**Deadlock** is checked for `RoutePlanner`, `Scheduler`, `CanOperator` and
`SensorManager` (a process or thread that has ended stutters). `NetWatch`,
`NetSetup` and `PathSplit` stop when the bounds are used up. `EventQueue` stops after `evSysClose` or when the bounds are
used up, and `AgvCar` when a route has ended and the inputs are used up, or
when the program would end on a NULL pointer (`NeedsTarget`), and `MoveHelper`
when the calls are used up and the thread pauses in manual mode: there the
check is off.

**Fairness.** `EventQueue`: weak, for the main loop and for a push that has
begun; nobody is obliged to push. A blocked lock is not promised to anyone
more than that, and it is enough because pushes are bounded. `AgvCar`: the main
loop keeps taking events (it polls; the condition is weak fairness of `Main`
with its enabling condition spelled out), a car with a target arrives unless it
is stopped, and a fork that was commanded reaches its height: the first two are
loops of threads that run all the time, the third is the lifter's controller.
`MoveHelper`: the control thread and the drive's feedback are weakly fair, both
are endless loops; strong fairness of `Arrive` says that a car which is seen
moving, and asked again and again whether it is there, gets there. Nothing is
assumed of the main thread, which may stay inside a call for ever (`Served` and
`StopsInAuto` speak of completed calls).
Nothing is assumed of keys, routes, faults and the network. `Scheduler`: weak
fairness of both threads, and strong fairness of the scheduler thread's
acquisition of `socketLocker`: the main thread holds it for one write and does
other work between two reports. Nothing is assumed of the server: that it stays
up is a premise of the properties.
`NetWatch`: the watch and the scheduler threads are endless loops (weak
fairness); the main thread handles each event of the network, strong because it
does other things in between: `AllTaken` of `EventQueue` is what entitles it.
Who waits for `socketLocker` gets it if it is free again and again (strong).
`CanOperator`: the monitor thread keeps reading; what there is to read, and
whether reads are ever idle, is a premise of the properties. `SensorManager`:
the main loop takes its timer events and the monitor finishes what it has
begun; how often devices send is a premise.

## 4. Findings

A violation run shows one, with the text of the repository it contradicts in
`PROJECT.json`: `AgvRoutePlanner.cpp:163` writes `TargetPoinId`,
`AgvSetting.cpp:77` reads `TargetPointId`; the saved cursor does not survive a
restart.

The properties have to go round others, and say so by name:

* `main.cpp:140`: the SIGINT handler locks a mutex its own thread may hold
  (`SelfLocked` in `AllTaken`).
* `AgvCar.cpp:785`: the lookup of the run action overwrites a lift or a charge
  by a stop when the next point is a lift; `RouteFinishes` does not say that
  the fork moved.
* `AgvCar.cpp:1289`: the arrival handler ignores which station was reached, so
  an arrival queued before a new route counts for the new route.
* `AgvCar.cpp:955`: the protocol has the modes 0x03 and 0x04 (turn left and
  right, `AgvSchProtocol.h:100`), the car refuses them. A later point with such
  a mode becomes the planner's target, is refused before the controler remembers
  it, and stops the car with an error. The next key start resumes the route
  (`AgvCar.cpp:120`) at the point before, and the arrival there counts for the
  refused point, which is passed as reached. `DrivesToTarget` names the case,
  and says that the car then drives to the last target that was accepted; the
  route `Turn` of the run reaches it.
* `AgvSocketClient.cpp:100`: each failed connect keeps its descriptor;
  `Reconnects` ends with them.
* `AgvScheduler.cpp:229`: `client` is used after a test of `m_isConnected` that
  the other thread makes stale; a process that loses the race ends (`alive`).
* `AgvScheduler.cpp:99`: a thread cancelled inside a read or write leaves
  `socketLocker` locked for ever (`Orphaned` in `Served` and `AllStop`).
* `AgvNetManager.cpp:193`: with both interfaces enabled one change posts two
  events, and two `evNetworkOK` start two scheduler threads on one client; the
  second takes descriptor 0 for its socket (`AgvScheduler.cpp:108`).
  `OneClient` is about one interface.
* `AgvSensor.cpp:1172`: lost frames leave a mixture of two addresses, which the
  last frame saves; `AgvUtils.cpp:125` takes an address for set when it is the
  beginning of any interface's. `AddressInForce` is about addresses all of
  whose frames came, and promises no more than such a beginning.
* `AgvSensor.cpp:1274`: the speed that the screen shows is one less than the one
  set, so that confirming it slows the car down each time.
* `AgvSensor.cpp:1119`: the charging frame 0x13 has no `break` and goes on into
  0x14, so that it also sets `UseDhcp`; nobody notices, as `LoadAll` sets
  `UseDhcp` to false at each start.
* `AgvMoveHelperForklift.cpp:2531`: the removal of short legs asks `needStop` of
  the previous target. `Arrives` promises the exact end for the flag that is
  read, 20 cm otherwise.
* `AgvSensorManager.cpp:235`: the count of the last pass starts at 0, so that
  sensors none of which ever answers are never reported lost.

What limits the properties of `MoveHelper` is not a contradiction of any text,
but is worth knowing. `Served` needs `Settled`: a target that is set while the
control thread is still in the last 1.3 s of the one before is overwritten and
never driven to. It exempts a start whose speed the drive had just reported: it
is not sent, and the car stands with a released brake. `StopsInAuto` needs the
automatic mode: in manual mode the thread does not come to the check that
catches wheels started late.

## 5. Proofs

TLAPS checks about 8 000 obligations; the constants are arbitrary, apart from
the named assumptions in the modules. Every safety invariant and every action
property that a that a passing run checks is a theorem, for every value of the constants. Seven
theorems have a hypothesis, named in the statement: `CursorSafe`,
`CursorIsSaved`, `FlapIsHarmless` and `LoadIsFaithful` (`WritesSucceed`),
`MessagesAreWhole` (fewer than `Parts + 2` losses), `DrivableAlways` and
`ArrivesAlways` (`NarrowEnough`).

* **RouteOpsProofs** has a lemma for each operator of the planner: it keeps the
  type and the relation `Fits` (`CursorFits`, `SettingsFit`), and it changes no
  more of the route than its lemma says.
* **RoutePlannerProofs**: `TypeCorrect` and `ReportsOnce` hold whatever becomes
  of the file (`Reports`); `ReportsOnce` needs `ReportedFinished`: the mark in
  the list is what prevents the second report. `CursorSafe`, `CursorIsSaved`,
  `FlapIsHarmless` and `LoadIsFaithful` need `Inv`, which joins `CursorOK` and
  `CursorSaved`: a load takes its cursor from the settings, so the object's
  cursor is safe only because the saved one fits the saved route, at every
  moment and after any crash; and the saved one fits because it is a copy of a
  safe cursor. `LoadIsFaithful` needs `Sourced`: whatever a crash left of the
  file is a beginning of the last route sent, and so is what a later save makes
  of it. Their hypothesis is `WritesSucceed`: when `fopen` for writing fails,
  the settings in memory already hold the cursor of the new route while the
  file has the old one, and the invariant is lost. Reading may fail, and the
  number of crashes is unbounded.
* **AgvCarProofs**: `CarTypeCorrect`, `HaltedCarStandsAlways`,
  `DrivesToTargetAlways`, `RunningCarRunsAlways`, without a hypothesis: for any
  routes, directions and actions the car does not know included, any keys,
  faults, events, lifter frames, tolerance and number of them. There is a lemma
  for each operator of `CarOps` and one for each handler. The first two theorems
  rest on `Base`: the types, a planner that fits its file, and a car that stands
  when its status says so. The others rest on `Road` too. What they need from
  one point to the next is that no point ahead is done already and a target that
  can be resumed is the planner's, if `CanDrive` accepts that one (`RouteOpen`),
  and that a target which is done is the last (`RouteFresh`); the events a
  handler posts count as waiting (`Due`), as they reach the queues when it
  returns.
* **EventQueueProofs**: `QueueTypeCorrect`, `MutexHolds`, `PopIsSafe`,
  `NoEventLost` and the refinement `QueueImplementsBus`, for any number of
  threads and pushes. The invariant adds `Places` (which labels each thread can
  be at, and what the scan index is there). `PopIsSafe` holds although
  `empty()` is read without the lock because only the main thread removes. For
  the refinement, `Passed` says that the lists the scan has left behind hold
  nothing older than the last take, and `Closing` that `ClearAll` comes after
  the loop was told to end.
* **MoveHelperProofs**, motion: `MoveHelperTypeCorrect` and
  `AnnouncedOnceAlways`, for any targets, plans of legs and calls. That no more
  arrivals are announced than targets were set is not inductive: at none owed, a
  control thread under way would announce one more. `Owes` counts what it may
  still announce (`Debt`): the arrival about to be posted, and that of the motion
  begun or in `runningMode`, which are two at most; `SetMode`, which makes the
  second possible, is what owes it.
* **MoveHelperProofs**, split: `DrivableAlways` and `ArrivesAlways`, for every
  whole-centimetre pose whose angle is a multiple of 15 degrees, forward and
  backward. The state is simple (`SplitInv`: the legs are those of the last
  pose, and it was not refused); the geometry is the proof. A right-hand pose is
  reduced to the left half of the code by the mirror (`Facing`, `Side`), that
  half to its six cases (`FollowLineFollows` ... `SlantFollows`), each case to
  its first leg and the two ways home (`ThreeLegs`, `FourLegs`), a leg to the
  arithmetic of circles: `Chord` for the arcs that begin between their limits,
  `RoundedCircle` for slants, where sines are right within a thousandth and
  lengths within a centimetre. The root is the least number whose successor's
  square is past its argument (`RootOf`, well-foundedness of the naturals).
  That the legs do not overshoot the target, which the refusal (line 2468)
  guarantees, is what makes the last line fit. `ArrivesAlways` looks at
  `Simplify`: a leg before `Home` is never among those that are left out
  (`Homeward`), unless the car is near the target already. The hypothesis is
  `NarrowEnough`, that the settings' `StandardRadius` is at most
  `MAXTURNINGRADIUS`: line 1830 takes it as it is, the limits cut only the
  computed one.
* **SchedulerProofs**: `SchedulerTypeCorrect` (the heart-beat counter is
  bounded), `ConnectedIsOpen`, `CarKnowsAlways`. The invariant `ThreadKnows`
  says what the scheduler thread may conclude from its own place about the flag
  and the last event; `ClientIsOpen` extends `ConnectedClientIsOpen` to the
  moment between a connect and the flag.
* **CanBusProofs**: `CanTypeCorrect`, the receive buffer is never overrun, for
  any devices, lengths and losses. `MessagesAreWhole`: what is handed over has
  the announced length and goes to its own sender, if fewer than `Parts + 2`
  frames are lost; the bound is sharp, as TLC finds a mixture with `Parts + 2`
  (see the bounds above). The invariant `WholeInv` counts the losses: a full
  buffer waits for the end frame of the device that opened it, or that end is
  lost, and so is every frame that another device has sent of its message since
  (`Owned`, `Unheard`). `SensorsTypeCorrect` and
  `LostOnlyAfterSilence`, for any number of sensors and any limit.
  `CounterIsSilence` is the reason: no counter, and no copy of one in the middle
  of a pass, runs ahead of the silence it measures, because the races only ever
  lose counts.
* **NetProofs**: `OneClientAlways`, for any number of changes and threads. With
  one interface the events in the queue alternate (`Alternates`), the first is
  what the scheduler is not told yet (`Follows`), so that a start finds the loop
  ended and the thread before cancelled (`Users`). `AddressInForceAlways` and
  `SpeedShownAlways`, for addresses of any length, every speed of a byte, and
  any number of frames, losses and starts. The invariant follows the address
  through the buffer (`Received`), the file (`Saved`) and the program
  (`Loaded`); `TextOfParts` says that a buffer with all parts has the address as
  its text, which needs that nobody types blanks (`AddressAssumption`).

**Only model-checked** is what TLAPS cannot prove, liveness under fairness:
`AllTaken`, `RouteFinishes`, `StopsInAuto`, `Served` (of `MoveHelper` and of
`NetWatch`), `DetectsSilence`, `Reconnects`, `AllStop`, `HeardAgain`,
`BeatsGoOut`, `ReportsSettle`.

## 6. What is not modelled, and the plan

Left out for good: the tracking of a leg (floating-point control of steering and
acceleration), sounds, lights and most of the screen, logs, telemetry; barrier
events (this build sends none); wrappers of the C library; code without a
caller (case 2 of the network thread, `PowerOff`, `RemoveSensor`).

Planned, in order of importance:

1. **SchProtocol**: unpacking of split and truncated messages against a
   reference framing; the lists it fills, the pointer in `evGetNewPath`, the
   send buffer that two threads pack.
2. An abstract specification of a target (set, reached, cleared) that `AgvCar`'s
   coarse steps and `MoveHelper` both implement for settled cars, and its proof.
3. The safety half of the liveness properties as theorems: that a lasting outage
   leaves at most one thread (`NetWatch`), that a stop leaves no running mode
   behind (`MoveHelper`).
4. **DownloadBin**: retries and acknowledgements. **Motor controler**: the
   suppression of repeated commands by late feedback, steering included.
