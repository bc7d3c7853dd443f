# A TLA+ verification of CITPhysicalXR

CITPhysicalXR lets a class drive real robots, drones, plugs and lights from
student programs, headsets, phones and remote agents. This directory models the
parts of it in which several actors change shared state: the *command pipeline*
of the classroom runtime, the *interaction fabric* that passes commands to
adapters in processes of their own, the *services* beside them (phones, plugs,
printer, cameras, media wall, recovery, recordings, projects), the *delivery* of
agent-mesh events, and the *device bridges* on the other side of the wire. Small
instances are checked with TLC; the main results of six parts are proved with
TLAPS for every value of the constants. Paths are relative to the repository's
root; `…/` stands for `apps/runtime-py/src/cit_runtime/`.

Contents: 1 Inventory, 2 Modules, 3 Runs, 4 Proofs, 5 Abstractions,
6 Where the code and its documentation differ, 7 Not modelled, 8 Plan.

## 1. Inventory

| # | Component | Source | State it keeps | Module |
|---|---|---|---|---|
| 1 | Command pipeline, safety supervisor | `…/{pipeline,supervisor}.py` | heap, lanes with their locks, waiters; arms, heartbeats, disabled inputs | DeviceLanes, LaneOrder, CommandPipeline |
| 2 | Program sessions, device registry | `…/{sessions,registry,runtime}.py` | session states, bindings, failure policies; device states, assignments | ProgramSessions, CommandPipeline |
| 3 | Command ledger, device leases | `packages/safety-core/…/{command_ledger,device_leases}.py` | idempotency claims; write leases | CommandPipeline |
| 4 | Foundation safety gate | `packages/safety-core/…/foundation_gate.py` | none: a decision | CommandPipeline |
| 5 | Interaction fabric | `…/{fabric,fabric_repository,fabric_persistence}.py` | nodes, sessions, roles, control leases, commands, events (SQLite) | FabricSessions, FabricCommands, ControlArbiter, EventDelivery |
| 6 | Fabric transport and service | `…/{fabric_adapters,fabric_service,fabric_api}.py` | connections, `send_lock`s, the node map | FabricSessions, FabricCommands |
| 7 | Phones and unlock automation | `…/fabric_unlock_automation.py` | one record in memory and in a file; the event lock | UnlockAutomation |
| 8 | The plug group | `…/fabric_unlock_automation.py`, `…/fabric_remote_plug_api.py` | the sessions it switches plugs in | PlugGroup |
| 9 | Plug gateways | `…/fabric_plug_gateway{s,_api}.py` | a sequence number per gateway (SQLite), a kept snapshot | PlugGateways |
| 10 | Printer | `…/fabric_printer*.py` | artifacts, start confirmations, the operation lock | PrinterJobs, ConfirmedStarts |
| 11 | Camera folder and uploads | `…/{fabric_camera_ftp,sony_camera_import}.py`, the companion's uploader | parts, receipts, photos on disk | CameraFolder |
| 12 | Camera imports | `…/{fabric_camera,fabric_android,dji_camera_import}.py` | an import task per camera, the one phone and its settings | CameraImports |
| 13 | Discovery and adapter recovery | `…/{fabric_discovery,fabric_service}.py` | what is remembered, back-off, a launch lock | AdapterRecovery |
| 14 | Media wall | `…/fabric_media*.py`, `adapters/{tello,robomaster-leap}/…/media.py` | latest frames and analyses, in memory | MediaWall |
| 15 | Agent-mesh bridge | `apps/agent-mesh-bridge/src` | a durable outbox, a cursor | EventDelivery |
| 16 | Events, status, recorder, retention | `…/{events,status,recorder,retention,student_bridge}.py` | dedupe window, history, recordings in memory and on disk | LessonRecordings |
| 17 | Projects | `…/projects.py` and its routes in `…/api.py` | document, backup, owner sidecar | ProjectFiles |
| 18 | LEGO adapter and hub | `adapters/lego-pybricks`, `firmware/lego-hub-agent` | the link, frames awaiting an answer, motors, the hub's watchdog | LegoLink |
| 19 | Ground robots | `adapters/{wonder-workshop,sphero-bolt,robomaster-leap}` | velocity, deadman, demonstration | GroundRobots |
| 20 | Aircraft | `adapters/{brain2devices-demo,tello}` | the arm, the sequence, who is in the air | FleetFlight |
| 21 | Matter smart plug | `adapters/matter-smart-plug` | the relay as believed, polls, pending requests | MatterPlug |
| 22 | One-shot brain demonstration | `adapters/brain2devices-demo/…/{backend,bridge}.py` | the status as read, seen commands; the trigger and the flight are the service's | BrainDemo |
| 23 | MindWave headset | `adapters/mindwave-mobile2` | a worker process, frames read early, the blinks counted | HeadsetBridge |
| 24 | Integration SDK | `packages/integration-sdk-py` | bounded demonstrations, replay cache, the client loop | in 18–23 |

Section 7 lists the parts that are not modelled.

### What each does, what is hard about it, what makes it correct

**1–4. The pipeline.** `submit` pushes a command on one bounded heap shared by
all devices and drains it for its own device under that device's
`asyncio.Lock`; whoever holds the lock dispatches everybody's commands for the
device. `_dispatch` asks, in order: the session and the device, the ledger, the
supervisor, the lease; then awaits the adapter. *Hard:* lanes are created and
dropped by a count of users; a cancelled request may be dispatching someone
else's command; operations read a record, await an adapter and write it back.
*Correct when* a device runs one command at a time, every request is answered
exactly once, a stop overtakes what is queued, one key runs once, and nothing
physical moves under an arm that was taken away.

**5–6. The fabric.** Adapters register nodes; an instructor creates sessions,
gives nodes to roles, arms and starts them; `submit_command` claims a key,
validates, arbitrates for a control lease and hands the command to a dispatcher.
*Hard:* node leases, control leases and arms lapse on clocks of their own; the
dispatcher's await lies between the checks and the frame; a connection is
replaced when its adapter registers again. *Correct when* one key leads to one
frame, only an armed session holds a lease for a movement, a lost node has to be
armed again, and nothing queued before a stop goes out after it.

**7–9. Phones and plugs.** A phone sends signed, numbered events; three kinds
command the plug group under one FIFO lock, the state poll takes none. A tower
asks remote gateways the same things over the network. *Hard:* the sequence
number is checked before or after a wait; a write of the record may fail after
the memory changed; a request outlives the thread that gave it up. *Correct
when* events take effect in order and at most once, a reported result is true of
what the plugs were asked, and a refreshed status settles what a time-out left open.

**10–12. Printer and cameras.** One lock for slicing, upload and start; a
confirmation that may be used once; a printer people also use at its panel. Two
writers fill one picture folder; several import services automate one phone.
*Correct when* one confirmation sends one start, an acknowledged photo is on the
PC, the phone gets its own settings back, and the automatic imports go on.

**13. Recovery.** The maintenance loop sweeps node leases and relaunches
adapters that opted in, under a lock shared with the tutor. *Correct when*
nothing launches an aircraft unconfirmed, and leases are swept again and again.

**14. Media wall.** Publishers learn only from a 404 that the runtime was
restarted; their HTTP calls run in threads that outlive them. *Correct when* an
analysis is shown with the frame it is of, and cameras come back as long as
their worker answers.

**15. Delivery.** The bridge keeps each intent until the runtime acknowledges
its frame; the runtime stores an event once and submits the commands of its
flows. *Correct when* nothing is stored twice and nothing acknowledged is lost.

**16–17. What is kept.** *Correct when* a recording is the lesson it was made
in, retention holds after every write, and a save that is cut short leaves a
whole document that belongs to its owner.

**18–23. Bridges.** Each is a process with a receive loop, a demonstration, and
a tick or poll, sharing one link under a lock or none; cancelling a task does
not take back what it handed to a thread or a radio. *Correct when* a silent hub
stops, a stop stays in force, an aircraft that may have been launched is asked
to land, and a reported relay state is the relay's.

### How they interact

```
 front ends, SDKs ─► API ─► pipeline (1) ─► DeviceAdapter (18 in the runtime)
                      │        └ sessions, registry (2), ledger, leases (3), gate (4)
                      ├─► recorder, retention (16), projects (17)
 phones, towers ─► unlock automation (7) ─► plug group (8) ┐
 towers ─► plug gateways (9) ─► another site's (7)         │
 instructor, agents ─────────────────► fabric (5) ◄────────┘
 mesh ─► bridge (15) ─► events ─►  flows ─►  │
                                   transport (6) ─► bridges (18–23) ─► media (14)
 maintenance loop ─► lease sweep, recovery (13) ─► launches bridges
 tutors ─► printer (10), camera imports (12) ─► folder (11) ◄─ phone uploads
```

The runtime is one asyncio loop: between two awaits a task is alone. Threads
(`to_thread`) do blocking I/O and are not stopped by cancelling their task. The
pipeline and the fabric share no state, nor do the services.

## 2. Modules

```
DeviceLanes ─────┐
ProgramSessions ─┴─► CommandPipeline ─► MCCommandPipeline        (TLC)
     │                   └─► CommandPipelineProofs               (TLAPS)
     └─► LaneOrder ─► DeviceLanesProofs                          (TLAPS)
FabricSessions ─► FabricCommands ─► MCFabric (TLC), FabricProofs (TLAPS)

ControlArbiter  ◄─ refines ─ FabricCommands
ConfirmedStarts ◄─ refines ─ PrinterJobs
PrinterJobs + AdapterRecovery + MediaWall ─► PrinterProofs       (TLAPS)
PlugGateways + UnlockAutomation + PlugGroup ─► GatewayProofs     (TLAPS)
ProjectFiles + EventDelivery + LessonRecordings ─► LessonProofs  (TLAPS)
CameraFolder + CameraImports ─► CameraProofs                     (TLAPS)
BrainDemo + GroundRobots + MatterPlug + FleetFlight + LegoLink
          + HeadsetBridge    ─► DeviceProofs                     (TLAPS)

MCRuntime  = LaneOrder + PlugGroup + LessonRecordings + ProjectFiles
             + CameraImports
MCServices = UnlockAutomation + AdapterRecovery + MediaWall + EventDelivery
             + PlugGateways
MCDevices  = LegoLink + GroundRobots + FleetFlight + BrainDemo + HeadsetBridge
             + MatterPlug
MCCameras  = CameraFolder + CameraImports + PrinterJobs
```

The last four MC modules are *sums*. The components in one of them share no
variable of the code, so a product would only multiply their state spaces. Each
behaviour is about one component, chosen in the initial state by the variable
`facet`; the other components keep their initial state. Every property of a
component is stated over that component alone and holds of the sum exactly when
it holds of the component.

Definitions that begin with a comment such as "…as it would be if…" or
`Mutant:` are plausible bugs of the definition they precede. They are part of no
specification: each shows that a property would notice that bug.

### The pipeline

**DeviceLanes** is `CommandQueue`, `_DeviceLane`, `submit` and `_drain` with the
gates left open: both a detailed model of the turn-taking and the abstract
specification (`LaneSpec`) the pipeline is shown to implement.

| variable | code |
|---|---|
| `queue`, `ticket`, `pushed` | `CommandQueue._heap`, `_QueueItem.tiebreak`, `_counter` |
| `lanes`, `users`, `holder` | `CommandPipeline._lanes`, `_DeviceLane.users`, `_DeviceLane.lock` |
| `mine`, `item`, `pc` | the locals of `_drain`, and which await the task is at |
| `answer` | the result of `_QueueItem.waiter` |
| `cpu` | the task between two awaits |

A task is named by the command whose `submit` it runs. Actions: `Shed`,
`Submit`, `Grant`, `Pop`, `Deny`, `Execute`, `Finish`, `StopPeer` (the failure
policy), `Leave`, `CancelWaiting` and `CancelWorking` (a request cancelled at an
await), `ClearQueue`. `cpu` makes the code between two awaits atomic without
folding it into one action: no other task moves while it is set.

**LaneOrder** adds a history to DeviceLanes and nothing else: `ahead`, the
commands of its device that were in the heap when a command came. It knows no
tickets, so that what is handed out can be compared with what arrived.

**ProgramSessions** holds the transition table of `sessions.py`.

**CommandPipeline** extends both with what the gates read and write. Each
`…Command` action conjoins one lane action with its effect on the session,
registry, supervisor, ledger and lease variables. The gates are `PlaceDenial`,
`IdentityDenial`, `SafetyDenial` (with `MovementDenial`) and `LeaseDenial`,
asked in the code's order; a denial by the last two has already spent the
command's key. Operator tasks (`op`) are instructor requests and the watchdog
loop: `BeginX … EndX` are the halves of an operation around its await, with the
record it keeps across it (`op[o].saved`). `plan` and `peer` are the loop of
`_apply_failure_policy`; `armedAt` is the armed flag the API put into the
command. `ran` and `granted` are history.

### The fabric

**FabricSessions** has the rows and the connection bookkeeping: `node`,
`overdue`, `link` (`_by_node_id`), `phase`, `state`, `armed`, `cast` (role
bindings), `control` (leases, each as the command that took it). None of its
handlers awaits between reading and writing, so each is one action. `DisarmFor`
is the part they share. `shaken` is history.

**FabricCommands** extends it with commands: `claims`, `trace` (stored
lifecycle), `dest`, `via`, and `wire`, the frames queued for a connection's
`send_lock` in asyncio's FIFO order. `Reject`, `LoseArbitration` and `Dispatch`
are the three ways through `submit_command` up to its await; `Transmit`,
`Dispatched` and `SendFails` are the rest of it. `BeginStopAll`, `StopNode`,
`StopSent`, `EndStopAll` are `stop_all`. `Restart` is a crash and a start on the
same database: connections, tasks and frames go, rows stay.

**ControlArbiter** is what all this promises about control, in three variables:
`granted` (the lease a command won), `control` (who holds a lease) and `heard`.
`Grant` needs a key that was granted nothing before and a lease that is free,
the session's own or held at a lower rank; `Release` gives leases up, for any of
the code's reasons; `Hear` needs a holder that has not been heard. It knows no
session state, connection, queue, lifecycle or crash. FabricCommands implements
it (`FabricImplementsArbiter`) with `got` as `heard` and `Granted` as `granted`:
a command has control from the moment it is stored as `AUTHORIZED`, over the
node it was resolved to, also when the dispatcher then finds no connection.

### Services

| module | its state | its steps | interleaved with |
|---|---|---|---|
| **UnlockAutomation** | the record in memory and in the file, the queue of the event lock | pairing, revoking, enabling, each event's acceptance and its end | failed writes (memory changed, file old or new), restarts, the lock-free state poll |
| **PlugGroup** | the phone's sessions, the run and its commands, the orders on the way to each plug, relays and their reported power | resolve, find or create the session, arm, start, submit, write the frame, answer; obey, refuse, report | plugs lost and back with what was on its way, frames that cannot be written, adapters that refuse, relays switched otherwise, sessions stopped, paused or disarmed by an instructor |
| **PlugGateways** | number in the database, calls, snapshot; the gateway's highest number, queue, running command | number, send, answer, give up; check, queue, begin, end | lost requests and answers, late requests, other phones, restarts of either side |
| **PrinterJobs** | jobs and their step, operation lock, confirmations, the printer | slice, upload, prepare, start and its arrival | people at the panel, a lost start, expiry, restart |
| **ConfirmedStarts** | confirmations offered and used, starts sent | issue, take, send, see standby | (abstract) |
| **CameraFolder** | photos on the phone, parts, receipts, names taken, acknowledgements | the importer's and the receiver's choose-and-fill, the companion's upload | each other; broken connections; a crash of the receiver |
| **CameraImports** | task, snapshot, loop and lock per camera; the phone's lock and settings | probe, start, automate; check, read each setting, change each, work, restore each | a second camera; a phone lost and back between any two commands; cancelled imports; a crash |
| **AdapterRecovery** | groups and their nodes, back-off, memory, the launch lock | sweep, pass, launch; connect one or all | nodes that come and go, expiring leases, failing launchers |
| **MediaWall** | the wall, publishers, pumps, calls in threads | register, publish, analyse, remove | restarts of the runtime, cancelled calls that still arrive, slow detections, a RoboMaster worker that falls behind |
| **EventDelivery** | feed, cursor, outbox, socket, event log, requests | poll, put, flush, handle, submit, acknowledge | broken connections, retries, crashes, expiry, paused lessons |
| **LessonRecordings** | readings, history, recorders, memory, disk, policy | publish, record, save with pruning, replay, delete | duplicate deliveries, a full disk, restarts |
| **ProjectFiles** | document, backup, sidecar, and how far a save or a deletion is | each file operation | power loss and failing writes at any of them |

### Device bridges

| module | its state | its steps | interleaved with |
|---|---|---|---|
| **LegoLink** | frames and lines on the link, the tasks awaiting, motors, the hub's watchdog | execute, demonstration, tick, the hub's loop | whoever reads the link reads everything; loss and reconnection |
| **GroundRobots** | packets handed over, deadman, demonstration, the pump | drive, halt, stop frame, tick | tasks cancelled at any wait, failing writes, the process's end |
| **FleetFlight** | arm, selection, launches, who flies, calls in threads | arm, sequence, landing; the Tello's loop | stops at every await, failing and late calls, expiry of the arm |
| **BrainDemo** | the service's trigger and flight, the receive loop with the status it read, the status task, the seen commands, requests left to threads | accept and execute, arm, the stop's three requests, stop frame, polls, close, restart | the trigger fires at any step, failing and late requests, a command that expires between its two validations, a cancelled task's request |
| **HeadsetBridge** | headset, blink counter, worker, pipe and early frames, what the heartbeat says | both backends' start and next event, activation, close with shutdown and terminate | lost links, counters that start anew, workers that fail, fall silent or do not listen |
| **MatterPlug** | relay, controller, both tasks, what was claimed | set with its verification, poll, stop, close | lost controllers, given-up switches that still happen, the plug's button |

Histories (`changed`, `settled`, `claimed`, `disturbed`, `haunted`, `raced`,
`unstopped`, `span`, …) are marked `history` where they are declared; no guard reads them.

## 3. Runs

| run | question | instance | distinct states |
|---|---|---|---|
| `runtime` | is what the runtime keeps right: turns, plug groups, recordings, projects, imports? | 2 devices, 4 commands, a heap of 2; 2 plugs with 2 orders on their way; 2 recordings; 2 students; 2 cameras with a crash | 2.4 million |
| `identity` | does one key run once while watchdogs stop silent devices? | 2 robots, 1 key used twice | 147 thousand |
| `motion` | can a move run under an arm that was taken away? | 1 physical robot, 2 moves, 11 operations | 2.2 million |
| `ownership` | can a session move what is not assigned to it? | 2 sessions, 2 devices, binding and whole lessons | 3.1 million |
| `group` | does the pipeline keep to the lanes, and answer everyone? | 2 robots in a group, 3 commands, a heap of 1 | 462 thousand |
| `fabric_reconnect` | what survives reconnects, silence and restarts? | 1 robot, 2 connections, a retried command | 96 thousand |
| `fabric_rivals` | do arbitration, disarming and `stop_all` agree on who moves? | 2 sessions, 3 commands of 2 ranks | 1.5 million |
| `services` | do phones, recovery, media, delivery and gateways keep their promises across faults? | 2 phones and a desktop; 2 profiles with 3 endpoints; 2 cameras; 2 intents; 2 threads | 490 thousand |
| `devices` | do the bridges stop, land and report truly? | a hub with 2 ports; each robot kind; 2 aircraft; 2 arm commands and a stop with 2 failing requests; 3 blinks, 3 frames; one plug; 3 faults of a robot | 871 thousand |
| `cameras` | are photos filed and acknowledged, do imports go on, are printer starts confirmed? | 2 photos of one name; 2 cameras; 2 jobs and tokens | 636 thousand |
| `stop_all_race`, `robot_stop_frame` | what the documentation says and the code does not do | section 6 | |

**`runtime`.** *Lanes:* `LaneTypeOK`, `OneCommandPerDevice`, `AnsweredOnReturn`,
`QueuedIsAttended`, `RefusedIsNotRunning`, and `NeverOvertaken`: of two commands
of a device that waited together the more urgent begins first, and the earlier of
two equals, although they are dispatched by whichever task has the lane. Three of
the four commands are for one device, so a lane has a holder, a waiter and a
newcomer; two are of equal rank and one is a stop; the heap is shorter than the load.
`PlugGroupIsAsked`: a phone has at most one complete open session for a set of
plugs; and when a run reports success, every plug of the group was asked for its
value, and nothing that is on its way to it undoes that: the order is the last one
written, or the relay has the value, or the order went astray after it was written
(section 6). `RecordingsAreKept`: a recording
holds every live event of its span once and in order although events are
delivered again and others are replayed; the console shows live readings only;
every write leaves the store within its policy, oldest gone first.
`ProjectsAreKept`: whatever fails, the document is whole and not older than the
last one acknowledged, and stays its owner's. `ImportsAreSafe`: the phone's settings
are the user's again when nobody holds it, although it may be lost and come back
before any command of an import, and an import is shown while it runs; excepted are
a crash of the runtime, a phone lost or silent while its settings are put back, and
one lost just when its stay-awake setting was read (section 6).

**`identity`** checks `PipelineTypeOK`, `OneRunPerKey` and, under fairness,
`WatchdogStops`. **`motion`** checks `MotionNeedsRearm`: a physical move begins
only on a device armed and since then not stopped, disarmed, revoked, unplugged
or handed back; `granted` records that from the *completions* of those
operations, so the property compares arms with history and not with themselves.
**`ownership`** checks `OnlyTheOwnerMoves` without the operations section 6
reports on; the theorem has the same hypothesis. **`group`** checks `LaneSpec`
as a property of the pipeline and, under fairness, `EveryRequestAnswered`.

**`fabric_reconnect`** checks the types, `OneFramePerKey`, `OpenIsReachable`,
`LostNodeNeedsRearm` and, under fairness, `SilentNodeDisarms`. Two connections
suffice for an overlap; a third would meet the same two roles. **`fabric_rivals`**
checks `MovingLeaseIsArmed`, `FabricImplementsArbiter` (a key is granted control
once, leases change hands by renewal, rank or release only, and a pre-empted
command still waiting for the lock does not overtake the one that pre-empted it)
and `StopAllIsLast` (nothing handed over before `stop_all` goes out after it
returns). Ranks 3 and 5 allow pre-emption; `park` is a safe-state command.

**`services`.** `PhonesAreKept`: pairings obey their limits in memory and in
the file, and an unlock switches at most once per cool-down. `PhoneEventsAreHandled`: a
phone's events take effect in the order of their numbers, across failed writes
and restarts, and each delivery is answered. `RecoveryIsSound`: no aircraft is
launched without a confirmation, a pass relaunches no adapter whose endpoints are all up,
and expired leases are swept again and again, however launchers fail.
`WallIsTrue`: an analysis is shown with its own frame, a source left on the wall
was cut off, and a camera that keeps running comes back, after every restart of the
runtime, removal and failed call but one: a request to the RoboMaster's worker that
was given up leaves the worker behind (section 6), and the camera out until the
adapter is replaced. Giving up is the one fault of the run or not, so both ways occur. `DeliveryIsSafe` and
`IntentsAreDelivered`: an intent is stored once, what the bridge forgot was
taken, only a crash loses commands, and every intent is delivered, expired or
overtaken by the lesson's end. `GatewaysAreTrue`: an awaited request is never
refused as a replay, the snapshot shown is true, an answer settles everything
asked before, and every call returns.

**`devices`.** `LegoLinkIsSound`: a command reported complete was executed, a
demonstration ends in a stop, running motors are watched unless one port was
stopped alone, a lost link is reported. `RobotsAreStopped`: a rolling robot is
watched by its deadman, a stop command holds, the robot comes to rest, but for a
demonstration's last stop that failed (`unstopped`): nothing tries that one again.
`BrainDevicesAreSafe` conjoins three. `FlightsAreSafe`: one takeoff per aircraft and arm, in order; what may have been
launched is asked to land; a confirmed stop leaves nobody selected in the air
but the takeoff of a cancelled call; stop frames are read and landings end.
`DemoIsSound`: a stop that says that nothing is armed and nothing flies is right,
although the trigger may fire between its requests; a bridge that is gone leaves
nothing armed and no flight that was not told to end, but for the cases named in
`GoneIsDisarmed`; a command that succeeded does not arm again; the heartbeat
catches up with the service. `HeadsetIsTold`: the worker's events are taken once
and in order, a reported blink was made, no worker outlives its bridge, and a
headset that stays off is noticed in a lesson and outside.
`PlugBridgeIsSound`: a reported state is the relay's, the console catches up, a
bridge without its controller ends.

**`cameras`.** `UploadsAreSafe`: an acknowledged photo is on the PC unless both
writers raced for its name; `PhotosAcknowledged`: every photo is acknowledged in
the end; `AutomaticImportsGoOn`: the loop's imports keep happening while
another camera shares the phone; `PrinterImplementsConfirmations`: the printer
service implements ConfirmedStarts.

**Combined properties.** The properties of a service or a bridge are one
conjunction of named parts, each part with its own comment and each able to fail
by itself; several mutants per conjunction break different parts.

**Bounds.** The constants are the only bounds. In the pipeline and the fabric
each command is submitted once and each connection used once. In the other
modules a constant named `Max…` bounds faults (`MaxGatewayFaults`,
`MaxSaveFailures`, `MaxFolderCrashes`, …), things numbered (`MaxSequence`,
`MaxFrames`, `MaxVersions`, …) or retries the code bounds itself
(`MaxPlugMisses`, `MaxVerifies`). One or two faults are enough for each to
happen at every step, and two actors for each pair of steps; a bound on faults
limits how many, never where. `Uses` (pipeline) and `Taught` (fabric) choose
the operations a run spends its states on; every action occurs in some passing
run.

**Deadlock** is checked in the pipeline runs, where `Quiescent` is the legal
end. It is off elsewhere: a fabric without connections, a bridge that has ended
and a service nobody asks anything really wait for ever.

**Fairness**, and why the code justifies it:

| specification | fairness | reason |
|---|---|---|
| pipeline `FairSpec` | WF of each task, suspended operator and the watchdog loop | asyncio resumes what can be resumed; adapter calls return; the loop comes round each 0.1 s |
| fabric `FairSpec` | WF of the maintenance loop | it sleeps and repeats |
| `UnlockSpec` | WF of serving the lock's head and of finishing | asyncio's lock is FIFO; the runner has timeouts |
| `GatewaysSpec` | WF of each thread | the transport has a time-out of 8 s; asks are finite, so the lock comes free |
| `CameraSpec` | WF of probes and imports; SF of taking a lock for the automatic loop | the service's lock is FIFO; a thread waiting for the phone's lock gets it when it comes free again and again (an assumption on the platform's `threading.Lock`); every wait in an import is bounded |
| `FolderSpec` | WF of the receiver, SF of upload and acknowledgement | the companion retries, so an upload possible again and again succeeds |
| `RecoverySpec` | WF of the loop and the tutor's call, SF of taking the lock | launchers have time-outs; asyncio's lock is FIFO |
| media, delivery | WF of each publisher's and camera pump's next step; WF of connecting, enqueueing, flushing and of the runtime's handler | loops with a pause and a retry |
| `LegoSpec`, `GroundSpec` | WF of the hub's poll, of tick and deadman | a loop with a sleep |
| `FlightSpec` | WF of sequence, landing and Tello steps | every wait is bounded by attempts and time-outs |
| `DemoSpec` | WF of the operation under way and of the status task | every request has a time-out of 15 s; the status task sleeps and repeats |
| `HeadSpec` | WF of the events task and of closing | a poll is answered in 5 s, a silent worker is given up after 10 s, a worker that does not end is terminated after 5 s |
| `MatterSpec` | WF of polls, requests and closing | time-outs on every controller request |

Nobody is obliged to submit, cancel, operate, connect, upload or fail, and no
deadline is obliged to pass. An adapter whose `stop` never returns is outside
the first assumption and would hold up the watchdog loop (`…/api.py:1130`).

## 4. Proofs

All theorems are of the form `Spec => …` for arbitrary constants that satisfy
the modules' named assumptions, which TLC evaluates in the runs that extend
those modules: `LanesAssumption`, `PipelineAssumption`, `FabricAssumption`,
`CommandsAssumption`, `PrinterAssumption`, `GatewayAssumption`,
`UnlockAssumption`, `PlugAssumption` and `NoRunAssumption`, `ProjectAssumption`,
`DeliveryAssumption`, `FolderAssumption`, `CameraAssumption`, `DemoAssumption`,
`GroundAssumption`, `MatterAssumption`, `FleetAssumption`, `LegoAssumption`,
`HeadsetAssumption`, `RecoveryAssumption`, `MediaAssumption`, `RecordingsAssumption`.
They say that bounds are numbers, that names are of the right kind, that
placeholders (`NoRun`, `NoEvent`, …) are not among what they stand for, that
cameras are finitely many and that every adapter profile has a node. The only
other hypotheses are the one of `OnlyTheOwnerMovesHolds`, `Renamed = {}` of
`DeliveryIsSafeHolds` and `[]WithinWindow` of `RecordingsAreKeptHolds`, each
explained below.

**DeviceLanesProofs.** `OneCommandPerDevice` is not inductive: that two tasks
never work on one device depends on both having the same lane, which depends on
a lane being dropped only by its last user. The invariant `Inv` is `LaneTypeOK`
with
- `LaneInv`: the tasks inside a lane are exactly its counted users, a lane in
  use is the one registered for its device, and its holder is the one task past
  the lock;
- `AnswerInv`: an unanswered command is in the heap or in some task's hands,
  what is in either is unanswered, and a task that works has an item.

From it: `LaneTypeCorrect`, `OneCommandPerDeviceHolds`, `AnsweredOnReturnHolds`,
`QueuedIsAttendedHolds`, `RefusedIsNotRunningHolds`. For the order of arrival,
`OrderInv` adds, over LaneOrder, that the tickets of queued commands were given
out (`TicketsAreOld`), that what was ahead of a command is known and of its device
(`AheadIsKnown`), and that of two queued commands the one that was there first has
the smaller ticket (`TicketsTellOrder`). The heap orders by rank and ticket; that
this is the order of arrival, and that no other way out of the heap lets a later
command begin, is `NeverOvertakenHolds`. All but three actions hand nothing out
(`QuietSteps`). The parts are proved in that order, each step lemma assuming the parts before it; the
lemma `OwnItemOnly` is why a task that finds its device's queue empty has been
answered: its own command is in nobody's hands.

**CommandPipelineProofs.**
- `PipelineImplementsLanes`: `Spec => LaneSpec`. `OpInv` (a suspended operator
  awaits a real device, and the watchdog loop works through expiries) is what
  the step lemma `PipelineStepIsLaneStep` needs; the rest is a case per action.
  `PipelineRunsOneCommandPerDevice` carries the mutual exclusion over.
- `PipelineTypeCorrect`.
- `OneRunPerKeyHolds`, from `LedgerInv`: a command that ran has expired or
  still holds its key. It covers expiry between the claim and a retry, which
  the `identity` run leaves out.
- `MotionNeedsRearmHolds`, from `ArmedIsGranted`.
- `OnlyTheOwnerMovesHolds`, for classrooms that do not revoke, disconnect or
  rediscover, from `OwnershipInv`: what a running session has bound is assigned
  to it. The hypothesis is necessary: section 6 has counterexamples.

**FabricProofs.** One invariant, `FabricInv`: `CommandsTypeOK`, `ServedByOne`
(an open connection serves its nodes itself), `Unshaken` (no armed session has
lost a node since it was armed), `KeyNames` (a command that was handed over is
the one its key names), `LeaseClaimed` (the holder of a control lease has been
submitted) and `MovingLeaseIsArmed`. The lemma `LeaseSteps` classifies every
step as one that withdraws arms together with their leases, one that only arms,
a lapse of one lease, or the arrival of one command. Results:
`FabricTypeCorrect`, `OpenIsReachableHolds`, `OneFramePerKeyHolds`,
`MovingLeaseIsArmedHolds`, `LostNodeNeedsRearmHolds`.

A second invariant, `OrderInv`, is about the order in which frames wait for a
connection's lock. `WireInv` and `LinkInv` say that a command waits once, on the
connection it was handed to, which serves its node. `HolderIsLast`: a command
that still waits on an open connection has its lease, or the command that has it
waits behind it, so that the adapter hears the holder last: `HolderHasLastWordHolds`.
This needs the whole history of the connections, since a lease outlives the
connection its command was sent on. `StopFollows`: while `stop_all` is at work,
a command handed over before it began is followed by a stop frame on its
connection, or a node of that connection is still to be stopped (`EarlyInv`,
`TodoInv`); so none is left when it returns: `StopAllIsLastHolds`.

`FabricRefinesArbiter` is the refinement, `Spec => FabricImplementsArbiter`. It
needs both invariants and `ArbiterInv`: a command with control is the one its
key names, and a command that was handed over has been granted control.
`DispatchIsGrant`, `TransmitIsHearing` and `OtherStepsRelease` are its three
cases; the second rests on `HolderIsLast`, and the third on `LeaseOrigin`: a
lease that is held after a step was held by the same command before it, or has
just been won. `HolderHasLastWord`, an action property of FabricCommands, is
what `Hear` asks for, stated without the abstraction; it has a theorem and no
run of its own.

**PrinterProofs.** `PrinterInv` is the type invariant with `TurnInv` (a request
past its wait holds the operation lock; nobody goes on under a print found at
start-up; a start acts on an observation made after the last start) and
`TokenInv` (a confirmation is in one place: offered, taken by one start, or
spent). From it `PrinterTypeCorrect`, `OneStartCorrect`, `StandbyCorrect`, and
the refinement `ConfirmationsCorrect`: `PrinterSpec => Confirm!ConfirmSpec`,
a case per action with the promises as the invariant the cases need.

The module holds two smaller services beside it.
- `RecoverySafety` and `WorkingAdaptersAreLeftHolds`, from `RecoveryInv`: the lock
  is held by the one that launches (`LockHolder`), and what is asked for by name
  was asked for under the confirmation it needs (`AskedConfirmed`), so that nothing
  between the request and the launcher can lose it. Of an adapter without nodes
  the second would say nothing true: the assumption excludes it.
- `WallSafety`, from `MediaInv`. `Tidy` says of every camera that a source nobody
  answers for is excused, and so is one that a cancelled registration may still
  bring back (`Excused`), and that a registration needs a fault that took the one
  before off the wall (`LivesCounted`, which bounds the lives frames are named
  by). What a call does to the registry is proved once (`RegisterEffect`,
  `PublishEffect`, `TakenDownEffect`) for the publisher that waits for it, for one
  that got an error although it was carried out, and for one that is gone. The
  proof attempt found an error of the model: the history `cut` was cleared when a
  publisher that had to tidy up found another identity's source, which it
  leaves alone. Two identities and three faults show it; the run has one of each.

**GatewayProofs.** What is hard is that a request outlives the thread that gave
it up. `GatewayInv` says of the *last* number drawn: one thread at most has it
and the lock (`OneHolder`); no number in use is above it (`Counted`); the
request that carries it exists once, on the wire or in the gateway's queue, and
while it does the gateway has neither accepted nor answered the number
(`LastOnWire`, `LastInQueue`, `NotSentYet`); it asks what the thread asked
(`AsAsked`); and a state on its way back is still true (`AnswerIsTrue`). From
it: `AwaitedIsNewHolds`, `ShownIsTrueHolds`, `RefreshSettlesHolds`: three of the
parts of `GatewaysAreTrue`, for any number of threads, requests, losses and
restarts.

`UnlockInv` is about the phones. A crash or a failed write leaves memory and file
apart, so each of the two records is `Sound` by itself (`SoundRecords`): it has
no more phones than it may, none whose id is still unused, remembers for each a
number not below the last that acted, and is cooling down if its primary phone
has unlocked, because an event acts only after it is saved. With
`FreshIsUnheard` (an id never paired has done nothing) and `WaitsOnce` (a
delivery waits for the event lock once, with its event) this gives
`PhonesAreKeptHolds` and `PhoneEventsInOrderHolds`, for any set of phones, events
and deliveries, any limits and any number of failures.

`PlugInv` is about a run of a group: `AskedSoFar` says that a plug the run neither
waits for, nor is sending to, nor failed on was asked to take its value: its last
order says so, or its relay has the value, or the order went astray after it was
written. It is stable because the event lock keeps other runs, and so other
orders, out, and because a plug whose order is done has none left that could undo
it (`DoneAtRest`), orders of earlier runs included. `OneSessionPerGroup` needs that a
session which covers the group is found by the next run, whatever an instructor
did to it. Result: `PlugGroupIsAskedHolds`, the property of the `runtime` run.

**LessonProofs.** `ProjectInv` adds to the checked parts that no file holds a
version that was not made and the one being saved is the last (`MadeVersions`),
and that a deletion gives up the acknowledged version before it removes anything
and removes the document first (`DocumentGoesFirst`). `ProjectsAreKeptHolds` is
the whole property of the `runtime` run, `OwnerStays` included, for any number
of versions, failed writes and power cuts.

`DeliveryInv` follows an intent from the glasses to its commands. `FramesAreMade`:
every frame on the way is one that was made, and a node sequence number in the
outbox names one intent. `SeenIsTaken`: what the runtime has read on this
connection, and so what it acknowledges, was stored or passed over in a paused
lesson. `OneIngestion` and `SubmittedOrPending`: a command of a stored event was
submitted, or exactly one ingestion still has it, unless the runtime crashed
between. `DeliveryInvariant` holds for any `Renamed`, and with it
`KeptIdStoredOnce`: an intent whose message id is kept is stored once.
`DeliveryIsSafeHolds` is the property of the `services` run, under the hypothesis
that every intent keeps its id (`Renamed = {}`); section 6 shows what happens
otherwise.

`RecordingsInv` is about what was heard and what is kept. `HeldOK`: what a
recorder holds is the lesson of its span, the span of one that runs reaches to the
last event published, and one that was not started holds nothing, so that a
recording begins empty. `LessonGoesOn` and `LessonKept` say what a live event and
a replay's batch add to any recording. `AgedFirst`: the recordings that are too old
are the first that were started. With it `OldestGoFirst` and `RetainedWithin`, two
lemmas about `Retained` for any set of files and any limit, give the policy; the
second counts those above the oldest one left, which `OldestOf` finds by
well-founded induction over finite sets. `save` prunes twice, which
`StopEnforces` puts together. `RecordingsAreKeptHolds` is the whole property of
the `runtime` run, for any number of recordings, replays, faults and policies,
where no life of the runtime publishes more events than the dedupe window holds
(`WithinWindow`). That is necessary: an event the window has forgotten is
published again when an adapter hands it over again, and recorded twice. The
window is 4096 events by default (`…/events.py:42`); the run's bound on readings
is its window, so it keeps within it too.

**CameraProofs.** `ImportInv` adds to `ImportsAreSafe` that the phone's lock is
held by exactly the import that automates it (`LockIsHeld`); that until it
changes the settings an import finds the user's (`Intact`), remembers them as far as
it could read them (`Recalls`), and leaves an overlay alone that it did not see
(`Spares`), so that the settings are the user's again when it ends (`UsersKept`); that an import that is over has its result, and that a service
busy with a probe has no import (`EndsWithResult`, `ProbesAlone`). `ImportsSafe`
holds for any number of cameras that share the phone. `FolderInv` adds to
`UploadsAreSafe` that a name with a hash holds that photo or nothing
(`HashesTell`), that a writer about to fill a name chose one of its photo's two
names and saw it free (`WritersChoseFree`), and that what is about to be
acknowledged is on the PC or was overwritten already (`PublishedIsKept`). From
it `UploadsSafe`, with the exception the property names: both writers between
their look at one name and their move.

**DeviceProofs.** Six bridges that share nothing, each with its invariant.
- `DemoSafety` (`DemoInv`): what a stop has read and found at rest is at rest
  until the next arm (`ToldIsSo`), and how far the stop of a closing bridge has
  come says what may still be armed or fly (`ClosingStops`).
- `GroundSafety` (`GroundInv`): each task waits only for what its step asks of
  the robot (`TasksDo`), a demonstration is over before a command acts
  (`ShowGivesWay`), and a robot that rolls while the deadman's flag is down is
  about to be stopped (`Watched`). The proof attempt found a step no earlier run
  had reached, as it takes more than one fault: the last stop of a demonstration
  fails, and nothing tries it again (`integration-sdk-py/…/bounded_demo.py:88`). The
  history `unstopped` names that case, and the run has three faults since.
- `MatterSafety` (`MatterInv`): what `set_power` works for is what the process is
  doing (`SettingServes`), and what it read is what the relay does (`ReadIsSo`).
- `FlightSafety` (`FlightInv`): what was sent is the selection's beginning
  (`SentInOrder`), and a landing under way still has in its list what was
  launched and not asked (`LandingsCover`).
- `LegoSafety` and `CompletedWasExecutedHolds` (`LegoInv`): an acknowledgement on
  the link is of an executed frame, because a number is used again only when
  nothing bears it any more (`AcksTell`, `DrivesFirst`); a bridge's command is
  under way only when no demonstration is (`ReceiverShape`).
- `HeadsetSafety` (`HeadInv`): the frames in the pipe are what the worker wrote
  from the first event not read yet, but for one "ready" and a last "fatal"
  (`FramesTell`), and what was read early and handled is the beginning of it
  (`ReadInOrder`). The lemmas `WrittenIsTold`, `ReadyIsTold`, `FailureIsTold` and
  `EventIsRead`, `ReadyIsRead`, `FailureIsRead` say of any sequences what each
  step at either end of the pipe does to the two; `LastWord` is why an "off" is
  not forgotten.

They state the safety parts, `[]` and action properties, of `BrainDevicesAreSafe`
(all three conjuncts), `RobotsAreStopped`, `PlugBridgeIsSound` and
`LegoLinkIsSound`, as the theorems above state those of `RecoveryIsSound` and
`WallIsTrue`; the other part of each is liveness.

**Only model-checked:** everything under fairness (liveness, as anything about
`ENABLED`, is beyond the proof system): `EveryRequestAnswered`, `WatchdogStops`,
`SilentNodeDisarms`, and the `[]<>` and `~>` parts of the combined properties.

## 5. Abstractions

- *Time.* Whatever has a deadline may pass it at any moment. Lengths of time,
  and so `set_physical_policy`'s effect on devices armed earlier
  (`…/runtime.py:302`), are not visible.
- *Parameters and payloads* are opaque: clamping, malformed requests, unknown
  devices, image contents, G-code. `allow_physical` is true.
- *Signatures, tokens, permissions* are left out: a modelled request is one
  that was let in.
- *Adapters* in the pipeline accept, refuse or raise in `execute`; a `stop` that
  raises is left out.
- *Audit, logs* are written and never read by the modelled code, but for the
  deletions of recordings.
- A full heap refuses any newcomer, a stop included: that is what
  `CommandQueue.push` does. A lane's lock hands over to any waiter, where the
  code's is FIFO: every holder drains the same heap in the same order.
- *Fabric:* a declared health is folded into `unavailable`; one `stop_all` at a
  time; all sessions follow one course pack; a crash is modelled, the graceful
  shutdown's `stop_nodes` is not.
- *PlugGateways:* the saved group is one plug; "off" stands for a tutor's choice
  and for the global stop; one gateway, since gateways share nothing.
- *CameraFolder:* one name for both photos, the case in which the writers meet.
- *EventDelivery:* an event and its flows are numbered by the stream;
  `Renamed` are intents whose frames get a new message id each time (empty in
  the run, see section 6).
- *LegoLink:* motion commands and stops of two ports; autonomous programs are
  left out. *GroundRobots:* a robot rolls or does not. *FleetFlight:* positions
  and telemetry are "in the air" or not, and a call may fail before or after it
  took effect. *BrainDemo:* the service arms only while nothing flies, as the
  bridge's stop takes for granted (it disarms or cancels, never both); a status is
  two facts, armed and flying; the file that lets the status be published is the
  end of the bridge. *HeadsetBridge:* readings have no values; the simulated
  source is left out.

## 6. Where the code and its documentation differ

Shown by a run each:

| run | what is said | what happens |
|---|---|---|
| `stop_all_race` | every device stops, every queue empties, all disarm (`…/pipeline.py:507`) | queues are emptied once, at the start; a command accepted during a later await is moving its device when `stop_all` returns |
| `robot_stop_frame` | an emergency stop stops the robot (`docs/operations/robomaster-leap-hardware.md:101`) | the stop frame stops the robot but not its demonstration, whose next pulse drives on (`adapters/robomaster-leap/…/independent_bridges.py:284`) |

Reproducible by hand with a configuration kept here:

| command | what is said | what happens |
|---|---|---|
| `tlc -config MCPipelineStopBlocked.cfg MCCommandPipeline` | a stop is never blocked by ownership (`…/supervisor.py:355`) | `_dispatch` acquires the write lease for stops too and refuses one while another session holds it (`…/pipeline.py:358`) |
| `tlc -config MCPipelineRevokedSession.cfg MCCommandPipeline` | take a device back from a session that will not let go (`…/pipeline.py:528`) | the session's bindings stay, and `evaluate` looks only at those |
| `tlc -config MCPipelineRediscover.cfg MCCommandPipeline` | one session at a time (`…/registry.py:173`) | `connect` writes back the record it read before its await and undoes an assignment (`…/registry.py:137`) |
| `tlc -config MCFabricReplaced.cfg MCFabric` | losing an adapter connection disarms the session (`docs/operations/synchronized-motor-control.md:45`) | a replaced connection no longer owns its nodes when it is cleaned up, and disarms nobody (`…/fabric_adapters.py:370`) |
| `tlc -config MCFolderRace.cfg MCCameras` | choose a collision-safe target without overwriting (`…/sony_camera_import.py:1327`) | the two writers choose the same free name and the later one replaces the earlier file, acknowledged or not (`AcknowledgedStays`) |
| `tlc -config MCQuietHub.cfg LegoLink` | a hub that hears nothing stops its motors (`firmware/lego-hub-agent/hub_agent.py:13`) | stopping one port clears `motors_running`, and the watchdog no longer looks at a port that still turns (`hub_agent.py:238`; `QuietHubStops`) |

Properties stated in the modules that TLC refutes when they take the place of
the property named in the run's configuration:

| property (module) | what is said | what happens |
|---|---|---|
| `LiveGroupsLeftRunning` (AdapterRecovery) | already-live adapter groups are left running (`docs/operations/device-discovery.md:42`) | a group with one missing node is relaunched as a whole (`…/fabric_discovery.py:2347`) |
| `StopReachesLaunched` (FleetFlight) | a stop lands what the sequence launched (`docs/operations/brain2devices-fabric.md:95`) | arming again forgets the aircraft of the earlier arm (`fleet_backend.py:258`) |
| `IntentStoredOnce` with `Renamed = {1}` (EventDelivery) | no duplicate delivery (`docs/architecture/current-integration-matrix.md:12`) | a fresh message id for a resent intent makes it a new event (`apps/agent-mesh-bridge/src/mapping.ts:357`) |
| `SensorReadsAreLive` (LessonRecordings) | no consumer mistakes a replay for live (`…/recorder.py:119`) | a student's sensor read returns the last history event, replayed or not (`…/student_bridge.py:165`) |
| `DeletedStaysDeleted` (LessonRecordings) | deletion is a thing a person can actually do (`…/api.py:867`) | the copy in memory stays and can be replayed (`…/api.py:870`) |
| `PrunedIsAudited` (LessonRecordings) | retention is audited (`…/audit.py`, `RETENTION_PRUNED`) | `save` prunes and drops the result |

Met while modelling, without a property:

*Pipeline and fabric*
- a command accepted while `revoke_lease` awaits the adapter's stop drives a
  device that belongs to nobody once the call returns (`…/pipeline.py:535`);
- the write lease of a device survives its disconnection (`…/registry.py:122`;
  `docs/DECISIONS.md:66`);
- binding to a session that has ended assigns the devices before the save is
  refused (`…/runtime.py:250`, `:273`);
- a watchdog's expiry is cleared before the awaited stop and not retried if
  that raises (`…/pipeline.py:581`); a raising stop also aborts `stop_all`
  (`:512`), and a raising tick the ticks of later adapters (`…/runtime.py:395`);
- a subscriber that does not read loses events when its queue of 1024 is full
  (`…/api.py:204`);
- a safe-state command is refused with `CONTROL_LEASE_CONFLICT` like any other
  (`…/fabric.py:802`);
- an adapter that reports before the dispatching task resumes gets its early
  `ACCEPTED` refused and its connection closed (`…/fabric.py:858`, `:871`);
- a lifecycle report replayed after a lost acknowledgement is refused and closes
  the connection, which replays it again
  (`docs/operations/agent-mesh-bridge.md:167`);
- arms are rows of the database and survive a restart;
- the global stop ends sessions, then nodes, then gateways, one after the other
  (`…/fabric_service.py:268`).

*Services*
- a state poll that overtakes a queued power event of the same phone makes the
  latter a replay, and a failed write leaves a change in memory that was
  answered as an error (UnlockAutomation);
- sessions left by a refused `assign_role` pile up, and a toggle decides on the
  reported state, which may be old (PlugGroup);
- an answer "accepted" means that the frame was written: its last stage is
  `DISPATCHED` (`…/fabric_unlock_automation.py:1173`). What the adapter refuses,
  fails or loses later never reaches the phone that was answered (PlugGroup);
- the lock of a gateway is a `threading.Lock`: an "on" asked before a global
  stop may be sent after the stop's "off" (PlugGateways);
- the automatic import loop spins while a manual import outlasts its interval;
  after a crash the settings an import had made count as the user's; a photo
  known by name is not copied, and the result still says all were
  (CameraImports, `…/fabric_camera.py:367`, `:436`);
- an import reads the phone's settings without checking that it could
  (`…/sony_camera_import.py:464`): of a phone lost just then it takes an empty
  answer, goes on when it is back, and "restores" by `svc power stayon false`
  (`:536`), whatever the user had (CameraImports);
- an exception in the lease sweep ends the maintenance loop; a success clears
  the back-off, so a group with a node missing for good is relaunched every pass
  (AdapterRecovery, `…/fabric_discovery.py:957`);
- an analysis of an old frame may attach to a later frame of a source
  registered anew with the same number (MediaWall, `…/fabric_media.py:272`);
- a request to a RoboMaster worker that is given up leaves its answer in the pipe
  (`adapters/robomaster-leap/…/backend.py:414`); every later request reads the
  answer of the one before it and fails, so the camera, and every request of the
  robot, is out until the adapter's process is replaced (MediaWall);
- events are stored before their commands are submitted, so a crash between
  loses the commands; a debounce window is taken before the guards and may be
  spent for nothing; one late event closes the whole connection (EventDelivery);
- the retention policy is kept in memory only; a torn file answers 500 and is
  never pruned (LessonRecordings);
- a crash between document and sidecar leaves an unowned project the next saver
  owns (ProjectFiles, `…/projects.py:196`).

*Bridges*
- two concurrent `execute` calls swallow each other's acknowledgement; a `DRIVE`
  is acknowledged when it ends, after the 0.5 s its caller waits (LegoLink);
- a cancelled Sphero pulse's thread may set the speed after the stop (GroundRobots);
  the pipe to a Tello worker, too, is out of step after a time-out
  (`adapters/tello/…/backend.py:512`);
- a cancelled takeoff call may overtake the landing; a refused second arm leaves
  the first one live; an emergency frame waits for a takeoff's confirmation
  (FleetFlight);
- a trigger that fires between a stop's look at the status and its request flies
  on, and the stop says so but does not cancel it; an arm that was being sent when
  the bridge was closed arms a trigger no bridge watches; a command that expires
  between its two validations ends the bridge (BrainDemo, `…/backend.py:156`,
  `…/bridge.py:92`);
- a blink counter that starts anew between two polls hides blinks up to its old
  value; a `fatal` frame before `ready` is dropped, and only the end of the pipe
  is reported (HeadsetBridge, `…/backend.py:118`, `:233`);
- a switch given up may happen after a stop that read "off"; a stop frame waits
  behind the running command; the clean close of a controller's socket does not
  fail its pending requests (MatterPlug, `…/backend.py:95`).

## 7. Not modelled

- *Runtime API* beyond the routes of modelled operations: authority tokens,
  static files, websockets, reads. *Fabric LAN access and authentication*: an
  allowlist and credentials. *Courses*: a plan that is read.
- *Discovery providers, installers, commissioning*: network and vendor I/O
  whose result AdapterRecovery chooses freely.
- *Camera apps, adb, slicing, G-code, the detector*: their outcome is a choice.
- *Simulators, sensor-only adapters* (Leap input): they publish readings. *Student SDK, front ends, console, headset*: clients, whose effect
  is a request. *Generated protocol types, tools, configuration*: no state.
- *The graceful shutdown* of the service, autonomous hub programs, the Tello's
  worker process, electrical readings of plugs.

## 8. Plan

1. **Composition** of UnlockAutomation with PlugGroup (the run under the event
   lock) and of PlugGroup with FabricCommands, instead of the choices PlugGroup
   makes for the fabric's outcomes.
2. **The graceful shutdown** and `stop_all` across sessions, nodes and gateways
   as one module.
3. **Event fan-out** with its bounded queues, and the command handler of the
   agent-mesh bridge with its results.
