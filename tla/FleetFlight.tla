----------------------------- MODULE FleetFlight -----------------------------
(***************************************************************************)
(* The aircraft behind one Brain2Devices service and the two kinds of      *)
(* bridge that fly them: the ordered fleet sequence, which launches its    *)
(* selection one confirmed takeoff at a time, and the Tello adapter of a   *)
(* single aircraft. Each bridge reads its frames in one loop; the sequence *)
(* is a task of its own that a stop cancels. Every call of the service is  *)
(* made by a thread, which a cancelled task leaves behind.                 *)
(***************************************************************************)
EXTENDS Naturals, SequencesExt

CONSTANTS
    Drones,         \* the aircraft of the service
    Manual,         \* those with a Tello adapter
    Orders,         \* the selections an instructor armings: aircraft in launch order
    MaxArms,        \* bound: fleet arms accepted
    MaxAirFaults    \* bound: calls that raise, and confirmations that fail

ASSUME FleetAssumption ==
    /\ Manual \subseteq Drones /\ MaxArms \in Nat /\ MaxAirFaults \in Nat
    /\ \A s \in Orders : s \in Seq(Drones) /\ s # <<>> /\ IsInjective(s)

VARIABLES
    flying,         \* the aircraft in the air, as the service reports them
    leftover,       \* calls of cancelled tasks that a thread still makes
    bridge,         \* the fleet bridge: "up", "closing" or "down"
    fleet,          \* its receive loop: the step, the aircraft still to land, none failed
    launch,         \* the sequence task: the step, the place in the order, aircraft to land
    selected,       \* _selected
    armed,          \* the one-shot arm: "no", "yes", "late"
    phase,          \* phase of the fleet's status
    manual,         \* the receive loop of each Tello adapter: step, aim and what asked for it
    frames,         \* the stop frame that waits for it, or "none"
    airFaults, armings,
    sent,           \* history: takeoffs sent since the last arm, in order
    asked,          \* history: aircraft the fleet asked to land since it sent their last takeoff
    fleetAir,       \* history: aircraft in the air that the sequence launched
    late            \* history: aircraft in the air by the takeoff of a cancelled task

serviceVars == <<flying, fleetAir, late>>
fleetVars == <<bridge, fleet, launch, selected, armed, phase>>
telloVars == <<manual, frames>>
flightVars == <<serviceVars, leftover, fleetVars, telloVars, airFaults, armings, sent, asked>>

Waiting == [step |-> "idle", todo |-> <<>>, ok |-> TRUE]
NoLaunch == [step |-> "none", at |-> 1, todo |-> <<>>]
Parked == [step |-> "idle", aim |-> "none", by |-> "none"]

FlightInit ==
    /\ flying = {} /\ leftover = {}
    /\ bridge = "up" /\ fleet = Waiting /\ launch = NoLaunch /\ selected = <<>>
    /\ armed = "no" /\ phase = "idle"
    /\ manual = [m \in Manual |-> Parked] /\ frames = [m \in Manual |-> "none"]
    /\ airFaults = 0 /\ armings = 0
    /\ sent = <<>> /\ asked = {} /\ fleetAir = {} /\ late = {}

-----------------------------------------------------------------------------
(* The service. An accepted command has its effect; a call that raises may   *)
(* have had it (the answer was late) or not (it was refused).                *)

Fault == airFaults < MaxAirFaults /\ airFaults' = airFaults + 1
NoFault == UNCHANGED airFaults

Has(who, a, d) ==
    IF a = "takeoff"
    THEN /\ flying' = flying \cup {d}
         /\ fleetAir' = IF who = "fleet" /\ d \notin flying THEN fleetAir \cup {d} ELSE fleetAir
         /\ UNCHANGED late
    ELSE flying' = flying \ {d} /\ fleetAir' = fleetAir \ {d} /\ late' = late \ {d}

Accepted(who, a, d) == Has(who, a, d) /\ NoFault
Raised(who, a, d) == Fault /\ (Has(who, a, d) \/ UNCHANGED serviceVars)

\* Polls see the aircraft as it is, or end with an error: it is disconnected, it
\* refused, or it is still not as expected at the last attempt.
Confirms(d, up) == (d \in flying) = up /\ NoFault
WaitsOn(d, up) == (d \in flying) = up /\ Fault
NeverConfirms(d, up) == IF (d \in flying) = up THEN Fault ELSE NoFault

\* The thread of a cancelled task makes its call all the same, or the call fails.
LeftoverCall(c) ==
    /\ c \in leftover /\ leftover' = leftover \ {c}
    /\ \/ /\ c.a = "takeoff" /\ c.d \notin flying /\ NoFault
          /\ flying' = flying \cup {c.d} /\ late' = late \cup {c.d}
          /\ fleetAir' = IF c.who = "fleet" THEN fleetAir \cup {c.d} ELSE fleetAir
       \/ c.a # "takeoff" /\ Accepted(c.who, c.a, c.d)
       \/ c.a = "takeoff" /\ c.d \in flying /\ NoFault /\ UNCHANGED serviceVars
       \/ Fault /\ UNCHANGED serviceVars
    /\ UNCHANGED <<fleetVars, telloVars, armings, sent, asked>>

-----------------------------------------------------------------------------
(* One ordered landing, by the sequence that failed or by a stop.            *)

LastOutcome(ok) == IF ok THEN "stopped" ELSE "failed"
Outcome(ok) == IF ok /\ fleet.ok THEN "stopped" ELSE "failed"

Lander(t) == IF t = "stop" THEN fleet ELSE launch

\* What follows the first aircraft: the next one, or the end of the operation.
Advances(t, ok) ==
    LET todo == Tail(Lander(t).todo) IN
    IF t = "stop"
    THEN /\ fleet' = [step |-> IF todo = <<>> THEN "idle" ELSE "land", todo |-> todo,
                      ok |-> todo = <<>> \/ (ok /\ fleet.ok)]
         /\ phase' = IF todo = <<>> THEN Outcome(ok) ELSE "landing"
         /\ bridge' = IF todo = <<>> /\ bridge = "closing" THEN "down" ELSE bridge
         /\ UNCHANGED launch
    ELSE /\ launch' = IF todo = <<>> THEN NoLaunch
                      ELSE [launch EXCEPT !.step = "land", !.todo = todo]
         /\ phase' = IF todo = <<>> THEN "failed" ELSE "landing"
         /\ UNCHANGED <<fleet, bridge>>

LandCall(t) ==
    LET d == Head(Lander(t).todo) IN
    /\ Lander(t).step = "land"
    /\ asked' = asked \cup {d}
    /\ \/ /\ Accepted("fleet", "land", d)
          /\ IF t = "stop"
             THEN fleet' = [fleet EXCEPT !.step = "landed?"] /\ UNCHANGED launch
             ELSE launch' = [launch EXCEPT !.step = "landed?"] /\ UNCHANGED fleet
          /\ UNCHANGED <<phase, bridge>>
       \/ Raised("fleet", "land", d) /\ Advances(t, FALSE)
    /\ UNCHANGED <<leftover, selected, armed, telloVars, armings, sent>>

LandWait(t) ==
    LET d == Head(Lander(t).todo) IN
    /\ Lander(t).step = "landed?"
    /\ \/ Confirms(d, FALSE) /\ Advances(t, TRUE)
       \/ NeverConfirms(d, FALSE) /\ Advances(t, FALSE)
    /\ UNCHANGED <<serviceVars, leftover, selected, armed, telloVars, armings, sent, asked>>

-----------------------------------------------------------------------------
(* The fleet's receive loop. *)

\* arm() is refused while a sequence runs; it reads the state before it commits.
ArmReads(order) ==
    /\ bridge = "up" /\ fleet.step = "idle" /\ launch = NoLaunch
    /\ fleet' = [fleet EXCEPT !.step = "arming", !.todo = order]
    /\ UNCHANGED <<serviceVars, leftover, bridge, launch, selected, armed, phase, telloVars,
                   airFaults, armings, sent, asked>>

ArmCommits ==
    /\ fleet.step = "arming" /\ armings < MaxArms
    /\ ToSet(fleet.todo) \cap flying = {}
    /\ selected' = fleet.todo /\ armed' = "yes" /\ phase' = "armed"
    /\ fleet' = Waiting /\ armings' = armings + 1
    /\ sent' = <<>>
    /\ UNCHANGED <<serviceVars, leftover, bridge, launch, telloVars, airFaults, asked>>

\* Not landed, not connected or too little battery: an earlier arm stays.
ArmRefused ==
    /\ fleet.step = "arming"
    /\ IF ToSet(fleet.todo) \cap flying = {} THEN Fault ELSE NoFault
    /\ fleet' = Waiting
    /\ UNCHANGED <<serviceVars, leftover, bridge, launch, selected, armed, phase, telloVars,
                   armings, sent, asked>>

ArmGrowsLate ==
    /\ armed = "yes" /\ armed' = "late"
    /\ UNCHANGED <<serviceVars, leftover, bridge, fleet, launch, selected, phase, telloVars,
                   airFaults, armings, sent, asked>>

\* Any status projection expires the arm.
ArmExpires ==
    /\ armed = "late" /\ armed' = "no" /\ phase' = "expired"
    /\ UNCHANGED <<serviceVars, leftover, bridge, fleet, launch, selected, telloVars,
                   airFaults, armings, sent, asked>>

TriggerKeepsArm ==
    /\ bridge = "up" /\ fleet.step = "idle" /\ armed = "yes" /\ launch = NoLaunch
    /\ phase' = "launching"
    /\ launch' = [NoLaunch EXCEPT !.step = "check"]
    /\ UNCHANGED <<serviceVars, leftover, bridge, fleet, selected, armed, telloVars,
                   airFaults, armings, sent, asked>>

Trigger ==
    /\ bridge = "up" /\ fleet.step = "idle" /\ armed = "yes"
    /\ armed' = "no" /\ phase' = "launching"
    /\ launch' = [NoLaunch EXCEPT !.step = "check"]
    /\ UNCHANGED <<serviceVars, leftover, bridge, fleet, selected, telloVars,
                   airFaults, armings, sent, asked>>

\* The call a cancelled task was waiting for: its thread has made it, or will.
LeavesBehind(who, a, d) ==
    \/ leftover' = leftover \cup {[who |-> who, a |-> a, d |-> d]} /\ UNCHANGED serviceVars
    \/ Has(who, a, d) /\ UNCHANGED leftover

NothingBehind == UNCHANGED <<serviceVars, leftover>>

LaunchCall ==
    IF launch.step = "takeoff" THEN <<"takeoff", selected[launch.at]>>
    ELSE IF launch.step = "land" THEN <<"land", Head(launch.todo)>>
    ELSE <<>>

\* stop(): the sequence is cancelled, then all selected aircraft land in order.
StopBegins ==
    /\ launch' = NoLaunch /\ armed' = "no"
    /\ fleet' = [Waiting EXCEPT !.step = IF selected = <<>> THEN "idle" ELSE "land",
                                !.todo = selected]
    /\ phase' = IF selected = <<>> THEN "stopped" ELSE "landing"

Stop ==
    /\ bridge = "up" /\ fleet.step = "idle"
    /\ StopBegins
    /\ IF LaunchCall # <<>> THEN LeavesBehind("fleet", LaunchCall[1], LaunchCall[2])
       ELSE NothingBehind
    /\ UNCHANGED <<bridge, selected, telloVars, airFaults, armings, sent, asked>>

\* Deactivated, or a task of the bridge ended: the receive loop is cancelled
\* wherever it is, and close() stops the fleet.
BridgeCloses ==
    /\ bridge = "up"
    /\ bridge' = IF selected = <<>> THEN "down" ELSE "closing"
    /\ StopBegins
    /\ IF LaunchCall # <<>> THEN LeavesBehind("fleet", LaunchCall[1], LaunchCall[2])
       ELSE IF fleet.step = "land" THEN LeavesBehind("fleet", "land", Head(fleet.todo))
       ELSE NothingBehind
    /\ UNCHANGED <<selected, telloVars, airFaults, armings, sent, asked>>

\* The process waits for its threads; the next one knows nothing of this one.
BridgeStarts ==
    /\ bridge = "down" /\ \A c \in leftover : c.who # "fleet"
    /\ bridge' = "up" /\ fleet' = Waiting /\ launch' = NoLaunch
    /\ selected' = <<>> /\ armed' = "no" /\ phase' = "idle" /\ sent' = <<>>
    /\ UNCHANGED <<serviceVars, leftover, telloVars, airFaults, armings, asked>>

-----------------------------------------------------------------------------
(* The sequence. *)

LaunchedOnly == SubSeq(selected, 1, launch.at - 1)
Attempted == SubSeq(selected, 1, launch.at)

OneTooMany == launch.at <= Len(selected)
MoreToLaunch == launch.at < Len(selected)

FailsWith(todo) ==
    IF todo = <<>> THEN launch' = NoLaunch /\ phase' = "failed"
    ELSE launch' = [launch EXCEPT !.step = "land", !.todo = todo] /\ phase' = "landing"

LaunchCheck ==
    LET d == selected[launch.at] IN
    /\ launch.step = "check"
    /\ \/ /\ d \notin flying /\ NoFault
          /\ launch' = [launch EXCEPT !.step = "takeoff"]
          /\ sent' = Append(sent, d) /\ asked' = asked \ {d}
          /\ UNCHANGED phase
       \/ /\ IF d \in flying THEN NoFault ELSE Fault
          /\ FailsWith(LaunchedOnly)
          /\ UNCHANGED <<sent, asked>>
    /\ UNCHANGED <<serviceVars, leftover, bridge, fleet, selected, armed, telloVars, armings>>

LaunchTakeoff ==
    LET d == selected[launch.at] IN
    /\ launch.step = "takeoff"
    /\ \/ /\ Accepted("fleet", "takeoff", d)
          /\ launch' = [launch EXCEPT !.step = "flying?"] /\ UNCHANGED phase
       \/ Raised("fleet", "takeoff", d) /\ FailsWith(Attempted)
    /\ UNCHANGED <<leftover, bridge, fleet, selected, armed, telloVars, armings, sent, asked>>

LaunchWait ==
    LET d == selected[launch.at] IN
    /\ launch.step = "flying?"
    /\ \/ /\ Confirms(d, TRUE)
          /\ IF MoreToLaunch
             THEN launch' = [launch EXCEPT !.step = "pause"] /\ UNCHANGED phase
             ELSE launch' = NoLaunch /\ phase' = "completed"
       \/ NeverConfirms(d, TRUE) /\ FailsWith(Attempted)
    /\ UNCHANGED <<serviceVars, leftover, bridge, fleet, selected, armed, telloVars, armings,
                   sent, asked>>

LaunchNext ==
    /\ launch.step = "pause"
    /\ launch' = [launch EXCEPT !.step = "check", !.at = @ + 1]
    /\ UNCHANGED <<serviceVars, leftover, bridge, fleet, selected, armed, phase, telloVars,
                   airFaults, armings, sent, asked>>

-----------------------------------------------------------------------------
(* The Tello adapters. *)

Untouched == <<fleetVars, armings, sent, asked>>

\* A landing or an emergency stop first asks whether the aircraft is down.
FirstStep(aim) == IF aim \in {"takeoff", "move"} THEN aim ELSE "down?"

TelloCommand(m, aim) ==
    /\ manual[m].step = "idle" /\ frames[m] = "none"
    /\ manual' = [manual EXCEPT ![m] = [step |-> FirstStep(aim), aim |-> aim, by |-> "command"]]
    /\ UNCHANGED <<Untouched, serviceVars, leftover, frames, airFaults>>

\* A stop frame of the runtime waits until the loop reads again.
FrameArrives(m, aim) ==
    /\ frames[m] = "none" /\ manual[m].step \notin {"off", "idle"} /\ manual[m].by # "close"
    /\ aim \in {"land", "emergency"}
    /\ frames' = [frames EXCEPT ![m] = aim]
    /\ UNCHANGED <<Untouched, serviceVars, leftover, manual, airFaults>>

FrameIsRead(m) ==
    /\ manual[m].step = "idle" /\ frames[m] # "none"
    /\ manual' = [manual EXCEPT ![m] = [step |-> "down?", aim |-> frames[m], by |-> "frame"]]
    /\ frames' = [frames EXCEPT ![m] = "none"]
    /\ UNCHANGED <<Untouched, serviceVars, leftover, airFaults>>

\* The operation is over. An error of a stop frame ends the bridge, which then
\* lands once more; nothing is done about an error of that.
TelloEnds(m, ok) ==
    manual' = [manual EXCEPT ![m] =
        IF manual[m].by = "close" THEN [Parked EXCEPT !.step = "off"]
        ELSE IF manual[m].by = "frame" /\ ~ok
             THEN [step |-> "down?", aim |-> "land", by |-> "close"]
        ELSE Parked]

FramesLost(m, ok) ==
    frames' = IF manual[m].by = "frame" /\ ~ok THEN [frames EXCEPT ![m] = "none"] ELSE frames

TelloIsDown(m) ==
    /\ manual[m].step = "down?"
    /\ \/ m \notin flying /\ NoFault /\ TelloEnds(m, TRUE)
       \/ /\ IF m \in flying THEN NoFault ELSE Fault
          /\ manual' = [manual EXCEPT ![m].step = manual[m].aim]
    /\ UNCHANGED <<Untouched, serviceVars, leftover, frames>>

TelloCall(m) ==
    LET aim == manual[m].aim IN
    /\ manual[m].step = aim /\ aim # "move"
    /\ \/ /\ Accepted("tello", aim, m)
          /\ IF aim = "emergency" THEN TelloEnds(m, TRUE)
             ELSE manual' = [manual EXCEPT ![m].step = "wait"]
          /\ UNCHANGED frames
       \/ Raised("tello", aim, m) /\ TelloEnds(m, FALSE) /\ FramesLost(m, FALSE)
    /\ UNCHANGED <<Untouched, leftover>>

TelloWait(m) ==
    LET up == manual[m].aim = "takeoff" IN
    /\ manual[m].step = "wait"
    /\ \/ Confirms(m, up) /\ TelloEnds(m, TRUE) /\ UNCHANGED frames
       \/ NeverConfirms(m, up) /\ TelloEnds(m, FALSE) /\ FramesLost(m, FALSE)
    /\ UNCHANGED <<Untouched, serviceVars, leftover>>

TelloMoves(m) ==
    /\ manual[m].step = "move" /\ TelloEnds(m, TRUE)
    /\ UNCHANGED <<Untouched, serviceVars, leftover, frames, airFaults>>

\* The bridge is deactivated: the receive loop is cancelled, the aircraft landed.
TelloCloses(m) ==
    /\ manual[m].step # "off" /\ manual[m].by # "close"
    /\ manual' = [manual EXCEPT ![m] = [step |-> "down?", aim |-> "land", by |-> "close"]]
    /\ frames' = [frames EXCEPT ![m] = "none"]
    /\ IF manual[m].step \in {"takeoff", "land", "emergency"}
       THEN LeavesBehind("tello", manual[m].step, m) ELSE NothingBehind
    /\ UNCHANGED <<Untouched, airFaults>>

TelloStarts(m) ==
    /\ manual[m].step = "off" /\ \A c \in leftover : c.who # "tello"
    /\ manual' = [manual EXCEPT ![m] = Parked]
    /\ UNCHANGED <<Untouched, serviceVars, leftover, frames, airFaults>>

-----------------------------------------------------------------------------

SequenceStep == LaunchCheck \/ LaunchTakeoff \/ LaunchWait \/ LaunchNext
Landing == \E t \in {"stop", "sequence"} : LandCall(t) \/ LandWait(t)
Arming == ArmCommits \/ ArmRefused
TelloStep(m) == FrameIsRead(m) \/ TelloIsDown(m) \/ TelloCall(m) \/ TelloWait(m) \/ TelloMoves(m)

FlightNext ==
    \/ \E order \in Orders : ArmReads(order)
    \/ Arming \/ ArmGrowsLate \/ ArmExpires \/ Trigger \/ Stop \/ BridgeCloses \/ BridgeStarts
    \/ SequenceStep \/ Landing
    \/ \E c \in leftover : LeftoverCall(c)
    \/ \E m \in Manual :
        \/ \E aim \in {"takeoff", "move", "land", "emergency"} :
              TelloCommand(m, aim) \/ FrameArrives(m, aim)
        \/ TelloStep(m) \/ TelloCloses(m) \/ TelloStarts(m)

\* Every wait of a bridge is bounded by its own attempts and timeouts.
FlightFairness ==
    /\ WF_flightVars(SequenceStep \/ LandCall("sequence") \/ LandWait("sequence"))
    /\ WF_flightVars(LandCall("stop") \/ LandWait("stop"))
    /\ \A m \in Manual : WF_flightVars(TelloStep(m))

FlightSpec == FlightInit /\ [][FlightNext]_flightVars /\ FlightFairness

-----------------------------------------------------------------------------
(* Properties *)

\* Aircraft and tasks are in states there are, and a launch is at an aircraft that
\* was selected.
FlightTypeOK ==
    /\ flying \subseteq Drones /\ fleetAir \subseteq flying /\ late \subseteq flying
    /\ leftover \subseteq [who : {"fleet", "tello"}, a : {"takeoff", "land", "emergency"}, d : Drones]
    /\ bridge \in {"up", "closing", "down"}
    /\ fleet.step \in {"idle", "arming", "land", "landed?"}
    /\ launch.step \in {"none", "check", "takeoff", "flying?", "pause", "land", "landed?"}
    /\ launch.step # "none" => launch.at \in DOMAIN selected
    /\ selected \in Orders \cup {<<>>} /\ armed \in {"no", "yes", "late"}
    /\ DOMAIN manual = Manual /\ asked \subseteq Drones

\* One arm sends each selected aircraft at most one takeoff, in the order selected,
\* and only while every aircraft before it was confirmed in the air: whatever
\* commands, expiries and stops came between.
OneLaunchPerArm == IsPrefix(sent, selected)

\* An aircraft the sequence may have launched has been asked to land before a stop
\* or a failure is reported, whichever call failed and whoever was cancelled.
AttemptedAreAskedToLand ==
    phase \in {"stopped", "failed"} /\ launch = NoLaunch => ToSet(sent) \subseteq asked

\* A stop that reports every landing confirmed leaves no selected aircraft in the
\* air that the sequence launched, but for the takeoff of a cancelled task.
StoppedFleetIsDown == phase = "stopped" => ToSet(selected) \cap fleetAir \subseteq late

\* The same of every aircraft the sequence launched, also before the last arm.
StopReachesLaunched == phase = "stopped" => fleetAir \subseteq late

\* A stop frame is read at last, once the operation under way and the commands that
\* came before it on the same connection are through.
FramesAreRead == \A m \in Manual : []<>(frames[m] = "none")

\* A landing of the fleet comes to its end.
StopsAreAnswered == []<>(phase # "landing")

\* The fleet launches what was armed, once, and brings down what it launched;
\* every stop is taken up and comes to an end.
FlightsAreSafe ==
    /\ [](FlightTypeOK /\ OneLaunchPerArm /\ AttemptedAreAskedToLand /\ StoppedFleetIsDown)
    /\ FramesAreRead /\ StopsAreAnswered
=============================================================================
