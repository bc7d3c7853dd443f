---------------------------- MODULE GroundRobots ----------------------------
(***************************************************************************)
(* One ground robot and its Fabric bridge: Dash (a Bluetooth write is one  *)
(* packet), a Sphero BOLT or Ollie (two packets written by a thread) and a *)
(* RoboMaster (a worker process asked over a pipe). Three tasks of one     *)
(* event loop use the robot under one lock: the receive loop with commands *)
(* and the instructor's stop frames, the bounded demonstration, and the    *)
(* tick with the deadman. Cancelling a task interrupts it wherever it      *)
(* waits; what it had already handed over still happens.                   *)
(***************************************************************************)
EXTENDS Naturals

CONSTANTS
    Kinds,          \* "dash", "sphero", "robomaster"
    MaxFaults       \* bound: writes that raise, whether or not they had their effect

ASSUME GroundAssumption ==
    Kinds \subseteq {"dash", "sphero", "robomaster"} /\ Kinds # {} /\ MaxFaults \in Nat

VARIABLES
    robotKind,      \* the robot
    recv,           \* the receive loop: its step, and what it works on
    show,           \* the task of the bounded demonstration
    tick,           \* the tick task
    doing,          \* what each task waits for the robot to do; the lock's holder has one
    ghost,          \* threads whose task was cancelled
    outOfStep,      \* an answer nobody read is left in the worker's pipe
    rolling,        \* the robot moves, once what was handed over is done
    active,         \* _velocity_active
    lapsed,         \* the deadman's time since the last velocity is over
    groundFaults,   \* counts faults, for the bound
    lastStop,       \* history: the stop that was the last word, or "none"
    unstopped,      \* history: a demonstration's last stop raised, and no write returned since
    haunted         \* history: a cancelled task's thread has set a speed

groundVars == <<robotKind, recv, show, tick, doing, ghost, outOfStep, rolling, active, lapsed,
                groundFaults, lastStop, unstopped, haunted>>

RobotTasks == {"command", "show", "deadman"}
Ready == [step |-> "idle", what |-> "none"]
deviceVars == <<robotKind, groundFaults, unstopped, haunted>>
watchVars == <<active, lapsed>>

GroundInit ==
    /\ robotKind \in Kinds
    /\ recv = Ready /\ show = "none" /\ tick = "sleeping"
    /\ doing = [t \in RobotTasks |-> "none"] /\ ghost = [t \in RobotTasks |-> "none"]
    /\ outOfStep = FALSE /\ rolling = FALSE /\ active = FALSE /\ lapsed = FALSE
    /\ groundFaults = 0 /\ lastStop = "none" /\ unstopped = FALSE /\ haunted = FALSE

-----------------------------------------------------------------------------
(* The robot, as the tasks use it. *)

Roll == IF robotKind = "sphero" THEN "aim" ELSE "go"
Moves(o) == IF o = "go" THEN TRUE ELSE IF o = "stop" THEN FALSE ELSE rolling

TakesAnyway(t, o) == doing[t] = "none" /\ doing' = [doing EXCEPT ![t] = o]

\* async with the write lock (or the worker's request lock).
Takes(t, o) == (\A u \in RobotTasks : doing[u] = "none") /\ doing' = [doing EXCEPT ![t] = o]

\* The Sphero's heading is written; its speed follows, in the same thread.
Aims(t) ==
    /\ doing[t] = "aim" /\ doing' = [doing EXCEPT ![t] = "go"]
    /\ UNCHANGED <<deviceVars, recv, show, tick, ghost, outOfStep, rolling, watchVars, lastStop>>

\* A RoboMaster that is out of step does as it is told, but the answer read
\* belongs to an earlier request. A stop swallows that, everything else raises.
Returns(t, o) ==
    /\ doing[t] = o /\ o \in {"go", "stop", "light"}
    /\ outOfStep => o = "stop"
    /\ doing' = [doing EXCEPT ![t] = "none"]
    /\ rolling' = Moves(o)
    /\ unstopped' = (unstopped /\ o = "light")
    /\ UNCHANGED <<robotKind, groundFaults, haunted, ghost, outOfStep>>

Raises(t) ==
    /\ doing[t] # "none"
    /\ doing' = [doing EXCEPT ![t] = "none"]
    /\ IF robotKind = "robomaster"
       THEN /\ doing[t] # "stop" \/ ~outOfStep
            /\ rolling' = Moves(doing[t])
            /\ outOfStep' = TRUE
            /\ groundFaults' = groundFaults + (IF outOfStep THEN 0 ELSE 1)
       ELSE /\ rolling' \in {rolling, Moves(doing[t])}
            /\ groundFaults' = groundFaults + 1 /\ UNCHANGED outOfStep
    /\ groundFaults' <= MaxFaults
    /\ unstopped' = (unstopped \/ (t = "show" /\ show = "ending"))
    /\ UNCHANGED <<robotKind, ghost, haunted>>

\* A robot's stop that raises: the RoboMaster's never does.
StopRaises(t) == doing[t] = "stop" /\ robotKind # "robomaster" /\ Raises(t)

\* Cancelled tasks: the thread goes on, a packet may be out, an answer is left.
Abandons(ts) ==
    /\ doing' = [t \in RobotTasks |-> IF t \in ts THEN "none" ELSE doing[t]]
    /\ IF robotKind = "sphero"
       THEN /\ \A t \in ts : doing[t] # "none" => ghost[t] = "none"
            /\ ghost' = [t \in RobotTasks |-> IF t \in ts /\ doing[t] # "none" THEN doing[t] ELSE ghost[t]]
       ELSE UNCHANGED ghost
    /\ IF robotKind = "sphero" THEN UNCHANGED rolling
       ELSE \E o \in {doing[t] : t \in ts} \cup {"none"} :
            /\ robotKind = "robomaster" /\ (\E t \in ts : doing[t] # "none") => o # "none"
            /\ rolling' = Moves(o)
    /\ outOfStep' = (outOfStep \/ (robotKind = "robomaster" /\ \E t \in ts : doing[t] # "none"))

GhostWrites(t) ==
    /\ ghost[t] # "none"
    /\ ghost' = [ghost EXCEPT ![t] = IF @ = "aim" THEN "go" ELSE "none"]
    /\ rolling' = Moves(ghost[t])
    /\ haunted' = (haunted \/ ghost[t] = "go")
    /\ UNCHANGED <<robotKind, groundFaults, unstopped, recv, show, tick, doing, outOfStep, watchVars, lastStop>>

\* The flags of the deadman. The RoboMaster's worker watches by itself.
Watch(moving) ==
    /\ active' = (moving /\ robotKind # "robomaster")
    /\ lapsed' = FALSE

-----------------------------------------------------------------------------
(* The receive loop. *)

\* safe_stop cancels the demonstration and then always stops the robot. The
\* RoboMaster's bridge calls the robot's stop instead, but not when it closes.
ForSafety == {"frame", "failure", "closing"}
OnlyStops(what) == robotKind = "robomaster" /\ what \in {"frame", "failure"}

ReceiveOperation(what) ==
    /\ recv = Ready /\ what \in {"go", "halt", "light", "show", "frame"}
    /\ recv' = [step |-> CASE what = "light" -> "acting"
                           [] OnlyStops(what) -> "stopping"
                           [] OTHER -> "cancelling",
                what |-> what]
    /\ lastStop' = IF what \in {"go", "show"} THEN "none" ELSE lastStop
    /\ UNCHANGED <<deviceVars, show, tick, doing, ghost, outOfStep, rolling, watchVars>>

RestsOrOver == show \in {"none", "resting"}

ShowIsOver == show = "none"

\* cancel, with nothing to cancel.
NothingToCancel ==
    /\ recv.step = "cancelling" /\ ShowIsOver
    /\ recv' = [recv EXCEPT !.step = IF recv.what \in ForSafety THEN "stopping" ELSE "acting"]
    /\ UNCHANGED <<deviceVars, show, tick, doing, ghost, outOfStep, rolling, watchVars, lastStop>>

\* A cancelled demonstration still ends with its own stop, unless it was at it.
CancelShow ==
    /\ recv.step = "cancelling" /\ show # "none"
    /\ Abandons({"show"})
    /\ show' = IF show = "ending" THEN "none" ELSE "ending"
    /\ recv' = [recv EXCEPT !.step = "awaiting"]
    /\ UNCHANGED <<deviceVars, tick, watchVars, lastStop>>

ShowIsCancelled ==
    /\ recv.step = "awaiting" /\ ShowIsOver
    /\ recv' = [recv EXCEPT !.step = "stopping"]
    /\ UNCHANGED <<deviceVars, show, tick, doing, ghost, outOfStep, rolling, watchVars, lastStop>>

CommandWrites ==
    /\ \/ recv.step = "stopping" /\ Takes("command", "stop")
       \/ recv.step = "acting" /\ recv.what = "halt" /\ Takes("command", "stop")
       \/ recv.step = "acting" /\ recv.what = "go" /\ Takes("command", Roll)
       \/ recv.step = "acting" /\ recv.what = "light" /\ Takes("command", "light")
    /\ UNCHANGED <<deviceVars, recv, show, tick, ghost, outOfStep, rolling, watchVars, lastStop>>

StartShow ==
    /\ recv = [step |-> "acting", what |-> "show"]
    /\ show' = "pulsing" /\ recv' = Ready
    /\ UNCHANGED <<deviceVars, tick, doing, ghost, outOfStep, rolling, watchVars, lastStop>>

AfterStop(what) == [step |-> IF what = "closing" THEN "closed" ELSE "idle", what |-> "none"]

CommandReturns ==
    /\ \E o \in {"go", "stop", "light"} :
        /\ Returns("command", o)
        /\ IF o = "light" THEN UNCHANGED watchVars ELSE Watch(o = "go")
    /\ recv' = CASE recv.step = "acting" -> Ready
                 [] recv.what \in ForSafety -> AfterStop(recv.what)
                 [] OTHER -> [recv EXCEPT !.step = "acting"]
    /\ lastStop' = IF recv' = Ready /\ recv.what \in {"halt", "frame"} THEN recv.what ELSE lastStop
    /\ UNCHANGED <<show, tick>>

\* A command that raised is followed by a safe stop; a stop that raises ends
\* the bridge, and the one it makes while it closes ends in the disconnect.
AfterFailure ==
    CASE recv.what \in {"frame", "failure"} -> [step |-> "cancelling", what |-> "closing"]
      [] recv.what = "closing" -> AfterStop("closing")
      [] OTHER -> [step |-> IF OnlyStops("failure") THEN "stopping" ELSE "cancelling",
                   what |-> "failure"]

CommandRaises ==
    /\ IF doing["command"] = "stop" THEN StopRaises("command") ELSE Raises("command")
    /\ recv' = AfterFailure
    /\ UNCHANGED <<show, tick, watchVars, lastStop>>

\* The socket closes, another task fails, or the launcher ends the lesson.
GroundBridgeCloses ==
    /\ recv.step # "closed" /\ recv.what # "closing"
    /\ Abandons(IF recv.step = "awaiting" THEN RobotTasks ELSE {"command", "deadman"})
    /\ recv' = [step |-> IF recv.step = "awaiting" THEN "stopping" ELSE "cancelling",
                what |-> "closing"]
    /\ show' = IF recv.step = "awaiting" THEN "none" ELSE show
    /\ tick' = "ended"
    /\ UNCHANGED <<deviceVars, watchVars, lastStop>>

-----------------------------------------------------------------------------
(* The demonstration: pulses forward, a stop, pulses back, a stop. *)

ShowPulses ==
    /\ show \in {"pulsing", "turning", "ending"}
    /\ Takes("show", IF show = "pulsing" THEN Roll ELSE "stop")
    /\ UNCHANGED <<deviceVars, recv, show, tick, ghost, outOfStep, rolling, watchVars, lastStop>>

ShowReturns ==
    /\ \E o \in {"go", "stop"} : Returns("show", o) /\ Watch(o = "go")
    /\ show' = IF show = "ending" THEN "none" ELSE "resting"
    /\ UNCHANGED <<recv, tick, lastStop>>

ShowRests(next) ==
    /\ show = "resting" /\ next \in {"pulsing", "turning", "ending"}
    /\ show' = next
    /\ UNCHANGED <<deviceVars, recv, tick, doing, ghost, outOfStep, rolling, watchVars, lastStop>>

ShowRaises ==
    /\ IF doing["show"] = "stop" THEN StopRaises("show") ELSE Raises("show")
    /\ show' = IF show = "ending" THEN "none" ELSE "ending"
    /\ UNCHANGED <<recv, tick, watchVars, lastStop>>

-----------------------------------------------------------------------------
(* The tick: the deadman first, then the sensors, in one task. *)

DeadmanExpires ==
    /\ active /\ ~lapsed /\ lapsed' = TRUE
    /\ UNCHANGED <<deviceVars, recv, show, tick, doing, ghost, outOfStep, rolling, active, lastStop>>

DueIfShown == active /\ lapsed /\ show # "none"

Due == active /\ lapsed

TickLooks ==
    /\ robotKind # "robomaster" /\ tick = "sleeping"
    /\ tick' = IF Due THEN "stopping" ELSE "reading"
    /\ UNCHANGED <<deviceVars, recv, show, doing, ghost, outOfStep, rolling, watchVars, lastStop>>

DeadmanWrites ==
    /\ tick = "stopping" /\ Takes("deadman", "stop")
    /\ UNCHANGED <<deviceVars, recv, show, tick, ghost, outOfStep, rolling, watchVars, lastStop>>

DeadmanReturns ==
    /\ Returns("deadman", "stop") /\ Watch(FALSE)
    /\ tick' = "reading"
    /\ UNCHANGED <<recv, show, lastStop>>

GivesUp == Watch(FALSE)

TriesAgain == UNCHANGED watchVars

DeadmanRaises ==
    /\ StopRaises("deadman") /\ TriesAgain
    /\ tick' = "reading"
    /\ UNCHANGED <<recv, show, lastStop>>

TickSleeps ==
    /\ tick = "reading" /\ tick' = "sleeping"
    /\ UNCHANGED <<deviceVars, recv, show, doing, ghost, outOfStep, rolling, watchVars, lastStop>>

\* The worker's command pump: a velocity that is not repeated stops.
PumpStops ==
    /\ robotKind = "robomaster" /\ rolling /\ rolling' = FALSE
    /\ UNCHANGED <<deviceVars, recv, show, tick, doing, ghost, outOfStep, watchVars, lastStop>>

GroundNext ==
    \/ \E t \in RobotTasks : Aims(t) \/ GhostWrites(t)
    \/ \E what \in {"go", "halt", "light", "show", "frame"} : ReceiveOperation(what)
    \/ NothingToCancel \/ CancelShow \/ ShowIsCancelled \/ CommandWrites \/ StartShow
    \/ CommandReturns \/ CommandRaises \/ GroundBridgeCloses
    \/ ShowPulses \/ ShowReturns \/ ShowRaises
    \/ \E next \in {"pulsing", "turning", "ending"} : ShowRests(next)
    \/ DeadmanExpires \/ TickLooks \/ DeadmanWrites \/ DeadmanReturns \/ DeadmanRaises
    \/ TickSleeps \/ PumpStops

GroundFairness ==
    /\ WF_groundVars(DeadmanExpires) /\ WF_groundVars(TickLooks \/ TickSleeps)
    /\ WF_groundVars(DeadmanWrites \/ DeadmanReturns)
    /\ WF_groundVars(PumpStops)

GroundSpec == GroundInit /\ [][GroundNext]_groundVars /\ GroundFairness

-----------------------------------------------------------------------------
Ops == {"none", "aim", "go", "stop", "light"}

(* One task at a time speaks to the robot, whichever was cancelled or raised. *)
GroundTypeOK ==
    /\ robotKind \in Kinds
    /\ recv \in [step : {"idle", "cancelling", "awaiting", "stopping", "acting", "closed"},
                 what : {"none", "go", "halt", "light", "show"} \cup ForSafety]
    /\ show \in {"none", "pulsing", "turning", "resting", "ending"}
    /\ tick \in {"sleeping", "stopping", "reading", "ended"}
    /\ doing \in [RobotTasks -> Ops] /\ ghost \in [RobotTasks -> Ops]
    /\ \A t, u \in RobotTasks : doing[t] # "none" /\ doing[u] # "none" => t = u
    /\ outOfStep \in BOOLEAN /\ rolling \in BOOLEAN /\ active \in BOOLEAN /\ lapsed \in BOOLEAN
    /\ groundFaults \in 0..MaxFaults /\ lastStop \in {"none", "halt", "frame"}
    /\ unstopped \in BOOLEAN
    /\ haunted \in BOOLEAN

(* A robot that nobody is dealing with any more moves only while the       *)
(* deadman's flag says so: whatever was cancelled, raised or superseded,    *)
(* unless a thread went on after its task was cancelled, or the very last   *)
(* stop of a demonstration raised: nothing tries that one again.            *)
WatchedWhileRolling ==
    rolling /\ robotKind # "robomaster" /\ recv = Ready /\ show = "none"
      /\ (\A t \in RobotTasks : doing[t] = "none") /\ ~haunted /\ ~unstopped
    => active

(* After a stop command is answered the robot stays where it is until the  *)
(* next command: no pulse of a demonstration it ended follows it, unless a  *)
(* thread of that pulse went on.                                            *)
StopCommandHolds == lastStop = "halt" /\ recv = Ready /\ ~haunted => ~rolling

(* docs/operations/robomaster-leap-hardware.md:101: "session emergency     *)
(* stop, or command silence stops the robot".  Nothing that answers the     *)
(* instructor's stop frame ends a RoboMaster's demonstration, which drives  *)
(* on with its next pulse.                                                  *)
EmergencyStopHolds == lastStop = "frame" /\ recv = Ready => ~rolling

(* When no command comes and no demonstration runs, the robot comes to      *)
(* rest, although the deadman shares a task with the sensors and its stop   *)
(* may fail.                                                                *)
ComesToRest ==
    []<>(~rolling \/ haunted \/ unstopped \/ recv # Ready \/ show # "none")

(* A ground robot is watched while it rolls, stays stopped and comes to     *)
(* rest.                                                                    *)
RobotsAreStopped ==
    [](GroundTypeOK /\ WatchedWhileRolling /\ StopCommandHolds) /\ ComesToRest
=============================================================================
