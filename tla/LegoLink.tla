------------------------------ MODULE LegoLink ------------------------------
(***************************************************************************)
(* A LEGO hub, the frames between it and its host adapter, and the tasks   *)
(* of one event loop that use the adapter: the commands (a runtime lane,   *)
(* or the receive loop of the Fabric bridge), the bounded demonstration,   *)
(* and the tick that feeds the hub's watchdog and polls its sensors.       *)
(* Whoever reads the link takes every line that is there: a line that is   *)
(* not the answer the reader waits for is turned into an event or dropped. *)
(***************************************************************************)
EXTENDS Naturals, Sequences, FiniteSets, SequencesExt

CONSTANTS
    Ports,           \* motor ports of the hub
    Hosts,           \* who drives the adapter: "runtime", "bridge"
    FrameIds,        \* sequence numbers; 10000 in the code, more than can be in flight
    MaxInFlight      \* bound: frames on their way to the hub

ASSUME LegoAssumption ==
    /\ Hosts \subseteq {"runtime", "bridge"} /\ Hosts # {}
    /\ FrameIds \subseteq Nat \ {0} /\ MaxInFlight \in Nat

VARIABLES
    host,            \* which host this is
    hubLink,         \* the Bluetooth link
    connected,       \* the adapter's own view of it
    toHub, toHost,   \* frames under way, and lines the transport has received
    waiting,         \* the frame whose answer each task waits for, or 0
    receiver,        \* the task of the commands, and what it does next
    demo,            \* the demonstration task
    running,         \* motors that turn
    watched,         \* motors_running: whether the hub's watchdog looks at them
    driving,         \* the hub is inside a drive and reads nothing
    silent,          \* no frame for a watchdog window
    fabricSees,      \* the node's state in its last heartbeat to the fabric
    executed,        \* history: frames the hub has executed
    lastMotion,      \* history: the last frame sent about motion
    partStopped      \* history: one motor was stopped while another turned

legoVars == <<host, hubLink, connected, toHub, toHost, waiting, receiver, demo, running, watched,
              driving, silent, fabricSees, executed, lastMotion, partStopped>>

Tasks == {"command", "demo", "poll"}
Idling == [step |-> "idle", next |-> "none"]
hubVars == <<running, watched, driving, silent, partStopped>>
lineVars == <<toHub, toHost, executed>>

LegoInit ==
    /\ host \in Hosts
    /\ hubLink = TRUE /\ connected = TRUE
    /\ toHub = <<>> /\ toHost = <<>>
    /\ waiting = [t \in Tasks |-> 0]
    /\ receiver = Idling /\ demo = "none"
    /\ running = {} /\ watched = FALSE /\ driving = FALSE /\ silent = FALSE
    /\ fabricSees = "connected"
    /\ executed = {} /\ lastMotion = "stop" /\ partStopped = FALSE

-----------------------------------------------------------------------------
(* Sending a frame and waiting for its answer. *)

FreeIds == FrameIds \ ({f.id : f \in ToSet(toHub)} \cup {l.id : l \in ToSet(toHost)}
                       \cup {waiting[t] : t \in Tasks})
Id == CHOOSE i \in FreeIds : TRUE

\* A frame the link takes. When the hub cannot be reached nothing is sent.
Send(op, port) ==
    /\ Len(toHub) < MaxInFlight /\ FreeIds # {}
    /\ toHub' = Append(toHub, [op |-> op, port |-> port, id |-> Id])
    /\ executed' = executed \ {Id}

\* _send_best_effort: it never raises, and only notes that the link is gone.
SendBestEffort(op) ==
    /\ IF hubLink THEN Send(op, "ALL") /\ UNCHANGED connected
       ELSE connected' = FALSE /\ UNCHANGED <<toHub, executed>>
    /\ UNCHANGED toHost

\* execute, up to the answer. A lost link rejects the command.
Executes(t, op, port) ==
    /\ waiting[t] = 0 /\ connected
    /\ IF hubLink
       THEN Send(op, port) /\ waiting' = [waiting EXCEPT ![t] = Id] /\ UNCHANGED connected
       ELSE connected' = FALSE /\ UNCHANGED <<waiting, toHub, executed>>
    /\ UNCHANGED toHost

OwnAnswers(t) == {l \in ToSet(toHost) : l.id = waiting[t] /\ l.op \in {"ack", "error"}}

AnyAnswers(t) == {l \in ToSet(toHost) : l.op \in {"ack", "error"}}

Matching(t) == OwnAnswers(t)

\* _await_frame reads all there is: the answer, or nothing for this task.
Reads(t) == waiting[t] # 0 /\ toHost' = <<>>

GetsReply(t) == Reads(t) /\ Matching(t) # {} /\ waiting' = [waiting EXCEPT ![t] = 0]

Succeeds(t) == GetsReply(t) /\ \E l \in Matching(t) : l.op = "ack"

ReadsOthers(t) ==
    /\ Reads(t) /\ Matching(t) = {} /\ toHost # <<>>
    /\ UNCHANGED <<host, hubLink, connected, toHub, waiting, receiver, demo, hubVars, fabricSees,
                   executed, lastMotion>>

\* The timeout of the answer marks the link lost, and nothing takes that back.
TimesOut(t) ==
    /\ Reads(t) /\ Matching(t) = {}
    /\ waiting' = [waiting EXCEPT ![t] = 0]

Fails(t) == \/ TimesOut(t) /\ connected' = FALSE
            \/ /\ GetsReply(t) /\ \E l \in Matching(t) : l.op = "error"
               /\ UNCHANGED connected

-----------------------------------------------------------------------------
(* Commands. The bridge ends the demonstration before any other command;   *)
(* a stop frame does so too, and always sends the hub a stop.              *)

Commands == IF host = "bridge" THEN {"drive", "stop", "demo", "halt"}
                               ELSE {"run", "part", "halt", "drive"}

ReceiveCommand(next) ==
    /\ receiver = Idling /\ next \in Commands
    /\ receiver' = [step |-> IF host = "bridge" /\ (demo # "none" \/ next = "stop")
                             THEN "cancelling" ELSE "starting", next |-> next]
    /\ UNCHANGED <<host, hubLink, connected, lineVars, waiting, demo, hubVars, fabricSees,
                   lastMotion>>

\* cancel: the task is interrupted wherever it is, and awaited.
CancelDemo ==
    /\ receiver.step = "cancelling" /\ demo \in {"pulsing", "pausing"}
    /\ demo' = "ending"
    /\ waiting' = [waiting EXCEPT !["demo"] = 0]
    /\ UNCHANGED <<host, hubLink, connected, lineVars, receiver, hubVars, fabricSees, lastMotion>>

Interrupted == demo = "none"

InterruptedEarly == demo # "pulsing"

DemoIsOver == Interrupted

CancelEnds ==
    /\ receiver.step = "cancelling" /\ DemoIsOver
    /\ SendBestEffort("stop")
    /\ lastMotion' = IF hubLink THEN "stop" ELSE lastMotion
    /\ receiver' = IF receiver.next = "stop" THEN Idling ELSE [receiver EXCEPT !.step = "starting"]
    /\ UNCHANGED <<host, hubLink, waiting, demo, hubVars, fabricSees>>

StartDemo ==
    /\ receiver = [step |-> "starting", next |-> "demo"]
    /\ demo' = "pausing" /\ receiver' = Idling
    /\ UNCHANGED <<host, hubLink, connected, lineVars, waiting, hubVars, fabricSees, lastMotion>>

\* A command that cannot be sent is rejected; the bridge then stops the hub.
Rejected == IF host = "bridge" THEN [receiver EXCEPT !.step = "failed"] ELSE Idling

StartCommand(port) ==
    /\ receiver.step = "starting" /\ receiver.next # "demo"
    /\ port \in IF receiver.next \in {"run", "part"} THEN Ports ELSE {"ALL"}
    /\ IF connected
       THEN Executes("command", IF receiver.next = "part" THEN "halt" ELSE receiver.next, port)
       ELSE UNCHANGED <<connected, waiting, lineVars>>
    /\ lastMotion' = IF connected /\ hubLink THEN receiver.next ELSE lastMotion
    /\ receiver' = IF connected /\ hubLink THEN [receiver EXCEPT !.step = "executing"] ELSE Rejected
    /\ UNCHANGED <<host, hubLink, demo, hubVars, fabricSees>>

CommandSucceeds ==
    /\ receiver.step = "executing" /\ Succeeds("command")
    /\ receiver' = Idling
    /\ UNCHANGED <<host, hubLink, connected, toHub, demo, hubVars, fabricSees, executed, lastMotion>>

CommandFails ==
    /\ receiver.step = "executing" /\ Fails("command")
    /\ receiver' = Rejected
    /\ UNCHANGED <<host, hubLink, toHub, demo, hubVars, fabricSees, executed, lastMotion>>

FailureStops ==
    /\ receiver.step = "failed"
    /\ SendBestEffort("stop")
    /\ lastMotion' = IF hubLink THEN "stop" ELSE lastMotion
    /\ receiver' = Idling
    /\ UNCHANGED <<host, hubLink, waiting, demo, hubVars, fabricSees>>

\* The runtime's safety supervisor stops the hub at any time.
RuntimeStops ==
    /\ host = "runtime"
    /\ SendBestEffort("stop")
    /\ lastMotion' = IF hubLink THEN "stop" ELSE lastMotion
    /\ UNCHANGED <<host, hubLink, waiting, receiver, demo, hubVars, fabricSees>>

-----------------------------------------------------------------------------
(* The demonstration: drive pulses, ended by a stop however they end. *)

DemoPulse ==
    /\ demo = "pausing" /\ connected
    /\ Executes("demo", "drive", "ALL")
    /\ lastMotion' = IF hubLink THEN "demo" ELSE lastMotion
    /\ demo' = IF hubLink THEN "pulsing" ELSE "ending"
    /\ UNCHANGED <<host, hubLink, receiver, hubVars, fabricSees>>

DemoGoesOn ==
    /\ demo = "pulsing"
    /\ \/ Succeeds("demo") /\ demo' = "pausing" /\ UNCHANGED connected
       \/ Fails("demo") /\ demo' = "ending"
    /\ UNCHANGED <<host, hubLink, toHub, receiver, hubVars, fabricSees, executed, lastMotion>>

\* Time is up, or a pulse was rejected because the link is lost.
DemoEnds ==
    /\ demo = "pausing"
    /\ demo' = "ending"
    /\ UNCHANGED <<host, hubLink, connected, lineVars, waiting, receiver, hubVars, fabricSees,
                   lastMotion>>

DemoStops ==
    /\ demo = "ending"
    /\ SendBestEffort("stop")
    /\ lastMotion' = IF hubLink THEN "stop" ELSE lastMotion
    /\ demo' = "none"
    /\ UNCHANGED <<host, hubLink, waiting, receiver, hubVars, fabricSees>>

-----------------------------------------------------------------------------
(* The tick, one task: it drains the lines, sends heartbeats when due, and *)
(* in the bridge polls a sensor, waiting for the answer.                   *)

TickDrains ==
    /\ waiting["poll"] = 0 /\ connected
    /\ toHost # <<>> \/ ~hubLink
    /\ toHost' = <<>>
    /\ connected' = hubLink
    /\ UNCHANGED <<host, hubLink, toHub, waiting, receiver, demo, hubVars, fabricSees, executed,
                   lastMotion>>

TickBeats ==
    /\ waiting["poll"] = 0 /\ connected
    /\ SendBestEffort("beat")
    /\ UNCHANGED <<host, hubLink, waiting, receiver, demo, hubVars, fabricSees, lastMotion>>

Poll ==
    /\ host = "bridge"
    /\ \/ Executes("poll", "read", "ALL")
       \/ /\ (Succeeds("poll") /\ UNCHANGED connected) \/ Fails("poll")
          /\ UNCHANGED <<toHub, executed>>
    /\ UNCHANGED <<host, hubLink, receiver, demo, hubVars, fabricSees, lastMotion>>

HealthyLink == hubLink

Healthy == connected

\* The bridge's heartbeat: the fabric learns of a lost link only from it.
ReportHealth ==
    /\ host = "bridge"
    /\ fabricSees' = IF Healthy THEN "connected" ELSE "degraded"
    /\ fabricSees' # fabricSees
    /\ UNCHANGED <<host, hubLink, connected, lineVars, waiting, receiver, demo, hubVars, lastMotion>>

-----------------------------------------------------------------------------
(* The hub: a loop that polls its controls and handles one line. *)

Emit(line) == toHost' = IF hubLink THEN Append(toHost, line) ELSE toHost
AckNext(f) == [op |-> "ack", id |-> f.id + 1]

Ack(f) == [op |-> "ack", id |-> f.id]

StoppedOnPaper == UNCHANGED running /\ watched' = FALSE /\ partStopped' = FALSE

Stopped == running' = {} /\ watched' = FALSE /\ partStopped' = FALSE

HubHandles ==
    LET f == Head(toHub) IN
    /\ ~driving /\ toHub # <<>>
    /\ silent' = FALSE
    /\ executed' = executed \cup {f.id}
    /\ toHub' = IF f.op = "drive" THEN toHub ELSE Tail(toHub)
    /\ driving' = (f.op = "drive")
    /\ IF f.op = "drive" THEN UNCHANGED toHost ELSE Emit(Ack(f))
    /\ CASE f.op = "drive" -> /\ running' = Ports /\ watched' = TRUE
                              /\ UNCHANGED partStopped
         [] f.op = "run" -> /\ running' = running \cup {f.port} /\ watched' = TRUE
                            /\ UNCHANGED partStopped
         [] f.op = "stop" \/ (f.op = "halt" /\ f.port = "ALL") -> Stopped
         [] f.op = "halt" /\ f.port # "ALL" ->
                /\ running' = running \ {f.port} /\ watched' = FALSE
                /\ partStopped' = (running' # {})
         [] OTHER -> UNCHANGED <<running, watched, partStopped>>
    /\ UNCHANGED <<host, hubLink, connected, waiting, receiver, demo, fabricSees, lastMotion>>

\* The port is empty, or the sensor is: nothing is done.
HubRefuses ==
    LET f == Head(toHub) IN
    /\ ~driving /\ toHub # <<>> /\ f.op \in {"run", "read", "halt"} /\ f.port # "ALL"
    /\ silent' = FALSE
    /\ toHub' = Tail(toHub)
    /\ Emit([op |-> "error", id |-> f.id])
    /\ UNCHANGED <<host, hubLink, connected, waiting, receiver, demo, running, watched, driving,
                   partStopped, fabricSees, executed, lastMotion>>

\* A drive waits for its time, stops the base and is acknowledged only then.
DriveEnds ==
    /\ driving
    /\ driving' = FALSE /\ running' = {}
    /\ toHub' = IF toHub = <<>> THEN <<>> ELSE Tail(toHub)
    /\ IF toHub = <<>> THEN UNCHANGED toHost ELSE Emit(Ack(Head(toHub)))
    /\ UNCHANGED <<host, hubLink, connected, waiting, receiver, demo, watched, silent, partStopped,
                   fabricSees, executed, lastMotion>>

\* A timed run is over.
MotorEnds(p) ==
    /\ p \in running /\ ~driving
    /\ running' = running \ {p}
    /\ UNCHANGED <<host, hubLink, connected, lineVars, waiting, receiver, demo, watched, driving,
                   silent, partStopped, fabricSees, lastMotion>>

GoesQuiet ==
    /\ ~silent /\ silent' = TRUE
    /\ UNCHANGED <<host, hubLink, connected, lineVars, waiting, receiver, demo, running, watched,
                   driving, partStopped, fabricSees, lastMotion>>

\* The watchdog, or the button on the hub.
HubPolls(button) ==
    /\ ~driving
    /\ button \/ (watched /\ silent)
    /\ Stopped
    /\ Emit([op |-> IF button THEN "button" ELSE "watchdog", id |-> 0])
    /\ Len(toHost) < MaxInFlight
    /\ UNCHANGED <<host, hubLink, connected, toHub, waiting, receiver, demo, driving, silent,
                   fabricSees, executed, lastMotion>>

HubLinkBreaks ==
    /\ hubLink /\ hubLink' = FALSE
    /\ toHub' = IF driving THEN <<Head(toHub)>> ELSE <<>>
    /\ UNCHANGED <<host, connected, toHost, waiting, receiver, demo, hubVars, fabricSees,
                   executed, lastMotion>>

\* The bridge is started anew, or the runtime's device is connected again.
Reconnect ==
    /\ ~connected /\ ~driving /\ receiver = Idling /\ demo = "none" /\ waiting["poll"] = 0
    /\ hubLink' = TRUE /\ connected' = TRUE
    /\ toHub' = <<>> /\ toHost' = <<>> /\ executed' = {}
    /\ lastMotion' = "stop" /\ silent' = FALSE
    /\ UNCHANGED <<host, waiting, receiver, demo, running, watched, driving, partStopped,
                   fabricSees>>

LegoNext ==
    \/ \E next \in Commands : ReceiveCommand(next)
    \/ CancelDemo \/ CancelEnds \/ StartDemo \/ CommandSucceeds \/ CommandFails \/ FailureStops
    \/ RuntimeStops \/ DemoPulse \/ DemoGoesOn \/ DemoEnds \/ DemoStops
    \/ \E port \in Ports \cup {"ALL"} : StartCommand(port)
    \/ TickDrains \/ TickBeats \/ Poll \/ ReportHealth
    \/ \E t \in Tasks : ReadsOthers(t)
    \/ HubHandles \/ HubRefuses \/ DriveEnds \/ GoesQuiet \/ HubLinkBreaks \/ Reconnect
    \/ \E p \in Ports : MotorEnds(p)
    \/ \E button \in BOOLEAN : HubPolls(button)

LegoFairness == /\ WF_legoVars(ReportHealth)
                /\ WF_legoVars(HubPolls(FALSE)) /\ WF_legoVars(DriveEnds)

LegoSpec == LegoInit /\ [][LegoNext]_legoVars /\ LegoFairness

-----------------------------------------------------------------------------
Lines == [op : {"ack", "error", "button", "watchdog"}, id : FrameIds \cup {0}]

(* Frames, answers and tasks keep their types, and no more frames are under  *)
(* way than the link takes.                                                 *)
LegoTypeOK ==
    /\ host \in Hosts /\ hubLink \in BOOLEAN /\ connected \in BOOLEAN
    /\ toHub \in Seq([op : {"run", "halt", "drive", "stop", "beat", "read"},
                      port : Ports \cup {"ALL"}, id : FrameIds])
    /\ Len(toHub) <= MaxInFlight /\ toHost \in Seq(Lines)
    /\ waiting \in [Tasks -> FrameIds \cup {0}]
    /\ receiver \in [step : {"idle", "cancelling", "starting", "executing", "failed"},
                     next : {"none", "run", "part", "halt", "drive", "stop", "demo"}]
    /\ demo \in {"none", "pausing", "pulsing", "ending"}
    /\ running \subseteq Ports /\ watched \in BOOLEAN /\ driving \in BOOLEAN
    /\ silent \in BOOLEAN /\ partStopped \in BOOLEAN
    /\ fabricSees \in {"connected", "degraded"}
    /\ executed \subseteq FrameIds
    /\ lastMotion \in {"stop", "run", "part", "halt", "drive", "demo"}

(* A command that is reported completed was executed by the hub: an answer *)
(* to a heartbeat, a poll, a stop or an earlier command is never taken for *)
(* its own, though all tasks read one stream of lines.                     *)
CompletedWasExecuted ==
    [][receiver.step = "executing" /\ receiver' = Idling /\ host = "bridge"
         => waiting["command"] \in executed]_legoVars

(* Once a stop or another command has ended a demonstration, none of its    *)
(* pulses follows it to the hub, nor is a pulse the last word of one that   *)
(* is over: wherever the task was interrupted, whoever took the answer it   *)
(* waited for, and however its last pulse failed.                           *)
DemoEndsWithStop ==
    /\ demo = "none" /\ hubLink /\ receiver.step # "cancelling" => lastMotion # "demo"
    /\ host = "bridge" /\ receiver.step \in {"executing", "failed"} => demo = "none"

(* A motor turns unwatched only when another one was stopped by itself.    *)
WatchedUnlessPartStopped == running # {} /\ ~partStopped => watched

(* firmware/lego-hub-agent/hub_agent.py:13: "If the runtime goes quiet for  *)
(* longer than the watchdog window, the hub stops its motors without being  *)
(* asked".  A poll of the hub that hears nothing stops them only when it is *)
(* watching: a motor that turns in the silence is watched.                  *)
QuietHubStops == silent /\ running # {} => watched

(* The fabric learns that the adapter gave a link up, whichever task gave     *)
(* it up and whatever the others were waiting for.                          *)
LostLinkIsReported == []<>(connected \/ host # "bridge" \/ fabricSees = "degraded")

(* The link of one hub: demonstrations end, turning motors are watched,     *)
(* answers are of what was asked, and a loss becomes known.                 *)
LegoLinkIsSound ==
    [](LegoTypeOK /\ DemoEndsWithStop /\ WatchedUnlessPartStopped)
    /\ CompletedWasExecuted /\ LostLinkIsReported
=============================================================================
