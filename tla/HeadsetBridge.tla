---------------------------- MODULE HeadsetBridge ----------------------------
(***************************************************************************)
(* The publish-only bridge of the MindWave headset.  Its readings come     *)
(* from one of two backends: a poll of the state of a running              *)
(* Brain2Devices service, in which a blink is a counter that went up, or a *)
(* worker process that owns the headset and writes frames to a pipe.       *)
(***************************************************************************)
EXTENDS Naturals, Sequences

CONSTANTS
    MaxBlinks,      \* bound: blinks counted since the counter last started anew
    MaxFrames       \* bound: frames one worker writes

ASSUME HeadsetAssumption == MaxBlinks \in Nat /\ MaxFrames \in Nat

VARIABLES
    source,         \* the backend: "api" or "worker"
    headOn,         \* the headset is connected
    blinks,         \* the service's blink counter
    worker,         \* the worker process: "none", "connecting", "serving" or "gone"
    pipe,           \* its frames not yet read
    shutdown,       \* it was told to shut down
    head,           \* the bridge: "down", "starting", "up", "closing" or "waiting"
    pending,        \* _pending: events read before the worker was ready
    lastBlink,      \* _last_blink_count
    linked,         \* _connected of the backend
    believed,       \* _connected of the bridge
    headError,      \* _last_error is set
    activated,      \* the activation file is there
    written,        \* history: the events the worker wrote
    handled,        \* history: the events the bridge took, in order (of a worker)
    fresh,          \* history: a blink since the last one reported and since the count began
    phantom         \* history: a blink was reported that was not fresh

headsetVars == <<headOn, blinks, fresh, phantom>>
workerVars == <<worker, pipe, shutdown, written>>
bridgeVars == <<head, pending, lastBlink, linked, believed, headError, activated, handled>>
headVars == <<source, headsetVars, workerVars, bridgeVars>>

HeadEvents == {"reading", "blink", "on", "off"}

HeadInit ==
    /\ source \in {"api", "worker"}
    /\ headOn = TRUE /\ blinks = 0 /\ fresh = FALSE /\ phantom = FALSE
    /\ worker = "none" /\ pipe = <<>> /\ shutdown = FALSE /\ written = <<>>
    /\ head = "down" /\ pending = <<>> /\ lastBlink = 0 /\ linked = FALSE
    /\ believed = FALSE /\ headError = FALSE /\ activated = FALSE /\ handled = <<>>

-----------------------------------------------------------------------------
(* The headset, behind the service. *)

Blink ==
    /\ source = "api" /\ headOn /\ blinks < MaxBlinks
    /\ blinks' = blinks + 1 /\ fresh' = TRUE
    /\ UNCHANGED <<source, headOn, phantom, workerVars, bridgeVars>>

\* The service connects the headset anew and counts from the beginning.
LinkChanges ==
    /\ source = "api" /\ headOn' = ~headOn
    /\ IF headOn THEN UNCHANGED <<blinks, fresh>> ELSE blinks' = 0 /\ fresh' = FALSE
    /\ UNCHANGED <<source, phantom, workerVars, bridgeVars>>

\* The counter starts anew between two polls.
CountsAnewUnseen ==
    /\ source = "api" /\ headOn /\ blinks' = 0 /\ fresh' = FALSE
    /\ UNCHANGED <<source, headOn, phantom, workerVars, bridgeVars>>

-----------------------------------------------------------------------------
(* The worker. Its callbacks write while it still connects, and only when it *)
(* has connected does it read what it is told.                               *)

WorkerWrites(e) ==
    /\ worker \in {"connecting", "serving"} /\ Len(written) < MaxFrames
    /\ pipe' = Append(pipe, e) /\ written' = Append(written, e)
    /\ headOn' = IF e = "on" THEN TRUE ELSE IF e = "off" THEN FALSE ELSE headOn
    /\ UNCHANGED <<source, blinks, fresh, phantom, worker, shutdown, bridgeVars>>

WorkerReady ==
    /\ worker = "connecting" /\ worker' = "serving" /\ pipe' = Append(pipe, "ready")
    /\ UNCHANGED <<source, headsetVars, shutdown, written, bridgeVars>>

WorkerFails ==
    /\ worker \in {"connecting", "serving"} /\ worker' = "gone"
    /\ pipe' \in {pipe, Append(pipe, "fatal")}
    /\ UNCHANGED <<source, headsetVars, shutdown, written, bridgeVars>>

WorkerObeys ==
    /\ worker = "serving" /\ shutdown /\ worker' = "gone"
    /\ UNCHANGED <<source, headsetVars, pipe, shutdown, written, bridgeVars>>

-----------------------------------------------------------------------------
(* The bridge. *)

\* run(): the backend is started before the Fabric hears of the node.
HeadStarts ==
    /\ head = "down" /\ head' = "starting"
    /\ pending' = <<>> /\ handled' = <<>> /\ headError' = FALSE /\ activated' = FALSE
    /\ IF source = "worker"
       THEN worker' = "connecting" /\ headOn' = TRUE
       ELSE worker' = "none" /\ UNCHANGED headOn
    /\ pipe' = <<>> /\ shutdown' = FALSE /\ written' = <<>>
    /\ UNCHANGED <<source, blinks, fresh, phantom, lastBlink, linked, believed>>

\* The API's start: a headset that is connected, and the blinks counted so far.
ApiStarted ==
    /\ head = "starting" /\ source = "api" /\ headOn
    /\ lastBlink' = blinks /\ fresh' = FALSE
    /\ linked' = TRUE /\ believed' = TRUE /\ head' = "up"
    /\ UNCHANGED <<source, headOn, blinks, phantom, workerVars, pending, headError, activated,
                   handled>>

DropEarly(e) == pending
KeepEarly(e) == IF e \in HeadEvents THEN Append(pending, e) ELSE pending

\* The worker's start reads up to the frame that says it is ready.
StartReads ==
    /\ head = "starting" /\ source = "worker" /\ pipe # <<>>
    /\ pipe' = Tail(pipe)
    /\ IF Head(pipe) = "ready"
       THEN head' = "up" /\ believed' = TRUE /\ UNCHANGED pending
       ELSE pending' = KeepEarly(Head(pipe)) /\ UNCHANGED <<head, believed>>
    /\ UNCHANGED <<source, headsetVars, worker, shutdown, written, lastBlink, linked, headError,
                   activated, handled>>

\* No connection, no answer in time, the end of the pipe, or the deadline.
StartFails ==
    /\ head = "starting" /\ head' = "closing"
    /\ UNCHANGED <<source, headsetVars, workerVars, pending, lastBlink, linked, believed,
                   headError, activated, handled>>

Activates ==
    /\ head = "up" /\ ~activated /\ activated' = TRUE
    /\ UNCHANGED <<source, headsetVars, workerVars, head, pending, lastBlink, linked, believed,
                   headError, handled>>

\* _events: a status is for the heartbeat, anything else for the lesson.
TakesInLesson(e) ==
    /\ believed' = IF activated THEN e = "on" \/ (believed /\ e # "off") ELSE believed
    /\ headError' = (activated /\ e = "off")

TakesEvent(e) ==
    /\ believed' = (e = "on" \/ (believed /\ e # "off"))
    /\ headError' = (e = "off")

\* The API's next_event.
PollsOff ==
    /\ head = "up" /\ source = "api" /\ linked /\ ~headOn
    /\ linked' = FALSE /\ TakesEvent("off")
    /\ UNCHANGED <<source, headsetVars, workerVars, head, pending, lastBlink, activated, handled>>

UncountedBlink == lastBlink
CountedBlink == blinks

PollsBlink ==
    /\ head = "up" /\ source = "api" /\ linked /\ headOn /\ blinks > lastBlink
    /\ lastBlink' = CountedBlink
    /\ fresh' = FALSE /\ phantom' = (phantom \/ ~fresh)
    /\ TakesEvent("blink")
    /\ UNCHANGED <<source, headOn, blinks, workerVars, head, pending, linked, activated, handled>>

\* A counter that went down is taken as it is; a reading that is not there yet
\* makes a status.
PollsReading(e) ==
    /\ head = "up" /\ source = "api" /\ linked /\ headOn /\ blinks <= lastBlink
    /\ e \in {"reading", "on"}
    /\ lastBlink' = blinks /\ TakesEvent(e)
    /\ UNCHANGED <<source, headsetVars, workerVars, head, pending, linked, activated, handled>>

\* The worker's next_event: what came early first.
NextFrame ==
    /\ head = "up" /\ source = "worker"
    /\ LET queue == pending \o pipe IN
       /\ queue # <<>> /\ Head(queue) # "fatal"
       /\ TakesEvent(Head(queue)) /\ handled' = Append(handled, Head(queue))
    /\ IF pending # <<>> THEN pending' = Tail(pending) /\ UNCHANGED pipe
       ELSE pipe' = Tail(pipe) /\ UNCHANGED pending
    /\ UNCHANGED <<source, headsetVars, worker, shutdown, written, head, lastBlink, linked, activated>>

\* The service does not answer or the link is known to be lost; the worker
\* failed, ended or was silent for too long. The error ends the bridge.
EventsEnd ==
    /\ head = "up"
    /\ source = "worker" => pending \o pipe \in {<<>>, <<"fatal">>}
    /\ head' = "closing" /\ headError' = TRUE /\ believed' = FALSE
    /\ UNCHANGED <<source, headsetVars, workerVars, pending, lastBlink, linked, activated, handled>>

\* A stop frame, a command, the end of the lesson or of the connection.
HeadCloses ==
    /\ head = "up" /\ head' = "closing" /\ believed' = FALSE
    /\ UNCHANGED <<source, headsetVars, workerVars, pending, lastBlink, linked, headError,
                   activated, handled>>

\* close(): the worker is told to shut down, and then waited for.
TellsWorker ==
    /\ head = "closing" /\ linked' = FALSE
    /\ head' = IF source = "worker" THEN "waiting" ELSE "down"
    /\ shutdown' = (worker \in {"connecting", "serving"})
    /\ UNCHANGED <<source, headsetVars, worker, pipe, written, pending, lastBlink, believed,
                   headError, activated, handled>>

WorkerEnded ==
    /\ head = "waiting" /\ worker \in {"none", "gone"} /\ head' = "down"
    /\ UNCHANGED <<source, headsetVars, workerVars, pending, lastBlink, linked, believed,
                   headError, activated, handled>>

LeaveIt == worker
Terminate == "gone"

\* It has not ended in five seconds.
WaitTimesOut ==
    /\ head = "waiting" /\ worker \in {"connecting", "serving"}
    /\ worker' = Terminate /\ head' = "down"
    /\ UNCHANGED <<source, headsetVars, pipe, shutdown, written, pending, lastBlink, linked,
                   believed, headError, activated, handled>>

-----------------------------------------------------------------------------
ReadsHeadset == PollsOff \/ PollsBlink \/ (\E e \in {"reading", "on"} : PollsReading(e)) \/ NextFrame

HeadNext ==
    \/ Blink \/ LinkChanges \/ CountsAnewUnseen
    \/ \E e \in HeadEvents : WorkerWrites(e)
    \/ WorkerReady \/ WorkerFails \/ WorkerObeys
    \/ HeadStarts \/ ApiStarted \/ StartReads \/ StartFails \/ Activates
    \/ PollsOff \/ PollsBlink \/ (\E e \in {"reading", "on"} : PollsReading(e)) \/ NextFrame
    \/ EventsEnd \/ HeadCloses \/ TellsWorker \/ WorkerEnded \/ WaitTimesOut

\* The events task reads for as long as the bridge is up, and a bridge that
\* closes waits five seconds at most.
HeadFairness ==
    /\ WF_headVars(ReadsHeadset \/ EventsEnd)
    /\ WF_headVars(TellsWorker \/ WorkerEnded \/ WaitTimesOut)

HeadSpec == HeadInit /\ [][HeadNext]_headVars /\ HeadFairness

-----------------------------------------------------------------------------
HealthyByError == ~headError
\* What the heartbeat says.
HeadHealthy == believed /\ ~headError

(* The bridge and the worker are in states there are.                        *)
HeadTypeOK ==
    /\ source \in {"api", "worker"} /\ headOn \in BOOLEAN /\ blinks \in 0..MaxBlinks
    /\ worker \in {"none", "connecting", "serving", "gone"}
    /\ head \in {"down", "starting", "up", "closing", "waiting"}
    /\ pending \in Seq(HeadEvents) /\ pipe \in Seq(HeadEvents \cup {"ready", "fatal"})
    /\ {linked, believed, headError, activated, shutdown} \subseteq BOOLEAN

(* Every event of the worker is taken once and in order, also those it wrote *)
(* while it was still connecting.                                            *)
EventsInOrder ==
    head = "up" /\ source = "worker" =>
        handled \o pending \o pipe \in {written, Append(written, "fatal")}

(* A blink that is reported was made after the last one reported, however    *)
(* often the counter started anew.                                           *)
BlinksAreReal == ~phantom

(* No worker outlives its bridge, whenever it was cut off: the next one      *)
(* could not connect to the headset.                                         *)
NoWorkerLeft == head = "down" => worker \in {"none", "gone"}

(* A bridge whose last word of the headset is that it is off never says that *)
(* it is healthy, whatever readings came after.                              *)
OffIsUnhealthy ==
    head = "up" /\ HeadHealthy =>
        /\ \A i \in DOMAIN handled :
             handled[i] = "off" => \E j \in DOMAIN handled : j > i /\ handled[j] = "on"
        /\ source = "api" => linked

(* A headset that stays off is noticed: the heartbeat says so or the bridge  *)
(* ends, in a lesson and outside.                                            *)
OffIsNoticed == []<>(headOn \/ ~HeadHealthy \/ head # "up")

(* A bridge that closes is gone at last.                                     *)
CloseEnds == []<>(head \notin {"closing", "waiting"})

(* The headset's events are told once and in order, its loss is told, and    *)
(* its worker ends with the bridge.                                          *)
HeadsetIsTold ==
    /\ [](HeadTypeOK /\ EventsInOrder /\ BlinksAreReal /\ NoWorkerLeft /\ OffIsUnhealthy)
    /\ OffIsNoticed /\ CloseEnds
=============================================================================
