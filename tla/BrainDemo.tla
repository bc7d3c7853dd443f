------------------------------ MODULE BrainDemo ------------------------------
(***************************************************************************)
(* The bridge of the one-shot demonstration: an instructor arms a trigger  *)
(* of the Brain2Devices service, a brain signal fires it, and the service  *)
(* then flies its own sequence.  The bridge only arms, disarms and cancels *)
(* over HTTP.  Its receive loop handles one frame at a time, a second task *)
(* polls the status, and every request is made by a thread that a cancelled *)
(* task leaves behind.                                                     *)
(***************************************************************************)
EXTENDS Naturals

CONSTANTS
    TriggerArms,       \* identities of arm commands
    TriggerStops,      \* identities of stop commands
    MaxDemoFaults   \* bound: requests that raise

ASSUME DemoAssumption ==
    /\ TriggerArms \cap TriggerStops = {} /\ MaxDemoFaults \in Nat
    /\ {"none", "frame", "close"} \cap (TriggerArms \cup TriggerStops) = {}

VARIABLES
    practice,       \* the simulated backend: no service, no aircraft
    trigger,        \* the service's trigger is armed
    sequence,       \* the service's flight: "none", "flying" or "ending"
    demoBridge,     \* "up", "closing" or "down"
    demoRecv,       \* the receive loop: its step, what it serves and the status it read
    demoPoll,       \* the status task: its step and the status it read
    demoShown,      \* _status
    demoError,      \* _last_error is set
    demoSeen,       \* the replay cache
    demoLeft,       \* requests of cancelled tasks that a thread still makes
    demoFaults,
    told,           \* history: "yes" if the last stop said that nothing is armed or flies and
                    \* no arm came since its "looked"; else "no"
    loose,          \* history: the stop of a closing bridge raised, or a left arm came
                    \* after it looked
    slipped,        \* history: the trigger fired while the last stop was under way
    repeated        \* history: a command that had succeeded armed again

airVars == <<trigger, sequence, slipped>>
askVars == <<demoFaults, loose, repeated, told>>
demoVars == <<practice, airVars, demoBridge, demoRecv, demoPoll, demoShown, demoError, demoSeen,
              demoLeft, askVars>>

DemoStatus == [armed : BOOLEAN, flies : BOOLEAN]
Neither == [armed |-> FALSE, flies |-> FALSE]

\* _project_status: what the service says of its trigger and of its sequence.
Projected == [armed |-> trigger, flies |-> sequence # "none"]

DemoIdle == [step |-> "idle", by |-> "none", got |-> Neither]
Asleep == [step |-> "asleep", got |-> Neither]

DemoInit ==
    /\ practice \in BOOLEAN
    /\ trigger = FALSE /\ sequence = "none"
    /\ demoBridge = "up" /\ demoRecv = DemoIdle /\ demoPoll = Asleep
    /\ demoShown = Projected /\ demoError = FALSE /\ demoSeen = {} /\ demoLeft = {}
    /\ demoFaults = 0 /\ told = "no" /\ loose = FALSE /\ slipped = FALSE /\ repeated = FALSE

-----------------------------------------------------------------------------
(* The service. *)

DemoFault == ~practice /\ demoFaults < MaxDemoFaults /\ demoFaults' = demoFaults + 1
DemoFine == UNCHANGED demoFaults

\* What a request does. The trigger and the flight exclude each other: arming
\* is refused during a flight.
Does(r) ==
    CASE r = "arm" -> sequence = "none" /\ trigger' = TRUE /\ UNCHANGED <<sequence, slipped>>
      [] r = "disarm" -> trigger' = FALSE /\ UNCHANGED <<sequence, slipped>>
      [] r = "cancel" -> /\ sequence' = IF sequence = "flying" THEN "ending" ELSE sequence
                         /\ UNCHANGED <<trigger, slipped>>

\* Refused: an arm during a flight, a disarm of nothing, a cancel of nothing.
Pointless(r) ==
    CASE r = "arm" -> sequence # "none"
      [] r = "disarm" -> ~trigger
      [] r = "cancel" -> sequence # "flying"

\* A request that raises was refused, did not arrive, or was answered too late.
DemoRaises(r) ==
    \/ Pointless(r) /\ ~practice /\ DemoFine /\ UNCHANGED airVars
    \/ DemoFault /\ (Does(r) \/ UNCHANGED airVars)

\* A signal passes its threshold for as long as asked.
TriggerFires ==
    /\ trigger /\ ~practice
    /\ trigger' = FALSE /\ sequence' = "flying"
    /\ slipped' = (slipped \/ demoRecv.step \in {"disarm", "cancel", "look", "tell"})
    /\ UNCHANGED <<practice, demoBridge, demoRecv, demoPoll, demoShown, demoError, demoSeen, demoLeft,
                   askVars>>

SequenceEnds ==
    /\ sequence # "none" /\ sequence' = "none"
    /\ UNCHANGED <<practice, trigger, slipped, demoBridge, demoRecv, demoPoll, demoShown, demoError,
                   demoSeen, demoLeft, askVars>>

\* The thread of a cancelled task makes its request all the same.
LeftRequest(r) ==
    /\ r \in demoLeft /\ demoLeft' = demoLeft \ {r}
    /\ \/ Does(r) /\ DemoFine
       \/ DemoRaises(r)
    /\ loose' = (loose \/ (r = "arm" /\ demoRecv.step # "read"))
    /\ told' = IF r = "arm" THEN "no" ELSE told
    /\ UNCHANGED <<practice, demoBridge, demoRecv, demoPoll, demoShown, demoError, demoSeen, repeated>>

-----------------------------------------------------------------------------
(* Commands. *)

AlwaysNew(c) == TRUE
NotSeen(c) == c \notin demoSeen

\* Another target or action, no instructor's priority, a confirmation or a
\* threshold that is not there, or an expired command: answered with REJECTED.
RejectCommand(c) ==
    /\ demoBridge = "up" /\ demoRecv = DemoIdle /\ NotSeen(c)
    /\ demoError' = TRUE
    /\ UNCHANGED <<practice, airVars, demoBridge, demoRecv, demoPoll, demoShown, demoSeen, demoLeft,
                   askVars>>

\* ACCEPTED and RUNNING are published before anything is done.
AcceptCommand(c) ==
    /\ demoBridge = "up" /\ demoRecv = DemoIdle /\ NotSeen(c)
    /\ demoRecv' = [DemoIdle EXCEPT !.step = "accepted", !.by = c]
    /\ UNCHANGED <<practice, airVars, demoBridge, demoPoll, demoShown, demoError, demoSeen, demoLeft,
                   askVars>>

\* A stop's first step; a later firing is no fault of an earlier stop.
BeginsStop(by) ==
    /\ demoRecv' = [DemoIdle EXCEPT !.step = "read", !.by = by]
    /\ slipped' = FALSE /\ told' = "no"
    /\ UNCHANGED <<trigger, sequence>>

ExecuteCommand ==
    /\ demoRecv.step = "accepted"
    /\ IF demoRecv.by \in TriggerArms
       THEN demoRecv' = [demoRecv EXCEPT !.step = "arm"] /\ UNCHANGED <<airVars, told>>
       ELSE BeginsStop(demoRecv.by)
    /\ UNCHANGED <<practice, demoBridge, demoPoll, demoShown, demoError, demoSeen, demoLeft,
                   demoFaults, loose, repeated>>

\* The task of the status ends with the others.
ClosesWith(left) ==
    /\ demoBridge' = "closing" /\ demoPoll' = Asleep
    /\ demoLeft' = demoLeft \cup left
    /\ BeginsStop("close")
    /\ loose' = FALSE
    /\ UNCHANGED <<practice, demoShown, demoSeen, repeated>>

\* The second validation meets an expired command: no handler catches that.
ExpiresMeanwhile ==
    /\ demoRecv.step = "accepted" /\ ClosesWith({})
    /\ UNCHANGED <<demoFaults, demoError>>

\* A stop frame is not answered, and its error is caught by nobody.
StopFrame ==
    /\ demoBridge = "up" /\ demoRecv = DemoIdle
    /\ BeginsStop("frame")
    /\ UNCHANGED <<practice, demoBridge, demoPoll, demoShown, demoError, demoSeen, demoLeft,
                   demoFaults, loose, repeated>>

\* The answer of an arm is a trigger's: it does not tell of the flight.
ArmAsks ==
    /\ demoRecv.step = "arm" /\ Does("arm") /\ DemoFine
    /\ demoRecv' = [demoRecv EXCEPT !.step = "tell", !.got = [armed |-> TRUE, flies |-> FALSE]]
    /\ told' = "no"
    /\ repeated' = (repeated \/ demoRecv.by \in demoSeen)
    /\ UNCHANGED <<practice, demoBridge, demoPoll, demoShown, demoError, demoSeen, demoLeft, loose>>

-----------------------------------------------------------------------------
(* The stop: the status, then the request it calls for, then the status. *)

FlightFirst(s) == IF s.flies THEN "cancel" ELSE "look"
Remedy(s) == IF s.armed THEN "disarm" ELSE IF s.flies THEN "cancel" ELSE "look"

\* The simulated backend stops in one step.
StopReads ==
    /\ demoRecv.step = "read" /\ DemoFine
    /\ IF practice
       THEN /\ trigger' = FALSE /\ told' = "looked" /\ UNCHANGED <<sequence, slipped>>
            /\ demoRecv' = [demoRecv EXCEPT !.step = "tell", !.got = Neither]
       ELSE /\ demoRecv' = [demoRecv EXCEPT !.step = Remedy(Projected), !.got = Projected]
            /\ UNCHANGED <<airVars, told>>
    /\ UNCHANGED <<practice, demoBridge, demoPoll, demoShown, demoError, demoSeen, demoLeft, loose,
                   repeated>>

StopAsks ==
    /\ demoRecv.step \in {"disarm", "cancel"} /\ Does(demoRecv.step) /\ DemoFine
    /\ demoRecv' = [demoRecv EXCEPT !.step = "look"]
    /\ UNCHANGED <<practice, demoBridge, demoPoll, demoShown, demoError, demoSeen, demoLeft, askVars>>

AsAskedFor == Neither
AsItIsNow == Projected

StopLooks ==
    /\ demoRecv.step = "look" /\ DemoFine
    /\ demoRecv' = [demoRecv EXCEPT !.step = "tell", !.got = AsItIsNow]
    /\ told' = "looked"
    /\ UNCHANGED <<practice, airVars, demoBridge, demoPoll, demoShown, demoError, demoSeen, demoLeft,
                   loose, repeated>>

Remembered(c) == IF c \in TriggerArms \cup TriggerStops THEN demoSeen \cup {c} ELSE demoSeen

\* The operation returns: the status is kept and the command answered.
Tells ==
    /\ demoRecv.step = "tell"
    /\ demoRecv' = DemoIdle
    /\ demoSeen' = Remembered(demoRecv.by)
    /\ demoBridge' = IF demoRecv.by = "close" THEN "down" ELSE demoBridge
    /\ demoShown' = IF demoRecv.by = "close" THEN demoShown ELSE demoRecv.got
    /\ demoError' = (demoError /\ demoRecv.by \notin TriggerArms \cup TriggerStops)
    /\ told' = IF told = "looked" /\ demoRecv.got = Neither THEN "yes" ELSE "no"
    /\ UNCHANGED <<practice, airVars, demoPoll, demoLeft, demoFaults, loose, repeated>>

\* A request raised: the command has FAILED, the bridge of a stop frame closes
\* and stops once more, and the error of that stop is passed over.
EndsBridge == demoRecv.by = "frame"

OperationRaises ==
    /\ \/ demoRecv.step \in {"arm", "disarm", "cancel"} /\ DemoRaises(demoRecv.step)
       \/ demoRecv.step \in {"read", "look"} /\ DemoFault /\ UNCHANGED airVars
    /\ demoBridge' = CASE EndsBridge -> "closing"
                       [] demoRecv.by = "close" -> "down"
                       [] OTHER -> demoBridge
    /\ demoRecv' = IF EndsBridge THEN [DemoIdle EXCEPT !.step = "read", !.by = "close"] ELSE DemoIdle
    /\ demoPoll' = IF EndsBridge THEN Asleep ELSE demoPoll
    /\ demoError' = (demoError \/ demoRecv.by \in TriggerArms \cup TriggerStops)
    /\ loose' = IF EndsBridge THEN FALSE ELSE loose \/ demoRecv.by = "close"
    /\ told' = "no"
    /\ UNCHANGED <<practice, demoShown, demoSeen, demoLeft, repeated>>

\* Deactivated, disconnected, or a task ended: whatever request the receive
\* loop was waiting for is left to its thread.
DemoCloses ==
    /\ demoBridge = "up"
    /\ ClosesWith(IF practice THEN {} ELSE {demoRecv.step} \cap {"arm", "disarm", "cancel"})
    /\ UNCHANGED <<demoFaults, demoError>>

\* The process waits for its threads; the next one remembers no command.
DemoStarts ==
    /\ demoBridge = "down" /\ demoLeft = {}
    /\ demoBridge' = "up" /\ demoShown' = Projected /\ demoError' = FALSE /\ demoSeen' = {}
    /\ trigger' = (trigger /\ ~practice) /\ UNCHANGED <<sequence, slipped>>
    /\ UNCHANGED <<practice, demoRecv, demoPoll, demoLeft, askVars>>

-----------------------------------------------------------------------------
(* The status task. The simulation runs its course when it is looked at. *)

PollAsks ==
    /\ demoBridge = "up" /\ demoPoll.step = "asleep"
    /\ \/ UNCHANGED trigger
       \/ practice /\ trigger /\ trigger' = FALSE
    /\ demoPoll' = [step |-> "asked", got |-> [Projected EXCEPT !.armed = trigger']]
    /\ UNCHANGED <<practice, sequence, slipped, demoBridge, demoRecv, demoShown, demoError, demoSeen,
                   demoLeft, askVars>>

PollTells ==
    /\ demoPoll.step = "asked"
    /\ demoPoll' = Asleep /\ demoShown' = demoPoll.got /\ demoError' = FALSE
    /\ UNCHANGED <<practice, airVars, demoBridge, demoRecv, demoSeen, demoLeft, askVars>>

GivesUpPolling == [Asleep EXCEPT !.step = "ended"]
PollsOn == Asleep

PollRaises ==
    /\ demoPoll.step = "asked" /\ DemoFault
    /\ demoPoll' = PollsOn /\ demoError' = TRUE
    /\ UNCHANGED <<practice, airVars, demoBridge, demoRecv, demoShown, demoSeen, demoLeft, loose,
                   told, repeated>>

-----------------------------------------------------------------------------
StopGoesOn == StopReads \/ StopAsks \/ StopLooks
Operates == ExecuteCommand \/ ArmAsks \/ StopGoesOn \/ Tells \/ OperationRaises

DemoNext ==
    \/ \E c \in TriggerArms \cup TriggerStops : RejectCommand(c) \/ AcceptCommand(c)
    \/ StopFrame \/ ExpiresMeanwhile \/ Operates
    \/ TriggerFires \/ SequenceEnds
    \/ \E r \in {"arm", "disarm", "cancel"} : LeftRequest(r)
    \/ DemoCloses \/ DemoStarts
    \/ PollAsks \/ PollTells \/ PollRaises

\* Every request has its timeout, and the status task polls as long as it lives.
DemoFairness ==
    /\ WF_demoVars(Operates)
    /\ WF_demoVars(PollAsks \/ PollTells)

DemoSpec == DemoInit /\ [][DemoNext]_demoVars /\ DemoFairness

-----------------------------------------------------------------------------
(* The bridge, its operation and its polls are in states there are, and      *)
(* trigger and flight exclude each other.                                    *)
DemoTypeOK ==
    /\ trigger \in BOOLEAN /\ sequence \in {"none", "flying", "ending"}
    /\ trigger => sequence = "none"
    /\ demoBridge \in {"up", "closing", "down"}
    /\ demoRecv.step \in {"idle", "accepted", "arm", "read", "disarm", "cancel", "look", "tell"}
    /\ demoRecv.got \in DemoStatus /\ demoPoll.got \in DemoStatus /\ demoShown \in DemoStatus
    /\ demoSeen \subseteq TriggerArms \cup TriggerStops
    /\ demoLeft \subseteq {"arm", "disarm", "cancel"}
    /\ demoBridge = "down" => demoRecv = DemoIdle

(* A stop that says that nothing is armed and nothing flies is right, until  *)
(* the next arm: also when the trigger fired between its look at the status  *)
(* and its request, so that what it asked for was the wrong thing.           *)
StopTellsTheTruth == told = "yes" => ~trigger /\ sequence = "none"

(* When the bridge has gone nothing is armed, and nothing flies that has not *)
(* been told to end, unless its last stop failed, an arm left to a thread    *)
(* came after it looked, or the trigger fired while it was under way.        *)
GoneIsDisarmed ==
    demoBridge = "down" /\ ~loose => ~trigger /\ (sequence = "flying" => slipped)

(* A command that succeeded does not arm again when it is delivered again.   *)
ArmsOnce == ~repeated

(* The status the heartbeats tell catches up with the service or says that   *)
(* it is in error, although an older answer may be stored after a newer.     *)
StatusCatchesUp == []<>(demoShown = Projected \/ demoError \/ demoBridge # "up")

(* Every operation comes to its end: a stop frame never waits for ever.      *)
OperationsEnd == []<>(demoRecv = DemoIdle)

(* The one-shot demonstration is stopped as told, left disarmed and demoShown.   *)
DemoIsSound ==
    /\ [](DemoTypeOK /\ StopTellsTheTruth /\ GoneIsDisarmed /\ ArmsOnce)
    /\ StatusCatchesUp /\ OperationsEnd
=============================================================================
