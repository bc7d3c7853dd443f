------------------------------- MODULE MatterPlug -------------------------------
(***************************************************************************)
(* One Matter smart plug: the relay, the local Matter controller, and the  *)
(* adapter process between it and the fabric (bridge.py, backend.py,       *)
(* matter_client.py).  The process runs a task that receives frames and    *)
(* one that polls the state; both ask the controller, which carries        *)
(* requests out in any order, and a switch nobody waits for any more may   *)
(* still happen.                                                           *)
(***************************************************************************)
EXTENDS Naturals, Sequences

CONSTANTS MaxPlugFrames,   \* bound: commands and stops sent by the fabric
          MaxPlugFaults,   \* bound: timeouts, broken links, presses of the button, relaunches
          MaxPlugMisses,   \* MAX_CONSECUTIVE_STATE_POLL_FAILURES
          MaxVerifies      \* bound: reads before the verification deadline

ASSUME MatterAssumption ==
  /\ MaxPlugFrames \in Nat /\ MaxPlugFaults \in Nat
  /\ MaxPlugMisses \in Nat \ {0} /\ MaxVerifies \in Nat \ {0}

VARIABLES relay,        \* "on" or "off"
          controller,   \* the adapter's connection to the Matter controller is up
          lateSwitches, \* switches the controller has accepted and nobody verifies
          process,      \* the adapter process
          setting,      \* set_power: its step, what for, the state wanted, the answer
          polling,      \* _publish_state_changes
          misses,       \* _consecutive_state_poll_failures
          known,        \* _last_state
          inSession,    \* _state_publication_session_id is set
          activation,   \* the activation file is there
          inbox,        \* frames the fabric has sent
          shown,        \* the state of the last event published
          claimed,      \* history: what set_power last answered
          disturbed,    \* history: the relay was switched otherwise since it was asked
          plugFrames, plugFaults

workVars   == <<setting, polling>>
memoryVars == <<misses, known, inSession>>
budgetVars == <<plugFrames, plugFaults>>
matterVars == <<relay, controller, lateSwitches, process, workVars, memoryVars, activation, inbox, shown,
                claimed, disturbed, budgetVars>>

Powers == {"on", "off"}
NotSetting == [step |-> "none", for |-> "nobody", want |-> "off", read |-> "none", tries |-> 0]

MatterInit ==
  /\ relay \in Powers /\ controller = TRUE /\ lateSwitches = {}
  /\ process = "starting" /\ setting = [NotSetting EXCEPT !.step = "start", !.read = "asked"]
  /\ polling = "check" /\ misses = 0 /\ known = "unknown" /\ inSession = FALSE
  /\ activation = TRUE /\ inbox = <<>> /\ shown = "unknown"
  /\ claimed = "unknown" /\ disturbed = FALSE /\ plugFrames = 0 /\ plugFaults = 0

PlugFault == plugFaults < MaxPlugFaults /\ plugFaults' = plugFaults + 1

(***************************************************************************)
(* The plug and the controller.                                            *)
(***************************************************************************)
ButtonPressed ==
  /\ PlugFault
  /\ relay' \in Powers \ {relay} /\ disturbed' = TRUE
  /\ UNCHANGED <<controller, lateSwitches, process, workVars, memoryVars, activation, inbox, shown,
                 claimed, plugFrames>>

LateSwitch ==
  \E power \in lateSwitches :
    /\ relay' = power /\ lateSwitches' = lateSwitches \ {power} /\ disturbed' = TRUE
    /\ UNCHANGED <<controller, process, workVars, memoryVars, activation, inbox, shown, claimed,
                   budgetVars>>

\* the socket closes: what is outstanding fails, at once or when its timeout ends
ControllerLost ==
  /\ controller /\ PlugFault
  /\ controller' = FALSE
  /\ UNCHANGED <<relay, lateSwitches, process, workVars, memoryVars, activation, inbox, shown, claimed,
                 disturbed, plugFrames>>

ControllerAnswer == IF controller THEN relay ELSE "failed"

ReadForSetting ==
  /\ setting.read = "asked"
  /\ setting' = [setting EXCEPT !.read = ControllerAnswer]
  /\ UNCHANGED <<relay, controller, lateSwitches, process, polling, memoryVars, activation, inbox, shown,
                 claimed, disturbed, budgetVars>>

ReadForPoll ==
  /\ polling = "asked"
  /\ polling' = ControllerAnswer
  /\ UNCHANGED <<relay, controller, lateSwitches, process, setting, memoryVars, activation, inbox, shown,
                 claimed, disturbed, budgetVars>>

ReadTimesOut ==
  /\ PlugFault
  /\ \/ setting.read = "asked" /\ setting' = [setting EXCEPT !.read = "failed"] /\ UNCHANGED polling
     \/ polling = "asked" /\ polling' = "failed" /\ UNCHANGED setting
  /\ UNCHANGED <<relay, controller, lateSwitches, process, memoryVars, activation, inbox, shown, claimed,
                 disturbed, plugFrames>>

(***************************************************************************)
(* set_power, for the start, a command, a stop, and the end.               *)
(***************************************************************************)
Asked(for, want) ==
  setting' = [step |-> "current", for |-> for, want |-> want, read |-> "asked", tries |-> 0]

SetPower(for, want) ==
  Asked(for, want) /\ claimed' = "unknown" /\ disturbed' = FALSE

\* a switch that is being made when its task is cancelled is not taken back
Abandoned ==
  IF setting.step = "write" THEN {lateSwitches, lateSwitches \cup {setting.want}} ELSE {lateSwitches}

\* the end as it would be if the other tasks were not cancelled
EndsAlone == process' = "closing" /\ UNCHANGED <<lateSwitches, setting, claimed, disturbed, polling, inbox>>

\* one task ends: the others are cancelled, and the plug is switched off
Ends ==
  /\ process' = "closing"
  /\ lateSwitches' \in Abandoned
  /\ SetPower("end", "off")
  /\ polling' = "check"
  /\ inbox' = <<>>

\* the state goes out as an event of the session
Shows(power) == shown' = power

SettingSucceeds(power) ==
  /\ setting' = NotSetting /\ claimed' = power
  /\ CASE setting.for = "begin" -> process' = "run" /\ known' = power /\ UNCHANGED <<inSession, shown>>
       [] setting.for = "command" -> known' = power /\ inSession' = TRUE /\ Shows(power)
                                     /\ UNCHANGED process
       [] setting.for = "stop" -> known' = power /\ inSession' = FALSE /\ UNCHANGED <<process, shown>>
       [] setting.for = "end" -> process' = "ended" /\ known' = power /\ UNCHANGED <<inSession, shown>>
  /\ UNCHANGED <<lateSwitches, polling, inbox, disturbed>>

\* a failed command is reported; anything else that fails ends the process
SettingFails ==
  \/ /\ setting.for = "command" /\ setting' = NotSetting
     /\ lateSwitches' \in Abandoned
     /\ UNCHANGED <<process, polling, inbox, claimed, disturbed>>
  \/ /\ setting.for \in {"begin", "stop"} /\ Ends
  \/ /\ setting.for = "end" /\ setting' = NotSetting /\ process' = "ended"
     /\ lateSwitches' \in Abandoned
     /\ UNCHANGED <<polling, inbox, claimed, disturbed>>

SettingStep ==
  UNCHANGED <<relay, controller, misses, activation, plugFrames>>

CurrentRead ==
  /\ setting.step = "current" /\ setting.read # "asked"
  /\ \/ setting.read = setting.want /\ SettingSucceeds(setting.want)
     \/ /\ setting.read \in Powers \ {setting.want}
        /\ setting' = [setting EXCEPT !.step = "write", !.read = "none"]
        /\ UNCHANGED <<lateSwitches, process, polling, known, inSession, inbox, shown, claimed, disturbed>>
     \/ setting.read = "failed" /\ SettingFails /\ UNCHANGED <<known, inSession, shown>>
  /\ SettingStep /\ UNCHANGED plugFaults

AskAgain == setting' = [setting EXCEPT !.step = "verify", !.read = "asked", !.tries = @ + 1]

\* the plug has taken the command: it has switched, or is about to
WriteAnswered ==
  /\ setting.step = "write" /\ controller
  /\ AskAgain
  /\ \/ relay' = setting.want /\ UNCHANGED lateSwitches
     \/ lateSwitches' = lateSwitches \cup {setting.want} /\ UNCHANGED relay
  /\ UNCHANGED <<controller, process, polling, memoryVars, activation, inbox, shown, claimed,
                 disturbed, budgetVars>>

\* no answer in time, or no connection: the plug may have been told or not
WriteUnanswered ==
  /\ setting.step = "write"
  /\ IF controller THEN PlugFault ELSE UNCHANGED plugFaults
  /\ SettingFails
  /\ SettingStep /\ UNCHANGED <<known, inSession, shown>>

\* the verification as it would be if the answer to the write were trusted
Trusted(read) == read \in Powers

Verified(read) == read = setting.want

\* the state is read until it is the one wanted, or the deadline has passed
VerifyRead ==
  /\ setting.step = "verify" /\ setting.read # "asked"
  /\ \/ Verified(setting.read) /\ SettingSucceeds(setting.want)
     \/ /\ setting.read \in Powers /\ ~Verified(setting.read) /\ setting.tries < MaxVerifies
        /\ AskAgain
        /\ UNCHANGED <<lateSwitches, process, polling, known, inSession, inbox, shown, claimed, disturbed>>
     \/ /\ ~Verified(setting.read)
        /\ SettingFails /\ UNCHANGED <<known, inSession, shown>>
  /\ SettingStep /\ UNCHANGED plugFaults

(***************************************************************************)
(* The process: its start, its two tasks, its end, and the next process.   *)
(***************************************************************************)
\* start, and off at once when the plug is found on
Started ==
  /\ setting.step = "start" /\ setting.read # "asked"
  /\ CASE setting.read = "on" -> SetPower("begin", "off") /\ UNCHANGED <<process, known>>
       [] setting.read = "off" -> /\ setting' = NotSetting /\ process' = "run" /\ known' = "off"
                                  /\ UNCHANGED <<claimed, disturbed>>
       [] OTHER -> /\ setting' = NotSetting /\ process' = "ended"
                   /\ UNCHANGED <<known, claimed, disturbed>>
  /\ UNCHANGED <<relay, controller, lateSwitches, polling, misses, inSession, activation, inbox, shown,
                 budgetVars>>

FabricSends ==
  /\ process = "run" /\ plugFrames < MaxPlugFrames /\ plugFrames' = plugFrames + 1
  /\ \E frame \in Powers \cup {"stop"} : inbox' = Append(inbox, frame)
  /\ UNCHANGED <<relay, controller, lateSwitches, process, workVars, memoryVars, activation, shown,
                 claimed, disturbed, plugFaults>>

\* _receive handles one frame to its end before the next
Receive ==
  /\ process = "run" /\ setting = NotSetting /\ inbox # <<>>
  /\ IF Head(inbox) = "stop" THEN SetPower("stop", "off") ELSE SetPower("command", Head(inbox))
  /\ inbox' = Tail(inbox)
  /\ UNCHANGED <<relay, controller, lateSwitches, process, polling, memoryVars, activation, shown, budgetVars>>

\* the loop of the poll: it ends with the activation file
PollGoesOn ==
  /\ process = "run" /\ polling \in {"check", "asleep"}
  /\ \/ polling = "asleep" /\ polling' = "asked"
        /\ UNCHANGED <<lateSwitches, process, setting, inbox, claimed, disturbed>>
     \/ polling = "check" /\ activation /\ polling' = "asleep"
        /\ UNCHANGED <<lateSwitches, process, setting, inbox, claimed, disturbed>>
     \/ polling = "check" /\ ~activation /\ Ends
  /\ UNCHANGED <<relay, controller, memoryVars, activation, shown, budgetVars>>

\* the poll as it would be if it published the change without keeping it
NotKept(power) == known

Kept(power) == power

PollRead ==
  /\ process = "run" /\ polling \in Powers
  /\ polling' = "check" /\ misses' = 0
  /\ known' = Kept(polling)
  /\ Shows(IF polling # known /\ inSession THEN polling ELSE shown)
  /\ UNCHANGED <<relay, controller, lateSwitches, process, setting, inSession, activation, inbox, claimed,
                 disturbed, budgetVars>>

\* failures as they would be counted if a failure began the count anew
NeverThird == 1

Missed == misses + 1

PollFailed ==
  /\ process = "run" /\ polling = "failed"
  /\ misses' = Missed
  /\ IF misses' >= MaxPlugMisses
     THEN Ends
     ELSE polling' = "check" /\ UNCHANGED <<lateSwitches, process, setting, inbox, claimed, disturbed>>
  /\ UNCHANGED <<relay, controller, known, inSession, activation, shown, budgetVars>>

\* the connection to the fabric ends, or the process is asked to end
FabricGone ==
  /\ process = "run" /\ PlugFault
  /\ Ends
  /\ UNCHANGED <<relay, controller, memoryVars, activation, shown, plugFrames>>

ActivationRemoved ==
  /\ activation /\ PlugFault /\ activation' = FALSE
  /\ UNCHANGED <<relay, controller, lateSwitches, process, workVars, memoryVars, inbox, shown, claimed,
                 disturbed, plugFrames>>

Killed ==
  /\ process # "ended" /\ PlugFault
  /\ process' = "ended" /\ setting' = NotSetting /\ polling' = "check" /\ inbox' = <<>>
  /\ lateSwitches' \in Abandoned
  /\ UNCHANGED <<relay, controller, memoryVars, activation, shown, claimed, disturbed, plugFrames>>

Relaunched ==
  /\ process = "ended" /\ PlugFault
  /\ process' = "starting"
  /\ setting' = [NotSetting EXCEPT !.step = "start", !.read = "asked"]
  /\ polling' = "check" /\ misses' = 0 /\ known' = "unknown" /\ inSession' = FALSE
  /\ controller' = TRUE /\ activation' = TRUE /\ claimed' = "unknown" /\ disturbed' = FALSE
  /\ UNCHANGED <<relay, lateSwitches, inbox, shown, plugFrames>>

MatterNext ==
  \/ ButtonPressed \/ LateSwitch \/ ControllerLost \/ ReadTimesOut
  \/ ReadForSetting \/ ReadForPoll \/ CurrentRead \/ WriteAnswered \/ WriteUnanswered
  \/ VerifyRead \/ Started
  \/ FabricSends \/ Receive \/ PollGoesOn \/ PollRead \/ PollFailed
  \/ FabricGone \/ ActivationRemoved \/ Killed \/ Relaunched

\* the tasks and the controller go on; frames, faults and late switches need not come
MatterFairness ==
  /\ WF_matterVars(ReadForSetting \/ CurrentRead \/ WriteAnswered \/ VerifyRead \/ Started
                   \/ (~controller /\ WriteUnanswered))
  /\ WF_matterVars(ReadForPoll \/ PollGoesOn \/ PollRead \/ PollFailed)
  /\ WF_matterVars(Receive)

MatterSpec == MatterInit /\ [][MatterNext]_matterVars /\ MatterFairness

(***************************************************************************)
(* Properties.                                                             *)
(***************************************************************************)
\* The state holds values of its types, a process that runs has not missed
\* too often, and one that closes is switching the plug off and nothing else.
MatterTypeOK ==
  /\ relay \in Powers /\ controller \in BOOLEAN /\ lateSwitches \subseteq Powers
  /\ process \in {"starting", "run", "closing", "ended"}
  /\ setting \in [step : {"none", "start", "current", "write", "verify"},
                  for : {"nobody", "begin", "command", "stop", "end"}, want : Powers,
                  read : {"none", "asked", "failed"} \cup Powers, tries : 0..MaxVerifies]
  /\ polling \in {"check", "asleep", "asked", "failed"} \cup Powers
  /\ misses \in 0..MaxPlugMisses /\ (process = "run" => misses < MaxPlugMisses)
  /\ known \in Powers \cup {"unknown"} /\ inSession \in BOOLEAN /\ activation \in BOOLEAN
  /\ inbox \in Seq(Powers \cup {"stop"}) /\ shown \in Powers \cup {"unknown"}
  /\ claimed \in Powers \cup {"unknown"} /\ disturbed \in BOOLEAN
  /\ process = "closing" <=> setting.for = "end"
  /\ plugFrames \in 0..MaxPlugFrames /\ plugFaults \in 0..MaxPlugFaults

\* What a command, a stop or the end of the process reports is what the plug
\* does: unless the button was pressed or a switch given up before happened
\* late, the relay is in the state reported.
ReportedStateHolds == claimed # "unknown" /\ ~disturbed => relay = claimed

\* However polls, commands and the button overlap, the console comes to show
\* the plug as it is while a lesson controls it.
ConsoleCatchesUp == []<>(process # "run" \/ ~inSession \/ shown = relay)

\* A bridge whose controller is gone ends, so that the supervisor can begin
\* again (bridge.py: "stopping adapter for supervised transport recovery").
LostControllerEndsBridge == []<>(controller \/ process = "ended")

\* The bridge reports what the plug does, at once or in the end.
PlugBridgeIsSound ==
  [](MatterTypeOK /\ ReportedStateHolds) /\ ConsoleCatchesUp /\ LostControllerEndsBridge
================================================================================
