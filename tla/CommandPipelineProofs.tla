----------------------- MODULE CommandPipelineProofs -----------------------
(***************************************************************************)
(* The whole pipeline, with its gates, operators and deadlines, keeps to    *)
(* the turn-taking of DeviceLanes, for every classroom.                     *)
(***************************************************************************)
EXTENDS CommandPipeline, DeviceLanesProofs

(* What an operator task awaits is a device, and the watchdog loop works    *)
(* through expiries.                                                        *)
OpInv ==
  /\ owner \in [Device -> Session \cup {None}]
  /\ op \in [Operator -> OpRecord]
  /\ \A o \in Operator : op[o].does # "idle" => op[o].dev \in Device
  /\ \A o \in Operator : op[o].does = "watchdog" => op[o].todo \subseteq Device \X BeatKind

LEMMA OpInvInit == Init => OpInv
<1> SUFFICES ASSUME Init PROVE OpInv OBVIOUS
<1>1. owner \in [Device -> Session \cup {None}]
  BY DEF Init
<1>2. Idle \in OpRecord BY DEF Idle, OpRecord
<1> QED BY <1>1, <1>2 DEF Init, OpInv, Idle

(* Setting what one task awaits to a well-formed record keeps OpInv. *)
LEMMA AwaitKeepsOpInv ==
  ASSUME OpInv, NEW o \in Operator, NEW does \in {"stop", "stopall", "revoke",
           "unplug", "disconnect", "connect"},
         NEW d \in Device, NEW todo \in SUBSET Device,
         NEW saved \in Session \cup {None},
         Await(o, does, d, todo, saved), owner' = owner
  PROVE  OpInv'
<1>1. [does |-> does, dev |-> d, todo |-> todo, saved |-> saved] \in OpRecord
  BY DEF OpRecord
<1> QED BY <1>1 DEF OpInv, Await

LEMMA ReturnKeepsOpInv ==
  ASSUME OpInv, NEW o \in Operator, Return(o),
         owner' \in [Device -> Session \cup {None}]
  PROVE  OpInv'
<1>1. Idle \in OpRecord BY DEF Idle, OpRecord
<1> QED BY <1>1 DEF OpInv, Return, Idle

(* The tasks of submit do not touch what operators await. *)
LEMMA CommandStepKeepsOp ==
  ASSUME NEW c \in Command, CommandStep(c) PROVE UNCHANGED <<op, owner>>
<1> USE DEF stateVars, registryVars, supervisorVars, identityVars, taskVars, history
<1>1. CASE ShedCommand(c) BY <1>1 DEF ShedCommand, KeepRest
<1>2. CASE SubmitCommand(c) BY <1>2 DEF SubmitCommand
<1>3. CASE TakeTurn(c) BY <1>3 DEF TakeTurn, KeepRest
<1>4. CASE \E i \in Command : PopCommand(c, i) BY <1>4 DEF PopCommand, KeepRest
<1>5. CASE DenyUnclaimed(c) BY <1>5 DEF DenyUnclaimed, KeepRest
<1>6. CASE DenyClaimed(c) BY <1>6 DEF DenyClaimed
<1>7. CASE CallAdapter(c) BY <1>7 DEF CallAdapter
<1>8. CASE AdapterDone(c) BY <1>8 DEF AdapterDone
<1>9. CASE AdapterRefused(c) BY <1>9 DEF AdapterRefused
<1>10. CASE \E d \in Device : StopNextPeer(c, d) BY <1>10 DEF StopNextPeer
<1>11. CASE LeaveLane(c) BY <1>11 DEF LeaveLane, KeepRest
<1>12. CASE CancelRequest(c) BY <1>12 DEF CancelRequest
<1> QED BY <1>1, <1>2, <1>3, <1>4, <1>5, <1>6, <1>7, <1>8, <1>9, <1>10, <1>11,
           <1>12 DEF CommandStep

(* Enforcing watchdogs leaves an expiry list a list of expiries. *)
LEMMA EnforceKeepsOpInv ==
  ASSUME OpInv, NEW o \in Operator, NEW es \in SUBSET (Device \X BeatKind),
         NEW woken, Enforce(o, es, woken), owner' = owner
  PROVE  OpInv'
<1>1. PICK quiet \in SUBSET (es \ ToStop(es)) :
        \/ \E e \in ToStop(es) :
             Await(o, "watchdog", e[1], es \ (quiet \cup {e}), None)
        \/ Return(o)
  BY DEF Enforce
<1>2. CASE Return(o) BY <1>2, ReturnKeepsOpInv DEF OpInv
<1>3. ASSUME NEW e \in ToStop(es), Await(o, "watchdog", e[1], es \ (quiet \cup {e}), None)
      PROVE OpInv'
  <2>1. e[1] \in Device BY DEF ToStop
  <2>2. [does |-> "watchdog", dev |-> e[1], todo |-> es \ (quiet \cup {e}),
         saved |-> None] \in OpRecord
    BY <2>1 DEF OpRecord
  <2> QED BY <1>3, <2>1, <2>2 DEF OpInv, Await
<1> QED BY <1>1, <1>2, <1>3

LEMMA OpInvStep == OpInv /\ [Next]_vars => OpInv'
<1> SUFFICES ASSUME OpInv, [Next]_vars PROVE OpInv' OBVIOUS
<1>k. ASSUME UNCHANGED <<op, owner>> PROVE OpInv' BY <1>k DEF OpInv
<1> USE DEF stateVars, registryVars, supervisorVars, identityVars, taskVars, history
<1>1. ASSUME NEW c \in Command, CommandStep(c) PROVE OpInv'
  BY <1>1, <1>k, CommandStepKeepsOp
<1>2. ASSUME NEW o \in Operator, OperatorBegins(o) PROVE OpInv'
  <2>1. PICK d \in Device :
          \/ BeginStop(o, "stop", "stop", d) \/ BeginStop(o, "revoke", "revoke", d)
          \/ BeginStop(o, "disconnect", "unplug", d)
          \/ BeginStopAll(o, d) \/ BeginConnect(o, d)
    BY <1>2 DEF OperatorBegins
  <2>2. owner[d] \in Session \cup {None} BY DEF OpInv
  <2>3. owner' = owner BY <2>1 DEF BeginStop, BeginStopAll, BeginConnect
  <2>4. \E does \in {"stop", "stopall", "revoke", "unplug", "disconnect", "connect"},
           todo \in SUBSET Device, saved \in Session \cup {None} :
             Await(o, does, d, todo, saved)
    <3>1. CASE BeginStop(o, "stop", "stop", d) BY <3>1 DEF BeginStop
    <3>2. CASE BeginStop(o, "revoke", "revoke", d) BY <3>2 DEF BeginStop
    <3>3. CASE BeginStop(o, "disconnect", "unplug", d) BY <3>3 DEF BeginStop
    <3>4. CASE BeginStopAll(o, d) BY <3>4 DEF BeginStopAll
    <3>5. CASE BeginConnect(o, d) BY <3>5, <2>2 DEF BeginConnect
    <3> QED BY <2>1, <3>1, <3>2, <3>3, <3>4, <3>5
  <2> QED BY <2>3, <2>4, AwaitKeepsOpInv
<1>3. ASSUME NEW o \in Operator, OperatorResumes(o) PROVE OpInv'
  <2>0. op[o] \in OpRecord BY DEF OpInv
  <2>1. CASE EndStop(o) BY <2>1, ReturnKeepsOpInv DEF EndStop, OpInv
  <2>2. CASE EndRevoke(o)
    <3>1. owner' \in [Device -> Session \cup {None}] BY <2>2 DEF EndRevoke, OpInv
    <3> QED BY <2>2, <3>1, ReturnKeepsOpInv DEF EndRevoke
  <2>3. CASE Unplug(o)
    <3>1. op[o].dev \in Device BY <2>3 DEF Unplug, Resumed, OpInv
    <3>2. Await(o, "disconnect", op[o].dev, {}, owner[op[o].dev]) /\ owner' = owner
      BY <2>3 DEF Unplug
    <3>3. owner[op[o].dev] \in Session \cup {None} BY <3>1 DEF OpInv
    <3> QED BY <3>1, <3>2, <3>3, AwaitKeepsOpInv
  <2>4. CASE EndDisconnect(o)
    <3>1. op[o].saved \in Session \cup {None} BY <2>0 DEF OpRecord
    <3>2. owner' \in [Device -> Session \cup {None}] BY <2>4, <3>1 DEF EndDisconnect, OpInv
    <3> QED BY <2>4, <3>2, ReturnKeepsOpInv DEF EndDisconnect
  <2>5. ASSUME NEW d \in Device, StopAllNext(o, d) PROVE OpInv'
    <3>1. [does |-> "stopall", dev |-> d, todo |-> op[o].todo \ {d}, saved |-> None]
            \in OpRecord
      BY <2>0 DEF OpRecord
    <3>2. owner' = owner /\ Await(o, "stopall", d, op[o].todo \ {d}, None)
      BY <2>5 DEF StopAllNext
    <3> QED BY <3>1, <3>2 DEF OpInv, Await
  <2>6. CASE EndStopAll(o) BY <2>6, ReturnKeepsOpInv DEF EndStopAll, OpInv
  <2>7. ASSUME NEW outcome, EndConnect(o, outcome) PROVE OpInv'
    <3>1. op[o].saved \in Session \cup {None} BY <2>0 DEF OpRecord
    <3>2. owner' \in [Device -> Session \cup {None}] BY <2>7, <3>1 DEF EndConnect, OpInv
    <3> QED BY <2>7, <3>2, ReturnKeepsOpInv DEF EndConnect
  <2>8. ASSUME NEW outcome, NEW d \in Device, ConnectNext(o, d, outcome) PROVE OpInv'
    <3>1. op[o].saved \in Session \cup {None} BY <2>0 DEF OpRecord
    <3>2. owner' \in [Device -> Session \cup {None}] BY <2>8, <3>1 DEF ConnectNext, OpInv
    <3>3. [does |-> "connect", dev |-> d, todo |-> op[o].todo \ {d}, saved |-> owner[d]]
            \in OpRecord
      BY <2>0 DEF OpRecord, OpInv
    <3>4. Await(o, "connect", d, op[o].todo \ {d}, owner[d])
      BY <2>8 DEF ConnectNext
    <3> QED BY <3>2, <3>3, <3>4 DEF OpInv, Await
  <2> QED BY <1>3, <2>1, <2>2, <2>3, <2>4, <2>5, <2>6, <2>7, <2>8 DEF OperatorResumes
<1>4. CASE BeginWatchdogs
  <2>1. Silent \in SUBSET (Device \X BeatKind) BY DEF Silent
  <2>2. Enforce(Ticker, Silent, {}) /\ owner' = owner BY <1>4 DEF BeginWatchdogs
  <2> QED BY <2>1, <2>2, EnforceKeepsOpInv, PipelineAssumption
<1>5. CASE NextWatchdog
  <2>1. op[Ticker].todo \in SUBSET (Device \X BeatKind)
    BY <1>5, PipelineAssumption DEF NextWatchdog, Resumed, OpInv
  <2>2. Enforce(Ticker, op[Ticker].todo, {op[Ticker].dev}) /\ owner' = owner
    BY <1>5 DEF NextWatchdog
  <2> QED BY <2>1, <2>2, EnforceKeepsOpInv, PipelineAssumption
<1>6. CASE InstantStep
  <2>1. ASSUME NEW ds \in Scopes, ClearQueues(ds) PROVE OpInv'
    BY <2>1, <1>k DEF ClearQueues, KeepRest
  <2>2. ASSUME NEW ds \in Scopes, Disarm(ds) PROVE OpInv' BY <2>2, <1>k DEF Disarm
  <2>3. ASSUME NEW s \in Session, CreateSession(s) PROVE OpInv' BY <2>3, <1>k DEF CreateSession
  <2>4. ASSUME NEW s \in Session, NEW ds \in SUBSET Device, Bind(s, ds) PROVE OpInv'
    <3>1. owner' \in [Device -> Session \cup {None}] /\ op' = op BY <2>4 DEF Bind, OpInv
    <3> QED BY <3>1 DEF OpInv
  <2>5. ASSUME NEW s \in Session, NEW t \in SessionState, Transition(s, t) PROVE OpInv'
    <3>1. owner' \in [Device -> Session \cup {None}] /\ op' = op
      BY <2>5 DEF Transition, OpInv
    <3> QED BY <3>1 DEF OpInv
  <2>6. ASSUME NEW s \in Session, NEW d \in Device, Arm(s, d) PROVE OpInv' BY <2>6, <1>k DEF Arm
  <2>7. ASSUME NEW s \in Session, NEW p, SetFailurePolicy(s, p) PROVE OpInv'
    BY <2>7, <1>k DEF SetFailurePolicy
  <2>8. ASSUME NEW d \in Device, NEW k \in BeatKind, Heartbeat(d, k) PROVE OpInv'
    BY <2>8, <1>k DEF Heartbeat
  <2>9. ASSUME NEW src \in Source, SetInput(src) PROVE OpInv' BY <2>9, <1>k DEF SetInput
  <2> QED BY <1>6, <2>1, <2>2, <2>3, <2>4, <2>5, <2>6, <2>7, <2>8, <2>9 DEF InstantStep
<1>7. CASE Lapse
  BY <1>7, <1>k DEF Lapse, ArmLapses, LeaseLapses, BeatGoesStale, CommandExpires
<1>8. CASE UNCHANGED vars BY <1>8, <1>k DEF vars
<1> QED BY <1>1, <1>2, <1>3, <1>4, <1>5, <1>6, <1>7, <1>8 DEF Next

-----------------------------------------------------------------------------
(* Every step of the pipeline is a step of the lanes or leaves them alone.  *)

LEMMA DiscardIsClear ==
  ASSUME NEW ds \in Scopes, cpu = None, Discard(ds), KeepTasks
  PROVE  LaneNext
BY DEF ClearQueue, KeepTasks, LaneNext

LEMMA CallStopIsClear ==
  ASSUME NEW d \in Device, cpu = None, CallStop(d), KeepTasks
  PROVE  LaneNext
<1>1. {d} \in Scopes BY DEF Scopes
<1> QED BY <1>1, DiscardIsClear DEF CallStop

LEMMA CommandStepIsLaneStep ==
  ASSUME NEW c \in Command, CommandStep(c) PROVE LaneStep(c)
<1>1. CASE ShedCommand(c) BY <1>1 DEF ShedCommand, LaneStep
<1>2. CASE SubmitCommand(c) BY <1>2 DEF SubmitCommand, LaneStep
<1>3. CASE TakeTurn(c) BY <1>3 DEF TakeTurn, LaneStep
<1>4. CASE \E i \in Command : PopCommand(c, i) BY <1>4 DEF PopCommand, LaneStep
<1>5. CASE DenyUnclaimed(c) \/ DenyClaimed(c)
  <2>1. \E code : Deny(c, code) BY <1>5 DEF DenyUnclaimed, DenyClaimed
  <2>2. \E code \in Denials : Deny(c, code) BY <2>1 DEF Deny
  <2> QED BY <2>2 DEF LaneStep
<1>6. CASE CallAdapter(c) BY <1>6 DEF CallAdapter, LaneStep
<1>7. CASE AdapterDone(c)
  <2>1. \E outcome \in {"accepted", "refused", "error"} : Finish(c, outcome)
    BY <1>7 DEF AdapterDone
  <2> QED BY <2>1 DEF LaneStep
<1>8. CASE AdapterRefused(c)
  <2>1. \E outcome \in {"accepted", "refused", "error"} : Finish(c, outcome)
    BY <1>8 DEF AdapterRefused
  <2> QED BY <2>1 DEF LaneStep
<1>9. CASE \E d \in Device : StopNextPeer(c, d) BY <1>9 DEF StopNextPeer, LaneStep
<1>10. CASE LeaveLane(c) BY <1>10 DEF LeaveLane, LaneStep
<1>11. CASE CancelRequest(c) BY <1>11 DEF CancelRequest, LaneStep
<1> QED BY <1>1, <1>2, <1>3, <1>4, <1>5, <1>6, <1>7, <1>8, <1>9, <1>10, <1>11
        DEF CommandStep

LEMMA EnforceIsLaneStep ==
  ASSUME cpu = None, NEW o, NEW es \in SUBSET (Device \X BeatKind), NEW woken,
         Enforce(o, es, woken)
  PROVE  LaneNext \/ UNCHANGED laneVars
<1>1. \/ \E e \in ToStop(es) : CallStop(e[1]) /\ KeepTasks
      \/ KeepLanes
  BY DEF Enforce
<1>2. \A e \in ToStop(es) : e[1] \in Device BY DEF ToStop
<1> QED BY <1>1, <1>2, CallStopIsClear DEF KeepLanes

LEMMA PipelineStepIsLaneStep == OpInv /\ [Next]_vars => [LaneNext]_laneVars
<1> SUFFICES ASSUME OpInv, [Next]_vars PROVE LaneNext \/ UNCHANGED laneVars OBVIOUS
<1>1. ASSUME NEW c \in Command, CommandStep(c) PROVE LaneNext
  BY <1>1, CommandStepIsLaneStep DEF LaneNext
<1>2. ASSUME NEW o \in Operator, OperatorBegins(o) PROVE LaneNext \/ UNCHANGED laneVars
  <2>1. PICK d \in Device :
          \/ BeginStop(o, "stop", "stop", d) \/ BeginStop(o, "revoke", "revoke", d)
          \/ BeginStop(o, "disconnect", "unplug", d)
          \/ BeginStopAll(o, d) \/ BeginConnect(o, d)
    BY <1>2 DEF OperatorBegins
  <2>2. ASSUME NEW name, NEW does, BeginStop(o, name, does, d) PROVE LaneNext
    BY <2>2, CallStopIsClear DEF BeginStop, Begin
  <2>3. CASE BeginStopAll(o, d)
    <3>1. Device \in Scopes BY DEF Scopes
    <3> QED BY <2>3, <3>1, DiscardIsClear DEF BeginStopAll, Begin
  <2>4. CASE BeginConnect(o, d) BY <2>4 DEF BeginConnect, KeepLanes
  <2> QED BY <2>1, <2>2, <2>3, <2>4
<1>3. ASSUME NEW o \in Operator, OperatorResumes(o) PROVE LaneNext \/ UNCHANGED laneVars
  <2>1. CASE EndDisconnect(o)
    <3>1. op[o].dev \in Device BY <2>1 DEF EndDisconnect, Resumed, OpInv
    <3>2. {op[o].dev} \in Scopes BY <3>1 DEF Scopes
    <3> QED BY <2>1, <3>2, DiscardIsClear DEF EndDisconnect, Resumed
  <2>2. CASE ~EndDisconnect(o)
    BY <2>2, <1>3 DEF OperatorResumes, EndStop, EndRevoke, Unplug, StopAllNext, EndStopAll,
       EndConnect, ConnectNext, KeepLanes
  <2> QED BY <2>1, <2>2
<1>4. CASE BeginWatchdogs
  <2>1. Silent \in SUBSET (Device \X BeatKind) BY DEF Silent
  <2> QED BY <1>4, <2>1, EnforceIsLaneStep DEF BeginWatchdogs, Begin
<1>5. CASE NextWatchdog
  <2>1. op[Ticker].todo \in SUBSET (Device \X BeatKind)
    BY <1>5, PipelineAssumption DEF NextWatchdog, Resumed, OpInv
  <2> QED BY <1>5, <2>1, EnforceIsLaneStep DEF NextWatchdog, Resumed
<1>6. CASE InstantStep
  <2>1. ASSUME NEW ds \in Scopes, ClearQueues(ds) PROVE LaneNext
    BY <2>1 DEF ClearQueues, LaneNext
  <2>2. ASSUME NEW s, NEW t, \/ CreateSession(s) \/ Bind(s, t) \/ Transition(s, t) \/ Arm(s, t)
                             \/ SetFailurePolicy(s, t) \/ Heartbeat(s, t) \/ SetInput(s)
                             \/ Disarm(s)
        PROVE UNCHANGED laneVars
    BY <2>2 DEF CreateSession, Bind, Transition, Arm, SetFailurePolicy, Heartbeat, SetInput,
       Disarm, KeepLanes
  <2> QED BY <1>6, <2>1, <2>2 DEF InstantStep
<1>7. CASE Lapse
  BY <1>7 DEF Lapse, ArmLapses, LeaseLapses, BeatGoesStale, CommandExpires, KeepLanes
<1>8. CASE UNCHANGED vars BY <1>8 DEF vars
<1> QED BY <1>1, <1>2, <1>3, <1>4, <1>5, <1>6, <1>7, <1>8 DEF Next

(* The pipeline implements the turn-taking of DeviceLanes: what the gates,  *)
(* the operators, the watchdog loop and the deadlines do to the queue and   *)
(* the lanes is a step of submit, _drain or clear_queue, or none.           *)
THEOREM PipelineImplementsLanes == Spec => LaneSpec
<1>1. Init => LaneInit BY DEF Init
<1>2. Spec => []OpInv BY OpInvInit, OpInvStep, PTL DEF Spec
<1> QED BY <1>1, <1>2, PipelineStepIsLaneStep, PTL DEF Spec, LaneSpec

(* So no two commands are on the way to one robot, whatever the classroom   *)
(* does meanwhile (pipeline.py: "two lanes for one device would be two      *)
(* commands on one robot at once").                                         *)
THEOREM PipelineRunsOneCommandPerDevice == Spec => []OneCommandPerDevice
BY PipelineImplementsLanes, OneCommandPerDeviceHolds, PTL

-----------------------------------------------------------------------------
(* What the lanes guarantee holds in the pipeline too: in particular a task *)
(* at the gates has a command in its hands.                                 *)
LEMMA PipelineLaneInv == Spec => []Inv
BY PipelineImplementsLanes, InvAlways, PTL

LEMMA PipelineOpInv == Spec => []OpInv
BY OpInvInit, OpInvStep, PTL DEF Spec

(* The types of what the pipeline adds to the lanes. *)
StateTypeOK ==
  /\ sstate \in [Session -> SessionState \cup {None}]
  /\ bound \in [Session -> SUBSET Device]
  /\ policy \in [Session -> {"stop_coordinated", "continue"}]
  /\ conn \in [Device -> {"connecting", "connected", "disconnected", "failed"}]

SupervisorTypeOK ==
  /\ arms \in [Device -> Session \cup {None}]
  /\ beats \in [Device \X BeatKind -> {"none", "fresh", "stale"}]
  /\ disabled \in SUBSET Source
  /\ granted \in SUBSET Device

IdentityTypeOK ==
  /\ lease \in [Device -> Session \cup {None}]
  /\ claims \in [Key -> Command \cup {None}]
  /\ expired \in SUBSET Command
  /\ ran \in SUBSET Command

TaskTypeOK ==
  /\ armedAt \in [Command -> BOOLEAN]
  /\ plan \in [Command -> SUBSET Device]
  /\ peer \in [Command -> Device \cup {None}]
  /\ told \in [Device -> {"none", "stop", "move", "other"}]

AddedTypeOK == StateTypeOK /\ SupervisorTypeOK /\ IdentityTypeOK /\ TaskTypeOK

LEMMA AddedTypeInit == Init => AddedTypeOK
BY PipelineAssumption
DEF Init, AddedTypeOK, StateTypeOK, SupervisorTypeOK, IdentityTypeOK, TaskTypeOK, SessionState

(* A task at the gates, or executing, holds a command for its device. *)
LEMMA GateHasItem ==
  ASSUME Inv, NEW c \in Command, pc[c] \in Working
  PROVE  item[c] \in Command /\ Target[item[c]] = Target[c]
BY DEF Inv, AnswerInv, WorkingHasItem

LEMMA CommandStepTypes ==
  ASSUME AddedTypeOK, Inv, NEW c \in Command, CommandStep(c) PROVE AddedTypeOK'
<1> USE PipelineAssumption, LanesAssumption
    DEF stateVars, registryVars, supervisorVars, identityVars, taskVars, history,
        AddedTypeOK, StateTypeOK, SupervisorTypeOK, IdentityTypeOK, TaskTypeOK
<1>k. ASSUME KeepRest PROVE AddedTypeOK' BY <1>k DEF KeepRest
<1>1. CASE ShedCommand(c) BY <1>1, <1>k DEF ShedCommand
<1>2. CASE SubmitCommand(c) BY <1>2 DEF SubmitCommand
<1>3. CASE TakeTurn(c) BY <1>3, <1>k DEF TakeTurn
<1>4. CASE \E i \in Command : PopCommand(c, i) BY <1>4, <1>k DEF PopCommand
<1>5. CASE DenyUnclaimed(c) BY <1>5, <1>k DEF DenyUnclaimed
<1>6. CASE DenyClaimed(c)
  <2>1. item[c] \in Command BY <1>6, GateHasItem DEF DenyClaimed, Working
  <2> QED BY <1>6, <2>1 DEF DenyClaimed
<1>7. CASE CallAdapter(c)
  <2>1. item[c] \in Command BY <1>7, GateHasItem DEF CallAdapter, Working
  <2>2. Group(item[c]) \in SUBSET Device BY <2>1 DEF Group
  <2> QED BY <1>7, <2>1, <2>2 DEF CallAdapter
<1>8. CASE AdapterDone(c) BY <1>8 DEF AdapterDone
<1>9. CASE AdapterRefused(c) BY <1>9 DEF AdapterRefused, Disarmed
<1>10. ASSUME NEW d \in Device, StopNextPeer(c, d) PROVE AddedTypeOK'
  BY <1>10 DEF StopNextPeer, Disarmed
<1>11. CASE LeaveLane(c) BY <1>11, <1>k DEF LeaveLane
<1>12. CASE CancelRequest(c) BY <1>12 DEF CancelRequest
<1> QED BY <1>1, <1>2, <1>3, <1>4, <1>5, <1>6, <1>7, <1>8, <1>9, <1>10, <1>11,
           <1>12 DEF CommandStep

(* Whatever the watchdog loop withdraws, the heartbeats it has dealt with    *)
(* are forgotten and the others stay.                                       *)
LEMMA EnforceForgets ==
  ASSUME NEW o, NEW es, NEW woken, Enforce(o, es, woken)
  PROVE  \E X : beats' = [b \in Device \X BeatKind |-> IF b \in X THEN "none" ELSE beats[b]]
<1>1. PICK quiet \in SUBSET (es \ ToStop(es)) :
        \/ \E e \in ToStop(es) :
             beats' = [b \in Device \X BeatKind |->
                         IF b \in quiet \cup {e} THEN "none" ELSE beats[b]]
        \/ beats' = [b \in Device \X BeatKind |-> IF b \in quiet THEN "none" ELSE beats[b]]
  BY DEF Enforce
<1> QED BY <1>1

LEMMA EnforceTypes ==
  ASSUME AddedTypeOK, NEW o, NEW es \in SUBSET (Device \X BeatKind), NEW woken,
         Enforce(o, es, woken),
         UNCHANGED <<stateVars, registryVars, disabled, identityVars, armedAt,
                     plan, peer, ran>>
  PROVE  AddedTypeOK'
<1> USE DEF stateVars, registryVars, identityVars, AddedTypeOK, StateTypeOK, SupervisorTypeOK,
            IdentityTypeOK, TaskTypeOK
<1>1. arms' \in [Device -> Session \cup {None}] /\ granted' \in SUBSET Device
  BY DEF Enforce, Disarmed
<1>2. beats' \in [Device \X BeatKind -> {"none", "fresh", "stale"}]
  <2>1. \E X : beats' = [b \in Device \X BeatKind |-> IF b \in X THEN "none" ELSE beats[b]]
    BY EnforceForgets
  <2> QED BY <2>1
<1>3. \A e \in ToStop(es) : e[1] \in Device BY DEF ToStop
<1>4. told' \in [Device -> {"none", "stop", "move", "other"}]
  BY <1>3 DEF Enforce, CallStop
<1> QED BY <1>1, <1>2, <1>4

LEMMA OperatorTypes ==
  ASSUME AddedTypeOK, OpInv, NEW o \in Operator, OperatorBegins(o) \/ OperatorResumes(o)
  PROVE  AddedTypeOK'
<1> USE PipelineAssumption
    DEF stateVars, registryVars, supervisorVars, identityVars, taskVars, history,
        AddedTypeOK, StateTypeOK, SupervisorTypeOK, IdentityTypeOK, TaskTypeOK
<1>1. ASSUME NEW name, NEW does, NEW d \in Device, BeginStop(o, name, does, d)
      PROVE AddedTypeOK'
  BY <1>1 DEF BeginStop, CallStop
<1>2. ASSUME NEW d \in Device, BeginStopAll(o, d) PROVE AddedTypeOK' BY <1>2 DEF BeginStopAll
<1>3. ASSUME NEW d \in Device, BeginConnect(o, d) PROVE AddedTypeOK' BY <1>3 DEF BeginConnect
<1>4. CASE EndStop(o) BY <1>4 DEF EndStop, Disarmed
<1>5. CASE EndRevoke(o) BY <1>5 DEF EndRevoke, Disarmed
<1>6. CASE Unplug(o) BY <1>6 DEF Unplug, Disarmed
<1>7. CASE EndDisconnect(o)
  <2>1. sstate' \in [Session -> SessionState \cup {None}] BY <1>7 DEF EndDisconnect, SessionState
  <2> QED BY <1>7, <2>1 DEF EndDisconnect, Disarmed
<1>8. ASSUME NEW d \in Device, StopAllNext(o, d) PROVE AddedTypeOK' BY <1>8 DEF StopAllNext
<1>9. CASE EndStopAll(o) BY <1>9 DEF EndStopAll, Disarmed
<1>10. ASSUME NEW outcome \in {"connected", "failed"}, EndConnect(o, outcome) PROVE AddedTypeOK'
  BY <1>10 DEF EndConnect
<1>11. ASSUME NEW outcome \in {"connected", "failed"}, NEW d \in Device,
              ConnectNext(o, d, outcome)
       PROVE  AddedTypeOK'
  BY <1>11 DEF ConnectNext
<1> QED BY <1>1, <1>2, <1>3, <1>4, <1>5, <1>6, <1>7, <1>8, <1>9, <1>10, <1>11
        DEF OperatorBegins, OperatorResumes

LEMMA InstantTypes ==
  ASSUME AddedTypeOK, InstantStep \/ Lapse PROVE AddedTypeOK'
<1> USE PipelineAssumption
    DEF stateVars, registryVars, supervisorVars, identityVars, taskVars, history,
        AddedTypeOK, StateTypeOK, SupervisorTypeOK, IdentityTypeOK, TaskTypeOK
<1>1. ASSUME NEW ds \in Scopes, ClearQueues(ds) PROVE AddedTypeOK'
  BY <1>1 DEF ClearQueues, KeepRest
<1>2. ASSUME NEW ds \in Scopes, Disarm(ds) PROVE AddedTypeOK' BY <1>2 DEF Disarm, Disarmed
<1>3. ASSUME NEW s \in Session, CreateSession(s) PROVE AddedTypeOK'
  BY <1>3 DEF CreateSession, SessionState
<1>4. ASSUME NEW s \in Session, NEW ds \in SUBSET Device, Bind(s, ds) PROVE AddedTypeOK'
  BY <1>4 DEF Bind
<1>5. ASSUME NEW s \in Session, NEW t \in SessionState, Transition(s, t) PROVE AddedTypeOK'
  BY <1>5 DEF Transition, Disarmed
<1>6. ASSUME NEW s \in Session, NEW d \in Device, Arm(s, d) PROVE AddedTypeOK' BY <1>6 DEF Arm
<1>7. ASSUME NEW s \in Session, NEW p \in {"stop_coordinated", "continue"},
             SetFailurePolicy(s, p) PROVE AddedTypeOK'
  BY <1>7 DEF SetFailurePolicy
<1>8. ASSUME NEW d \in Device, NEW k \in BeatKind, Heartbeat(d, k) PROVE AddedTypeOK'
  BY <1>8 DEF Heartbeat
<1>9. ASSUME NEW src \in Source, SetInput(src) PROVE AddedTypeOK' BY <1>9 DEF SetInput
<1>10. ASSUME NEW d \in Device, ArmLapses(d) PROVE AddedTypeOK' BY <1>10 DEF ArmLapses
<1>11. ASSUME NEW d \in Device, LeaseLapses(d) PROVE AddedTypeOK' BY <1>11 DEF LeaseLapses
<1>12. ASSUME NEW d \in Device, NEW k \in BeatKind, BeatGoesStale(d, k) PROVE AddedTypeOK'
  BY <1>12 DEF BeatGoesStale
<1>13. ASSUME NEW c \in Command, CommandExpires(c) PROVE AddedTypeOK' BY <1>13 DEF CommandExpires
<1> HIDE DEF AddedTypeOK
<1> QED BY <1>1, <1>2, <1>3, <1>4, <1>5, <1>6, <1>7, <1>8, <1>9, <1>10, <1>11, <1>12, <1>13
        DEF InstantStep, Lapse

LEMMA AddedTypeStep == AddedTypeOK /\ OpInv /\ Inv /\ [Next]_vars => AddedTypeOK'
<1> SUFFICES ASSUME AddedTypeOK, OpInv, Inv, [Next]_vars PROVE AddedTypeOK' OBVIOUS
<1>1. CASE BeginWatchdogs
  <2>1. Silent \in SUBSET (Device \X BeatKind) BY DEF Silent
  <2> QED BY <1>1, <2>1, EnforceTypes DEF BeginWatchdogs
<1>2. CASE NextWatchdog
  <2>1. op[Ticker].todo \in SUBSET (Device \X BeatKind)
    BY <1>2, PipelineAssumption DEF NextWatchdog, Resumed, OpInv
  <2> QED BY <1>2, <2>1, EnforceTypes DEF NextWatchdog
<1>3. CASE UNCHANGED vars
  BY <1>3 DEF vars, stateVars, registryVars, supervisorVars, identityVars, taskVars, history,
     AddedTypeOK, StateTypeOK, SupervisorTypeOK, IdentityTypeOK, TaskTypeOK
<1> QED BY <1>1, <1>2, <1>3, CommandStepTypes, OperatorTypes, InstantTypes DEF Next

LEMMA PipelineAddedTypes == Spec => []AddedTypeOK
BY AddedTypeInit, AddedTypeStep, PipelineOpInv, PipelineLaneInv, PTL DEF Spec

(* The whole state of the pipeline keeps its type, in every classroom.      *)
THEOREM PipelineTypeCorrect == Spec => []PipelineTypeOK
<1>1. Inv /\ OpInv /\ AddedTypeOK => PipelineTypeOK
  BY DEF Inv, OpInv, AddedTypeOK, StateTypeOK, SupervisorTypeOK, IdentityTypeOK, TaskTypeOK,
     PipelineTypeOK
<1> QED BY <1>1, PipelineLaneInv, PipelineOpInv, PipelineAddedTypes, PTL

-----------------------------------------------------------------------------
(* What reaches an adapter is what a task at the gates was dispatching.     *)

LEMMA EnforceKeepsRan ==
  ASSUME BeginWatchdogs \/ NextWatchdog PROVE UNCHANGED <<ran, claims, expired, lease, sstate, bound, owner>>
BY DEF BeginWatchdogs, NextWatchdog, stateVars, registryVars, identityVars

LEMMA OperatorKeepsRan ==
  ASSUME NEW o \in Operator, OperatorBegins(o) \/ OperatorResumes(o)
  PROVE  UNCHANGED <<ran, claims, expired>>
<1> USE DEF identityVars, history
<1>1. CASE OperatorBegins(o) BY <1>1 DEF OperatorBegins, BeginStop, BeginStopAll, BeginConnect
<1>2. CASE OperatorResumes(o)
  BY <1>2 DEF OperatorResumes, EndStop, EndRevoke, Unplug, EndDisconnect, StopAllNext,
     EndStopAll, EndConnect, ConnectNext
<1> QED BY <1>1, <1>2

LEMMA InstantKeepsRan ==
  ASSUME InstantStep PROVE UNCHANGED <<ran, claims, expired>>
BY DEF InstantStep, ClearQueues, KeepRest, Disarm, CreateSession, Bind, Transition, Arm,
   SetFailurePolicy, Heartbeat, SetInput, identityVars, history

LEMMA LapseKeepsRan ==
  ASSUME Lapse
  PROVE  /\ UNCHANGED <<ran, claims>>
         /\ expired' = expired \/ \E c \in Command : expired' = expired \cup {c}
BY DEF Lapse, ArmLapses, LeaseLapses, BeatGoesStale, CommandExpires, identityVars, history

LEMMA CommandKeepsRan ==
  ASSUME NEW c \in Command, CommandStep(c), ~CallAdapter(c)
  PROVE  /\ UNCHANGED <<ran, expired>>
         /\ claims' = claims \/ DenyClaimed(c)
BY DEF CommandStep, ShedCommand, SubmitCommand, TakeTurn, PopCommand, DenyUnclaimed, DenyClaimed,
   AdapterDone, AdapterRefused, StopNextPeer, LeaveLane, CancelRequest, KeepRest, identityVars,
   history

LEMMA OnlyCallAdapterRuns ==
  ASSUME [Next]_vars
  PROVE  ran' = ran \/ \E c \in Command : CallAdapter(c)
<1>1. CASE UNCHANGED vars BY <1>1 DEF vars, history
<1> QED BY <1>1, EnforceKeepsRan, OperatorKeepsRan, InstantKeepsRan, LapseKeepsRan,
           CommandKeepsRan DEF Next

(* A gate that lets a command through answers None, which is no error code. *)
LEMMA NoneIsNoCode ==
  /\ None \notin Denials /\ None \notin Command
  /\ {"SAFETY_POLICY_DENIED", "COMMAND_EXPIRED", "COMMAND_DUPLICATE", "DEVICE_NOT_ARMED",
      "DEVICE_LEASE_CONFLICT", "DEVICE_NOT_ASSIGNED", "DEVICE_CAPABILITY_UNSUPPORTED"}
       \subseteq Denials
BY LanesAssumption, PipelineAssumption DEF Answers

(* The command that claimed a key and has not expired is the only one that  *)
(* can have run under it.                                                   *)
LedgerInv == \A i \in ran : i \in expired \/ claims[IdempotencyKey[i]] = i

LEMMA ClaimKeepsLedger ==
  ASSUME LedgerInv, IdentityTypeOK, NEW i \in Command, IdentityDenial(i) = None,
         claims' = [claims EXCEPT ![IdempotencyKey[i]] = i],
         expired' = expired, ran' \subseteq ran \cup {i}
  PROVE  LedgerInv'
<1> SUFFICES ASSUME NEW j \in ran', j \notin expired PROVE claims'[IdempotencyKey[j]] = j
  BY DEF LedgerInv
<1>1. IdempotencyKey[i] \in Key /\ claims'[IdempotencyKey[i]] = i
  BY PipelineAssumption DEF IdentityTypeOK
<1>2. CASE j = i BY <1>1, <1>2
<1>3. CASE j # i
  <2>1. j \in ran /\ j \in Command /\ IdempotencyKey[j] \in Key
    BY <1>3, PipelineAssumption DEF IdentityTypeOK
  <2>2. claims[IdempotencyKey[j]] = j BY <2>1 DEF LedgerInv
  <2>3. IdempotencyKey[j] # IdempotencyKey[i]
    BY <2>1, <2>2, NoneIsNoCode DEF IdentityDenial
  <2> QED BY <2>1, <2>2, <2>3 DEF IdentityTypeOK
<1> QED BY <1>2, <1>3

LEMMA LedgerStep ==
  LedgerInv /\ IdentityTypeOK /\ Inv /\ [Next]_vars => LedgerInv'
<1> SUFFICES ASSUME LedgerInv, IdentityTypeOK, Inv, [Next]_vars PROVE LedgerInv' OBVIOUS
<1>k. ASSUME ran' = ran, claims' = claims, expired \subseteq expired' PROVE LedgerInv'
  BY <1>k DEF LedgerInv
<1>1. ASSUME NEW c \in Command, CommandStep(c) PROVE LedgerInv'
  <2>1. CASE CallAdapter(c)
    <3>1. item[c] \in Command BY <2>1, GateHasItem DEF CallAdapter, Working
    <3>2. /\ IdentityDenial(item[c]) = None
          /\ claims' = [claims EXCEPT ![IdempotencyKey[item[c]]] = item[c]]
          /\ expired' = expired /\ ran' = ran \cup {item[c]}
      BY <2>1 DEF CallAdapter
    <3> QED BY <3>1, <3>2, ClaimKeepsLedger
  <2>2. CASE DenyClaimed(c)
    <3>1. item[c] \in Command BY <2>2, GateHasItem DEF DenyClaimed, Working
    <3>2. /\ IdentityDenial(item[c]) = None
          /\ claims' = [claims EXCEPT ![IdempotencyKey[item[c]]] = item[c]]
          /\ expired' = expired /\ ran' = ran
      BY <2>2 DEF DenyClaimed, history
    <3> QED BY <3>1, <3>2, ClaimKeepsLedger
  <2>3. CASE ~CallAdapter(c) /\ ~DenyClaimed(c)
    BY <1>1, <2>3, CommandKeepsRan, <1>k
  <2> QED BY <2>1, <2>2, <2>3
<1>2. CASE UNCHANGED vars BY <1>2, <1>k DEF vars, identityVars, history
<1> QED BY <1>1, <1>2, <1>k, EnforceKeepsRan, OperatorKeepsRan, InstantKeepsRan, LapseKeepsRan
        DEF Next

(* FR-071: of two commands with one idempotency key at most one reaches an  *)
(* adapter, unless one of them has expired.                                 *)
THEOREM OneRunPerKeyHolds == Spec => []OneRunPerKey
<1>1. Init => LedgerInv BY DEF Init, LedgerInv
<1>2. AddedTypeOK => IdentityTypeOK BY DEF AddedTypeOK
<1>3. LedgerInv => OneRunPerKey BY DEF LedgerInv, OneRunPerKey
<1> QED BY <1>1, <1>2, <1>3, LedgerStep, PipelineAddedTypes, PipelineLaneInv, PTL DEF Spec

-----------------------------------------------------------------------------
(* A device that is armed has been armed since it was last taken away.      *)
ArmedIsGranted == \A d \in Device : arms[d] # None => d \in granted

LEMMA DisarmKeepsGranted ==
  ASSUME ArmedIsGranted, NEW ds, arms' = Disarmed(ds), granted' = granted \ ds
  PROVE  ArmedIsGranted'
BY DEF ArmedIsGranted, Disarmed

LEMMA ArmedIsGrantedStep ==
  ArmedIsGranted /\ SupervisorTypeOK /\ [Next]_vars => ArmedIsGranted'
<1> SUFFICES ASSUME ArmedIsGranted, SupervisorTypeOK, [Next]_vars PROVE ArmedIsGranted'
  OBVIOUS
<1> USE DEF supervisorVars, history
<1>k. ASSUME arms' = arms, granted' = granted PROVE ArmedIsGranted' BY <1>k DEF ArmedIsGranted
<1>1. ASSUME NEW c \in Command, CommandStep(c) PROVE ArmedIsGranted'
  <2>1. CASE AdapterRefused(c) BY <2>1, DisarmKeepsGranted DEF AdapterRefused
  <2>2. ASSUME NEW d \in Device, StopNextPeer(c, d) PROVE ArmedIsGranted'
    BY <2>2, DisarmKeepsGranted DEF StopNextPeer
  <2>3. CASE ~AdapterRefused(c) /\ ~\E d \in Device : StopNextPeer(c, d)
    BY <1>1, <2>3, <1>k DEF CommandStep, ShedCommand, SubmitCommand, TakeTurn, PopCommand,
       DenyUnclaimed, DenyClaimed, CallAdapter, AdapterDone, LeaveLane, CancelRequest, KeepRest
  <2> QED BY <2>1, <2>2, <2>3
<1>2. ASSUME NEW o \in Operator, OperatorBegins(o) PROVE ArmedIsGranted'
  BY <1>2, <1>k DEF OperatorBegins, BeginStop, BeginStopAll, BeginConnect
<1>3. ASSUME NEW o \in Operator, OperatorResumes(o) PROVE ArmedIsGranted'
  <2>1. CASE EndStop(o) BY <2>1, DisarmKeepsGranted DEF EndStop
  <2>2. CASE EndRevoke(o) BY <2>2, DisarmKeepsGranted DEF EndRevoke
  <2>3. CASE Unplug(o) BY <2>3, DisarmKeepsGranted DEF Unplug
  <2>4. CASE EndDisconnect(o) BY <2>4, DisarmKeepsGranted DEF EndDisconnect
  <2>5. CASE EndStopAll(o) BY <2>5 DEF EndStopAll, ArmedIsGranted, Disarmed
  <2>6. ASSUME NEW d, NEW outcome,
               StopAllNext(o, d) \/ EndConnect(o, outcome) \/ ConnectNext(o, d, outcome)
        PROVE  ArmedIsGranted'
    BY <2>6, <1>k DEF StopAllNext, EndConnect, ConnectNext
  <2> QED BY <1>3, <2>1, <2>2, <2>3, <2>4, <2>5, <2>6 DEF OperatorResumes
<1>4. ASSUME NEW o, NEW es, NEW woken, Enforce(o, es, woken) PROVE ArmedIsGranted'
  <2>1. \E ds : arms' = Disarmed(ds) /\ granted' = granted \ ds BY <1>4 DEF Enforce
  <2> QED BY <2>1, DisarmKeepsGranted
<1>5. CASE InstantStep
  <2>1. ASSUME NEW ds \in Scopes, Disarm(ds) PROVE ArmedIsGranted'
    BY <2>1, DisarmKeepsGranted DEF Disarm
  <2>2. ASSUME NEW s \in Session, NEW t \in SessionState, Transition(s, t) PROVE ArmedIsGranted'
    <3>1. \E ds : arms' = Disarmed(ds) /\ granted' = granted \ ds BY <2>2 DEF Transition
    <3> QED BY <3>1, DisarmKeepsGranted
  <2>3. ASSUME NEW s \in Session, NEW d \in Device, Arm(s, d) PROVE ArmedIsGranted'
    BY <2>3 DEF Arm, ArmedIsGranted, SupervisorTypeOK
  <2>4. ASSUME NEW s, NEW t, \/ ClearQueues(s) \/ CreateSession(s) \/ Bind(s, t)
                             \/ SetFailurePolicy(s, t) \/ Heartbeat(s, t) \/ SetInput(s)
        PROVE ArmedIsGranted'
    BY <2>4, <1>k DEF ClearQueues, KeepRest, CreateSession, Bind, SetFailurePolicy, Heartbeat,
       SetInput
  <2> QED BY <1>5, <2>1, <2>2, <2>3, <2>4 DEF InstantStep
<1>6. CASE Lapse
  <2>1. ASSUME NEW d \in Device, ArmLapses(d) PROVE ArmedIsGranted'
    BY <2>1 DEF ArmLapses, ArmedIsGranted, SupervisorTypeOK
  <2>2. CASE ~\E d \in Device : ArmLapses(d)
    BY <1>6, <2>2, <1>k DEF Lapse, LeaseLapses, BeatGoesStale, CommandExpires
  <2> QED BY <2>1, <2>2
<1>7. CASE UNCHANGED vars BY <1>7, <1>k DEF vars
<1> QED BY <1>1, <1>2, <1>3, <1>4, <1>5, <1>6, <1>7 DEF Next, BeginWatchdogs, NextWatchdog

(* FR-066: no physical movement begins on a device that was stopped,        *)
(* disarmed, disconnected, revoked or handed back since it was last armed.  *)
THEOREM MotionNeedsRearmHolds == Spec => MotionNeedsRearm
<1>1. Init => ArmedIsGranted BY DEF Init, ArmedIsGranted
<1>2. AddedTypeOK => SupervisorTypeOK BY DEF AddedTypeOK
<1>3. ArmedIsGranted /\ Inv /\ [Next]_vars =>
        [\A i \in ran' \ ran :
           Kind[i] = "move" /\ IsPhysical(i) => Target[i] \in granted]_vars
  <2> SUFFICES ASSUME ArmedIsGranted, Inv, [Next]_vars, NEW i \in ran' \ ran,
                      Kind[i] = "move", IsPhysical(i)
               PROVE  Target[i] \in granted
    OBVIOUS
  <2>1. PICK c \in Command : CallAdapter(c) BY OnlyCallAdapterRuns
  <2>2. i = item[c] /\ SafetyDenial(i) = None /\ pc[c] \in Working
    BY <2>1 DEF CallAdapter, Working
  <2>3. i \in Command /\ Target[i] \in Device
    BY <2>2, GateHasItem, LanesAssumption
  <2>4. MovementDenial(i) = None
    BY <2>2, <2>3, NoneIsNoCode DEF SafetyDenial
  <2>5. arms[Target[i]] # None
    BY <2>4, NoneIsNoCode DEF MovementDenial
  <2> QED BY <2>3, <2>5 DEF ArmedIsGranted
<1>4. Spec => []ArmedIsGranted
  BY <1>1, <1>2, ArmedIsGrantedStep, PipelineAddedTypes, PTL DEF Spec
<1> QED BY <1>3, <1>4, PipelineLaneInv, PTL DEF Spec, MotionNeedsRearm

-----------------------------------------------------------------------------
(* Without revocation and reconnection, whose write-backs the code does not *)
(* reconcile with the sessions, the registry and the bindings agree.        *)
Unreconciled == {"revoke", "disconnect", "connect"}

BoundIsOwned ==
  \A s \in Session : \A d \in bound[s] : sstate[s] \notin Terminal => owner[d] = s

NobodyReconnects ==
  \A o \in Operator : op[o].does \notin {"revoke", "unplug", "disconnect", "connect"}

OwnershipInv == BoundIsOwned /\ NobodyReconnects

LEMMA OwnershipInit == Init => OwnershipInv
<1> SUFFICES ASSUME Init PROVE BoundIsOwned /\ NobodyReconnects BY DEF OwnershipInv
<1>1. ASSUME NEW s \in Session, NEW d \in bound[s] PROVE owner[d] = s
  <2>1. d \in Held[s] /\ d \in Device BY <1>1, PipelineAssumption DEF Init
  <2>2. owner[d] = CHOOSE t \in Session : d \in Held[t] BY <1>1, <2>1 DEF Init
  <2>3. \A t \in Session : d \in Held[t] => t = s BY <1>1, <2>1, PipelineAssumption
  <2> QED BY <1>1, <2>1, <2>2, <2>3
<1>2. NobodyReconnects BY DEF Init, Idle, NobodyReconnects
<1> QED BY <1>1, <1>2 DEF BoundIsOwned

LEMMA OwnershipStep ==
  ASSUME Uses \cap Unreconciled = {}
  PROVE  OwnershipInv /\ OpInv /\ AddedTypeOK /\ [Next]_vars => OwnershipInv'
<1> SUFFICES ASSUME OwnershipInv, OpInv, AddedTypeOK, [Next]_vars PROVE OwnershipInv'
  OBVIOUS
<1> USE DEF OwnershipInv, stateVars, registryVars, supervisorVars, identityVars, taskVars, history
<1>k. ASSUME UNCHANGED <<sstate, bound, owner, op>> PROVE OwnershipInv'
  BY <1>k DEF BoundIsOwned, NobodyReconnects
<1>w. ASSUME NEW o \in Operator, UNCHANGED <<sstate, bound, owner>>,
             NEW does \in {"stop", "stopall", "watchdog"}, NEW d, NEW todo, NEW saved,
             Await(o, does, d, todo, saved) \/ Return(o)
      PROVE OwnershipInv'
  BY <1>w DEF BoundIsOwned, NobodyReconnects, Await, Return, Idle, OpInv
<1>1. ASSUME NEW c \in Command, CommandStep(c) PROVE OwnershipInv'
  BY <1>1, <1>k DEF CommandStep, ShedCommand, SubmitCommand, TakeTurn, PopCommand, KeepRest,
     DenyUnclaimed, DenyClaimed, CallAdapter, AdapterDone, AdapterRefused, StopNextPeer,
     LeaveLane, CancelRequest
<1>2. ASSUME NEW o \in Operator, OperatorBegins(o) PROVE OwnershipInv'
  <2>1. PICK d \in Device :
          \/ BeginStop(o, "stop", "stop", d) \/ BeginStop(o, "revoke", "revoke", d)
          \/ BeginStop(o, "disconnect", "unplug", d)
          \/ BeginStopAll(o, d) \/ BeginConnect(o, d)
    BY <1>2 DEF OperatorBegins
  <2>2. BeginStop(o, "stop", "stop", d) \/ BeginStopAll(o, d)
    BY <2>1 DEF BeginStop, BeginConnect, Begin, Unreconciled
  <2>3. CASE BeginStop(o, "stop", "stop", d)
    <3>1. UNCHANGED <<sstate, bound, owner>> /\ Await(o, "stop", d, {}, None)
      BY <2>3 DEF BeginStop
    <3> QED BY <3>1, <1>w
  <2>4. CASE BeginStopAll(o, d)
    <3>1. UNCHANGED <<sstate, bound, owner>> /\ Await(o, "stopall", d, Device \ {d}, None)
      BY <2>4 DEF BeginStopAll
    <3> QED BY <3>1, <1>w
  <2> QED BY <2>2, <2>3, <2>4
<1>3. ASSUME NEW o \in Operator, OperatorResumes(o) PROVE OwnershipInv'
  <2>1. op[o].does \notin {"revoke", "unplug", "disconnect", "connect"}
    BY DEF NobodyReconnects
  <2>2. EndStop(o) \/ EndStopAll(o) \/ \E d \in Device : StopAllNext(o, d)
    BY <1>3, <2>1 DEF OperatorResumes, EndRevoke, Unplug, EndDisconnect, EndConnect, ConnectNext,
       Resumed
  <2>3. CASE EndStop(o) \/ EndStopAll(o)
    <3>1. UNCHANGED <<sstate, bound, owner>> /\ Return(o) BY <2>3 DEF EndStop, EndStopAll
    <3> QED BY <3>1, <1>w
  <2>4. ASSUME NEW d \in Device, StopAllNext(o, d) PROVE OwnershipInv'
    <3>1. UNCHANGED <<sstate, bound, owner>> /\ Await(o, "stopall", d, op[o].todo \ {d}, None)
      BY <2>4 DEF StopAllNext
    <3> QED BY <3>1, <1>w
  <2> QED BY <2>2, <2>3, <2>4
<1>4. CASE BeginWatchdogs \/ NextWatchdog
  <2>1. UNCHANGED <<sstate, bound, owner>> BY <1>4 DEF BeginWatchdogs, NextWatchdog
  <2>2. \E d, todo : Await(Ticker, "watchdog", d, todo, None) \/ Return(Ticker)
    BY <1>4 DEF BeginWatchdogs, NextWatchdog, Enforce
  <2> QED BY <2>1, <2>2, <1>w, PipelineAssumption
<1>5. CASE InstantStep
  <2>1. ASSUME NEW s \in Session, NEW ds \in SUBSET Device, Bind(s, ds) PROVE OwnershipInv'
    <3>1. PICK assigned \in SUBSET ds :
            /\ \A d \in assigned : owner[d] \in {None, s}
            /\ owner' = [d \in Device |-> IF d \in assigned THEN s ELSE owner[d]]
            /\ \/ bound' = bound
               \/ assigned = ds /\ bound' = [bound EXCEPT ![s] = ds]
      BY <2>1 DEF Bind
    <3>2. sstate' = sstate /\ op' = op BY <2>1 DEF Bind
    <3>3. ASSUME NEW t \in Session, NEW d \in bound'[t], sstate'[t] \notin Terminal
          PROVE owner'[d] = t
      <4>1. t # s => d \in bound[t] /\ d \in Device /\ owner[d] = t /\ t # None
        BY <3>1, <3>2, <3>3, PipelineAssumption DEF AddedTypeOK, StateTypeOK, BoundIsOwned
      <4>2. t = s => d \in Device /\ (d \in assigned \/ owner[d] = s)
        BY <3>1, <3>2, <3>3 DEF AddedTypeOK, StateTypeOK, BoundIsOwned
      <4> QED BY <3>1, <4>1, <4>2
    <3> QED BY <3>2, <3>3 DEF BoundIsOwned, NobodyReconnects
  <2>2. ASSUME NEW s \in Session, NEW t \in SessionState, Transition(s, t) PROVE OwnershipInv'
    <3>1. /\ sstate' = [sstate EXCEPT ![s] = t] /\ bound' = bound /\ op' = op
          /\ owner' = [d \in Device |-> IF t \in Terminal /\ owner[d] = s THEN None ELSE owner[d]]
      BY <2>2 DEF Transition
    <3>2. sstate[s] \notin Terminal BY <2>2 DEF Transition, Allowed
    <3>3. ASSUME NEW u \in Session, NEW d \in bound[u], sstate'[u] \notin Terminal
          PROVE owner'[d] = u
      <4>1. sstate[u] \notin Terminal /\ (u = s => t \notin Terminal)
        BY <3>1, <3>2, <3>3 DEF AddedTypeOK, StateTypeOK
      <4>2. d \in Device /\ owner[d] = u
        BY <4>1 DEF AddedTypeOK, StateTypeOK, BoundIsOwned
      <4> QED BY <3>1, <4>1, <4>2
    <3> QED BY <3>1, <3>3 DEF BoundIsOwned, NobodyReconnects
  <2>3. ASSUME NEW s \in Session, CreateSession(s) PROVE OwnershipInv'
    <3>1. /\ sstate' = [sstate EXCEPT ![s] = "created"] /\ sstate[s] = None
          /\ UNCHANGED <<bound, owner, op>>
      BY <2>3 DEF CreateSession
    <3>2. None \notin Terminal BY PipelineAssumption DEF Terminal, SessionState
    <3> QED BY <3>1, <3>2 DEF BoundIsOwned, NobodyReconnects, AddedTypeOK, StateTypeOK
  <2>4. ASSUME NEW s, NEW t, \/ ClearQueues(s) \/ Disarm(s) \/ Arm(s, t)
                             \/ SetFailurePolicy(s, t) \/ Heartbeat(s, t) \/ SetInput(s)
        PROVE OwnershipInv'
    BY <2>4, <1>k DEF ClearQueues, KeepRest, Disarm, Arm, SetFailurePolicy, Heartbeat, SetInput
  <2> QED BY <1>5, <2>1, <2>2, <2>3, <2>4 DEF InstantStep
<1>6. CASE Lapse
  BY <1>6, <1>k DEF Lapse, ArmLapses, LeaseLapses, BeatGoesStale, CommandExpires
<1>7. CASE UNCHANGED vars BY <1>7, <1>k DEF vars
<1> QED BY <1>1, <1>2, <1>3, <1>4, <1>5, <1>6, <1>7 DEF Next

(* FR-006, where it holds: while nothing is revoked, unplugged or           *)
(* rediscovered, only the session a device is assigned to moves it.         *)
THEOREM OnlyTheOwnerMovesHolds ==
  ASSUME Uses \cap Unreconciled = {}
  PROVE  Spec => OnlyTheOwnerMoves
<1>1. OwnershipInv /\ AddedTypeOK /\ Inv /\ [Next]_vars =>
        [\A i \in ran' \ ran : Kind[i] # "stop" => owner[Target[i]] = Sender[i]]_vars
  <2> SUFFICES ASSUME OwnershipInv, AddedTypeOK, Inv, [Next]_vars, NEW i \in ran' \ ran,
                      Kind[i] # "stop"
               PROVE  owner[Target[i]] = Sender[i]
    OBVIOUS
  <2>1. PICK c \in Command : CallAdapter(c) BY OnlyCallAdapterRuns
  <2>2. /\ i = item[c] /\ PlaceDenial(i) = None /\ SafetyDenial(i) = None
        /\ pc[c] \in Working
    BY <2>1 DEF CallAdapter, Working
  <2>3. i \in Command /\ Sender[i] \in Session
    BY <2>2, GateHasItem, PipelineAssumption
  <2>4. sstate[Sender[i]] \notin Terminal BY <2>2, NoneIsNoCode DEF PlaceDenial
  <2>5. Target[i] \in bound[Sender[i]] BY <2>2, NoneIsNoCode DEF SafetyDenial
  <2> QED BY <2>3, <2>4, <2>5 DEF OwnershipInv, BoundIsOwned
<1>2. Spec => []OwnershipInv
  BY OwnershipInit, OwnershipStep, PipelineOpInv, PipelineAddedTypes, PTL DEF Spec
<1> QED BY <1>1, <1>2, PipelineLaneInv, PipelineAddedTypes, PTL DEF Spec, OnlyTheOwnerMoves
=============================================================================
