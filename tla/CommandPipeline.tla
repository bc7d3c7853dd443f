--------------------------- MODULE CommandPipeline ---------------------------
(***************************************************************************)
(* The one path from an intent to an adapter: CommandPipeline with the     *)
(* registry, the sessions, the safety supervisor, the ledger and the leases *)
(* it consults, and the Runtime operations that change them                *)
(* (apps/runtime-py/src/cit_runtime, packages/safety-core).                *)
(*                                                                         *)
(* The tasks of submit are those of DeviceLanes, whose actions are extended *)
(* here with what the gates read and write.  Operators are the other tasks  *)
(* of the event loop: instructor requests and the watchdog loop, which call *)
(* adapters and are suspended meanwhile.                                   *)
(*                                                                         *)
(* Time is abstracted: whatever has a deadline (an arm, a lease, a command, *)
(* a heartbeat) may pass it at any moment, between two steps of any task.  *)
(***************************************************************************)
EXTENDS DeviceLanes, ProgramSessions

CONSTANTS
  Session,          \* session ids
  Operator,         \* tasks of the instructor's requests
  Ticker,           \* the task of _watchdog_loop
  Source,           \* DeviceCommandIntent.source values in use
  Key,              \* idempotency keys
  Sender,           \* sessionId of each command
  From,             \* source of each command
  Kind,             \* what each command asks: "stop", "move" or "other"
  IdempotencyKey,   \* idempotencyKey of each command
  Unpermitted,      \* commands whose policy does not permit their capability
  PhysicalSession,  \* sessions whose executionMode is physical
  PhysicalDevice,   \* devices whose descriptor is physical
  RequireDeadman,   \* SafetyPolicy.require_deadman
  Prepared,         \* sessions created and validated beforehand
  Held,             \* the devices bound to each prepared session beforehand
  Moves,            \* session states the classroom moves a session to
  Uses              \* the operations the classroom uses

BeatKind == {"motion", "deadman"}

Operations == {"stop", "stopall", "revoke", "disconnect", "connect", "watchdog",
              "clear", "bind", "transition", "arm", "disarm", "heartbeat",
              "input", "policy", "cancel",
              "arm_ttl", "lease_ttl", "command_ttl", "beat_timeout"}

(* classify_priority *)
ClassifyPriority(kind, source) ==
  IF kind = "stop"
  THEN CASE source = "instructor" -> 2 [] source = "system" -> 3 [] OTHER -> 5
  ELSE CASE source = "system" -> 3
         [] source \in {"instructor", "student", "quest", "leap"} -> 6
         [] OTHER -> 7

ASSUME PipelineAssumption ==
  /\ Sender \in [Command -> Session]
  /\ From \in [Command -> Source]
  /\ Kind \in [Command -> {"stop", "move", "other"}]
  /\ IdempotencyKey \in [Command -> Key]
  /\ Priority = [c \in Command |-> ClassifyPriority(Kind[c], From[c])]
  /\ Denials = {"DEVICE_NOT_ASSIGNED", "SAFETY_POLICY_DENIED", "DEVICE_OFFLINE",
                "COMMAND_EXPIRED", "COMMAND_DUPLICATE", "DEVICE_NOT_ARMED",
                "DEVICE_LEASE_CONFLICT", "DEVICE_CAPABILITY_UNSUPPORTED"}
  /\ Unpermitted \subseteq Command /\ RequireDeadman \in BOOLEAN
  /\ PhysicalSession \subseteq Session /\ PhysicalDevice \subseteq Device
  /\ Ticker \in Operator
  /\ Prepared \subseteq Session /\ Held \in [Session -> SUBSET Device]
  /\ \A s \in Session, t \in Session : s # t => Held[s] \cap Held[t] = {}
  /\ \A s \in Session \ Prepared : Held[s] = {}
  /\ Moves \subseteq SessionState /\ Uses \subseteq Operations
  /\ None \notin Session \cup Device \cup SessionState

VARIABLES
  sstate,    \* ProgramSession.state; None before create_session
  bound,     \* ProgramSession.device_bindings
  policy,    \* ProgramSession.failure_policy
  conn,      \* RegisteredDevice.state
  owner,     \* RegisteredDevice.assigned_session_id
  arms,      \* SafetySupervisor._arms: the session a device is armed for
  beats,     \* SafetySupervisor._heartbeats: absent, within or past its timeout
  disabled,  \* SafetySupervisor._disabled_sources
  lease,     \* the session with the live write lease of a device
  claims,    \* InMemoryCommandLedger._claims: the command that claimed a key
  expired,   \* commands past their expiresAt
  armedAt,   \* safetyContext.armed, read when the command was built
  plan,      \* devices _apply_failure_policy has still to stop for a task
  peer,      \* the device whose adapter.stop a failure policy awaits
  op,        \* what each operator task is awaiting
  told       \* the last call made to a device's adapter

(* History, for the properties only. *)
VARIABLES
  ran,       \* commands handed to an adapter
  granted    \* devices armed since they were last stopped, disarmed or handed back

stateVars == <<sstate, bound, policy>>
registryVars == <<conn, owner>>
supervisorVars == <<arms, beats, disabled>>
identityVars == <<lease, claims, expired>>
taskVars == <<armedAt, plan, peer, op>>
history == <<ran, granted>>

vars == <<laneVars, stateVars, registryVars, supervisorVars, identityVars,
          taskVars, told, history>>

Idle == [does |-> "idle", dev |-> None, todo |-> {}, saved |-> None]

OpRecord ==
  [does : {"idle", "stop", "stopall", "revoke", "unplug", "disconnect",
           "connect", "watchdog"},
   dev : Device \cup {None},
   todo : SUBSET (Device \cup (Device \X BeatKind)),
   saved : Session \cup {None}]

PipelineTypeOK ==
  /\ LaneTypeOK
  /\ sstate \in [Session -> SessionState \cup {None}]
  /\ bound \in [Session -> SUBSET Device]
  /\ policy \in [Session -> {"stop_coordinated", "continue"}]
  /\ conn \in [Device -> {"connecting", "connected", "disconnected", "failed"}]
  /\ owner \in [Device -> Session \cup {None}]
  /\ arms \in [Device -> Session \cup {None}]
  /\ beats \in [Device \X BeatKind -> {"none", "fresh", "stale"}]
  /\ disabled \in SUBSET Source
  /\ lease \in [Device -> Session \cup {None}]
  /\ claims \in [Key -> Command \cup {None}]
  /\ expired \in SUBSET Command
  /\ armedAt \in [Command -> BOOLEAN]
  /\ plan \in [Command -> SUBSET Device]
  /\ peer \in [Command -> Device \cup {None}]
  /\ op \in [Operator -> OpRecord]
  /\ told \in [Device -> {"none", "stop", "move", "other"}]
  /\ ran \in SUBSET Command
  /\ granted \in SUBSET Device

(* Runtime.start has connected every device, and the prepared sessions have *)
(* been created, validated and bound.                                       *)
Init ==
  /\ LaneInit
  /\ sstate = [s \in Session |-> IF s \in Prepared THEN "ready" ELSE None]
  /\ bound = Held
  /\ policy = [s \in Session |-> "stop_coordinated"]
  /\ conn = [d \in Device |-> "connected"]
  /\ owner = [d \in Device |->
                IF \E s \in Session : d \in Held[s]
                THEN CHOOSE s \in Session : d \in Held[s] ELSE None]
  /\ arms = [d \in Device |-> None]
  /\ beats = [b \in Device \X BeatKind |-> "none"]
  /\ disabled = {}
  /\ lease = [d \in Device |-> None]
  /\ claims = [k \in Key |-> None]
  /\ expired = {}
  /\ armedAt = [c \in Command |-> FALSE]
  /\ plan = [c \in Command |-> {}]
  /\ peer = [c \in Command |-> None]
  /\ op = [o \in Operator |-> Idle]
  /\ told = [d \in Device |-> "none"]
  /\ ran = {} /\ granted = {}

-----------------------------------------------------------------------------
(* The gates of _dispatch, in the order the code asks them. *)

IsPhysical(i) == Sender[i] \in PhysicalSession /\ Target[i] \in PhysicalDevice

(* The session exists and has not ended, the device is connected. *)
PlaceDenial(i) ==
  IF sstate[Sender[i]] = None THEN "DEVICE_NOT_ASSIGNED"
  ELSE IF sstate[Sender[i]] \in Terminal THEN "SAFETY_POLICY_DENIED"
  ELSE IF conn[Target[i]] # "connected" THEN "DEVICE_OFFLINE"
  ELSE None

(* Mutant: the ledger is kept per device.                                   *)
IdentityDenialPerDevice(i) ==
  LET holding == claims[IdempotencyKey[i]] IN
  IF i \in expired THEN "COMMAND_EXPIRED"
  ELSE IF holding # None /\ holding \notin expired /\ Target[holding] = Target[i]
  THEN "COMMAND_DUPLICATE" ELSE None

(* InMemoryCommandLedger.claim: a key is held until the command that        *)
(* claimed it expires.                                                      *)
IdentityDenial(i) ==
  LET holding == claims[IdempotencyKey[i]] IN
  IF i \in expired THEN "COMMAND_EXPIRED"
  ELSE IF holding # None /\ holding \notin expired THEN "COMMAND_DUPLICATE"
  ELSE None

(* _physical_movement_denial, after FoundationSafetyGate has looked at the  *)
(* armed flag the command was built with.                                   *)
MovementDenial(i) ==
  LET d == Target[i] IN
  IF ~armedAt[i] \/ arms[d] = None THEN "DEVICE_NOT_ARMED"
  ELSE IF arms[d] # Sender[i] THEN "DEVICE_LEASE_CONFLICT"
  ELSE IF RequireDeadman /\ beats[<<d, "deadman">>] # "fresh" THEN "SAFETY_POLICY_DENIED"
  ELSE None

(* SafetySupervisor.evaluate: a stop is always allowed. *)
SafetyDenial(i) ==
  IF Kind[i] = "stop" THEN None
  ELSE IF From[i] \in disabled THEN "SAFETY_POLICY_DENIED"
  ELSE IF Target[i] \notin bound[Sender[i]] THEN "DEVICE_NOT_ASSIGNED"
  ELSE IF i \in Unpermitted THEN "DEVICE_CAPABILITY_UNSUPPORTED"
  ELSE IF Kind[i] = "move" /\ From[i] = "agent_mesh" THEN "SAFETY_POLICY_DENIED"
  ELSE IF Kind[i] = "move" /\ IsPhysical(i) THEN MovementDenial(i)
  ELSE None

(* InMemoryDeviceLeaseRegistry.acquire: the holder may renew. *)
LeaseDenial(i) ==
  IF lease[Target[i]] \notin {None, Sender[i]} THEN "DEVICE_LEASE_CONFLICT" ELSE None

(* What FailurePolicy.STOP_COORDINATED will stop if this command fails: the *)
(* session object is the one read before the adapter was awaited.           *)
Group(i) ==
  IF Sender[i] \in PhysicalSession /\ policy[Sender[i]] = "stop_coordinated"
  THEN (bound[Sender[i]] \cap PhysicalDevice) \ {Target[i]} ELSE {}

-----------------------------------------------------------------------------
(* submit and _drain. *)

(* The API builds the intent in the step that submits it. *)
SubmitCommand(c) ==
  /\ Submit(c)
  /\ armedAt' = [armedAt EXCEPT ![c] = arms[Target[c]] # None]
  /\ UNCHANGED <<stateVars, registryVars, supervisorVars, identityVars,
                 plan, peer, op, told, history>>

KeepRest ==
  UNCHANGED <<stateVars, registryVars, supervisorVars, identityVars, taskVars,
              told, history>>

ShedCommand(c) == Shed(c) /\ KeepRest
TakeTurn(c) == Grant(c) /\ KeepRest
PopCommand(c, i) == Pop(c, i) /\ KeepRest
LeaveLane(c) == Leave(c) /\ KeepRest

(* A command that fails the first two gates leaves no trace. *)
DenyUnclaimed(c) ==
  /\ cpu = c /\ pc[c] = "gate"
  /\ \/ Deny(c, PlaceDenial(item[c]))
     \/ PlaceDenial(item[c]) = None /\ Deny(c, IdentityDenial(item[c]))
  /\ KeepRest

(* One denied later has spent its idempotency key. *)
DenyClaimed(c) ==
  LET i == item[c] IN
  /\ cpu = c /\ pc[c] = "gate"
  /\ PlaceDenial(i) = None /\ IdentityDenial(i) = None
  /\ \/ Deny(c, SafetyDenial(i))
     \/ SafetyDenial(i) = None /\ Deny(c, LeaseDenial(i))
  /\ claims' = [claims EXCEPT ![IdempotencyKey[i]] = i]
  /\ UNCHANGED <<stateVars, registryVars, supervisorVars, lease, expired,
                 taskVars, told, history>>

(* Every gate passed: the lease is taken or renewed and the adapter called. *)
CallAdapter(c) ==
  LET i == item[c] IN
  /\ cpu = c /\ pc[c] = "gate"
  /\ PlaceDenial(i) = None /\ IdentityDenial(i) = None
  /\ SafetyDenial(i) = None /\ LeaseDenial(i) = None
  /\ Execute(c)
  /\ claims' = [claims EXCEPT ![IdempotencyKey[i]] = i]
  /\ lease' = [lease EXCEPT ![Target[i]] = Sender[i]]
  /\ told' = [told EXCEPT ![Target[i]] = Kind[i]]
  /\ plan' = [plan EXCEPT ![c] = Group(i)]
  /\ ran' = ran \cup {i}
  /\ UNCHANGED <<stateVars, registryVars, supervisorVars, expired, armedAt,
                 peer, op, granted>>

(* The adapter accepted the command, or raised. *)
AdapterDone(c) ==
  /\ pc[c] = "exec"
  /\ Finish(c, "accepted") \/ Finish(c, "error")
  /\ plan' = [plan EXCEPT ![c] = {}]
  /\ UNCHANGED <<stateVars, registryVars, supervisorVars, identityVars,
                 armedAt, peer, op, told, history>>

(* stop_device up to its await: the queue of the device is discarded and    *)
(* its adapter told to stop.                                                *)
CallStop(d) == Discard({d}) /\ told' = [told EXCEPT ![d] = "stop"]

(* Mutant: only a device that still has an owner is disarmed.               *)
DisarmedIfOwned(ds) ==
  [d \in Device |-> IF d \in ds /\ owner[d] # None THEN None ELSE arms[d]]

(* ... and from there on: the device is disarmed. *)
Disarmed(ds) == [d \in Device |-> IF d \in ds THEN None ELSE arms[d]]

(* The devices whose stop a task of the failure policy has just awaited. *)
Awaited(c) == {peer[c]} \ {None}

(* Mutant: the group is stopped but keeps what is queued for it.            *)
StopNextPeerKeepsQueue(c, d) ==
  /\ cpu = None /\ pc[c] \in {"exec", "group"} /\ d \in plan[c]
  /\ pc' = [pc EXCEPT ![c] = "group"]
  /\ UNCHANGED <<queue, ticket, answer, pushed, lanes, users, holder, mine, item, cpu>>
  /\ told' = [told EXCEPT ![d] = "stop"]
  /\ arms' = Disarmed(Awaited(c))
  /\ granted' = granted \ Awaited(c)
  /\ plan' = [plan EXCEPT ![c] = @ \ {d}]
  /\ peer' = [peer EXCEPT ![c] = d]
  /\ UNCHANGED <<stateVars, registryVars, beats, disabled, identityVars,
                 armedAt, op, ran>>

(* The adapter refused, or the previous stop of the policy returned, and    *)
(* another device of the group is left to stop.                             *)
StopNextPeer(c, d) ==
  /\ pc[c] \in {"exec", "group"} /\ d \in plan[c]
  /\ StopPeer(c, d)
  /\ told' = [told EXCEPT ![d] = "stop"]
  /\ arms' = Disarmed(Awaited(c))
  /\ granted' = granted \ Awaited(c)
  /\ plan' = [plan EXCEPT ![c] = @ \ {d}]
  /\ peer' = [peer EXCEPT ![c] = d]
  /\ UNCHANGED <<stateVars, registryVars, beats, disabled, identityVars,
                 armedAt, op, ran>>

(* ... and none is left: the refusal is answered. *)
AdapterRefused(c) ==
  /\ pc[c] \in {"exec", "group"} /\ plan[c] = {}
  /\ Finish(c, "refused")
  /\ arms' = Disarmed(Awaited(c))
  /\ granted' = granted \ Awaited(c)
  /\ peer' = [peer EXCEPT ![c] = None]
  /\ UNCHANGED <<stateVars, registryVars, beats, disabled, identityVars,
                 armedAt, plan, op, told, ran>>

(* The request is cancelled at one of its awaits. *)
CancelRequest(c) ==
  /\ "cancel" \in Uses
  /\ CancelWaiting(c) \/ CancelWorking(c)
  /\ plan' = [plan EXCEPT ![c] = {}]
  /\ peer' = [peer EXCEPT ![c] = None]
  /\ UNCHANGED <<stateVars, registryVars, supervisorVars, identityVars,
                 armedAt, op, told, history>>

-----------------------------------------------------------------------------
(* The instructor's asynchronous operations.  Each begins on an idle task,  *)
(* calls an adapter, and goes on when the adapter has returned.             *)

KeepLanes == UNCHANGED laneVars
KeepTasks == UNCHANGED <<pushed, lanes, users, holder, mine, pc, item, cpu>>

Begin(o, name) == cpu = None /\ name \in Uses /\ op[o] = Idle
Await(o, does, d, todo, saved) ==
  op' = [op EXCEPT ![o] = [does |-> does, dev |-> d, todo |-> todo, saved |-> saved]]
Resumed(o, does) == cpu = None /\ op[o].does = does
Return(o) == op' = [op EXCEPT ![o] = Idle]

(* stop_device, alone or as the first half of revoke_lease or of            *)
(* disconnect_device.                                                       *)
BeginStop(o, name, does, d) ==
  /\ Begin(o, name) /\ o # Ticker
  /\ CallStop(d) /\ KeepTasks
  /\ Await(o, does, d, {}, None)
  /\ UNCHANGED <<stateVars, registryVars, supervisorVars, identityVars,
                 armedAt, plan, peer, history>>

EndStop(o) ==
  LET d == op[o].dev IN
  /\ Resumed(o, "stop") /\ Return(o)
  /\ arms' = Disarmed({d})
  /\ granted' = granted \ {d}
  /\ KeepLanes
  /\ UNCHANGED <<stateVars, registryVars, beats, disabled, identityVars,
                 armedAt, plan, peer, told, ran>>

(* revoke_lease: stop-then-release, and Runtime.revoke_lease disarms. *)
EndRevoke(o) ==
  LET d == op[o].dev IN
  /\ Resumed(o, "revoke") /\ Return(o)
  /\ arms' = Disarmed({d})
  /\ granted' = granted \ {d}
  /\ lease' = [lease EXCEPT ![d] = None]
  /\ owner' = [owner EXCEPT ![d] = None]
  /\ KeepLanes
  /\ UNCHANGED <<stateVars, conn, beats, disabled, claims, expired, armedAt,
                 plan, peer, told, ran>>

(* disconnect_device: the device has stopped; registry.disconnect keeps the *)
(* record it read and awaits the adapter.                                   *)
Unplug(o) ==
  LET d == op[o].dev IN
  /\ Resumed(o, "unplug")
  /\ Await(o, "disconnect", d, {}, owner[d])
  /\ arms' = Disarmed({d})
  /\ granted' = granted \ {d}
  /\ KeepLanes
  /\ UNCHANGED <<stateVars, registryVars, beats, disabled, identityVars,
                 armedAt, plan, peer, told, ran>>

(* registry.disconnect writes that record back and handle_disconnect clears *)
(* the queue, disarms, marks the device failed and its sessions             *)
(* disconnected.                                                            *)
EndDisconnect(o) ==
  LET d == op[o].dev
      affected == {s \in Session : d \in bound[s] /\ sstate[s] # None
                                /\ sstate[s] \notin Terminal}
  IN
  /\ Resumed(o, "disconnect") /\ Return(o)
  /\ Discard({d}) /\ KeepTasks
  /\ arms' = Disarmed({d})
  /\ granted' = granted \ {d}
  /\ conn' = [conn EXCEPT ![d] = "failed"]
  /\ owner' = [owner EXCEPT ![d] = op[o].saved]
  /\ sstate' = [s \in Session |-> IF s \in affected THEN "disconnected" ELSE sstate[s]]
  /\ UNCHANGED <<bound, policy, beats, disabled, identityVars, armedAt, plan,
                 peer, told, ran>>

(* stop_all discards every queue, then stops the devices one by one. *)
BeginStopAll(o, d) ==
  /\ Begin(o, "stopall") /\ o # Ticker
  /\ Discard(Device) /\ KeepTasks
  /\ told' = [told EXCEPT ![d] = "stop"]
  /\ Await(o, "stopall", d, Device \ {d}, None)
  /\ UNCHANGED <<stateVars, registryVars, supervisorVars, identityVars,
                 armedAt, plan, peer, history>>

StopAllNext(o, d) ==
  /\ Resumed(o, "stopall") /\ d \in op[o].todo
  /\ told' = [told EXCEPT ![d] = "stop"]
  /\ Await(o, "stopall", d, op[o].todo \ {d}, None)
  /\ KeepLanes
  /\ UNCHANGED <<stateVars, registryVars, supervisorVars, identityVars,
                 armedAt, plan, peer, history>>

EndStopAll(o) ==
  /\ Resumed(o, "stopall") /\ op[o].todo = {} /\ Return(o)
  /\ arms' = Disarmed(Device)
  /\ granted' = {}
  /\ KeepLanes
  /\ UNCHANGED <<stateVars, registryVars, beats, disabled, identityVars,
                 armedAt, plan, peer, told, ran>>

(* connect_all, also behind /api/devices/discover: registry.connect keeps   *)
(* the record it read, awaits the adapter's connect, and writes the record  *)
(* back with its new state; the next device follows without an await.       *)
BeginConnect(o, d) ==
  /\ Begin(o, "connect") /\ o # Ticker
  /\ Await(o, "connect", d, Device \ {d}, owner[d])
  /\ conn' = [conn EXCEPT ![d] = "connecting"]
  /\ KeepLanes
  /\ UNCHANGED <<stateVars, owner, supervisorVars, identityVars, armedAt, plan,
                 peer, told, history>>

ConnectNext(o, d, outcome) ==
  LET done == op[o].dev IN
  /\ Resumed(o, "connect") /\ d \in op[o].todo
  /\ conn' = [conn EXCEPT ![done] = outcome, ![d] = "connecting"]
  /\ owner' = [owner EXCEPT ![done] = op[o].saved]
  /\ Await(o, "connect", d, op[o].todo \ {d}, owner[d])
  /\ KeepLanes
  /\ UNCHANGED <<stateVars, supervisorVars, identityVars, armedAt, plan, peer,
                 told, history>>

EndConnect(o, outcome) ==
  /\ Resumed(o, "connect") /\ op[o].todo = {} /\ Return(o)
  /\ conn' = [conn EXCEPT ![op[o].dev] = outcome]
  /\ owner' = [owner EXCEPT ![op[o].dev] = op[o].saved]
  /\ KeepLanes
  /\ UNCHANGED <<stateVars, supervisorVars, identityVars, armedAt, plan, peer,
                 told, history>>

(* enforce_watchdogs works through the expiries it read at the start.  Every *)
(* entry is cleared when its turn comes; a stopped control is stopped, a    *)
(* silent dead-man control only disarms.  The entries disarmed between two  *)
(* awaits form one step.                                                    *)
Silent == {b \in Device \X BeatKind : beats[b] = "stale"}
ToStop(es) == {e \in es : e[2] = "motion"}

(* Mutant: every expiry is cleared at once, before the first stop.          *)
EnforceClearsFirst(o, es, woken) ==
  /\ arms' = Disarmed({e[1] : e \in es \ ToStop(es)} \cup woken)
  /\ granted' = granted \ ({e[1] : e \in es \ ToStop(es)} \cup woken)
  /\ beats' = [b \in Device \X BeatKind |-> IF b \in es THEN "none" ELSE beats[b]]
  /\ \/ \E e \in ToStop(es) :
          CallStop(e[1]) /\ KeepTasks /\ Await(o, "watchdog", e[1], {}, None)
     \/ ToStop(es) = {} /\ KeepLanes /\ UNCHANGED told /\ Return(o)

(* From entries es: disarm those in quiet and stop e, or stop nothing.      *)
Enforce(o, es, woken) ==
  \E quiet \in SUBSET (es \ ToStop(es)) :
    LET gone == {q[1] : q \in quiet} \cup woken IN
    /\ arms' = Disarmed(gone)
    /\ granted' = granted \ gone
    /\ \/ \E e \in ToStop(es) :
            /\ beats' = [b \in Device \X BeatKind |->
                           IF b \in quiet \cup {e} THEN "none" ELSE beats[b]]
            /\ CallStop(e[1]) /\ KeepTasks
            /\ Await(o, "watchdog", e[1], es \ (quiet \cup {e}), None)
       \/ /\ ToStop(es) = {} /\ quiet = es
          /\ beats' = [b \in Device \X BeatKind |->
                         IF b \in quiet THEN "none" ELSE beats[b]]
          /\ KeepLanes /\ UNCHANGED told
          /\ Return(o)

BeginWatchdogs ==
  /\ Begin(Ticker, "watchdog") /\ Silent # {}
  /\ Enforce(Ticker, Silent, {})
  /\ UNCHANGED <<stateVars, registryVars, disabled, identityVars, armedAt,
                 plan, peer, ran>>

NextWatchdog ==
  /\ Resumed(Ticker, "watchdog")
  /\ Enforce(Ticker, op[Ticker].todo, {op[Ticker].dev})
  /\ UNCHANGED <<stateVars, registryVars, disabled, identityVars, armedAt,
                 plan, peer, ran>>

-----------------------------------------------------------------------------
(* Operations that return without awaiting anything. *)

Instant(name) == cpu = None /\ name \in Uses

ClearQueues(ds) ==
  /\ Instant("clear") /\ {c \in queue : Target[c] \in ds} # {}
  /\ ClearQueue(ds) /\ KeepRest

(* Mutant: bind_devices takes a device whoever has it.                      *)
BindAnyway(s, ds) ==
  /\ Instant("bind") /\ sstate[s] # None
  /\ owner' = [d \in Device |-> IF d \in ds THEN s ELSE owner[d]]
  /\ bound' = IF sstate[s] \notin Terminal THEN [bound EXCEPT ![s] = ds] ELSE bound
  /\ KeepLanes
  /\ UNCHANGED <<sstate, policy, conn, supervisorVars, identityVars, taskVars,
                 told, history>>

(* Runtime.bind_devices assigns device after device and raises at the first *)
(* one another session has; only then are the bindings replaced, which a    *)
(* session that has ended refuses.                                          *)
Bind(s, ds) ==
  /\ Instant("bind") /\ sstate[s] # None
  /\ LET taken == {d \in ds : owner[d] \notin {None, s}} IN
     \E assigned \in SUBSET (ds \ taken) :
       /\ taken = {} => assigned = ds
       /\ owner' = [d \in Device |-> IF d \in assigned THEN s ELSE owner[d]]
       /\ bound' = IF taken = {} /\ sstate[s] \notin Terminal
                   THEN [bound EXCEPT ![s] = ds] ELSE bound
  /\ KeepLanes
  /\ UNCHANGED <<sstate, policy, conn, supervisorVars, identityVars, taskVars,
                 told, history>>

(* create_session *)
CreateSession(s) ==
  /\ Instant("transition") /\ sstate[s] = None
  /\ sstate' = [sstate EXCEPT ![s] = "created"]
  /\ KeepLanes
  /\ UNCHANGED <<bound, policy, registryVars, supervisorVars, identityVars,
                 taskVars, told, history>>

(* Runtime.transition: a session that ends hands its devices back. *)
Transition(s, t) ==
  LET returned == IF t \in Terminal THEN {d \in Device : owner[d] = s} ELSE {} IN
  /\ Instant("transition") /\ sstate[s] # None
  /\ t \in Allowed(sstate[s]) \cap Moves
  /\ sstate' = [sstate EXCEPT ![s] = t]
  /\ owner' = [d \in Device |-> IF d \in returned THEN None ELSE owner[d]]
  /\ arms' = Disarmed(returned)
  /\ granted' = granted \ returned
  /\ KeepLanes
  /\ UNCHANGED <<bound, policy, conn, beats, disabled, identityVars, taskVars,
                 told, ran>>

Arm(s, d) ==
  /\ Instant("arm") /\ sstate[s] \in Armable
  /\ arms' = [arms EXCEPT ![d] = s]
  /\ granted' = granted \cup {d}
  /\ KeepLanes
  /\ UNCHANGED <<stateVars, registryVars, beats, disabled, identityVars,
                 taskVars, told, ran>>

Disarm(ds) ==
  /\ Instant("disarm") /\ \E d \in ds : arms[d] # None
  /\ arms' = Disarmed(ds)
  /\ granted' = granted \ ds
  /\ KeepLanes
  /\ UNCHANGED <<stateVars, registryVars, beats, disabled, identityVars,
                 taskVars, told, ran>>

Heartbeat(d, k) ==
  /\ Instant("heartbeat") /\ beats[<<d, k>>] # "fresh"
  /\ beats' = [beats EXCEPT ![<<d, k>>] = "fresh"]
  /\ KeepLanes
  /\ UNCHANGED <<stateVars, registryVars, arms, disabled, identityVars,
                 taskVars, told, history>>

(* set_input_enabled *)
SetInput(src) ==
  /\ Instant("input")
  /\ disabled' = IF src \in disabled THEN disabled \ {src} ELSE disabled \cup {src}
  /\ KeepLanes
  /\ UNCHANGED <<stateVars, registryVars, arms, beats, identityVars, taskVars,
                 told, history>>

SetFailurePolicy(s, p) ==
  /\ Instant("policy") /\ sstate[s] # None /\ policy[s] # p
  /\ policy' = [policy EXCEPT ![s] = p]
  /\ KeepLanes
  /\ UNCHANGED <<sstate, bound, registryVars, supervisorVars, identityVars,
                 taskVars, told, history>>

-----------------------------------------------------------------------------
(* Deadlines.  The clock does not wait for the event loop: they also pass   *)
(* while a task is running.                                                 *)

ArmLapses(d) ==
  /\ "arm_ttl" \in Uses /\ arms[d] # None
  /\ arms' = [arms EXCEPT ![d] = None]
  /\ KeepLanes
  /\ UNCHANGED <<stateVars, registryVars, beats, disabled, identityVars,
                 taskVars, told, history>>

BeatGoesStale(d, k) ==
  /\ "beat_timeout" \in Uses /\ beats[<<d, k>>] = "fresh"
  /\ beats' = [beats EXCEPT ![<<d, k>>] = "stale"]
  /\ KeepLanes
  /\ UNCHANGED <<stateVars, registryVars, arms, disabled, identityVars,
                 taskVars, told, history>>

LeaseLapses(d) ==
  /\ "lease_ttl" \in Uses /\ lease[d] # None
  /\ lease' = [lease EXCEPT ![d] = None]
  /\ KeepLanes
  /\ UNCHANGED <<stateVars, registryVars, supervisorVars, claims, expired,
                 taskVars, told, history>>

CommandExpires(c) ==
  /\ "command_ttl" \in Uses /\ pc[c] # "idle" /\ c \notin expired
  /\ expired' = expired \cup {c}
  /\ KeepLanes
  /\ UNCHANGED <<stateVars, registryVars, supervisorVars, lease, claims,
                 taskVars, told, history>>

-----------------------------------------------------------------------------
CommandStep(c) ==
  \/ ShedCommand(c) \/ SubmitCommand(c) \/ TakeTurn(c)
  \/ \E i \in Command : PopCommand(c, i)
  \/ DenyUnclaimed(c) \/ DenyClaimed(c) \/ CallAdapter(c)
  \/ AdapterDone(c) \/ AdapterRefused(c)
  \/ \E d \in Device : StopNextPeer(c, d)
  \/ LeaveLane(c) \/ CancelRequest(c)

OperatorBegins(o) ==
  \E d \in Device :
    \/ BeginStop(o, "stop", "stop", d)
    \/ BeginStop(o, "revoke", "revoke", d)
    \/ BeginStop(o, "disconnect", "unplug", d)
    \/ BeginStopAll(o, d) \/ BeginConnect(o, d)

OperatorResumes(o) ==
  \/ EndStop(o) \/ EndRevoke(o) \/ Unplug(o) \/ EndDisconnect(o)
  \/ \E d \in Device : StopAllNext(o, d)
  \/ EndStopAll(o)
  \/ \E outcome \in {"connected", "failed"} :
       EndConnect(o, outcome) \/ \E d \in Device : ConnectNext(o, d, outcome)

InstantStep ==
  \/ \E ds \in Scopes : ClearQueues(ds) \/ Disarm(ds)
  \/ \E s \in Session :
       \/ CreateSession(s)
       \/ \E ds \in SUBSET Device : Bind(s, ds)
       \/ \E t \in SessionState : Transition(s, t)
       \/ \E d \in Device : Arm(s, d)
       \/ \E p \in {"stop_coordinated", "continue"} : SetFailurePolicy(s, p)
  \/ \E d \in Device, k \in BeatKind : Heartbeat(d, k)
  \/ \E src \in Source : SetInput(src)

Lapse ==
  \/ \E d \in Device : ArmLapses(d) \/ LeaseLapses(d)
  \/ \E d \in Device, k \in BeatKind : BeatGoesStale(d, k)
  \/ \E c \in Command : CommandExpires(c)

Next ==
  \/ \E c \in Command : CommandStep(c)
  \/ \E o \in Operator : OperatorBegins(o) \/ OperatorResumes(o)
  \/ BeginWatchdogs \/ NextWatchdog
  \/ InstantStep
  \/ Lapse
  \/ Quiescent /\ UNCHANGED vars

Spec == Init /\ [][Next]_vars

(* The loop resumes what can be resumed, every adapter call returns and the *)
(* watchdog loop comes round.  Nobody is obliged to submit, cancel or       *)
(* operate anything.                                                        *)
CommandProgress(c) ==
  \/ TakeTurn(c) \/ \E i \in Command : PopCommand(c, i)
  \/ DenyUnclaimed(c) \/ DenyClaimed(c) \/ CallAdapter(c)
  \/ AdapterDone(c) \/ AdapterRefused(c)
  \/ \E d \in Device : StopNextPeer(c, d)
  \/ LeaveLane(c)

FairSpec ==
  /\ Spec
  /\ \A c \in Command : WF_vars(CommandProgress(c))
  /\ \A o \in Operator : WF_vars(OperatorResumes(o))
  /\ WF_vars(BeginWatchdogs \/ NextWatchdog)

-----------------------------------------------------------------------------
(* What holds. *)

(* The ledger (FR-071): of two commands with one idempotency key at most    *)
(* one ever reaches an adapter, whatever is retried, queued, cancelled or   *)
(* discarded meanwhile, unless one of them has expired.                     *)
OneRunPerKey ==
  \A a, b \in ran :
    a # b /\ IdempotencyKey[a] = IdempotencyKey[b] => a \in expired \/ b \in expired

(* No physical movement begins on a device that has been stopped, disarmed, *)
(* disconnected, revoked or handed back since it was last armed: every path *)
(* that takes a device away from motion disarms it when it completes        *)
(* (FR-066 step 7), also when several of them overlap with an arm.          *)
MotionNeedsRearm ==
  [][\A i \in ran' \ ran :
       Kind[i] = "move" /\ IsPhysical(i) => Target[i] \in granted]_vars

(* A session other than the one a device is assigned to moves nothing on it *)
(* (registry.assign, FR-006: one session at a time).                        *)
OnlyTheOwnerMoves ==
  [][\A i \in ran' \ ran : Kind[i] # "stop" => owner[Target[i]] = Sender[i]]_vars

(* Every request is answered although stops, policies and watchdogs discard *)
(* queues and the gates read changing state, or it is itself cancelled.     *)
EveryRequestAnswered ==
  \A c \in Command :
    pc[c] \in Inside ~> (answer[c] # None \/ pc[c] = "aborted")

(* A silent motion control stops its device (FR-070), even while the loop   *)
(* works through the expiries of other devices, unless it is heard again.   *)
WatchdogStops ==
  \A d \in Device :
    beats[<<d, "motion">>] = "stale" ~> (told[d] = "stop" \/ beats[<<d, "motion">>] = "fresh")

-----------------------------------------------------------------------------
(* What the documentation says and the code does not do. *)

(* supervisor.py: "A stop is never blocked by arm state, ownership, or      *)
(* bounds."                                                                 *)
StopIsNeverBlockedByOwnership ==
  \A c \in Command : Kind[c] = "stop" => answer[c] # "DEVICE_LEASE_CONFLICT"

(* stop_all: "every device stops, every queue empties, all disarm."         *)
StopAllStopsAll ==
  [][\A o \in Operator :
       op[o].does = "stopall" /\ op'[o] = Idle
         => queue' = {} /\ \A d \in Device : told'[d] # "move"]_vars

(* revoke_lease: "Take a device back from a session that will not let go":  *)
(* a device that is assigned to nobody does nothing until it is assigned.   *)
RevokedDeviceIsIdle ==
  [][\A i \in ran' \ ran : Kind[i] # "stop" => owner[Target[i]] # None]_vars

(* registry.assign: "One session at a time": no device is bound to two      *)
(* sessions that are still running.                                         *)
OneSessionAtATime ==
  \A s, t \in Session :
    s # t /\ bound[s] \cap bound[t] # {}
      => sstate[s] \in Terminal \/ sstate[t] \in Terminal
=============================================================================
