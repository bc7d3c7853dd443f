--------------------------- MODULE FabricCommands ---------------------------
(***************************************************************************)
(* The life of a fabric command                                            *)
(* (apps/runtime-py/src/cit_runtime: submit_command and                     *)
(* accept_adapter_lifecycle in fabric.py, claim_fabric_command and          *)
(* acquire_fabric_control_lease in fabric_persistence.py, dispatch,         *)
(* stop_nodes and _send in fabric_adapters.py, stop_all in                  *)
(* fabric_service.py), over the sessions and nodes of FabricSessions.       *)
(*                                                                         *)
(* submit_command runs without a pause up to the await of the dispatcher,   *)
(* which queues the frame for the send_lock of the adapter's connection:    *)
(* wire is that queue, in asyncio.Lock's FIFO order, the frame being        *)
(* written at its head.  The adapter may answer a frame that has been       *)
(* written before the task that wrote it runs again.                        *)
(***************************************************************************)
EXTENDS FabricSessions, Sequences

CONSTANTS
  Target,      \* the role each command is for
  Action,      \* the capability each command asks for
  Rank,        \* _PRIORITY_RANK of its priority; 1 is an autonomous agent
  SafeState,   \* the commands _is_safe_state_command accepts
  Actuating,   \* the commands whose capability is bounded_physical or more
  Key,         \* idempotency keys
  KeyOf,       \* idempotencyKey of each command
  Reports      \* the lifecycle stages adapters report

Stage == {"PROPOSED", "VALIDATED", "AUTHORIZED", "DISPATCHED", "ACCEPTED",
          "RUNNING", "SUCCEEDED", "FAILED", "CANCELLED", "TIMED_OUT", "REJECTED"}

Over == {"SUCCEEDED", "FAILED", "CANCELLED", "TIMED_OUT"}

(* _COMMAND_TRANSITIONS *)
Follows ==
  [st \in Stage |->
     CASE st = "PROPOSED" -> {"VALIDATED", "REJECTED"}
       [] st = "VALIDATED" -> {"AUTHORIZED", "REJECTED"}
       [] st = "AUTHORIZED" -> {"DISPATCHED", "REJECTED", "FAILED"}
       [] st = "DISPATCHED" -> {"ACCEPTED", "RUNNING", "REJECTED"} \cup Over
       [] st = "ACCEPTED" -> {"RUNNING"} \cup Over
       [] st = "RUNNING" -> Over
       [] OTHER -> {}]

ASSUME CommandsAssumption ==
  /\ Target \in [Command -> Role] /\ Action \in [Command -> Capability]
  /\ Rank \in [Command -> 1 .. 6]
  /\ SafeState \subseteq Command /\ Actuating \subseteq Command
  /\ KeyOf \in [Command -> Key]
  /\ Reports \subseteq Follows["DISPATCHED"]
  /\ Command \cap Node = {} /\ None \notin Lease

VARIABLES
  claims,    \* fabric_commands: the command stored under a key
  trace,     \* fabric_command_lifecycle: the stages stored for a command
  dest,      \* targetNodeId of a command
  via,       \* the connection a command was handed to
  wire,      \* the frames queued for a connection: commands, stops by node
  got,       \* the commands an adapter has received
  said,      \* the last stage the adapter reported for a command
  halting,   \* stop_all is sending its stop frames
  todo       \* the nodes and connections it has still to stop

(* History. *)
VARIABLE early  \* the commands handed over when stop_all began

taskVars == <<claims, trace, dest, via, wire, got, said>>
haltVars == <<halting, todo, early>>
fabricVars == <<sessionVars, taskVars, haltVars>>

CommandsTypeOK ==
  /\ FabricTypeOK
  /\ claims \in [Key -> Command \cup {None}]
  /\ trace \in [Command -> Seq(Stage)]
  /\ dest \in [Command -> Node \cup {None}]
  /\ via \in [Command -> Connection \cup {None}]
  /\ wire \in [Connection -> Seq(Command \cup Node)]
  /\ got \in SUBSET Command
  /\ said \in [Command -> Stage \cup {None}]
  /\ halting \in BOOLEAN
  /\ todo \in SUBSET (Node \X Connection)
  /\ early \in SUBSET Command

Init ==
  /\ FabricInit
  /\ claims = [y \in Key |-> None]
  /\ trace = [c \in Command |-> <<>>]
  /\ dest = [c \in Command |-> None]
  /\ via = [c \in Command |-> None]
  /\ wire = [k \in Connection |-> <<>>]
  /\ got = {} /\ said = [c \in Command |-> None]
  /\ halting = FALSE /\ todo = {} /\ early = {}

-----------------------------------------------------------------------------
(* submit_command *)

TargetOf(c) == cast[Sender[c]][Target[c]]

(* _validate_command, with the checks that depend on the fabric's state.    *)
Permitted(c) ==
  LET s == Sender[c] IN
  /\ c \in SafeState \/ state[s] = "active"
  /\ node[TargetOf(c)] = "connected"
  /\ c \in Actuating \ SafeState /\ TargetOf(c) \notin Simulated
       => s \in armed /\ Rank[c] # 1

(* acquire_fabric_control_lease: the same session renews, a higher rank     *)
(* takes over.                                                              *)
Wins(c) ==
  LET h == control[<<TargetOf(c), Action[c]>>] IN
  h # None => Sender[h] = Sender[c] \/ Rank[c] > Rank[h]

(* Mutant: a key whose command failed may be used again.                    *)
UnclaimedOrFailed(c) ==
  claims[KeyOf[c]] \in {None} \cup
    {d \in Command : \E i \in DOMAIN trace[d] : trace[d][i] = "FAILED"}

(* claim_fabric_command: a key names one command for ever. *)
Unclaimed(c) == claims[KeyOf[c]] = None

(* A new request: the session exists, its role is bound, the key is new.    *)
Arrives(c) ==
  /\ trace[c] = <<>> /\ state[Sender[c]] # None /\ TargetOf(c) # None
  /\ Unclaimed(c)
  /\ claims' = [claims EXCEPT ![KeyOf[c]] = c]
  /\ dest' = [dest EXCEPT ![c] = TargetOf(c)]

Logged(c, stages) == trace' = [trace EXCEPT ![c] = @ \o stages]

(* Not permitted, or expired or malformed. *)
Reject(c) ==
  /\ Arrives(c)
  /\ Logged(c, <<"PROPOSED", "REJECTED">>)
  /\ UNCHANGED <<sessionVars, via, wire, got, said, haltVars>>

LoseArbitration(c) ==
  /\ Arrives(c) /\ Permitted(c) /\ ~Wins(c)
  /\ Logged(c, <<"PROPOSED", "VALIDATED", "REJECTED">>)
  /\ UNCHANGED <<sessionVars, via, wire, got, said, haltVars>>

(* Mutant: the lease row of a lower rank is left as it is.                  *)
DispatchKeepingHolder(c) ==
  LET k == link[TargetOf(c)] l == <<TargetOf(c), Action[c]>> IN
  /\ Arrives(c) /\ Permitted(c) /\ Wins(c) /\ k # None
  /\ control' = [control EXCEPT ![l] = IF @ = None THEN c ELSE @]
  /\ Logged(c, <<"PROPOSED", "VALIDATED", "AUTHORIZED">>)
  /\ via' = [via EXCEPT ![c] = k]
  /\ wire' = [wire EXCEPT ![k] = Append(@, c)]
  /\ UNCHANGED <<nodeVars, linkVars, state, armed, cast, shaken, got, said, haltVars>>

(* The lease is taken, and the dispatcher finds no connection (FAILED) or   *)
(* queues the frame for it.                                                 *)
Dispatch(c) ==
  LET k == link[TargetOf(c)] IN
  /\ Arrives(c) /\ Permitted(c) /\ Wins(c)
  /\ control' = [control EXCEPT ![<<TargetOf(c), Action[c]>>] = c]
  /\ \/ k = None /\ Logged(c, <<"PROPOSED", "VALIDATED", "AUTHORIZED", "FAILED">>)
        /\ UNCHANGED <<via, wire>>
     \/ k # None /\ Logged(c, <<"PROPOSED", "VALIDATED", "AUTHORIZED">>)
        /\ via' = [via EXCEPT ![c] = k]
        /\ wire' = [wire EXCEPT ![k] = Append(@, c)]
  /\ UNCHANGED <<nodeVars, linkVars, state, armed, cast, shaken, got, said, haltVars>>

(* The lease ends with the command's TTL. *)
ControlLapses(l) ==
  /\ control[l] # None
  /\ control' = [control EXCEPT ![l] = None]
  /\ UNCHANGED <<nodeVars, linkVars, state, armed, cast, shaken, taskVars, haltVars>>

-----------------------------------------------------------------------------
(* The frames of one connection, in the order the lock was asked for. *)

AtHead(k, f) == wire[k] # <<>> /\ Head(wire[k]) = f
Popped(k) == wire' = [wire EXCEPT ![k] = Tail(@)]

(* The frame is on the network. *)
Transmit(k, c) ==
  /\ AtHead(k, c) /\ phase[k] = "open" /\ c \notin got
  /\ got' = got \cup {c}
  /\ UNCHANGED <<sessionVars, claims, trace, dest, via, wire, said, haltVars>>

(* Its task runs again, releases the lock and appends DISPATCHED. *)
Dispatched(k, c) ==
  /\ AtHead(k, c) /\ c \in got
  /\ Popped(k) /\ Logged(c, <<"DISPATCHED">>)
  /\ UNCHANGED <<sessionVars, claims, dest, via, got, said, haltVars>>

(* The connection was closed under it: send_json raises. *)
SendFails(k, c) ==
  /\ AtHead(k, c) /\ phase[k] # "open"
  /\ Popped(k) /\ Logged(c, <<"FAILED">>)
  /\ UNCHANGED <<sessionVars, claims, dest, via, got, said, haltVars>>

(* The adapter reports on a command it received, or repeats on a later      *)
(* connection the report whose acknowledgement it missed.                   *)
MayReport(k, c, st) ==
  \/ said[c] = None
  \/ said[c] # None /\ st \in Follows[said[c]]
  \/ said[c] = st /\ via[c] # k

(* accept_adapter_lifecycle: a report that does not follow the last stored  *)
(* stage is refused, and the connection that brought it is closed.          *)
Report(k, c, st) ==
  /\ phase[k] \in {"open", "closing"} /\ c \in got /\ dest[c] \in Serves[k]
  /\ st \in Reports /\ MayReport(k, c, st)
  /\ said' = [said EXCEPT ![c] = st]
  /\ IF st \in Follows[trace[c][Len(trace[c])]]
     THEN Logged(c, <<st>>) /\ UNCHANGED phase
     ELSE phase' = [phase EXCEPT ![k] = "closing"] /\ UNCHANGED trace
  /\ UNCHANGED <<nodeVars, link, castVars, claims, dest, via, wire, got, haltVars>>

-----------------------------------------------------------------------------
(* stop_all *)

(* Every session that has not ended is stopped in one step ...              *)
BeginStopAll ==
  LET going == {s \in Session : state[s] \notin Ended \cup {None}} IN
  /\ ~halting /\ going # {}
  /\ state' = [s \in Session |-> IF s \in going THEN "emergency_stopped" ELSE state[s]]
  /\ armed' = armed \ going
  /\ control' = Released(going, {})
  /\ halting' = TRUE
  /\ todo' = {p \in Node \X Connection : link[p[1]] = p[2]}
  /\ early' = {c \in Command : via[c] # None}
  /\ UNCHANGED <<nodeVars, linkVars, cast, shaken, taskVars>>

Stopping == \E k \in Connection : \E i \in DOMAIN wire[k] : wire[k][i] \in Node

(* Mutant: a stop frame overtakes the commands that wait for the lock.      *)
StopNodeFirst(n, k) ==
  /\ halting /\ ~Stopping /\ <<n, k>> \in todo
  /\ wire' = [wire EXCEPT ![k] = <<n>> \o @]
  /\ todo' = todo \ {<<n, k>>}
  /\ UNCHANGED <<sessionVars, claims, trace, dest, via, got, said, halting, early>>

(* ... and the nodes of the snapshot are told one after the other.          *)
StopNode(n, k) ==
  /\ halting /\ ~Stopping /\ <<n, k>> \in todo
  /\ wire' = [wire EXCEPT ![k] = Append(@, n)]
  /\ todo' = todo \ {<<n, k>>}
  /\ UNCHANGED <<sessionVars, claims, trace, dest, via, got, said, halting, early>>

(* The stop frame is written, or fails because its connection has closed.   *)
StopSent(k, n) ==
  /\ AtHead(k, n) /\ Popped(k)
  /\ UNCHANGED <<sessionVars, claims, trace, dest, via, got, said, haltVars>>

EndStopAll ==
  /\ halting /\ todo = {} /\ ~Stopping
  /\ halting' = FALSE /\ early' = {}
  /\ UNCHANGED <<sessionVars, taskVars, todo>>

-----------------------------------------------------------------------------
(* A crash loses the tasks and the frames; the database is as it was.       *)
Restart ==
  /\ LoseConnections
  /\ \E k \in Connection : phase[k] # "new"
  /\ wire' = [k \in Connection |-> <<>>]
  /\ halting' = FALSE /\ todo' = {} /\ early' = {}
  /\ UNCHANGED <<claims, trace, dest, via, got, said>>

CommandStep(c) ==
  \/ Reject(c) \/ LoseArbitration(c) \/ Dispatch(c)
  \/ \E k \in Connection :
       \/ Transmit(k, c) \/ Dispatched(k, c) \/ SendFails(k, c)
       \/ \E st \in Reports : Report(k, c, st)

Next ==
  \/ SessionStep /\ UNCHANGED <<taskVars, haltVars>>
  \/ \E c \in Command : CommandStep(c)
  \/ \E l \in Lease : ControlLapses(l)
  \/ BeginStopAll \/ EndStopAll
  \/ \E n \in Node, k \in Connection : StopNode(n, k) \/ StopSent(k, n)
  \/ Restart

Spec == Init /\ [][Next]_fabricVars

(* maintenance_loop comes round; nothing says that an arm lasts too long.   *)
FairSpec ==
  Spec /\ WF_fabricVars(Maintain({}) /\ UNCHANGED <<taskVars, haltVars>>)

-----------------------------------------------------------------------------
Handed == {c \in Command : via[c] # None}
Moves == {c \in Actuating \ SafeState : dest[c] \notin Simulated}

(* One idempotency key, one frame: whatever is retried, refused, lost with  *)
(* a connection or cut short by a crash.                                    *)
OneFramePerKey ==
  \A a, b \in Handed : a # b => KeyOf[a] # KeyOf[b]

(* A session that has lost a node moves nothing until it is armed again     *)
(* (ADR-010: reconnect requires a new arm), also when the node was lost     *)
(* before the lesson began and has come back since.                         *)
LostNodeNeedsRearm ==
  [][\A c \in Command : via[c] = None /\ via'[c] # None /\ c \in Actuating \ SafeState
       /\ TargetOf(c) \notin Simulated => Sender[c] \notin shaken]_fabricVars

(* Whoever may move a device is armed: no lease taken for a movement        *)
(* outlives the arming of its session, so the next session is never kept    *)
(* out by one that cannot act.                                              *)
MovingLeaseIsArmed ==
  \A l \in Lease : control[l] \in Moves => Sender[control[l]] \in armed

(* The command that took a lease and has been heard has the last word: one  *)
(* it pre-empted or renewed, still waiting for the lock or on a replaced    *)
(* connection, does not reach the adapter after it.                         *)
HolderHasLastWord ==
  [][\A c \in Command : c \in got' \ got =>
       control[<<dest[c], Action[c]>>] \notin got]_fabricVars

(* When stop_all returns, nothing that was handed over before it began can  *)
(* still go out: the stop frame is the last an adapter hears of it.         *)
StopAllIsLast ==
  [][halting /\ ~halting' =>
       \A k \in Connection : phase'[k] = "open" =>
         \A i \in DOMAIN wire'[k] : wire'[k][i] \notin early]_fabricVars

(* A node that falls silent disarms the sessions it has a role in. *)
SilentNodeDisarms ==
  \A s \in Session, n \in Node :
    (s \in armed /\ n \in NodesOf(s) /\ n \in overdue)
      ~> (s \notin armed \/ n \notin overdue \/ n \notin NodesOf(s))

-----------------------------------------------------------------------------
(* A command has control from the moment it is stored as AUTHORIZED, over   *)
(* the node it was resolved to.                                             *)
Authorized(c) == \E i \in DOMAIN trace[c] : trace[c][i] = "AUTHORIZED"

Granted == [c \in Command |-> IF Authorized(c) THEN <<dest[c], Action[c]>> ELSE None]

Arbiter == INSTANCE ControlArbiter WITH granted <- Granted, heard <- got

(* The fabric implements the arbiter: whatever disarms, expires, reconnects *)
(* or crashes while frames wait, every step is one of ControlArbiter or     *)
(* changes nothing there; the last word stays with the holder of the lease. *)
FabricImplementsArbiter == Arbiter!ArbiterSpec
=============================================================================
