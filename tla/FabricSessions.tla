--------------------------- MODULE FabricSessions ---------------------------
(***************************************************************************)
(* The interaction fabric's standing state                                 *)
(* (apps/runtime-py/src/cit_runtime: fabric.py, fabric_persistence.py and   *)
(* the connection bookkeeping of fabric_adapters.py): nodes registered by   *)
(* out-of-process adapters, the connections that serve them, interaction    *)
(* sessions with their roles and arming, and the control leases a session   *)
(* loses when it is disarmed.                                               *)
(*                                                                         *)
(* Nodes, sessions and leases are rows of an SQLite database and outlive    *)
(* the process; connections do not.  No handler here awaits anything        *)
(* between reading and writing, so each is one step.  The course pack is    *)
(* the same for all sessions.  Node leases and arm times may pass at any    *)
(* moment; maintenance_loop notices it later.                               *)
(***************************************************************************)
EXTENDS Integers, FiniteSets

CONSTANTS
  Node,           \* node ids
  Connection,     \* the adapter connections of one behaviour
  Serves,         \* the nodes each connection registers
  Session,        \* interaction session ids
  Taught,         \* a bound: the sessions armed and run, others are prepared
  Role,           \* the roles of the course pack
  Capable,        \* the nodes that satisfy the capabilities of a role
  Required,       \* the roles that are not optional
  Informational,  \* the roles whose capabilities actuate nothing
  Targeted,       \* the roles an enabled flow may command
  Dormant,        \* every flow is dormant while its target is unarmed
  Physical,       \* sessions whose mode is physical
  Simulated,      \* nodes that are simulators
  Reported,       \* the connection states the adapters declare and report
  Capability,     \* names of the actions nodes consume
  Command,        \* command requests
  Sender,         \* sessionId of each command
  None

(* FabricNodeConnectionState: what can still be reached, and what cannot.   *)
Present == {"connected", "degraded"}
Gone == {"unavailable", "disconnected", "unsafe"}

ASSUME FabricAssumption ==
  /\ Serves \in [Connection -> SUBSET Node]
  /\ Capable \in [Role -> SUBSET Node]
  /\ Required \subseteq Role /\ Informational \subseteq Role /\ Targeted \subseteq Role
  /\ Dormant \in BOOLEAN /\ (Dormant => Targeted \cap Required = {})
  /\ Taught \subseteq Session
  /\ Physical \subseteq Session /\ Simulated \subseteq Node
  /\ Reported \subseteq Gone \cup Present
  /\ Sender \in [Command -> Session]
  /\ None \notin Node \cup Connection \cup Session \cup Command

VARIABLES
  node,     \* IntegrationNode.connectionState; None before registration
  overdue,  \* nodes whose lease_expires_at has passed
  link,     \* FabricAdapterConnections._by_node_id
  phase,    \* new, open: in the frame loop, closing: on its way out, closed
  state,    \* InteractionSession.state; None before create_session
  armed,    \* the sessions whose armed flag is set
  cast,     \* roleBindings: the node each role of a session is bound to
  control   \* the live control lease of a node's capability: its command

(* History, for the properties only. *)
VARIABLE shaken  \* sessions that lost a bound node since they were armed

nodeVars == <<node, overdue>>
linkVars == <<link, phase>>
castVars == <<state, armed, cast, control, shaken>>
sessionVars == <<nodeVars, linkVars, castVars>>

Ended == {"stopped", "emergency_stopped"}
Lease == Node \X Capability

FabricTypeOK ==
  /\ node \in [Node -> Gone \cup Present \cup {None}]
  /\ overdue \in SUBSET Node
  /\ link \in [Node -> Connection \cup {None}]
  /\ phase \in [Connection -> {"new", "open", "closing", "closed"}]
  /\ state \in [Session -> {"draft", "ready", "active", "paused", None} \cup Ended]
  /\ armed \in SUBSET Physical
  /\ cast \in [Session -> [Role -> Node \cup {None}]]
  /\ control \in [Lease -> Command \cup {None}]
  /\ shaken \in SUBSET Session

FabricInit ==
  /\ node = [n \in Node |-> None] /\ overdue = {}
  /\ link = [n \in Node |-> None]
  /\ phase = [k \in Connection |-> "new"]
  /\ state = [s \in Session |-> None]
  /\ armed = {}
  /\ cast = [s \in Session |-> [r \in Role |-> None]]
  /\ control = [l \in Lease |-> None]
  /\ shaken = {}

NodesOf(s) == {cast[s][r] : r \in Role} \ {None}
Bound(s) == {r \in Role : cast[s][r] # None}

-----------------------------------------------------------------------------
(* Disarming. *)

(* release_fabric_session_leases, and the leases on nodes that expired.     *)
Released(ss, ns) ==
  [l \in Lease |->
     IF l[1] \in ns \/ (control[l] # None /\ Sender[control[l]] \in ss)
     THEN None ELSE control[l]]

(* The armed sessions that have one of the nodes in a role. *)
Hit(ns) == {s \in armed : NodesOf(s) \cap ns # {}}

(* Mutant: only the lessons that are running lose their arm.                *)
DisarmActiveOnly(ns, expired, lapsed) ==
  LET hit == {s \in Hit(ns) : state[s] = "active"} IN
  /\ state' = [s \in Session |-> IF s \in hit THEN "emergency_stopped" ELSE state[s]]
  /\ armed' = armed \ (hit \cup lapsed)
  /\ control' = Released(hit \cup lapsed, expired)
  /\ shaken' = shaken \cup {s \in Session : NodesOf(s) \cap ns # {}}
  /\ UNCHANGED cast

(* Mutant: the arm is taken away and the leases are kept.                   *)
DisarmKeepingLeases(ns, expired, lapsed) ==
  /\ state' = [s \in Session |-> IF s \in Hit(ns) /\ state[s] = "active"
                                 THEN "emergency_stopped" ELSE state[s]]
  /\ armed' = armed \ (Hit(ns) \cup lapsed)
  /\ control' = Released({}, expired)
  /\ shaken' = shaken \cup {s \in Session : NodesOf(s) \cap ns # {}}
  /\ UNCHANGED cast

(* _disarm_sessions_for_nodes for the nodes ns, which stops a lesson that   *)
(* is running, and _save_disarmed_session for the sessions lapsed.          *)
DisarmFor(ns, expired, lapsed) ==
  /\ state' = [s \in Session |-> IF s \in Hit(ns) /\ state[s] = "active"
                                 THEN "emergency_stopped" ELSE state[s]]
  /\ armed' = armed \ (Hit(ns) \cup lapsed)
  /\ control' = Released(Hit(ns) \cup lapsed, expired)
  /\ shaken' = shaken \cup {s \in Session : NodesOf(s) \cap ns # {}}
  /\ UNCHANGED cast

-----------------------------------------------------------------------------
(* Adapters connect, report and leave. *)

(* The registration frame of run: register_plugin_and_nodes upserts the     *)
(* nodes with a fresh lease and _install_connection takes them over; the    *)
(* connections they belonged to are closed.                                 *)
Register(k, declared) ==
  /\ phase[k] = "new"
  /\ node' = [n \in Node |-> IF n \in Serves[k] THEN declared ELSE node[n]]
  /\ overdue' = overdue \ Serves[k]
  /\ link' = [n \in Node |-> IF n \in Serves[k] THEN k ELSE link[n]]
  /\ phase' = [o \in Connection |->
                 IF o = k THEN "open"
                 ELSE IF phase[o] = "open" /\ \E n \in Serves[k] : link[n] = o
                 THEN "closing" ELSE phase[o]]
  /\ UNCHANGED castVars

(* A heartbeat frame: update_fabric_health renews the node's lease, and a   *)
(* node that reports itself gone disarms its sessions.  A connection that   *)
(* has been replaced may still be heard once.                               *)
Heartbeat(k, n, reported) ==
  /\ phase[k] \in {"open", "closing"} /\ n \in Serves[k]
  /\ node[n] # reported \/ n \in overdue
  /\ node' = [node EXCEPT ![n] = reported]
  /\ overdue' = overdue \ {n}
  /\ DisarmFor(IF reported \in Gone THEN {n} ELSE {}, {}, {})
  /\ UNCHANGED linkVars

(* The connection ends: the peer is gone, silent for _IDLE_TIMEOUT_SECONDS  *)
(* or has sent a frame that is refused.                                     *)
Break(k) ==
  /\ phase[k] = "open"
  /\ phase' = [phase EXCEPT ![k] = "closing"]
  /\ UNCHANGED <<nodeVars, link, castVars>>

(* Mutant: the nodes are taken down whoever serves them now.                *)
RemoveWhoeverServes(k) ==
  /\ phase[k] = "closing"
  /\ phase' = [phase EXCEPT ![k] = "closed"]
  /\ link' = [n \in Node |-> IF n \in Serves[k] THEN None ELSE link[n]]
  /\ node' = [n \in Node |-> IF n \in Serves[k] THEN "disconnected" ELSE node[n]]
  /\ overdue' = overdue \ Serves[k]
  /\ DisarmFor(Serves[k], {}, {})

(* The finally of run: _remove_connection takes down the nodes the          *)
(* connection still serves, and disconnect_nodes disarms their sessions.    *)
Remove(k) ==
  LET lost == {n \in Serves[k] : link[n] = k} IN
  /\ phase[k] = "closing"
  /\ phase' = [phase EXCEPT ![k] = "closed"]
  /\ link' = [n \in Node |-> IF n \in lost THEN None ELSE link[n]]
  /\ node' = [n \in Node |-> IF n \in lost THEN "disconnected" ELSE node[n]]
  /\ overdue' = overdue \ lost
  /\ DisarmFor(lost, {}, {})

NodeLeaseLapses(n) ==
  /\ node[n] \in Present /\ n \notin overdue
  /\ overdue' = overdue \cup {n}
  /\ UNCHANGED <<node, linkVars, castVars>>

(* Mutant: the expired nodes are marked and nobody is disarmed.             *)
MaintainMarksOnly(lapsed) ==
  LET expired == {n \in overdue : node[n] \in Present} IN
  /\ lapsed \subseteq armed /\ expired \cup lapsed # {}
  /\ node' = [n \in Node |-> IF n \in expired THEN "unavailable" ELSE node[n]]
  /\ DisarmFor({}, expired, lapsed)
  /\ UNCHANGED <<overdue, linkVars>>

(* One turn of maintenance_loop: expire_nodes, then expire_armed_sessions   *)
(* for the sessions whose arm has lasted too long.                          *)
Maintain(lapsed) ==
  LET expired == {n \in overdue : node[n] \in Present} IN
  /\ lapsed \subseteq armed \ Hit(expired) /\ expired \cup lapsed # {}
  /\ node' = [n \in Node |-> IF n \in expired THEN "unavailable" ELSE node[n]]
  /\ DisarmFor(expired, expired, lapsed)
  /\ UNCHANGED <<overdue, linkVars>>

-----------------------------------------------------------------------------
(* The instructor's session requests. *)

KeepNodes == UNCHANGED <<nodeVars, linkVars>>

CreateSession(s) ==
  /\ state[s] = None
  /\ state' = [state EXCEPT ![s] = "draft"]
  /\ KeepNodes /\ UNCHANGED <<armed, cast, control, shaken>>

(* assign_role: before and between lessons, or an optional informational    *)
(* role of an unarmed lesson.  A simulation binds no real actuator.         *)
AssignRole(s, r, n) ==
  LET ordinary == state[s] \in {"draft", "ready", "paused"}
      extension == /\ state[s] = "active" /\ s \notin armed /\ Dormant
                   /\ r \in Informational \ Required
  IN
  /\ n \in Capable[r] /\ node[n] \in Present /\ cast[s][r] # n
  /\ ordinary \/ extension
  /\ s \notin Physical /\ r \notin Informational => n \in Simulated
  /\ cast' = [cast EXCEPT ![s][r] = n]
  /\ state' = IF ordinary /\ Required \subseteq Bound(s) \cup {r}
              THEN [state EXCEPT ![s] = "ready"] ELSE state
  /\ KeepNodes /\ UNCHANGED <<armed, control, shaken>>

(* _validate_bound_nodes *)
NodesValid(s) ==
  /\ Required \subseteq Bound(s)
  /\ \A n \in NodesOf(s) : node[n] = "connected"

(* _is_unarmed_monitoring_session *)
Monitoring(s) ==
  /\ Dormant /\ Bound(s) # {}
  /\ Bound(s) \subseteq Informational \ Targeted

Arm(s) ==
  /\ s \in Physical /\ state[s] \in {"ready", "paused"} /\ NodesValid(s)
  /\ armed' = armed \cup {s}
  /\ shaken' = shaken \ {s}
  /\ KeepNodes /\ UNCHANGED <<state, cast, control>>

Start(s) ==
  /\ state[s] \in {"ready", "paused"} /\ NodesValid(s)
  /\ s \in Physical => s \in armed \/ Monitoring(s)
  /\ state' = [state EXCEPT ![s] = "active"]
  /\ KeepNodes /\ UNCHANGED <<armed, cast, control, shaken>>

(* disarm, pause, stop and emergency_stop all disarm and release. *)
Leave(s, next) ==
  /\ state' = [state EXCEPT ![s] = next]
  /\ armed' = armed \ {s}
  /\ control' = Released({s}, {})
  /\ KeepNodes /\ UNCHANGED <<cast, shaken>>

Disarm(s) == state[s] # None /\ Leave(s, state[s])
Pause(s) == state[s] = "active" /\ Leave(s, "paused")
(* Mutant: the name of the transition is stored for the state it leads to.  *)
StopByName(s) == state[s] \notin Ended \cup {None} /\ Leave(s, "emergency_stop")
Stop(s) == state[s] \notin Ended \cup {None} /\ \E e \in Ended : Leave(s, e)

(* The process dies and is started again on the same database.              *)
LoseConnections ==
  /\ link' = [n \in Node |-> None]
  /\ phase' = [k \in Connection |-> IF phase[k] = "new" THEN "new" ELSE "closed"]
  /\ UNCHANGED <<nodeVars, castVars>>

SessionStep ==
  \/ \E k \in Connection :
       \/ \E declared \in Reported \cap Present : Register(k, declared)
       \/ \E n \in Node, reported \in Reported : Heartbeat(k, n, reported)
       \/ Break(k) \/ Remove(k)
  \/ \E n \in Node : NodeLeaseLapses(n)
  \/ \E lapsed \in SUBSET armed : Maintain(lapsed)
  \/ \E s \in Session :
       \/ CreateSession(s)
       \/ \E r \in Role, n \in Node : AssignRole(s, r, n)
  \/ \E s \in Taught : Arm(s) \/ Start(s) \/ Disarm(s) \/ Pause(s) \/ Stop(s)

-----------------------------------------------------------------------------
(* A connection that is open has its nodes: when an adapter reconnects      *)
(* before its old connection is cleaned up, the cleanup of the old one      *)
(* takes nothing from the new one.                                          *)
OpenIsReachable ==
  \A k \in Connection, n \in Node :
    phase[k] = "open" /\ n \in Serves[k] => link[n] # None

(* synchronized-motor-control.md: "Losing an adapter connection disarms the *)
(* affected physical session".                                              *)
LosingAConnectionDisarms ==
  [][\A n \in Node : link[n] # None /\ link'[n] # link[n]
       => \A s \in armed : n \in NodesOf(s) => s \notin armed']_sessionVars
=============================================================================
