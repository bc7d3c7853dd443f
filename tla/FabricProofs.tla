---------------------------- MODULE FabricProofs ----------------------------
(***************************************************************************)
(* Proofs about FabricCommands, for every set of nodes, connections,        *)
(* sessions and commands.                                                   *)
(*                                                                         *)
(* The inductive invariant is FabricInv.  Beside the types it says:         *)
(*   ServedByOne   a connection that is open serves the nodes it            *)
(*                 registered, itself: what makes OpenIsReachable inductive *)
(*   Unshaken      an armed session has lost no node since it was armed     *)
(*   KeyNames      a command that was handed over is the one of its key     *)
(*   LeaseClaimed  a lease is held by a command whose key is claimed, so a  *)
(*                 new request never changes the target of a holder         *)
(*   MovingLeaseIsArmed, as in FabricCommands.                              *)
(* OrderInv, after the first theorems, adds the order in which frames wait. *)
(* ArbiterInv, at the end, is what the refinement of ControlArbiter needs.  *)
(***************************************************************************)
EXTENDS FabricCommands, TLAPS

ServedByOne ==
  \A k \in Connection, n \in Node :
    phase[k] = "open" /\ n \in Serves[k] => link[n] = k

Unshaken == armed \cap shaken = {}

KeyNames == \A c \in Command : via[c] # None => claims[KeyOf[c]] = c

LeaseClaimed ==
  \A l \in Lease : control[l] # None => claims[KeyOf[control[l]]] # None

FabricInv ==
  /\ CommandsTypeOK
  /\ ServedByOne
  /\ Unshaken
  /\ KeyNames
  /\ LeaseClaimed
  /\ MovingLeaseIsArmed

-----------------------------------------------------------------------------
(* Types *)

(* Disarming keeps the sessions typed and releases leases, never grants one *)
(* (_disarm_sessions_for_nodes).                                            *)
LEMMA DisarmTypes ==
  ASSUME FabricTypeOK, NEW ns, NEW expired, NEW lapsed,
         DisarmFor(ns, expired, lapsed)
  PROVE  /\ state' \in [Session -> {"draft", "ready", "active", "paused", None} \cup Ended]
         /\ armed' \in SUBSET Physical
         /\ cast' = cast
         /\ control' \in [Lease -> Command \cup {None}]
         /\ shaken' \in SUBSET Session
  BY DEF FabricTypeOK, DisarmFor, Released, Ended

(* The leases a disarm leaves belong to sessions it did not touch.          *)
LEMMA DisarmReleases ==
  ASSUME FabricTypeOK, NEW ss, NEW ns, control' = Released(ss, ns), NEW l \in Lease,
         control'[l] # None
  PROVE  control'[l] = control[l] /\ Sender[control[l]] \notin ss
  BY DEF FabricTypeOK, Released

(* Every step of nodes, connections and sessions keeps their types.         *)
LEMMA SessionStepTypes ==
  ASSUME FabricTypeOK, SessionStep
  PROVE  FabricTypeOK'
<1> USE FabricAssumption
<1>1. ASSUME NEW k \in Connection, NEW declared \in Reported \cap Present, Register(k, declared)
      PROVE FabricTypeOK'
  BY <1>1 DEF FabricTypeOK, Register, castVars
<1>2. ASSUME NEW k \in Connection, NEW n \in Node, NEW reported \in Reported,
             Heartbeat(k, n, reported)
      PROVE FabricTypeOK'
  <2>1. /\ node' \in [Node -> Gone \cup Present \cup {None}]
        /\ overdue' \in SUBSET Node /\ link' = link /\ phase' = phase
    BY <1>2 DEF FabricTypeOK, Heartbeat, linkVars
  <2> QED BY <1>2, <2>1, DisarmTypes DEF FabricTypeOK, Heartbeat
<1>3. ASSUME NEW k \in Connection, Break(k)
      PROVE FabricTypeOK'
  BY <1>3 DEF FabricTypeOK, Break, castVars, nodeVars
<1>4. ASSUME NEW k \in Connection, Remove(k)
      PROVE FabricTypeOK'
  <2>1. /\ node' \in [Node -> Gone \cup Present \cup {None}]
        /\ overdue' \in SUBSET Node
        /\ link' \in [Node -> Connection \cup {None}]
        /\ phase' \in [Connection -> {"new", "open", "closing", "closed"}]
    BY <1>4 DEF FabricTypeOK, Remove, Gone
  <2> QED BY <1>4, <2>1, DisarmTypes DEF FabricTypeOK, Remove
<1>5. ASSUME NEW n \in Node, NodeLeaseLapses(n)
      PROVE FabricTypeOK'
  BY <1>5 DEF FabricTypeOK, NodeLeaseLapses, castVars, linkVars
<1>6. ASSUME NEW lapsed \in SUBSET armed, Maintain(lapsed)
      PROVE FabricTypeOK'
  <2>1. /\ node' \in [Node -> Gone \cup Present \cup {None}]
        /\ overdue' = overdue /\ link' = link /\ phase' = phase
    BY <1>6 DEF FabricTypeOK, Maintain, Gone, linkVars
  <2> QED BY <1>6, <2>1, DisarmTypes DEF FabricTypeOK, Maintain
<1>7. ASSUME NEW s \in Session, CreateSession(s)
      PROVE FabricTypeOK'
  BY <1>7 DEF FabricTypeOK, CreateSession, KeepNodes, nodeVars, linkVars
<1>8. ASSUME NEW s \in Session, NEW r \in Role, NEW n \in Node, AssignRole(s, r, n)
      PROVE FabricTypeOK'
  BY <1>8 DEF FabricTypeOK, AssignRole, KeepNodes, nodeVars, linkVars
<1>9. ASSUME NEW s \in Session, Arm(s)
      PROVE FabricTypeOK'
  BY <1>9 DEF FabricTypeOK, Arm, KeepNodes, nodeVars, linkVars
<1>10. ASSUME NEW s \in Session, Start(s)
       PROVE FabricTypeOK'
  BY <1>10 DEF FabricTypeOK, Start, KeepNodes, nodeVars, linkVars
<1>11. ASSUME NEW s \in Session, NEW next, Leave(s, next),
              next \in {"draft", "ready", "active", "paused", None} \cup Ended
       PROVE FabricTypeOK'
  BY <1>11 DEF FabricTypeOK, Leave, Released, KeepNodes, nodeVars, linkVars
<1>12. ASSUME NEW s \in Session, Disarm(s) \/ Pause(s) \/ Stop(s)
       PROVE FabricTypeOK'
  BY <1>11, <1>12 DEF FabricTypeOK, Disarm, Pause, Stop
<1> QED
  BY <1>1, <1>2, <1>3, <1>4, <1>5, <1>6, <1>7, <1>8, <1>9, <1>10, <1>12 DEF SessionStep

(* The state of submit_command's tasks and of stop_all. *)
TasksTypeOK ==
  /\ claims \in [Key -> Command \cup {None}]
  /\ trace \in [Command -> Seq(Stage)]
  /\ dest \in [Command -> Node \cup {None}]
  /\ via \in [Command -> Connection \cup {None}]
  /\ wire \in [Connection -> Seq(Command \cup Node)]
  /\ got \in SUBSET Command
  /\ said \in [Command -> Stage \cup {None}]

HaltTypeOK ==
  /\ halting \in BOOLEAN
  /\ todo \in SUBSET (Node \X Connection)
  /\ early \in SUBSET Command

(* Storing stages keeps the trace typed (_append_lifecycle). *)
LEMMA LoggedTypes ==
  ASSUME trace \in [Command -> Seq(Stage)], NEW c \in Command,
         NEW stages \in Seq(Stage), Logged(c, stages)
  PROVE  trace' \in [Command -> Seq(Stage)]
<1>1. trace[c] \o stages \in Seq(Stage) OBVIOUS
<1> QED BY <1>1 DEF Logged

(* Taking a frame off the queue of a connection keeps it typed (_send).     *)
LEMMA PoppedTypes ==
  ASSUME wire \in [Connection -> Seq(Command \cup Node)], NEW k \in Connection,
         NEW f, AtHead(k, f), Popped(k)
  PROVE  wire' \in [Connection -> Seq(Command \cup Node)]
<1>1. Tail(wire[k]) \in Seq(Command \cup Node) BY DEF AtHead
<1> QED BY <1>1 DEF Popped

LEMMA StagesAreTyped ==
  /\ {"PROPOSED", "VALIDATED", "AUTHORIZED", "REJECTED", "DISPATCHED", "FAILED"} \subseteq Stage
  /\ Reports \subseteq Stage
<1>1. Follows["DISPATCHED"] \subseteq Stage BY DEF Follows, Stage, Over
<1> QED BY <1>1, CommandsAssumption DEF Stage

(* submit_command up to its await. *)
LEMMA SubmitTypes ==
  ASSUME CommandsTypeOK, NEW c \in Command,
         Reject(c) \/ LoseArbitration(c) \/ Dispatch(c)
  PROVE  CommandsTypeOK'
<1> USE CommandsAssumption, FabricAssumption, StagesAreTyped
<1>1. ASSUME Arrives(c)
      PROVE /\ claims' \in [Key -> Command \cup {None}]
            /\ dest' \in [Command -> Node \cup {None}]
  <2>1. TargetOf(c) \in Node \cup {None} BY DEF TargetOf, CommandsTypeOK, FabricTypeOK
  <2> QED BY <1>1, <2>1 DEF Arrives, CommandsTypeOK
<1>2. CASE Reject(c)
  <2>1. <<"PROPOSED", "REJECTED">> \in Seq(Stage) OBVIOUS
  <2>2. trace' \in [Command -> Seq(Stage)]
    BY <1>2, <2>1, LoggedTypes DEF Reject, CommandsTypeOK
  <2> QED BY <1>1, <1>2, <2>2 DEF Reject, CommandsTypeOK, FabricTypeOK, sessionVars,
             nodeVars, linkVars, castVars, haltVars
<1>3. CASE LoseArbitration(c)
  <2>1. <<"PROPOSED", "VALIDATED", "REJECTED">> \in Seq(Stage) OBVIOUS
  <2>2. trace' \in [Command -> Seq(Stage)]
    BY <1>3, <2>1, LoggedTypes DEF LoseArbitration, CommandsTypeOK
  <2> QED BY <1>1, <1>3, <2>2 DEF LoseArbitration, CommandsTypeOK, FabricTypeOK, sessionVars,
             nodeVars, linkVars, castVars, haltVars
<1>4. CASE Dispatch(c)
  <2>1. /\ <<"PROPOSED", "VALIDATED", "AUTHORIZED">> \in Seq(Stage)
        /\ <<"PROPOSED", "VALIDATED", "AUTHORIZED", "FAILED">> \in Seq(Stage)
    OBVIOUS
  <2>2. trace' \in [Command -> Seq(Stage)]
    BY <1>4, <2>1, LoggedTypes DEF Dispatch, CommandsTypeOK
  <2>3. TargetOf(c) \in Node
    <3>1. TargetOf(c) # None BY <1>4 DEF Dispatch, Arrives
    <3>2. TargetOf(c) \in Node \cup {None} BY DEF TargetOf, CommandsTypeOK, FabricTypeOK
    <3> QED BY <3>1, <3>2
  <2>4. link[TargetOf(c)] \in Connection \cup {None}
    BY <2>3 DEF CommandsTypeOK, FabricTypeOK
  <2>5. /\ via' \in [Command -> Connection \cup {None}]
        /\ wire' \in [Connection -> Seq(Command \cup Node)]
    <3>1. CASE link[TargetOf(c)] = None
      BY <1>4, <3>1 DEF Dispatch, CommandsTypeOK
    <3>2. CASE link[TargetOf(c)] # None
      <4>1. Append(wire[link[TargetOf(c)]], c) \in Seq(Command \cup Node)
        BY <2>4, <3>2 DEF CommandsTypeOK
      <4>2. /\ via' = [via EXCEPT ![c] = link[TargetOf(c)]]
            /\ wire' = [wire EXCEPT ![link[TargetOf(c)]] = Append(@, c)]
        BY <1>4, <3>2 DEF Dispatch
      <4>3. via \in [Command -> Connection \cup {None}]
        BY DEF CommandsTypeOK
      <4>4. wire \in [Connection -> Seq(Command \cup Node)]
        BY DEF CommandsTypeOK
      <4>5. via' \in [Command -> Connection \cup {None}]
        BY <2>4, <4>2, <4>3
      <4>6. wire' \in [Connection -> Seq(Command \cup Node)]
        BY <2>4, <3>2, <4>1, <4>2, <4>4
      <4> QED BY <4>5, <4>6
    <3> QED BY <3>1, <3>2
  <2>6. control' \in [Lease -> Command \cup {None}]
    BY <1>4 DEF Dispatch, CommandsTypeOK, FabricTypeOK
  <2> QED BY <1>1, <1>4, <2>2, <2>5, <2>6 DEF Dispatch, CommandsTypeOK, FabricTypeOK,
             nodeVars, linkVars, haltVars
<1> QED BY <1>2, <1>3, <1>4

(* The frames of a connection, and the adapter's reports. *)
LEMMA FrameTypes ==
  ASSUME CommandsTypeOK, NEW c \in Command, NEW k \in Connection,
         \/ Transmit(k, c) \/ Dispatched(k, c) \/ SendFails(k, c)
         \/ \E st \in Reports : Report(k, c, st)
  PROVE  CommandsTypeOK'
<1> USE StagesAreTyped DEF sessionVars, nodeVars, linkVars, castVars, haltVars
<1>1. CASE Transmit(k, c)
  BY <1>1 DEF Transmit, CommandsTypeOK, FabricTypeOK
<1>2. CASE Dispatched(k, c)
  <2>1. <<"DISPATCHED">> \in Seq(Stage) OBVIOUS
  <2>2. trace' \in [Command -> Seq(Stage)]
    BY <1>2, <2>1, LoggedTypes DEF Dispatched, CommandsTypeOK
  <2>3. wire' \in [Connection -> Seq(Command \cup Node)]
    BY <1>2, PoppedTypes DEF Dispatched, CommandsTypeOK
  <2> QED BY <1>2, <2>2, <2>3 DEF Dispatched, CommandsTypeOK, FabricTypeOK
<1>3. CASE SendFails(k, c)
  <2>1. <<"FAILED">> \in Seq(Stage) OBVIOUS
  <2>2. trace' \in [Command -> Seq(Stage)]
    BY <1>3, <2>1, LoggedTypes DEF SendFails, CommandsTypeOK
  <2>3. wire' \in [Connection -> Seq(Command \cup Node)]
    BY <1>3, PoppedTypes DEF SendFails, CommandsTypeOK
  <2> QED BY <1>3, <2>2, <2>3 DEF SendFails, CommandsTypeOK, FabricTypeOK
<1>4. ASSUME NEW st \in Reports, Report(k, c, st) PROVE CommandsTypeOK'
  <2>1. <<st>> \in Seq(Stage) OBVIOUS
  <2>2. trace' \in [Command -> Seq(Stage)]
    <3>1. Logged(c, <<st>>) \/ trace' = trace BY <1>4 DEF Report
    <3> QED BY <2>1, <3>1, LoggedTypes DEF CommandsTypeOK
  <2>3. phase' \in [Connection -> {"new", "open", "closing", "closed"}]
    <3>1. phase' = phase \/ phase' = [phase EXCEPT ![k] = "closing"]
      BY <1>4 DEF Report
    <3> QED BY <3>1 DEF CommandsTypeOK, FabricTypeOK
  <2>4. said' \in [Command -> Stage \cup {None}]
    BY <1>4 DEF Report, CommandsTypeOK
  <2> QED BY <1>4, <2>2, <2>3, <2>4 DEF Report, CommandsTypeOK, FabricTypeOK
<1> QED BY <1>1, <1>2, <1>3, <1>4

(* stop_all, a lease that lapses and a restart. *)
LEMMA HaltTypes ==
  ASSUME CommandsTypeOK,
         \/ BeginStopAll \/ EndStopAll \/ Restart
         \/ \E l \in Lease : ControlLapses(l)
         \/ \E n \in Node, k \in Connection : StopNode(n, k) \/ StopSent(k, n)
  PROVE  CommandsTypeOK'
<1> USE DEF sessionVars, nodeVars, linkVars, castVars, taskVars, haltVars
<1>1. CASE BeginStopAll
  <2>1. control' \in [Lease -> Command \cup {None}]
    BY <1>1 DEF BeginStopAll, Released, CommandsTypeOK, FabricTypeOK
  <2>2. state' \in [Session -> {"draft", "ready", "active", "paused", None} \cup Ended]
    BY <1>1 DEF BeginStopAll, Ended, CommandsTypeOK, FabricTypeOK
  <2>3. early' \in SUBSET Command /\ todo' \in SUBSET (Node \X Connection)
    BY <1>1 DEF BeginStopAll
  <2> QED BY <1>1, <2>1, <2>2, <2>3 DEF BeginStopAll, CommandsTypeOK, FabricTypeOK
<1>2. CASE EndStopAll
  BY <1>2 DEF EndStopAll, CommandsTypeOK, FabricTypeOK
<1>3. CASE Restart
  <2>1. /\ link' \in [Node -> Connection \cup {None}]
        /\ phase' \in [Connection -> {"new", "open", "closing", "closed"}]
    BY <1>3 DEF Restart, LoseConnections, CommandsTypeOK, FabricTypeOK
  <2>2. wire' \in [Connection -> Seq(Command \cup Node)]
    BY <1>3 DEF Restart
  <2> QED BY <1>3, <2>1, <2>2 DEF Restart, LoseConnections, CommandsTypeOK, FabricTypeOK
<1>4. ASSUME NEW l \in Lease, ControlLapses(l) PROVE CommandsTypeOK'
  BY <1>4 DEF ControlLapses, CommandsTypeOK, FabricTypeOK
<1>5. ASSUME NEW n \in Node, NEW k \in Connection, StopNode(n, k) PROVE CommandsTypeOK'
  <2>1. Append(wire[k], n) \in Seq(Command \cup Node) BY DEF CommandsTypeOK
  <2>2. wire' \in [Connection -> Seq(Command \cup Node)]
    BY <1>5, <2>1 DEF StopNode, CommandsTypeOK
  <2> QED BY <1>5, <2>2 DEF StopNode, CommandsTypeOK, FabricTypeOK
<1>6. ASSUME NEW n \in Node, NEW k \in Connection, StopSent(k, n) PROVE CommandsTypeOK'
  <2>1. wire' \in [Connection -> Seq(Command \cup Node)]
    BY <1>6, PoppedTypes DEF StopSent, CommandsTypeOK
  <2> QED BY <1>6, <2>1 DEF StopSent, CommandsTypeOK, FabricTypeOK
<1> QED BY <1>1, <1>2, <1>3, <1>4, <1>5, <1>6

LEMMA NextTypes ==
  ASSUME CommandsTypeOK, [Next]_fabricVars
  PROVE  CommandsTypeOK'
<1>1. CASE SessionStep /\ UNCHANGED <<taskVars, haltVars>>
  <2>1. FabricTypeOK' BY <1>1, SessionStepTypes DEF CommandsTypeOK
  <2> QED BY <1>1, <2>1 DEF CommandsTypeOK, taskVars, haltVars
<1>2. ASSUME NEW c \in Command, CommandStep(c) PROVE CommandsTypeOK'
  BY <1>2, SubmitTypes, FrameTypes DEF CommandStep
<1>3. CASE UNCHANGED fabricVars
  BY <1>3 DEF CommandsTypeOK, FabricTypeOK, fabricVars, sessionVars, nodeVars, linkVars,
              castVars, taskVars, haltVars
<1> QED BY <1>1, <1>2, <1>3, HaltTypes DEF Next

LEMMA InitTypes == Init => CommandsTypeOK
<1> SUFFICES ASSUME Init PROVE CommandsTypeOK OBVIOUS
<1>1. FabricTypeOK BY DEF Init, FabricInit, FabricTypeOK
<1>2. trace \in [Command -> Seq(Stage)] /\ wire \in [Connection -> Seq(Command \cup Node)]
  <2>1. <<>> \in Seq(Stage) /\ <<>> \in Seq(Command \cup Node) OBVIOUS
  <2> QED BY <2>1 DEF Init
<1> QED BY <1>1, <1>2 DEF Init, CommandsTypeOK

-----------------------------------------------------------------------------
(* What each group of steps does to arms, leases and claims. *)

(* One shape for every step that touches arms and leases without granting:  *)
(* whoever loses its arm loses its leases, and nobody gains either.         *)
Withdraws ==
  \E ss \in SUBSET Session, ns \in SUBSET Node :
    /\ armed' = armed \ ss
    /\ control' = Released(ss, ns)

Untouched == UNCHANGED <<armed, control>>

LEMMA DisarmWithdraws ==
  ASSUME FabricTypeOK, NEW ns, NEW expired \in SUBSET Node, NEW lapsed \in SUBSET armed,
         DisarmFor(ns, expired, lapsed)
  PROVE  Withdraws
<1>1. Hit(ns) \cup lapsed \in SUBSET Session
  BY FabricAssumption DEF Hit, FabricTypeOK
<1> QED BY <1>1 DEF DisarmFor, Withdraws

(* Sessions and nodes change: either arms and leases are withdrawn, or they *)
(* are left alone, or one session is armed.                                 *)
LEMMA SessionStepArms ==
  ASSUME FabricTypeOK, SessionStep
  PROVE  \/ Withdraws
         \/ Untouched
         \/ \E s \in Session : armed' = armed \cup {s} /\ control' = control
<1> USE FabricAssumption DEF Untouched
<1>1. ASSUME NEW k \in Connection, NEW declared \in Reported \cap Present, Register(k, declared)
      PROVE Untouched
  BY <1>1 DEF Register, castVars
<1>2. ASSUME NEW k \in Connection, NEW n \in Node, NEW reported \in Reported,
             Heartbeat(k, n, reported)
      PROVE Withdraws
  BY <1>2, DisarmWithdraws DEF Heartbeat
<1>3. ASSUME NEW k \in Connection, Break(k) PROVE Untouched
  BY <1>3 DEF Break, castVars
<1>4. ASSUME NEW k \in Connection, Remove(k) PROVE Withdraws
  BY <1>4, DisarmWithdraws DEF Remove
<1>5. ASSUME NEW n \in Node, NodeLeaseLapses(n) PROVE Untouched
  BY <1>5 DEF NodeLeaseLapses, castVars
<1>6. ASSUME NEW lapsed \in SUBSET armed, Maintain(lapsed) PROVE Withdraws
  <2>1. {n \in overdue : node[n] \in Present} \in SUBSET Node BY DEF FabricTypeOK
  <2> QED BY <1>6, <2>1, DisarmWithdraws DEF Maintain
<1>7. ASSUME NEW s \in Session, CreateSession(s) PROVE Untouched
  BY <1>7 DEF CreateSession
<1>8. ASSUME NEW s \in Session, NEW r \in Role, NEW n \in Node, AssignRole(s, r, n)
      PROVE Untouched
  BY <1>8 DEF AssignRole
<1>9. ASSUME NEW s \in Session, Start(s) PROVE Untouched
  BY <1>9 DEF Start
<1>10. ASSUME NEW s \in Session, Disarm(s) \/ Pause(s) \/ Stop(s) PROVE Withdraws
  BY <1>10 DEF Disarm, Pause, Stop, Leave, Withdraws
<1>11. ASSUME NEW s \in Session, Arm(s)
       PROVE \E t \in Session : armed' = armed \cup {t} /\ control' = control
  BY <1>11 DEF Arm
<1> QED
  BY <1>1, <1>2, <1>3, <1>4, <1>5, <1>6, <1>7, <1>8, <1>9, <1>10, <1>11 DEF SessionStep

-----------------------------------------------------------------------------
(* An open connection serves its nodes (_install_connection,                *)
(* _remove_connection).                                                     *)

LEMMA ServedByOneStep ==
  ASSUME FabricTypeOK, ServedByOne, [Next]_fabricVars
  PROVE  ServedByOne'
<1> USE FabricAssumption DEF ServedByOne
<1>1. ASSUME NEW k \in Connection, NEW declared \in Reported \cap Present, Register(k, declared)
      PROVE ServedByOne'
  <2> SUFFICES ASSUME NEW o \in Connection, NEW n \in Node, phase'[o] = "open", n \in Serves[o]
               PROVE link'[n] = o
    OBVIOUS
  <2>1. CASE o = k BY <1>1, <2>1 DEF Register, FabricTypeOK
  <2>2. CASE o # k
    <3>1. phase[o] = "open" /\ ~ \E m \in Serves[k] : link[m] = o
      BY <1>1, <2>2 DEF Register, FabricTypeOK
    <3>2. link[n] = o /\ n \notin Serves[k] BY <3>1
    <3> QED BY <1>1, <3>2 DEF Register
  <2> QED BY <2>1, <2>2
<1>2. ASSUME NEW k \in Connection, Remove(k) PROVE ServedByOne'
  <2> SUFFICES ASSUME NEW o \in Connection, NEW n \in Node, phase'[o] = "open", n \in Serves[o]
               PROVE link'[n] = o
    OBVIOUS
  <2>1. o # k /\ phase[o] = "open" BY <1>2 DEF Remove, FabricTypeOK
  <2>2. link[n] = o BY <2>1
  <2> QED BY <1>2, <2>1, <2>2 DEF Remove
<1>3. ASSUME NEW k \in Connection, link' = link, phase' = [phase EXCEPT ![k] = "closing"]
      PROVE ServedByOne'
  BY <1>3 DEF FabricTypeOK
<1>4. CASE Restart
  BY <1>4 DEF Restart, LoseConnections
<1>5. CASE UNCHANGED linkVars BY <1>5 DEF linkVars
<1>6. ASSUME SessionStep PROVE ServedByOne'
  <2>1. ASSUME NEW k \in Connection, Break(k) PROVE ServedByOne'
    BY <1>3, <2>1 DEF Break
  <2>2. ASSUME NEW k \in Connection, NEW n \in Node, NEW reported \in Reported,
               Heartbeat(k, n, reported)
        PROVE UNCHANGED linkVars
    BY <2>2 DEF Heartbeat
  <2>3. ASSUME NEW n \in Node, NodeLeaseLapses(n) PROVE UNCHANGED linkVars
    BY <2>3 DEF NodeLeaseLapses, linkVars
  <2>4. ASSUME NEW lapsed \in SUBSET armed, Maintain(lapsed) PROVE UNCHANGED linkVars
    BY <2>4 DEF Maintain, linkVars
  <2>5. ASSUME NEW s \in Session,
               \/ CreateSession(s) \/ \E r \in Role, n \in Node : AssignRole(s, r, n)
               \/ Arm(s) \/ Start(s) \/ Disarm(s) \/ Pause(s) \/ Stop(s)
        PROVE UNCHANGED linkVars
    BY <2>5 DEF CreateSession, AssignRole, Arm, Start, Disarm, Pause, Stop, Leave, KeepNodes
  <2> QED BY <1>1, <1>2, <1>5, <1>6, <2>1, <2>2, <2>3, <2>4, <2>5 DEF SessionStep
<1>7. ASSUME NEW c \in Command, CommandStep(c) PROVE ServedByOne'
  <2>1. ASSUME NEW k \in Connection, NEW st \in Reports, Report(k, c, st) PROVE ServedByOne'
    <3>1. link' = link /\ (phase' = phase \/ phase' = [phase EXCEPT ![k] = "closing"])
      BY <2>1 DEF Report
    <3> QED BY <1>3, <3>1
  <2> QED BY <1>5, <1>7, <2>1 DEF CommandStep, Reject, LoseArbitration, Dispatch, Transmit,
             Dispatched, SendFails, sessionVars, linkVars
<1> QED
  BY <1>4, <1>5, <1>6, <1>7 DEF Next, fabricVars, ControlLapses, BeginStopAll, EndStopAll,
     StopNode, StopSent, sessionVars, linkVars

-----------------------------------------------------------------------------
(* An armed session has lost no node since it was armed                     *)
(* (_disarm_sessions_for_nodes).                                            *)

LEMMA DisarmUnshaken ==
  ASSUME FabricTypeOK, Unshaken, NEW ns, NEW expired, NEW lapsed,
         DisarmFor(ns, expired, lapsed)
  PROVE  Unshaken'
  BY DEF DisarmFor, Unshaken, Hit

LEMMA UnshakenStep ==
  ASSUME FabricTypeOK, Unshaken, [Next]_fabricVars
  PROVE  Unshaken'
<1>1. CASE armed' \subseteq armed /\ shaken' = shaken
  BY <1>1 DEF Unshaken
<1>2. CASE SessionStep
  <2>1. ASSUME NEW k \in Connection,
               \/ \E declared \in Reported \cap Present : Register(k, declared)
               \/ Break(k)
        PROVE Unshaken'
    BY <1>1, <2>1 DEF Register, Break, castVars
  <2>2. ASSUME NEW k \in Connection,
               \/ \E n \in Node, reported \in Reported : Heartbeat(k, n, reported)
               \/ Remove(k)
        PROVE Unshaken'
    BY <2>2, DisarmUnshaken DEF Heartbeat, Remove
  <2>3. ASSUME NEW lapsed \in SUBSET armed, Maintain(lapsed) PROVE Unshaken'
    BY <2>3, DisarmUnshaken DEF Maintain
  <2>4. ASSUME NEW n \in Node, NodeLeaseLapses(n) PROVE Unshaken'
    BY <1>1, <2>4 DEF NodeLeaseLapses, castVars
  <2>5. ASSUME NEW s \in Session,
               \/ CreateSession(s) \/ \E r \in Role, n \in Node : AssignRole(s, r, n)
               \/ Start(s) \/ Disarm(s) \/ Pause(s) \/ Stop(s)
        PROVE Unshaken'
    BY <1>1, <2>5 DEF CreateSession, AssignRole, Start, Disarm, Pause, Stop, Leave
  <2>6. ASSUME NEW s \in Session, Arm(s) PROVE Unshaken'
    BY <2>6 DEF Arm, Unshaken
  <2> QED BY <1>2, <2>1, <2>2, <2>3, <2>4, <2>5, <2>6, FabricAssumption DEF SessionStep
<1>3. ASSUME NEW c \in Command, CommandStep(c) PROVE Unshaken'
  BY <1>1, <1>3 DEF CommandStep, Reject, LoseArbitration, Dispatch, Transmit, Dispatched,
     SendFails, Report, sessionVars, castVars
<1> QED
  BY <1>1, <1>2, <1>3 DEF Next, fabricVars, ControlLapses, BeginStopAll, EndStopAll,
     StopNode, StopSent, Restart, LoseConnections, sessionVars, castVars

-----------------------------------------------------------------------------
(* Keys and leases (claim_fabric_command, acquire_fabric_control_lease).    *)

(* A key, once claimed, keeps its command. *)
LEMMA ClaimsAreKept ==
  ASSUME CommandsTypeOK, [Next]_fabricVars, NEW y \in Key, claims[y] # None
  PROVE  claims'[y] = claims[y]
<1>1. ASSUME NEW c \in Command, Arrives(c) PROVE claims'[y] = claims[y]
  <2>1. KeyOf[c] # y BY <1>1 DEF Arrives, Unclaimed
  <2> QED BY <1>1, <2>1 DEF Arrives, CommandsTypeOK
<1>2. ASSUME NEW c \in Command, CommandStep(c) PROVE claims'[y] = claims[y]
  BY <1>1, <1>2 DEF CommandStep, Reject, LoseArbitration, Dispatch, Transmit, Dispatched,
     SendFails, Report
<1> QED
  BY <1>2 DEF Next, fabricVars, ControlLapses, BeginStopAll, EndStopAll, StopNode, StopSent,
     Restart, taskVars

(* What a new request claims, and which target it resolves. *)
LEMMA ArrivesClaims ==
  ASSUME CommandsTypeOK, NEW c \in Command, Arrives(c)
  PROVE  /\ claims[KeyOf[c]] = None
         /\ claims'[KeyOf[c]] = c
         /\ dest'[c] = TargetOf(c)
         /\ \A o \in Command : o # c => dest'[o] = dest[o]
  BY CommandsAssumption DEF Arrives, Unclaimed, CommandsTypeOK

(* Handing over and granting are the work of Dispatch alone. *)
LEMMA OnlyDispatchHands ==
  ASSUME CommandsTypeOK, [Next]_fabricVars
  PROVE  UNCHANGED via \/ \E c \in Command : Dispatch(c)
<1>1. ASSUME NEW c \in Command, CommandStep(c) PROVE UNCHANGED via \/ Dispatch(c)
  BY <1>1 DEF CommandStep, Reject, LoseArbitration, Transmit, Dispatched, SendFails, Report
<1> QED
  BY <1>1 DEF Next, fabricVars, ControlLapses, BeginStopAll, EndStopAll, StopNode, StopSent,
     Restart, taskVars

LEMMA DispatchHands ==
  ASSUME CommandsTypeOK, NEW c \in Command, Dispatch(c)
  PROVE  \A o \in Command : o # c => via'[o] = via[o]
  BY DEF Dispatch, CommandsTypeOK

LEMMA KeyNamesStep ==
  ASSUME CommandsTypeOK, KeyNames, [Next]_fabricVars
  PROVE  KeyNames'
<1> SUFFICES ASSUME NEW o \in Command, via'[o] # None PROVE claims'[KeyOf[o]] = o
  BY DEF KeyNames
<1>0. KeyOf[o] \in Key BY CommandsAssumption
<1>1. CASE via[o] # None
  <2>1. claims[KeyOf[o]] = o /\ o # None BY <1>1, FabricAssumption DEF KeyNames
  <2> QED BY <1>0, <2>1, ClaimsAreKept
<1>2. CASE via[o] = None
  <2>1. PICK c \in Command : Dispatch(c) BY <1>2, OnlyDispatchHands
  <2>2. o = c BY <1>2, <2>1, DispatchHands
  <2> QED BY <2>1, <2>2, ArrivesClaims DEF Dispatch
<1> QED BY <1>1, <1>2

(* Four ways a step treats arms, leases and targets. *)
LEMMA LeaseSteps ==
  ASSUME CommandsTypeOK, [Next]_fabricVars
  PROVE  \/ Withdraws /\ dest' = dest
         \/ armed \subseteq armed' /\ control' = control /\ dest' = dest
         \/ armed' = armed /\ dest' = dest /\ \E l \in Lease : ControlLapses(l)
         \/ \E c \in Command :
              /\ armed' = armed /\ Arrives(c)
              /\ control' = control \/ Dispatch(c)
<1>1. CASE SessionStep /\ UNCHANGED <<taskVars, haltVars>>
  BY <1>1, SessionStepArms DEF CommandsTypeOK, taskVars, Untouched
<1>2. ASSUME NEW c \in Command, CommandStep(c)
      PROVE \/ armed' = armed /\ control' = control /\ dest' = dest
            \/ armed' = armed /\ Arrives(c) /\ (control' = control \/ Dispatch(c))
  BY <1>2 DEF CommandStep, Reject, LoseArbitration, Dispatch, Transmit, Dispatched,
     SendFails, Report, sessionVars, castVars
<1>3. CASE BeginStopAll
  <2> DEFINE going == {s \in Session : state[s] \notin Ended \cup {None}}
  <2>1. armed' = armed \ going /\ control' = Released(going, {}) /\ dest' = dest
    BY <1>3 DEF BeginStopAll, taskVars
  <2> QED BY <2>1 DEF Withdraws
<1>4. ASSUME NEW l \in Lease, ControlLapses(l)
      PROVE armed' = armed /\ dest' = dest
  BY <1>4 DEF ControlLapses, taskVars
<1>5. CASE \/ EndStopAll \/ Restart \/ UNCHANGED fabricVars
           \/ \E n \in Node, k \in Connection : StopNode(n, k) \/ StopSent(k, n)
  BY <1>5 DEF EndStopAll, Restart, LoseConnections, StopNode, StopSent, fabricVars,
     sessionVars, castVars, taskVars
<1> QED BY <1>1, <1>2, <1>3, <1>4, <1>5 DEF Next

(* A lease that is held after a step was held before it, or is the one its  *)
(* command has just been granted.                                           *)
LEMMA LeaseOrigin ==
  ASSUME CommandsTypeOK, [Next]_fabricVars, NEW l \in Lease, control'[l] # None
  PROVE  \/ control'[l] = control[l]
         \/ Dispatch(control'[l]) /\ control'[l] \in Command
<1>1. CASE Withdraws
  BY <1>1, DisarmReleases DEF Withdraws, CommandsTypeOK
<1>2. CASE control' = control
  BY <1>2
<1>3. ASSUME NEW m \in Lease, ControlLapses(m)
      PROVE control'[l] = control[l]
  BY <1>3 DEF ControlLapses, CommandsTypeOK, FabricTypeOK
<1>4. ASSUME NEW c \in Command, Dispatch(c)
      PROVE control'[l] = control[l] \/ control'[l] = c
  BY <1>4 DEF Dispatch, CommandsTypeOK, FabricTypeOK
<1> QED BY <1>1, <1>2, <1>3, <1>4, LeaseSteps

LEMMA LeaseClaimedStep ==
  ASSUME CommandsTypeOK, LeaseClaimed, [Next]_fabricVars
  PROVE  LeaseClaimed'
<1> SUFFICES ASSUME NEW l \in Lease, control'[l] # None
             PROVE claims'[KeyOf[control'[l]]] # None
  BY DEF LeaseClaimed
<1>1. CASE control'[l] = control[l]
  <2>1. control[l] \in Command BY <1>1 DEF CommandsTypeOK, FabricTypeOK
  <2>2. KeyOf[control[l]] \in Key BY <2>1, CommandsAssumption
  <2>3. claims[KeyOf[control[l]]] # None BY <1>1 DEF LeaseClaimed
  <2>4. claims'[KeyOf[control[l]]] = claims[KeyOf[control[l]]] BY <2>2, <2>3, ClaimsAreKept
  <2> QED BY <1>1, <2>3, <2>4
<1>2. CASE Dispatch(control'[l]) /\ control'[l] \in Command
  BY <1>2, ArrivesClaims, FabricAssumption DEF Dispatch
<1> QED BY <1>1, <1>2, LeaseOrigin

(* A command that moves a device is dispatched for an armed session only    *)
(* (_validate_command).                                                     *)
LEMMA DispatchNeedsArm ==
  ASSUME NEW c \in Command, Dispatch(c), c \in Actuating \ SafeState,
         TargetOf(c) \notin Simulated
  PROVE  Sender[c] \in armed
  BY DEF Dispatch, Permitted

LEMMA MovingLeaseStep ==
  ASSUME CommandsTypeOK, LeaseClaimed, MovingLeaseIsArmed, [Next]_fabricVars
  PROVE  MovingLeaseIsArmed'
<1>a. Withdraws \/ armed \subseteq armed'
  BY LeaseSteps
<1>b. dest' = dest \/ \E c \in Command : Arrives(c)
  BY LeaseSteps
<1> SUFFICES ASSUME NEW l \in Lease, control'[l] \in Moves'
             PROVE Sender[control'[l]] \in armed'
  BY DEF MovingLeaseIsArmed
<1>0. /\ control'[l] \in Command /\ control'[l] # None
      /\ control'[l] \in Actuating \ SafeState
      /\ dest'[control'[l]] \notin Simulated
  BY CommandsAssumption, FabricAssumption DEF Moves
<1>1. CASE control'[l] = control[l] /\ dest'[control[l]] = dest[control[l]]
  <2>1. Sender[control[l]] \in armed
    BY <1>0, <1>1 DEF MovingLeaseIsArmed, Moves
  <2>2. CASE Withdraws
    <3>1. PICK ss \in SUBSET Session, ns \in SUBSET Node :
            armed' = armed \ ss /\ control' = Released(ss, ns)
      BY <2>2 DEF Withdraws
    <3>2. Sender[control[l]] \notin ss
      BY <1>0, <3>1, DisarmReleases DEF CommandsTypeOK
    <3> QED BY <1>1, <2>1, <3>1, <3>2
  <2>3. CASE armed \subseteq armed' BY <1>1, <2>1, <2>3
  <2> QED BY <2>2, <2>3, <1>a
<1>2. CASE control'[l] = control[l] /\ dest'[control[l]] # dest[control[l]]
  <2>1. PICK c \in Command : Arrives(c)
    <3>1. dest' # dest BY <1>2
    <3> QED BY <3>1, <1>b
  <2>2. control[l] = c BY <1>0, <1>2, <2>1, ArrivesClaims
  <2>3. claims[KeyOf[c]] = None BY <2>1, ArrivesClaims
  <2> QED BY <1>0, <1>2, <2>2, <2>3 DEF LeaseClaimed
<1>3. CASE Dispatch(control'[l])
  <2>1. Arrives(control'[l]) /\ armed' = armed BY <1>3 DEF Dispatch
  <2>2. dest'[control'[l]] = TargetOf(control'[l]) BY <1>0, <2>1, ArrivesClaims
  <2> QED BY <1>0, <1>3, <2>1, <2>2, DispatchNeedsArm
<1> QED BY <1>0, <1>1, <1>2, <1>3, LeaseOrigin

-----------------------------------------------------------------------------
(* The theorems. *)

LEMMA FabricInvInit == Init => FabricInv
<1> SUFFICES ASSUME Init PROVE FabricInv OBVIOUS
<1>1. CommandsTypeOK BY InitTypes
<1>2. ServedByOne /\ Unshaken /\ KeyNames /\ LeaseClaimed
  BY FabricAssumption DEF Init, FabricInit, ServedByOne, Unshaken, KeyNames, LeaseClaimed
<1>3. MovingLeaseIsArmed
  BY CommandsAssumption, FabricAssumption DEF Init, FabricInit, MovingLeaseIsArmed, Moves
<1> QED BY <1>1, <1>2, <1>3 DEF FabricInv

LEMMA FabricInvStep == FabricInv /\ [Next]_fabricVars => FabricInv'
<1> SUFFICES ASSUME FabricInv, [Next]_fabricVars PROVE FabricInv' OBVIOUS
<1>1. CommandsTypeOK' BY NextTypes DEF FabricInv
<1>2. ServedByOne' BY ServedByOneStep DEF FabricInv, CommandsTypeOK
<1>3. Unshaken' BY UnshakenStep DEF FabricInv, CommandsTypeOK
<1>4. KeyNames' BY KeyNamesStep DEF FabricInv
<1>5. LeaseClaimed' BY LeaseClaimedStep DEF FabricInv
<1>6. MovingLeaseIsArmed' BY MovingLeaseStep DEF FabricInv
<1> QED BY <1>1, <1>2, <1>3, <1>4, <1>5, <1>6 DEF FabricInv

(* The named parts of FabricInv hold together in every reachable state.      *)
THEOREM FabricInvariant == Spec => []FabricInv
BY FabricInvInit, FabricInvStep, PTL DEF Spec

(* The fabric's tables and queues keep their types. *)
THEOREM FabricTypeCorrect == Spec => []CommandsTypeOK
<1>1. FabricInv => CommandsTypeOK BY DEF FabricInv
<1> QED BY <1>1, FabricInvariant, PTL

(* Cleaning up after a replaced connection takes nothing from the one that  *)
(* replaced it (_remove_connection).                                        *)
THEOREM OpenIsReachableHolds == Spec => []OpenIsReachable
<1>1. FabricInv => OpenIsReachable
  BY FabricAssumption DEF FabricInv, ServedByOne, OpenIsReachable
<1> QED BY <1>1, FabricInvariant, PTL

(* A key hands one frame to an adapter, however often it is retried         *)
(* (claim_fabric_command).                                                  *)
THEOREM OneFramePerKeyHolds == Spec => []OneFramePerKey
<1>1. FabricInv => OneFramePerKey
  BY DEF FabricInv, KeyNames, OneFramePerKey, Handed
<1> QED BY <1>1, FabricInvariant, PTL

(* No lease taken for a movement outlives the arming of its session         *)
(* (release_fabric_session_leases).                                         *)
THEOREM MovingLeaseIsArmedHolds == Spec => []MovingLeaseIsArmed
<1>1. FabricInv => MovingLeaseIsArmed BY DEF FabricInv
<1> QED BY <1>1, FabricInvariant, PTL

(* A session that has lost a node moves nothing until it is armed again     *)
(* (_disarm_sessions_for_nodes, _validate_command).                         *)
THEOREM LostNodeNeedsRearmHolds == Spec => LostNodeNeedsRearm
<1>1. ASSUME FabricInv, [Next]_fabricVars
      PROVE [\A c \in Command : via[c] = None /\ via'[c] # None /\ c \in Actuating \ SafeState
               /\ TargetOf(c) \notin Simulated => Sender[c] \notin shaken]_fabricVars
  <2> SUFFICES ASSUME NEW c \in Command, via[c] = None, via'[c] # None,
                      c \in Actuating \ SafeState, TargetOf(c) \notin Simulated
               PROVE Sender[c] \notin shaken
    OBVIOUS
  <2>1. Dispatch(c) BY <1>1, OnlyDispatchHands, DispatchHands DEF FabricInv
  <2>2. Sender[c] \in armed BY <2>1, DispatchNeedsArm
  <2> QED BY <1>1, <2>2 DEF FabricInv, Unshaken
<1> QED BY <1>1, FabricInvariant, PTL DEF Spec, LostNodeNeedsRearm

-----------------------------------------------------------------------------
(* The frames of a connection.  A command waits on the connection it was    *)
(* handed to, once; frames wait on connections that were opened; and a node *)
(* is served by a connection that registered it.                            *)
WireInv ==
  /\ \A k \in Connection : \A i \in DOMAIN wire[k] :
       wire[k][i] \in Command => via[wire[k][i]] = k
  /\ \A k \in Connection : \A i, j \in DOMAIN wire[k] :
       wire[k][i] = wire[k][j] /\ wire[k][i] \in Command => i = j
  /\ \A k \in Connection : phase[k] = "new" => wire[k] = <<>>
  /\ \A c \in Command : c \in got => via[c] # None

LinkInv ==
  /\ \A n \in Node : link[n] # None => n \in Serves[link[n]] /\ phase[link[n]] # "new"
  /\ \A c \in Command : via[c] # None => dest[c] \in Serves[via[c]]

(* The lease a command was granted when it was handed over. *)
LeaseOf(c) == <<dest[c], Action[c]>>

(* A command that still waits on an open connection either has its lease or *)
(* is followed by the command that has.                                     *)
HolderIsLast ==
  \A k \in Connection : phase[k] = "open" =>
    \A i \in DOMAIN wire[k] :
      LET c == wire[k][i] h == control[LeaseOf(c)] IN
      c \in Command \ got /\ h \notin {None, c} =>
        h \notin got /\ \E j \in DOMAIN wire[k] : i < j /\ wire[k][j] = h

(* A command that was handed over before stop_all began and still waits is  *)
(* followed by a stop frame, or a node of its connection is still to be     *)
(* stopped.                                                                 *)
StopFollows ==
  halting =>
    \A k \in Connection : phase[k] = "open" =>
      \A i \in DOMAIN wire[k] : wire[k][i] \in early =>
        \/ \E n \in Node : <<n, k>> \in todo
        \/ \E j \in DOMAIN wire[k] : i < j /\ wire[k][j] \in Node

EarlyInv == \A c \in Command : halting /\ c \in early => via[c] # None

(* What stop_all has still to do is on connections that were opened. *)
TodoInv == \A k \in Connection : (\E n \in Node : <<n, k>> \in todo) => phase[k] # "new"

OrderInv == WireInv /\ LinkInv /\ HolderIsLast /\ EarlyInv /\ TodoInv /\ StopFollows

-----------------------------------------------------------------------------
(* What a step does to a connection and to the frames that wait for it.     *)

(* Positions in a queue that a frame joins or leaves. *)
LEMMA Joins ==
  ASSUME NEW S, NEW s \in Seq(S), NEW x \in S
  PROVE  /\ \A i \in DOMAIN s : i \in DOMAIN Append(s, x) /\ Append(s, x)[i] = s[i]
         /\ \A i \in DOMAIN Append(s, x) :
              i \in DOMAIN s \/ (Append(s, x)[i] = x /\ \A j \in DOMAIN s : j < i)
         /\ \E i \in DOMAIN Append(s, x) : Append(s, x)[i] = x /\ \A j \in DOMAIN s : j < i
<1>1. /\ DOMAIN s = 1..Len(s) /\ Len(s) \in Nat /\ DOMAIN Append(s, x) = 1..Len(s) + 1
      /\ \A i \in 1..Len(s) : Append(s, x)[i] = s[i]
      /\ Append(s, x)[Len(s) + 1] = x
  OBVIOUS
<1> QED BY <1>1

LEMMA Leaves ==
  ASSUME NEW S, NEW s \in Seq(S), s # <<>>
  PROVE  /\ DOMAIN s \subseteq Nat /\ 1 \in DOMAIN s /\ Head(s) = s[1]
         /\ \A i \in DOMAIN Tail(s) : i + 1 \in DOMAIN s /\ Tail(s)[i] = s[i + 1]
         /\ \A j \in DOMAIN s : j > 1 => j - 1 \in DOMAIN Tail(s) /\ Tail(s)[j - 1] = s[j]
<1>1. /\ DOMAIN s = 1..Len(s) /\ Len(s) \in Nat /\ Len(s) > 0
      /\ DOMAIN Tail(s) = 1..Len(s) - 1
      /\ \A i \in 1..Len(s) - 1 : Tail(s)[i] = s[i + 1]
      /\ Head(s) = s[1]
  OBVIOUS
<1> QED BY <1>1

(* A connection is opened once, and its queue is left alone by that step.   *)
LEMMA PhaseMoves ==
  ASSUME CommandsTypeOK, [Next]_fabricVars, NEW k \in Connection
  PROVE  /\ phase'[k] = "new" => phase[k] = "new"
         /\ phase'[k] = "open" => \/ phase[k] = "open"
                                  \/ phase[k] = "new" /\ UNCHANGED <<taskVars, haltVars>>
<1> DEFINE Ages == (phase'[k] = "new" => phase[k] = "new") /\ (phase'[k] = "open" => phase[k] = "open")
<1>0. phase \in [Connection -> {"new", "open", "closing", "closed"}]
  BY DEF CommandsTypeOK, FabricTypeOK
<1>1. CASE phase' = phase BY <1>1
<1>2. ASSUME NEW o \in Connection, NEW next \in {"closing", "closed"},
             phase' = [phase EXCEPT ![o] = next]
      PROVE Ages
  BY <1>0, <1>2
<1>3. CASE SessionStep /\ UNCHANGED <<taskVars, haltVars>>
  <2>1. ASSUME NEW o \in Connection, NEW declared, Register(o, declared)
        PROVE /\ phase'[k] = "new" => phase[k] = "new"
              /\ phase'[k] = "open" => phase[k] \in {"open", "new"}
    BY <1>0, <2>1 DEF Register
  <2>2. ASSUME NEW o \in Connection, Break(o) \/ Remove(o) PROVE Ages
    BY <1>2, <2>2 DEF Break, Remove
  <2>3. ASSUME NEW o \in Connection, NEW n \in Node, NEW reported \in Reported,
               Heartbeat(o, n, reported)
        PROVE phase' = phase
    BY <2>3 DEF Heartbeat, linkVars
  <2>4. ASSUME NEW n \in Node, NodeLeaseLapses(n) PROVE phase' = phase
    BY <2>4 DEF NodeLeaseLapses, linkVars
  <2>5. ASSUME NEW lapsed \in SUBSET armed, Maintain(lapsed) PROVE phase' = phase
    BY <2>5 DEF Maintain, linkVars
  <2>6. ASSUME NEW s \in Session,
               \/ CreateSession(s) \/ \E r \in Role, n \in Node : AssignRole(s, r, n)
               \/ Arm(s) \/ Start(s) \/ Disarm(s) \/ Pause(s) \/ Stop(s)
        PROVE phase' = phase
    BY <2>6 DEF CreateSession, AssignRole, Arm, Start, Disarm, Pause, Stop, Leave, KeepNodes,
       linkVars
  <2> QED BY <1>1, <1>3, <2>1, <2>2, <2>3, <2>4, <2>5, <2>6, FabricAssumption DEF SessionStep
<1>4. ASSUME NEW c \in Command, CommandStep(c) PROVE Ages
  <2>1. ASSUME NEW o \in Connection, NEW st \in Reports, Report(o, c, st) PROVE Ages
    BY <1>1, <1>2, <2>1 DEF Report
  <2> QED BY <1>1, <1>4, <2>1 DEF CommandStep, Reject, LoseArbitration, Dispatch, Transmit,
             Dispatched, SendFails, sessionVars, linkVars
<1>5. CASE Restart
  BY <1>0, <1>5 DEF Restart, LoseConnections
<1> QED
  BY <1>1, <1>3, <1>4, <1>5 DEF Next, fabricVars, ControlLapses, BeginStopAll, EndStopAll,
     StopNode, StopSent, sessionVars, linkVars

(* The queue of a connection: a frame joins at the end or leaves from the   *)
(* front, or all are lost.                                                  *)
LEMMA QueueMoves ==
  ASSUME CommandsTypeOK, [Next]_fabricVars, NEW k \in Connection
  PROVE  \/ wire'[k] = wire[k]
         \/ wire'[k] = <<>> /\ Restart
         \/ wire[k] # <<>> /\ wire'[k] = Tail(wire[k])
         \/ \E n \in Node : StopNode(n, k) /\ wire'[k] = Append(wire[k], n)
         \/ \E c \in Command : /\ Dispatch(c) /\ link[TargetOf(c)] = k
                               /\ wire'[k] = Append(wire[k], c)
<1>0. wire \in [Connection -> Seq(Command \cup Node)] BY DEF CommandsTypeOK
<1>1. CASE wire' = wire BY <1>1
<1>2. ASSUME NEW o \in Connection, NEW f, AtHead(o, f), Popped(o)
      PROVE wire'[k] = wire[k] \/ (wire[k] # <<>> /\ wire'[k] = Tail(wire[k]))
  BY <1>0, <1>2 DEF AtHead, Popped
<1>3. ASSUME NEW c \in Command, CommandStep(c)
      PROVE  \/ wire'[k] = wire[k]
             \/ wire[k] # <<>> /\ wire'[k] = Tail(wire[k])
             \/ Dispatch(c) /\ link[TargetOf(c)] = k /\ wire'[k] = Append(wire[k], c)
  <2>1. CASE Dispatch(c)
    BY <1>0, <2>1 DEF Dispatch
  <2>2. ASSUME NEW o \in Connection, Dispatched(o, c) \/ SendFails(o, c)
        PROVE wire'[k] = wire[k] \/ (wire[k] # <<>> /\ wire'[k] = Tail(wire[k]))
    BY <1>2, <2>2 DEF Dispatched, SendFails
  <2>3. CASE \/ Reject(c) \/ LoseArbitration(c)
             \/ \E o \in Connection : Transmit(o, c) \/ \E st \in Reports : Report(o, c, st)
    BY <2>3 DEF Reject, LoseArbitration, Transmit, Report
  <2> QED BY <1>3, <2>1, <2>2, <2>3 DEF CommandStep
<1>4. ASSUME NEW n \in Node, NEW o \in Connection, StopNode(n, o)
      PROVE wire'[k] = wire[k] \/ (StopNode(n, k) /\ wire'[k] = Append(wire[k], n))
  BY <1>0, <1>4 DEF StopNode
<1>5. ASSUME NEW n \in Node, NEW o \in Connection, StopSent(o, n)
      PROVE wire'[k] = wire[k] \/ (wire[k] # <<>> /\ wire'[k] = Tail(wire[k]))
  BY <1>2, <1>5 DEF StopSent
<1>6. CASE Restart BY <1>6 DEF Restart
<1> QED
  BY <1>1, <1>3, <1>4, <1>5, <1>6 DEF Next, fabricVars, ControlLapses, BeginStopAll, EndStopAll,
     taskVars

(* A new request has not been handed over, and is nobody's frame. *)
LEMMA ArrivesIsNew ==
  ASSUME CommandsTypeOK, KeyNames, NEW c \in Command, Arrives(c)
  PROVE  via[c] = None
BY FabricAssumption, ArrivesClaims DEF KeyNames

(* What was handed over stays where it went. *)
LEMMA HandedStays ==
  ASSUME CommandsTypeOK, KeyNames, [Next]_fabricVars, NEW c \in Command, via[c] # None
  PROVE  via'[c] = via[c] /\ dest'[c] = dest[c]
<1>1. via'[c] = via[c]
  <2>1. CASE UNCHANGED via BY <2>1
  <2>2. ASSUME NEW o \in Command, Dispatch(o) PROVE via'[c] = via[c]
    <3>1. o # c BY <2>2, ArrivesIsNew DEF Dispatch
    <3> QED BY <2>2, <3>1, DispatchHands
  <2> QED BY <2>1, <2>2, OnlyDispatchHands
<1>2. dest'[c] = dest[c]
  <2>1. CASE dest' = dest BY <2>1
  <2>2. ASSUME NEW o \in Command, Arrives(o) PROVE dest'[c] = dest[c]
    <3>1. o # c BY <2>2, ArrivesIsNew
    <3> QED BY <2>2, <3>1, ArrivesClaims
  <2> QED BY <2>1, <2>2, LeaseSteps
<1> QED BY <1>1, <1>2

(* An adapter hears of a command when its frame is at the head of an open   *)
(* connection, and of nothing else in that step.                            *)
LEMMA OnlyTransmitGets ==
  ASSUME CommandsTypeOK, [Next]_fabricVars
  PROVE  \/ got' = got
         \/ \E k \in Connection, c \in Command : Transmit(k, c)
<1>1. ASSUME NEW c \in Command, CommandStep(c)
      PROVE got' = got \/ \E k \in Connection : Transmit(k, c)
  BY <1>1 DEF CommandStep, Reject, LoseArbitration, Dispatch, Dispatched, SendFails, Report
<1> QED
  BY <1>1 DEF Next, fabricVars, ControlLapses, BeginStopAll, EndStopAll, StopNode, StopSent,
     Restart, taskVars

(* Who serves a node after a step served it before, or has just registered  *)
(* it.                                                                      *)
LEMMA LinkMoves ==
  ASSUME CommandsTypeOK, [Next]_fabricVars, NEW n \in Node, link'[n] # None
  PROVE  \/ link'[n] = link[n]
         \/ n \in Serves[link'[n]] /\ phase'[link'[n]] = "open"
<1>0. /\ link \in [Node -> Connection \cup {None}]
      /\ phase \in [Connection -> {"new", "open", "closing", "closed"}]
  BY DEF CommandsTypeOK, FabricTypeOK
<1>1. CASE link' = link BY <1>1
<1>2. CASE SessionStep
  <2>1. ASSUME NEW k \in Connection, NEW declared, Register(k, declared)
        PROVE link'[n] = link[n] \/ (n \in Serves[link'[n]] /\ phase'[link'[n]] = "open")
    BY <1>0, <2>1 DEF Register
  <2>2. ASSUME NEW k \in Connection, Break(k) \/ Remove(k) PROVE link'[n] = link[n]
    BY <1>0, <2>2 DEF Break, Remove
  <2>3. ASSUME NEW k \in Connection, NEW o \in Node, NEW reported \in Reported,
               Heartbeat(k, o, reported)
        PROVE link' = link
    BY <2>3 DEF Heartbeat, linkVars
  <2>4. ASSUME NEW o \in Node, NodeLeaseLapses(o) PROVE link' = link
    BY <2>4 DEF NodeLeaseLapses, linkVars
  <2>5. ASSUME NEW lapsed \in SUBSET armed, Maintain(lapsed) PROVE link' = link
    BY <2>5 DEF Maintain, linkVars
  <2>6. ASSUME NEW s \in Session,
               \/ CreateSession(s) \/ \E r \in Role, o \in Node : AssignRole(s, r, o)
               \/ Arm(s) \/ Start(s) \/ Disarm(s) \/ Pause(s) \/ Stop(s)
        PROVE link' = link
    BY <2>6 DEF CreateSession, AssignRole, Arm, Start, Disarm, Pause, Stop, Leave, KeepNodes,
       linkVars
  <2> QED BY <1>1, <1>2, <2>1, <2>2, <2>3, <2>4, <2>5, <2>6, FabricAssumption DEF SessionStep
<1>3. ASSUME NEW c \in Command, CommandStep(c) PROVE link' = link
  BY <1>3 DEF CommandStep, Reject, LoseArbitration, Dispatch, Transmit, Dispatched, SendFails,
     Report, sessionVars, linkVars
<1>4. CASE Restart
  BY <1>4 DEF Restart, LoseConnections
<1> QED
  BY <1>1, <1>2, <1>3, <1>4 DEF Next, fabricVars, ControlLapses, BeginStopAll, EndStopAll,
     StopNode, StopSent, sessionVars, linkVars

-----------------------------------------------------------------------------
LEMMA LinkStep ==
  ASSUME CommandsTypeOK, KeyNames, LinkInv, [Next]_fabricVars
  PROVE  LinkInv'
<1>1. ASSUME NEW n \in Node, link'[n] # None
      PROVE n \in Serves[link'[n]] /\ phase'[link'[n]] # "new"
  <2>1. CASE link'[n] = link[n]
    <3>1. link[n] \in Connection BY <1>1, <2>1 DEF CommandsTypeOK, FabricTypeOK
    <3>2. phase'[link[n]] = "new" => phase[link[n]] = "new" BY <3>1, PhaseMoves
    <3> QED BY <1>1, <2>1, <3>2 DEF LinkInv
  <2> QED BY <1>1, <2>1, LinkMoves
<1>2. ASSUME NEW c \in Command, via'[c] # None PROVE dest'[c] \in Serves[via'[c]]
  <2>1. CASE via[c] # None BY <2>1, HandedStays DEF LinkInv
  <2>2. CASE via[c] = None
    <3>1. Dispatch(c) BY <1>2, <2>2, OnlyDispatchHands, DispatchHands
    <3>2. dest'[c] = TargetOf(c) /\ TargetOf(c) # None
      BY <3>1, ArrivesClaims DEF Dispatch, Arrives
    <3>3. TargetOf(c) \in Node
      BY <3>2, FabricAssumption, CommandsAssumption DEF TargetOf, CommandsTypeOK, FabricTypeOK
    <3>4. via'[c] = link[TargetOf(c)] \/ via' = via
      BY <3>1 DEF Dispatch, CommandsTypeOK
    <3> QED BY <1>2, <2>2, <3>2, <3>3, <3>4 DEF LinkInv
  <2> QED BY <2>1, <2>2
<1> QED BY <1>1, <1>2 DEF LinkInv

LEMMA TodoStep ==
  ASSUME CommandsTypeOK, LinkInv, TodoInv, [Next]_fabricVars
  PROVE  TodoInv'
<1>1. todo' \subseteq todo \/ BeginStopAll
  <2>1. ASSUME NEW c \in Command, CommandStep(c) PROVE todo' = todo
    BY <2>1 DEF CommandStep, Reject, LoseArbitration, Dispatch, Transmit, Dispatched,
       SendFails, Report, haltVars
  <2> QED BY <2>1 DEF Next, fabricVars, ControlLapses, EndStopAll, StopNode, StopSent, Restart,
             haltVars
<1>2. CASE todo' \subseteq todo
  BY <1>2, PhaseMoves DEF TodoInv
<1>3. CASE BeginStopAll
  <2>1. /\ todo' = {p \in Node \X Connection : link[p[1]] = p[2]}
        /\ phase' = phase
    BY <1>3 DEF BeginStopAll, linkVars
  <2>2. \A k \in Connection, n \in Node : <<n, k>> \in todo' => link[n] = k
    BY <2>1
  <2> QED BY <2>1, <2>2, FabricAssumption DEF TodoInv, LinkInv
<1> QED BY <1>1, <1>2, <1>3

(* Frames join the connection they were handed to, once. *)
LEMMA WireStep ==
  ASSUME CommandsTypeOK, KeyNames, LinkInv, TodoInv, WireInv, [Next]_fabricVars
  PROVE  WireInv'
<1>0. \A k \in Connection : wire[k] \in Seq(Command \cup Node)
  BY DEF CommandsTypeOK
<1>a. ASSUME NEW c \in Command, Dispatch(c)
      PROVE  /\ via[c] = None /\ TargetOf(c) \in Node
             /\ link[TargetOf(c)] # None => via'[c] = link[TargetOf(c)]
  <2>1. via[c] = None /\ TargetOf(c) # None BY <1>a, ArrivesIsNew DEF Dispatch, Arrives
  <2>2. TargetOf(c) \in Node
    BY <2>1, FabricAssumption, CommandsAssumption DEF TargetOf, CommandsTypeOK, FabricTypeOK
  <2>3. link[TargetOf(c)] # None => via' = [via EXCEPT ![c] = link[TargetOf(c)]]
    BY <1>a DEF Dispatch
  <2> QED BY <2>1, <2>2, <2>3 DEF CommandsTypeOK
<1>1. ASSUME NEW k \in Connection
      PROVE  /\ \A i \in DOMAIN wire'[k] : wire'[k][i] \in Command => via'[wire'[k][i]] = k
             /\ \A i, j \in DOMAIN wire'[k] :
                  wire'[k][i] = wire'[k][j] /\ wire'[k][i] \in Command => i = j
  <2>0. k # None BY FabricAssumption
  <2>1. \A i \in DOMAIN wire[k] :
           wire[k][i] \in Command => via[wire[k][i]] = k /\ via'[wire[k][i]] = k
    BY <2>0, HandedStays DEF WireInv
  <2>2. CASE wire'[k] = wire[k] \/ wire'[k] = <<>>
    BY <2>1, <2>2 DEF WireInv
  <2>3. CASE wire[k] # <<>> /\ wire'[k] = Tail(wire[k])
    <3>1. /\ DOMAIN wire[k] \subseteq Nat
          /\ \A i \in DOMAIN Tail(wire[k]) :
               i + 1 \in DOMAIN wire[k] /\ Tail(wire[k])[i] = wire[k][i + 1]
          /\ DOMAIN Tail(wire[k]) \subseteq Nat
      BY <1>0, <2>3, Leaves
    <3> QED BY <2>1, <2>3, <3>1 DEF WireInv
  <2>4. ASSUME NEW f \in Command \cup Node, wire'[k] = Append(wire[k], f),
               f \in Command => via[f] = None /\ via'[f] = k
        PROVE  /\ \A i \in DOMAIN wire'[k] : wire'[k][i] \in Command => via'[wire'[k][i]] = k
               /\ \A i, j \in DOMAIN wire'[k] :
                    wire'[k][i] = wire'[k][j] /\ wire'[k][i] \in Command => i = j
    <3>1. /\ \A i \in DOMAIN wire[k] : i \in DOMAIN wire'[k] /\ wire'[k][i] = wire[k][i]
          /\ \A i \in DOMAIN wire'[k] :
               i \in DOMAIN wire[k] \/ (wire'[k][i] = f /\ \A j \in DOMAIN wire[k] : j < i)
      BY <1>0, <2>4, Joins
    <3>2. \A i \in DOMAIN wire[k] : wire[k][i] # f \/ f \notin Command
      BY <2>0, <2>1, <2>4
    <3>3. /\ DOMAIN wire'[k] = 1..Len(wire[k]) + 1 /\ DOMAIN wire[k] = 1..Len(wire[k])
          /\ Len(wire[k]) \in Nat
      BY <1>0, <2>4
    <3> QED BY <2>1, <2>4, <3>1, <3>2, <3>3 DEF WireInv
  <2>5. ASSUME NEW n \in Node, wire'[k] = Append(wire[k], n)
        PROVE  n \notin Command
    BY CommandsAssumption
  <2>6. ASSUME NEW c \in Command, Dispatch(c), link[TargetOf(c)] = k
        PROVE  via[c] = None /\ via'[c] = k
    BY <1>a, <2>0, <2>6
  <2> QED BY <2>2, <2>3, <2>4, <2>5, <2>6, QueueMoves
<1>2. ASSUME NEW k \in Connection, phase'[k] = "new" PROVE wire'[k] = <<>>
  <2>1. phase[k] = "new" /\ wire[k] = <<>> BY <1>2, PhaseMoves DEF WireInv
  <2>2. ASSUME NEW n \in Node PROVE ~StopNode(n, k)
    BY <2>1 DEF StopNode, TodoInv
  <2>3. ASSUME NEW c \in Command, Dispatch(c) PROVE link[TargetOf(c)] # k
    BY <1>a, <2>1, <2>3, FabricAssumption DEF LinkInv
  <2> QED BY <2>1, <2>2, <2>3, QueueMoves
<1>3. ASSUME NEW c \in Command, c \in got' PROVE via'[c] # None
  <2>1. CASE c \in got BY <2>1, HandedStays DEF WireInv
  <2>2. CASE c \notin got
    <3>1. PICK k \in Connection, o \in Command : Transmit(k, o)
      BY <1>3, <2>2, OnlyTransmitGets
    <3>2. o = c /\ wire[k] # <<>> /\ Head(wire[k]) = c
      BY <1>3, <2>2, <3>1 DEF Transmit, AtHead
    <3>3. 1 \in DOMAIN wire[k] /\ wire[k][1] = c BY <1>0, <3>2, Leaves
    <3>4. via[c] = k /\ k # None BY <3>3, FabricAssumption DEF WireInv
    <3> QED BY <3>4, HandedStays
  <2> QED BY <2>1, <2>2
<1> QED BY <1>1, <1>2, <1>3 DEF WireInv

-----------------------------------------------------------------------------
(* A frame that waits has waited before, with the same frames behind it, or *)
(* has just joined.                                                         *)
LEMMA Waited ==
  ASSUME CommandsTypeOK, [Next]_fabricVars, NEW k \in Connection, NEW i \in DOMAIN wire'[k]
  PROVE  \/ \E m \in DOMAIN wire[k] :
              /\ wire[k][m] = wire'[k][i]
              /\ \A j \in DOMAIN wire[k] :
                   m < j => \E o \in DOMAIN wire'[k] : i < o /\ wire'[k][o] = wire[k][j]
         \/ wire'[k][i] \in Node
         \/ wire'[k][i] \in Command /\ Dispatch(wire'[k][i])
<1>0. wire[k] \in Seq(Command \cup Node)
  BY DEF CommandsTypeOK
<1>1. CASE wire'[k] = wire[k] BY <1>1
<1>2. CASE wire'[k] = <<>> BY <1>2
<1>3. CASE wire[k] # <<>> /\ wire'[k] = Tail(wire[k])
  <2>1. /\ DOMAIN wire[k] \subseteq Nat /\ i + 1 \in DOMAIN wire[k]
        /\ wire'[k][i] = wire[k][i + 1]
        /\ \A j \in DOMAIN wire[k] :
             j > 1 => j - 1 \in DOMAIN wire'[k] /\ wire'[k][j - 1] = wire[k][j]
    BY <1>0, <1>3, Leaves
  <2>2. i \in Nat /\ i > 0 BY <1>0, <1>3
  <2>3. ASSUME NEW j \in DOMAIN wire[k], i + 1 < j
        PROVE  j - 1 \in DOMAIN wire'[k] /\ i < j - 1 /\ wire'[k][j - 1] = wire[k][j]
    BY <2>1, <2>2, <2>3
  <2> QED BY <2>1, <2>3
<1>4. ASSUME NEW f \in Command \cup Node, wire'[k] = Append(wire[k], f)
      PROVE  \/ wire'[k][i] = f
             \/ i \in DOMAIN wire[k] /\ \A j \in DOMAIN wire[k] :
                  j \in DOMAIN wire'[k] /\ wire'[k][j] = wire[k][j]
  BY <1>0, <1>4, Joins
<1> QED BY <1>1, <1>2, <1>3, <1>4, QueueMoves

(* A frame that joins is behind every frame that waited. *)
LEMMA JoinsBehind ==
  ASSUME CommandsTypeOK, NEW k \in Connection, NEW f \in Command \cup Node,
         wire'[k] = Append(wire[k], f), NEW i \in DOMAIN wire'[k], wire'[k][i] # f
  PROVE  \E o \in DOMAIN wire'[k] : i < o /\ wire'[k][o] = f
<1>0. wire[k] \in Seq(Command \cup Node)
  BY DEF CommandsTypeOK
<1> QED BY <1>0, Joins

(* The holder of a lease is behind whatever else waits for it. *)
LEMMA HolderStep ==
  ASSUME CommandsTypeOK, ServedByOne, KeyNames, LinkInv, WireInv, HolderIsLast,
         [Next]_fabricVars
  PROVE  HolderIsLast'
<1>0. \A k \in Connection : wire[k] \in Seq(Command \cup Node)
  BY DEF CommandsTypeOK
<1> SUFFICES ASSUME NEW k \in Connection, phase'[k] = "open", NEW i \in DOMAIN wire'[k],
                    NEW c \in Command, c = wire'[k][i], c \notin got',
                    NEW h, h = control'[<<dest'[c], Action[c]>>], h \notin {None, c}
             PROVE  h \notin got' /\ \E j \in DOMAIN wire'[k] : i < j /\ wire'[k][j] = h
  BY DEF HolderIsLast, LeaseOf
<1>1. phase[k] = "open"
  <2>1. phase[k] = "new" /\ UNCHANGED taskVars => wire'[k] = <<>>
    BY DEF WireInv, taskVars
  <2>2. wire'[k] # <<>> OBVIOUS
  <2> QED BY <2>1, <2>2, PhaseMoves
<1>2. c \notin got
  <2>1. got \subseteq got' BY OnlyTransmitGets DEF Transmit
  <2> QED BY <2>1
\* The command waited before this step: otherwise it has the lease.
<1>3. ~Dispatch(c)
  <2>1. SUFFICES ASSUME Dispatch(c) PROVE FALSE
    OBVIOUS
  <2>2. TargetOf(c) # None /\ dest'[c] = TargetOf(c)
    BY <2>1, ArrivesClaims DEF Dispatch, Arrives
  <2>3. TargetOf(c) \in Node /\ Action[c] \in Capability
    <3>1. Sender[c] \in Session /\ Target[c] \in Role /\ Action[c] \in Capability
      BY FabricAssumption, CommandsAssumption
    <3>2. cast \in [Session -> [Role -> Node \cup {None}]] BY DEF CommandsTypeOK, FabricTypeOK
    <3>3. cast[Sender[c]] \in [Role -> Node \cup {None}] BY <3>1, <3>2
    <3>4. cast[Sender[c]][Target[c]] \in Node \cup {None} BY <3>1, <3>3
    <3>5. TargetOf(c) = cast[Sender[c]][Target[c]] BY DEF TargetOf
    <3>6. TargetOf(c) # None BY <2>2
    <3> QED BY <3>1, <3>4, <3>5, <3>6
  <2>4. control' = [control EXCEPT ![<<TargetOf(c), Action[c]>>] = c]
    BY <2>1 DEF Dispatch
  <2> QED BY <2>2, <2>3, <2>4 DEF CommandsTypeOK, FabricTypeOK, Lease
<1>4. PICK m \in DOMAIN wire[k] :
         /\ wire[k][m] = c
         /\ \A j \in DOMAIN wire[k] :
              m < j => \E o \in DOMAIN wire'[k] : i < o /\ wire'[k][o] = wire[k][j]
  BY <1>3, Waited, CommandsAssumption
<1>5. via[c] = k /\ dest'[c] = dest[c] /\ dest[c] \in Serves[k] /\ dest[c] \in Node
  <2>1. via[c] = k /\ k # None BY <1>4, FabricAssumption DEF WireInv
  <2> QED BY <2>1, HandedStays, FabricAssumption DEF LinkInv
<1>6. <<dest[c], Action[c]>> \in Lease
  BY <1>5, CommandsAssumption DEF Lease
<1>7. h = control[<<dest[c], Action[c]>>] \/ (Dispatch(h) /\ h \in Command)
  BY <1>5, <1>6, LeaseOrigin
<1>8. CASE h = control[<<dest[c], Action[c]>>]
  <2>1. h \notin got /\ \E j \in DOMAIN wire[k] : m < j /\ wire[k][j] = h
    BY <1>1, <1>2, <1>4, <1>8 DEF HolderIsLast, LeaseOf
  <2>2. PICK j \in DOMAIN wire[k] : m < j /\ wire[k][j] = h BY <2>1
  <2>3. h \notin got'
    <3>1. SUFFICES ASSUME h \in got' PROVE FALSE
      OBVIOUS
    <3>2. PICK o \in Connection : h \in Command /\ Transmit(o, h)
      BY <2>1, <3>1, OnlyTransmitGets DEF Transmit
    <3>3. wire[o] # <<>> /\ Head(wire[o]) = h BY <3>2 DEF Transmit, AtHead
    <3>4. 1 \in DOMAIN wire[o] /\ wire[o][1] = h BY <1>0, <3>3, Leaves
    <3>5. o = k BY <2>2, <3>2, <3>4 DEF WireInv
    <3>6. j = 1 BY <2>2, <3>2, <3>4, <3>5 DEF WireInv
    <3>7. m \in 1..Len(wire[k]) BY <1>0
    <3> QED BY <2>2, <3>6, <3>7
  <2> QED BY <1>4, <2>2, <2>3
<1>9. CASE Dispatch(h) /\ h \in Command /\ h # control[<<dest[c], Action[c]>>]
  <2>1. dest[c] = TargetOf(h)
    <3>1. control' = [control EXCEPT ![<<TargetOf(h), Action[h]>>] = h]
      BY <1>9 DEF Dispatch
    <3>2. <<dest[c], Action[c]>> = <<TargetOf(h), Action[h]>>
      BY <1>5, <1>6, <1>9, <3>1 DEF CommandsTypeOK, FabricTypeOK
    <3> QED BY <3>2
  <2>2. link[TargetOf(h)] = k /\ k # None
    BY <1>1, <1>5, <2>1, FabricAssumption DEF ServedByOne
  <2>3. wire'[k] = Append(wire[k], h) /\ got' = got
    <3>1. link[TargetOf(h)] # None BY <2>2
    <3>2. wire' = [wire EXCEPT ![link[TargetOf(h)]] = Append(@, h)] /\ got' = got
      BY <1>9, <3>1 DEF Dispatch
    <3>3. wire' = [wire EXCEPT ![k] = Append(@, h)] BY <2>2, <3>2
    <3> QED BY <3>2, <3>3 DEF CommandsTypeOK
  <2>4. h \notin got BY <1>9, ArrivesIsNew DEF Dispatch, WireInv
  <2>5. wire'[k][i] # h OBVIOUS
  <2>6. \E o \in DOMAIN wire'[k] : i < o /\ wire'[k][o] = h
    <3>1. \A f \in Command \cup Node :
             wire'[k] = Append(wire[k], f) /\ wire'[k][i] # f
               => \E o \in DOMAIN wire'[k] : i < o /\ wire'[k][o] = f
      BY JoinsBehind
    <3> QED BY <1>9, <2>3, <2>5, <3>1
  <2> QED BY <2>3, <2>4, <2>6
<1> QED BY <1>7, <1>8, <1>9

(* What stop_all has begun with was handed over. *)
LEMMA EarlyStep ==
  ASSUME CommandsTypeOK, KeyNames, EarlyInv, [Next]_fabricVars
  PROVE  EarlyInv'
<1>1. (halting' = halting /\ early' = early) \/ BeginStopAll \/ early' = {}
  <2>1. ASSUME NEW c \in Command, CommandStep(c) PROVE halting' = halting /\ early' = early
    BY <2>1 DEF CommandStep, Reject, LoseArbitration, Dispatch, Transmit, Dispatched,
       SendFails, Report, haltVars
  <2> QED BY <2>1 DEF Next, fabricVars, ControlLapses, EndStopAll, StopNode, StopSent, Restart,
             haltVars
<1>2. CASE halting' = halting /\ early' = early
  BY <1>2, HandedStays DEF EarlyInv
<1>3. CASE BeginStopAll
  BY <1>3 DEF BeginStopAll, EarlyInv, taskVars
<1>4. CASE early' = {}
  BY <1>4 DEF EarlyInv
<1> QED BY <1>1, <1>2, <1>3, <1>4

(* A stop frame is behind every command that waits for it. *)
LEMMA StopStep ==
  ASSUME CommandsTypeOK, ServedByOne, KeyNames, LinkInv, WireInv, EarlyInv, StopFollows,
         [Next]_fabricVars
  PROVE  StopFollows'
<1> SUFFICES ASSUME halting', NEW k \in Connection, phase'[k] = "open",
                    NEW i \in DOMAIN wire'[k], wire'[k][i] \in early'
             PROVE  \/ \E n \in Node : <<n, k>> \in todo'
                    \/ \E j \in DOMAIN wire'[k] : i < j /\ wire'[k][j] \in Node
  BY DEF StopFollows
<1>0. wire'[k][i] \in Command /\ wire'[k][i] \notin Node
  <2>1. early' \subseteq Command BY NextTypes DEF CommandsTypeOK
  <2> QED BY <2>1, CommandsAssumption
<1> DEFINE c == wire'[k][i]
<1>1. phase[k] = "open"
  <2>1. phase[k] = "new" /\ UNCHANGED taskVars => wire'[k] = <<>>
    BY DEF WireInv, taskVars
  <2>2. wire'[k] # <<>> OBVIOUS
  <2> QED BY <2>1, <2>2, PhaseMoves
<1>2. CASE BeginStopAll
  <2>1. via[c] # None /\ wire' = wire /\ c = wire[k][i] /\ i \in DOMAIN wire[k]
    BY <1>0, <1>2 DEF BeginStopAll, taskVars
  <2>2. via[c] = k BY <1>0, <2>1 DEF WireInv
  <2>3. dest[c] \in Serves[k] /\ dest[c] \in Node
    BY <1>0, <2>1, <2>2, FabricAssumption DEF LinkInv
  <2>4. link[dest[c]] = k BY <1>1, <2>3 DEF ServedByOne
  <2>5. todo' = {p \in Node \X Connection : link[p[1]] = p[2]} BY <1>2 DEF BeginStopAll
  <2>6. <<dest[c], k>> \in todo' BY <2>3, <2>4, <2>5
  <2> QED BY <2>3, <2>6
<1>3. CASE ~BeginStopAll
  <2>1. halting /\ early' = early
    <3>1. ASSUME NEW o \in Command, CommandStep(o) PROVE halting' = halting /\ early' = early
      BY <3>1 DEF CommandStep, Reject, LoseArbitration, Dispatch, Transmit, Dispatched,
         SendFails, Report, haltVars
    <3> QED BY <1>3, <3>1 DEF Next, fabricVars, ControlLapses, EndStopAll, StopNode, StopSent,
               Restart, haltVars
  <2>2. ~Dispatch(c)
    BY <1>0, <2>1, ArrivesIsNew DEF EarlyInv, Dispatch
  <2>3. PICK m \in DOMAIN wire[k] :
           /\ wire[k][m] = c
           /\ \A j \in DOMAIN wire[k] :
                m < j => \E o \in DOMAIN wire'[k] : i < o /\ wire'[k][o] = wire[k][j]
    BY <1>0, <2>2, Waited
  <2>4. CASE \E j \in DOMAIN wire[k] : m < j /\ wire[k][j] \in Node
    BY <2>3, <2>4
  <2>5. ASSUME NEW n \in Node, <<n, k>> \in todo, <<n, k>> \notin todo'
        PROVE  wire'[k] = Append(wire[k], n)
    <3>1. StopNode(n, k)
      <4>1. ASSUME NEW o \in Command, CommandStep(o) PROVE todo' = todo
        BY <4>1 DEF CommandStep, Reject, LoseArbitration, Dispatch, Transmit, Dispatched,
           SendFails, Report, haltVars
      <4>2. ASSUME NEW o \in Node, NEW p \in Connection, StopNode(o, p)
            PROVE  o = n /\ p = k
        BY <2>5, <4>2 DEF StopNode
      <4>3. ~EndStopAll /\ ~Restart BY DEF EndStopAll, Restart
      <4> QED BY <1>3, <2>5, <4>1, <4>2, <4>3 DEF Next, fabricVars, ControlLapses, StopSent,
                 haltVars
    <3> QED BY <3>1 DEF StopNode, CommandsTypeOK
  <2>6. CASE \E n \in Node : <<n, k>> \in todo
    BY <1>0, <2>5, <2>6, JoinsBehind
  <2> QED BY <1>1, <2>1, <2>3, <2>4, <2>6 DEF StopFollows
<1> QED BY <1>2, <1>3

-----------------------------------------------------------------------------
(* Types again, ServedByOne and KeyNames, and the order of frames. *)
LEMMA OrderStep == FabricInv /\ OrderInv /\ [Next]_fabricVars => OrderInv'
BY LinkStep, TodoStep, WireStep, HolderStep, EarlyStep, StopStep DEF FabricInv, OrderInv

LEMMA OrderInit == Init => OrderInv
BY FabricAssumption, CommandsAssumption
   DEF Init, FabricInit, OrderInv, WireInv, LinkInv, HolderIsLast, EarlyInv, TodoInv, StopFollows

(* The frames of a connection keep the order of their leases. *)
THEOREM OrderInvariant == Spec => []OrderInv
<1>1. FabricInv /\ OrderInv /\ [Next]_fabricVars => OrderInv'
  BY OrderStep
<1> QED BY OrderInit, FabricInvariant, <1>1, PTL DEF Spec

(* When the frame of a command is written, the holder of its lease has not  *)
(* been heard (_send).                                                      *)
LEMMA HolderIsHeardLast ==
  ASSUME CommandsTypeOK, OrderInv, NEW k \in Connection, NEW c \in Command, Transmit(k, c)
  PROVE  via[c] # None /\ control[<<dest[c], Action[c]>>] \notin got
<1>1. wire[k] # <<>> /\ Head(wire[k]) = c /\ phase[k] = "open" /\ c \notin got
  BY DEF Transmit, AtHead
<1>2. 1 \in DOMAIN wire[k] /\ wire[k][1] = c
  <2>1. wire[k] \in Seq(Command \cup Node) BY DEF CommandsTypeOK
  <2> QED BY <1>1, <2>1, Leaves
<1>3. None \notin got BY FabricAssumption DEF CommandsTypeOK
<1>4. via[c] # None BY <1>2, FabricAssumption, CommandsAssumption DEF OrderInv, WireInv
<1> QED BY <1>1, <1>2, <1>3, <1>4 DEF OrderInv, HolderIsLast, LeaseOf

(* A command reaches its adapter before the command that holds its lease:   *)
(* what was pre-empted while it waited for the lock, or on a connection     *)
(* that has been replaced, does not come after the holder (_send, run).     *)
THEOREM HolderHasLastWordHolds == Spec => HolderHasLastWord
<1> DEFINE LastWord == \A c \in Command : c \in got' \ got =>
                          control[<<dest[c], Action[c]>>] \notin got
<1>1. FabricInv /\ OrderInv /\ [Next]_fabricVars => [LastWord]_fabricVars
  BY HolderIsHeardLast, OnlyTransmitGets DEF FabricInv, Transmit
<1> QED BY <1>1, FabricInvariant, OrderInvariant, PTL DEF Spec, HolderHasLastWord

(* When stop_all returns, no command that was handed over before it began   *)
(* still waits on an open connection (stop_nodes).                          *)
THEOREM StopAllIsLastHolds == Spec => StopAllIsLast
<1> DEFINE Last == halting /\ ~halting' =>
                     \A k \in Connection : phase'[k] = "open" =>
                       \A i \in DOMAIN wire'[k] : wire'[k][i] \notin early
<1>1. ASSUME FabricInv, OrderInv, [Next]_fabricVars PROVE Last
  <2> SUFFICES ASSUME halting, ~halting', NEW k \in Connection, phase'[k] = "open",
                      NEW i \in DOMAIN wire'[k]
               PROVE  wire'[k][i] \notin early
    OBVIOUS
  <2>1. EndStopAll \/ Restart
    <3>1. ASSUME NEW c \in Command, CommandStep(c) PROVE halting' = halting
      BY <3>1 DEF CommandStep, Reject, LoseArbitration, Dispatch, Transmit, Dispatched,
         SendFails, Report, haltVars
    <3> QED BY <1>1, <3>1 DEF Next, fabricVars, ControlLapses, BeginStopAll, StopNode, StopSent,
               haltVars
  <2>2. CASE EndStopAll
    <3>1. /\ wire' = wire /\ phase' = phase /\ todo = {}
          /\ \A j \in DOMAIN wire[k] : wire[k][j] \notin Node
      BY <2>2 DEF EndStopAll, Stopping, taskVars, sessionVars, linkVars
    <3> QED BY <1>1, <3>1 DEF OrderInv, StopFollows
  <2>3. CASE Restart
    BY <2>3 DEF Restart
  <2> QED BY <2>1, <2>2, <2>3
<1>2. FabricInv /\ OrderInv /\ [Next]_fabricVars => [Last]_fabricVars
  BY <1>1
<1> QED BY <1>2, FabricInvariant, OrderInvariant, PTL DEF Spec, StopAllIsLast
-----------------------------------------------------------------------------
(* The refinement of ControlArbiter.  A command with control is the one of  *)
(* its key, and a command that was handed over has been granted control.    *)
ArbiterInv ==
  /\ \A c \in Command : Authorized(c) => claims[KeyOf[c]] = c
  /\ \A c \in Command : via[c] # None => Authorized(c)

(* Storing stages grants control when AUTHORIZED is among them, and takes it *)
(* from nobody (append_fabric_lifecycle).                                   *)
LEMMA LoggedGrants ==
  ASSUME trace \in [Command -> Seq(Stage)], NEW c \in Command, NEW stages \in Seq(Stage),
         Logged(c, stages)
  PROVE  /\ \A o \in Command : o # c => (Authorized(o)' <=> Authorized(o))
         /\ Authorized(c)' <=> \/ Authorized(c)
                               \/ \E i \in DOMAIN stages : stages[i] = "AUTHORIZED"
<1>1. trace' = [trace EXCEPT ![c] = trace[c] \o stages] BY DEF Logged
<1>2. \A o \in Command : o # c => trace'[o] = trace[o] BY <1>1
<1>3. PICK t \in Seq(Stage) : t = trace[c] OBVIOUS
<1>4. trace'[c] = t \o stages BY <1>1, <1>3
<1>5. /\ DOMAIN (t \o stages) = 1 .. Len(t) + Len(stages)
      /\ \A i \in DOMAIN t : i \in DOMAIN (t \o stages) /\ (t \o stages)[i] = t[i]
      /\ \A i \in DOMAIN stages : /\ Len(t) + i \in DOMAIN (t \o stages)
                                  /\ (t \o stages)[Len(t) + i] = stages[i]
      /\ \A i \in DOMAIN (t \o stages) :
           \/ i \in DOMAIN t
           \/ i - Len(t) \in DOMAIN stages /\ (t \o stages)[i] = stages[i - Len(t)]
  OBVIOUS
<1>6. (\E i \in DOMAIN (t \o stages) : (t \o stages)[i] = "AUTHORIZED")
        <=> \/ \E i \in DOMAIN t : t[i] = "AUTHORIZED"
            \/ \E i \in DOMAIN stages : stages[i] = "AUTHORIZED"
  BY <1>5
<1> QED BY <1>2, <1>3, <1>4, <1>6 DEF Authorized

(* submit_command stores AUTHORIZED for the command that took the lease.     *)
LEMMA DispatchGrants ==
  ASSUME CommandsTypeOK, NEW c \in Command, Dispatch(c)
  PROVE  /\ Authorized(c)'
         /\ \A o \in Command : o # c => (Authorized(o)' <=> Authorized(o))
<1>1. trace \in [Command -> Seq(Stage)] BY DEF CommandsTypeOK
<1>2. PICK stages \in {<<"PROPOSED", "VALIDATED", "AUTHORIZED", "FAILED">>,
                       <<"PROPOSED", "VALIDATED", "AUTHORIZED">>} : Logged(c, stages)
  BY DEF Dispatch
<1>3. stages \in Seq(Stage) /\ 3 \in DOMAIN stages /\ stages[3] = "AUTHORIZED"
  <2>1. CASE stages = <<"PROPOSED", "VALIDATED", "AUTHORIZED", "FAILED">>
    BY <2>1, StagesAreTyped
  <2>2. CASE stages = <<"PROPOSED", "VALIDATED", "AUTHORIZED">>
    BY <2>2, StagesAreTyped
  <2> QED BY <1>2, <2>1, <2>2
<1> QED BY <1>1, <1>2, <1>3, LoggedGrants

(* Control is granted by Dispatch, to the command it is about, and kept for *)
(* ever by whoever was granted it.                                          *)
LEMMA GrantedMoves ==
  ASSUME CommandsTypeOK, [Next]_fabricVars
  PROVE  \/ \A o \in Command : Authorized(o)' <=> Authorized(o)
         \/ \E c \in Command : /\ Dispatch(c) /\ Authorized(c)'
                               /\ \A o \in Command : o # c => (Authorized(o)' <=> Authorized(o))
<1> DEFINE Same == \A o \in Command : Authorized(o)' <=> Authorized(o)
<1>0. trace \in [Command -> Seq(Stage)] BY DEF CommandsTypeOK
<1>1. ASSUME trace' = trace PROVE Same BY <1>1 DEF Authorized
<1>2. ASSUME NEW c \in Command, NEW stages \in Seq(Stage), Logged(c, stages),
             \A i \in DOMAIN stages : stages[i] # "AUTHORIZED"
      PROVE Same
  BY <1>0, <1>2, LoggedGrants
<1>4. ASSUME NEW c \in Command, Reject(c) \/ LoseArbitration(c) PROVE Same
  <2>1. PICK stages \in {<<"PROPOSED", "REJECTED">>, <<"PROPOSED", "VALIDATED", "REJECTED">>} :
          Logged(c, stages)
    BY <1>4 DEF Reject, LoseArbitration
  <2>2. stages \in Seq(Stage) /\ \A i \in DOMAIN stages : stages[i] # "AUTHORIZED"
    <3>1. CASE stages = <<"PROPOSED", "REJECTED">>
      BY <3>1, StagesAreTyped
    <3>2. CASE stages = <<"PROPOSED", "VALIDATED", "REJECTED">>
      BY <3>2, StagesAreTyped
    <3> QED BY <2>1, <3>1, <3>2
  <2> QED BY <1>2, <2>1, <2>2
<1>5. ASSUME NEW c \in Command, NEW k \in Connection, Dispatched(k, c) \/ SendFails(k, c)
      PROVE Same
  <2>1. PICK st \in {"DISPATCHED", "FAILED"} : Logged(c, <<st>>)
    BY <1>5 DEF Dispatched, SendFails
  <2>2. <<st>> \in Seq(Stage) /\ \A i \in DOMAIN <<st>> : <<st>>[i] # "AUTHORIZED"
    BY StagesAreTyped
  <2> QED BY <1>2, <2>1, <2>2
<1>6. ASSUME NEW c \in Command, NEW k \in Connection, NEW st \in Reports, Report(k, c, st)
      PROVE Same
  <2>1. st \in Stage /\ st # "AUTHORIZED"
    BY StagesAreTyped, CommandsAssumption DEF Follows, Over, Stage
  <2>2. <<st>> \in Seq(Stage) /\ \A i \in DOMAIN <<st>> : <<st>>[i] # "AUTHORIZED"
    BY <2>1
  <2>3. CASE Logged(c, <<st>>) BY <1>2, <2>2, <2>3
  <2>4. CASE trace' = trace BY <1>1, <2>4
  <2> QED BY <1>6, <2>3, <2>4 DEF Report
<1>7. ASSUME NEW c \in Command, NEW k \in Connection, Transmit(k, c) PROVE Same
  BY <1>1, <1>7 DEF Transmit
<1>8. ASSUME NEW c \in Command, CommandStep(c) PROVE Same \/ Dispatch(c)
  BY <1>4, <1>5, <1>6, <1>7, <1>8 DEF CommandStep
<1>9. (\E c \in Command : CommandStep(c)) \/ trace' = trace
  BY DEF Next, fabricVars, ControlLapses, BeginStopAll, EndStopAll, StopNode, StopSent,
     Restart, taskVars
<1> QED BY <1>1, <1>8, <1>9, DispatchGrants

(* A request that arrives has not been granted anything, and nor has any    *)
(* command of its key.                                                      *)
LEMMA ArrivesIsUntried ==
  ASSUME CommandsTypeOK, ArbiterInv, NEW c \in Command, Arrives(c)
  PROVE  ~Authorized(c) /\ \A d \in Command : Authorized(d) => KeyOf[d] # KeyOf[c]
<1>1. trace[c] = <<>> /\ claims[KeyOf[c]] = None BY DEF Arrives, Unclaimed
<1> QED BY <1>1, FabricAssumption DEF ArbiterInv, Authorized

LEMMA ArbiterInvStep ==
  ASSUME CommandsTypeOK, KeyNames, ArbiterInv, [Next]_fabricVars
  PROVE  ArbiterInv'
<1>1. ASSUME NEW c \in Command, Authorized(c)' PROVE claims'[KeyOf[c]] = c
  <2>1. CASE Authorized(c)
    <3>1. claims[KeyOf[c]] = c /\ c # None BY <2>1, FabricAssumption DEF ArbiterInv
    <3>2. KeyOf[c] \in Key BY CommandsAssumption
    <3> QED BY <3>1, <3>2, ClaimsAreKept
  <2>2. CASE ~Authorized(c)
    <3>1. Dispatch(c) BY <1>1, <2>2, GrantedMoves
    <3> QED BY <3>1, ArrivesClaims DEF Dispatch
  <2> QED BY <2>1, <2>2
<1>2. ASSUME NEW c \in Command, via'[c] # None PROVE Authorized(c)'
  <2>1. CASE via[c] # None
    <3>1. Authorized(c) BY <2>1 DEF ArbiterInv
    <3> QED BY <3>1, GrantedMoves
  <2>2. CASE via[c] = None
    <3>1. PICK d \in Command : Dispatch(d) BY <1>2, <2>2, OnlyDispatchHands
    <3>2. d = c BY <1>2, <2>2, <3>1, DispatchHands
    <3> QED BY <3>1, <3>2, DispatchGrants
  <2> QED BY <2>1, <2>2
<1> QED BY <1>1, <1>2 DEF ArbiterInv

(* What the arbiter sees of a step that neither grants control nor is heard *)
(* by an adapter: leases are given up, and no more.                         *)
LEMMA OtherStepsRelease ==
  ASSUME CommandsTypeOK, KeyNames, ArbiterInv, [Next]_fabricVars,
         got' = got, \A c \in Command : ~Dispatch(c)
  PROVE  \E ls \in SUBSET Lease : Arbiter!Release(ls)
<1>1. Granted' = Granted
  <2>1. \A c \in Command : Authorized(c)' <=> Authorized(c) BY GrantedMoves
  <2>2. ASSUME NEW c \in Command, Authorized(c) PROVE dest'[c] = dest[c]
    <3>1. CASE dest' = dest BY <3>1
    <3>2. ASSUME NEW o \in Command, Arrives(o) PROVE dest'[c] = dest[c]
      <4>1. o # c BY <2>2, <3>2, ArrivesIsUntried
      <4> QED BY <3>2, <4>1, ArrivesClaims
    <3> QED BY <3>1, <3>2, LeaseSteps
  <2> QED BY <2>1, <2>2 DEF Granted
<1>2. \A l \in Lease : control'[l] # None => control'[l] = control[l]
  BY LeaseOrigin
<1>3. control' \in [Lease -> Command \cup {None}]
  BY NextTypes DEF CommandsTypeOK, FabricTypeOK
<1>4. Arbiter!Release({l \in Lease : control'[l] = None})
  BY <1>1, <1>2, <1>3 DEF Arbiter!Release
<1> QED BY <1>4

(* Taking the lease in submit_command is a grant: nobody of its key had     *)
(* control of anything, and the holder is renewed or outranked.             *)
LEMMA DispatchIsGrant ==
  ASSUME CommandsTypeOK, ArbiterInv, NEW c \in Command, Dispatch(c)
  PROVE  \E l \in Lease : Arbiter!Grant(c, l)
<1>1. Arrives(c) /\ Wins(c) /\ got' = got BY DEF Dispatch
<1>2. PICK l : l = <<TargetOf(c), Action[c]>> OBVIOUS
<1>3. l \in Lease
  <2>1. TargetOf(c) \in Node
    <3>1. TargetOf(c) # None BY <1>1 DEF Arrives
    <3> QED BY <3>1, CommandsAssumption, FabricAssumption
            DEF TargetOf, CommandsTypeOK, FabricTypeOK
  <2> QED BY <1>2, <2>1, CommandsAssumption DEF Lease
<1>4. ~Authorized(c) /\ \A d \in Command : Authorized(d) => KeyOf[d] # KeyOf[c]
  BY <1>1, ArrivesIsUntried
<1>5. Arbiter!Untried(c)
  BY <1>4 DEF Arbiter!Untried, Granted
<1>6. Arbiter!Outranks(c, l)
  BY <1>1, <1>2 DEF Arbiter!Outranks, Wins
<1>7. control' = [control EXCEPT ![l] = c]
  BY <1>2 DEF Dispatch
<1>8. /\ Authorized(c)' /\ dest'[c] = TargetOf(c)
      /\ \A o \in Command : o # c => (Authorized(o)' <=> Authorized(o)) /\ dest'[o] = dest[o]
  BY <1>1, DispatchGrants, ArrivesClaims
<1>9. Granted' = [Granted EXCEPT ![c] = l]
  BY <1>2, <1>8 DEF Granted
<1> QED BY <1>1, <1>3, <1>5, <1>6, <1>7, <1>9 DEF Arbiter!Grant

(* Writing the frame of a command is its hearing.                           *)
LEMMA TransmitIsHearing ==
  ASSUME CommandsTypeOK, OrderInv, ArbiterInv, NEW k \in Connection, NEW c \in Command,
         Transmit(k, c)
  PROVE  Arbiter!Hear(c)
<1>1. /\ c \notin got /\ got' = got \cup {c}
      /\ control' = control /\ trace' = trace /\ dest' = dest
  BY DEF Transmit, sessionVars, castVars
<1>2. via[c] # None /\ control[<<dest[c], Action[c]>>] \notin got
  BY HolderIsHeardLast
<1>3. Authorized(c) BY <1>2 DEF ArbiterInv
<1>4. <<dest[c], Action[c]>> # None
  <2>1. dest[c] \in Node
    <3>1. via[c] \in Connection /\ dest[c] \in Serves[via[c]]
      BY <1>2 DEF OrderInv, LinkInv, CommandsTypeOK
    <3> QED BY <3>1, FabricAssumption
  <2> QED BY <2>1, CommandsAssumption DEF Lease
<1>5. Granted[c] = <<dest[c], Action[c]>> BY <1>3 DEF Granted
<1>6. Granted' = Granted BY <1>1 DEF Granted, Authorized
<1> QED BY <1>1, <1>2, <1>4, <1>5, <1>6 DEF Arbiter!Hear

LEMMA ArbiterStep ==
  FabricInv /\ OrderInv /\ ArbiterInv /\ [Next]_fabricVars
    => [Arbiter!ArbiterNext]_(Arbiter!arbiterVars)
<1> SUFFICES ASSUME FabricInv, OrderInv, ArbiterInv, [Next]_fabricVars
             PROVE  Arbiter!ArbiterNext
  OBVIOUS
<1>0. CommandsTypeOK /\ KeyNames BY DEF FabricInv
<1>1. ASSUME NEW c \in Command, Dispatch(c) PROVE Arbiter!ArbiterNext
  BY <1>0, <1>1, DispatchIsGrant DEF Arbiter!ArbiterNext
<1>2. ASSUME NEW k \in Connection, NEW c \in Command, Transmit(k, c) PROVE Arbiter!ArbiterNext
  BY <1>0, <1>2, TransmitIsHearing DEF Arbiter!ArbiterNext
<1>3. ASSUME got' = got, \A c \in Command : ~Dispatch(c) PROVE Arbiter!ArbiterNext
  BY <1>0, <1>3, OtherStepsRelease DEF Arbiter!ArbiterNext
<1> QED BY <1>0, <1>1, <1>2, <1>3, OnlyTransmitGets

LEMMA ArbiterStart == Init => ArbiterInv /\ Arbiter!ArbiterInit
<1> SUFFICES ASSUME Init PROVE ArbiterInv /\ Arbiter!ArbiterInit
  OBVIOUS
<1>1. \A c \in Command : trace[c] = <<>> /\ via[c] = None
  BY DEF Init
<1>2. \A c \in Command : ~Authorized(c) BY <1>1 DEF Authorized
<1>3. control = [l \in Lease |-> None] /\ got = {} BY DEF Init, FabricInit
<1> QED BY <1>1, <1>2, <1>3 DEF ArbiterInv, Arbiter!ArbiterInit, Granted

(* The fabric implements the arbiter, for all sessions, nodes, overlapping  *)
(* connections, ranks and keys: a key is granted control once, control is   *)
(* renewed, outranked or given up, and its holder is heard last             *)
(* (claim_fabric_command, acquire_fabric_control_lease, dispatch, _send).   *)
THEOREM FabricRefinesArbiter == Spec => FabricImplementsArbiter
<1>1. FabricInv /\ ArbiterInv /\ [Next]_fabricVars => ArbiterInv'
  BY ArbiterInvStep DEF FabricInv
<1>2. Spec => []ArbiterInv
  BY <1>1, ArbiterStart, FabricInvariant, PTL DEF Spec
<1> QED
  BY <1>2, ArbiterStart, ArbiterStep, FabricInvariant, OrderInvariant, PTL
     DEF Spec, FabricImplementsArbiter, Arbiter!ArbiterSpec
=============================================================================
