--------------------------- MODULE ControlArbiter ---------------------------
(***************************************************************************)
(* What the fabric promises about the control of a node's capability,       *)
(* without its sessions, connections, queues, stages or crashes: an         *)
(* idempotency key is granted control once, for one lease; a lease passes   *)
(* from command to command only by renewal, by higher rank or after it was  *)
(* given up; and no command is heard after the one that holds its lease.    *)
(***************************************************************************)
EXTENDS Integers

CONSTANTS
  Command,     \* command requests
  Lease,       \* what can be controlled: a capability of a node
  Sender,      \* the session of each command
  Rank,        \* the rank of its priority
  KeyOf,       \* its idempotency key
  None

VARIABLES
  granted,     \* the lease each command has been granted, if it has
  control,     \* the command that holds a lease
  heard        \* the commands that reached their adapter

arbiterVars == <<granted, control, heard>>

ArbiterInit ==
  /\ granted = [c \in Command |-> None]
  /\ control = [l \in Lease |-> None]
  /\ heard = {}

(* No command of this key was granted anything. *)
Untried(c) == \A d \in Command : granted[d] # None => KeyOf[d] # KeyOf[c]

Outranks(c, l) ==
  control[l] # None => Sender[control[l]] = Sender[c] \/ Rank[c] > Rank[control[l]]

Grant(c, l) ==
  /\ Outranks(c, l)
  /\ control' = [control EXCEPT ![l] = c]
  /\ Untried(c)
  /\ granted' = [granted EXCEPT ![c] = l]
  /\ UNCHANGED heard

(* Leases expire, are disarmed or lose their node. *)
Release(ls) ==
  /\ control' = [l \in Lease |-> IF l \in ls THEN None ELSE control[l]]
  /\ UNCHANGED <<granted, heard>>

Hear(c) ==
  /\ c \notin heard
  /\ heard' = heard \cup {c}
  /\ granted[c] # None /\ control[granted[c]] \notin heard
  /\ UNCHANGED <<granted, control>>

ArbiterNext ==
  \/ \E c \in Command : Hear(c) \/ \E l \in Lease : Grant(c, l)
  \/ \E ls \in SUBSET Lease : Release(ls)

ArbiterSpec == ArbiterInit /\ [][ArbiterNext]_arbiterVars
=============================================================================
