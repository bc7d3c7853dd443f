------------------------- MODULE MCCommandPipeline -------------------------
(***************************************************************************)
(* Small classrooms for CommandPipeline: one or two robots, two sessions,   *)
(* an instructor's desk beside the watchdog loop.  The runs differ in the   *)
(* commands that are sent and in the operations the classroom uses.         *)
(***************************************************************************)
EXTENDS CommandPipeline, TLC

CONSTANTS d1, d2, s1, s2, desk, ticker, go, retry, halt, k1, k2

MCDevice == {d1, d2}
OneDevice == {d1}
MCSession == {s1, s2}
OnlyS1 == {s1}
Nobody == {}
MCOperator == {desk, ticker}
MCSource == {"student", "instructor", "agent_mesh"}
Students == {"student"}
MCKey == {k1, k2}
MCDenials == {"DEVICE_NOT_ASSIGNED", "SAFETY_POLICY_DENIED", "DEVICE_OFFLINE",
              "COMMAND_EXPIRED", "COMMAND_DUPLICATE", "DEVICE_NOT_ARMED",
              "DEVICE_LEASE_CONFLICT", "DEVICE_CAPABILITY_UNSUPPORTED"}
MCPriority == [c \in Command |-> ClassifyPriority(Kind[c], From[c])]
HeldByS1 == (s1 :> {d1, d2}) @@ (s2 :> {})
OneHeldByS1 == (s1 :> {d1}) @@ (s2 :> {})
OneHeldByOnlyS1 == s1 :> {d1}
BothHeldByOnlyS1 == s1 :> {d1, d2}
FromStudents == [c \in Command |-> "student"]

(* Motion: two moves on one physical robot with a dead-man control, while it *)
(* is armed, disarmed, stopped, revoked, unplugged, rediscovered, watched.  *)
MotionCommand == {go, retry}
MotionTarget == [c \in MotionCommand |-> d1]
MotionSender == [c \in MotionCommand |-> s1]
MotionKind == [c \in MotionCommand |-> "move"]
MotionKeys == (go :> k1) @@ (retry :> k2)
MotionUses == {"arm", "disarm", "stop", "revoke", "heartbeat", "beat_timeout",
               "watchdog", "arm_ttl", "disconnect", "connect", "transition"}

(* A session whose device was lost can be brought back.                     *)
BackToReady == {"waiting_for_devices", "ready"}

(* Ownership: one session is created, both are bound, run and ended, and    *)
(* both command one robot in simulation.                                    *)
OwnershipCommand == {go, retry}
OwnershipTarget == [c \in OwnershipCommand |-> d1]
OwnershipSender == (go :> s1) @@ (retry :> s2)
OwnershipKind == [c \in OwnershipCommand |-> "move"]
OwnershipKeys == (go :> k1) @@ (retry :> k2)
OwnershipFrom == (go :> "student") @@ (retry :> "instructor")
OwnershipSource == {"student", "instructor"}
OwnershipUses == {"bind", "transition", "input", "lease_ttl", "command_ttl"}
WholeLesson == {"validating", "ready", "running", "stopping", "completed"}

(* Group: a physical session drives two robots; a refusal of one stops the  *)
(* other, and the desk stops, clears and rediscovers.  The queue holds one. *)
GroupCommand == {go, retry, halt}
GroupTarget == (go :> d1) @@ (retry :> d2) @@ (halt :> d2)
GroupSender == [c \in GroupCommand |-> s1]
GroupKind == (go :> "other") @@ (retry :> "other") @@ (halt :> "stop")
GroupKeys == (go :> k1) @@ (retry :> k2) @@ (halt :> k1)
GroupUses == {"policy", "stopall", "clear", "cancel", "connect"}

(* Identity: two robots whose controls fall silent and are heard again, and *)
(* one idempotency key used for a command to each of them.                  *)
IdentityCommand == {go, retry}
IdentityTarget == (go :> d1) @@ (retry :> d2)
IdentitySender == [c \in IdentityCommand |-> s1]
IdentityKind == [c \in IdentityCommand |-> "other"]
IdentityKeys == [c \in IdentityCommand |-> k1]
IdentityUses == {"heartbeat", "beat_timeout", "watchdog"}

(* The runs that contradict a sentence of the documentation use just the    *)
(* operations the contradiction needs.                                      *)
BlockedCommand == {go, halt}
BlockedTarget == [c \in BlockedCommand |-> d1]
BlockedSender == (go :> s1) @@ (halt :> s2)
BlockedKind == (go :> "move") @@ (halt :> "stop")
BlockedKeys == (go :> k1) @@ (halt :> k2)
StopAllUses == {"arm", "stopall"}
RevokeUses == {"arm", "revoke"}
RediscoverUses == {"bind", "connect"}
NothingHeld == [s \in MCSession |-> {}]
=============================================================================
