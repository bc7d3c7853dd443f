------------------------------ MODULE MCFabric ------------------------------
(* A robot whose adapter may reconnect; a physical lesson that drives it    *)
(* and a rival session with a command of higher priority.  The commands go  *)
(* and again carry the same idempotency key; park leads to the safe state.  *)
EXTENDS FabricCommands, TLC

CONSTANTS robot, lesson, rival, driver, watch, go, again, take, park, y1, y2, y3

MCServes == [k \in Connection |-> {robot}]
MCCapable == [r \in Role |-> {robot}]
MCSender == [c \in Command |-> IF c = take THEN rival ELSE lesson]
MCTarget == [c \in Command |-> driver]
MCAction == [c \in Command |-> "drive"]
MCCapability == {"drive"}
MCRank == [c \in Command |-> IF c = take THEN 5 ELSE 3]
MCKeyOf == [c \in Command |-> IF c \in {go, again} THEN y1 ELSE IF c = take THEN y2 ELSE y3]
MCReported == {"connected", "unavailable"}
=============================================================================
