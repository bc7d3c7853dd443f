SPECIFICATION GroundSpec
CONSTANTS
    Kinds = {"robomaster"}
    MaxFaults = 0
INVARIANTS EmergencyStopHolds
CHECK_DEADLOCK FALSE
