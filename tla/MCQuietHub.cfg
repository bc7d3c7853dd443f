SPECIFICATION LegoSpec
CONSTANTS
    Ports = {"A", "B"}
    Hosts = {"runtime"}
    FrameIds = {1, 2}
    MaxInFlight = 2
INVARIANTS QuietHubStops
CHECK_DEADLOCK FALSE
