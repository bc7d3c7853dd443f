SPECIFICATION MCSpec
CONSTANTS
    A = A
    B = B
    Ports = {A, B}
    Hosts = {"runtime", "bridge"}
    FrameIds = {1, 2}
    MaxInFlight = 2
    Kinds = {"dash", "sphero", "robomaster"}
    MaxFaults = 3
    da = da
    db = db
    Drones = {da, db}
    Manual = {da}
    Orders <- MCOrders
    MaxArms = 1
    MaxAirFaults = 1
    TriggerArms = {"a1", "a2"}
    TriggerStops = {"s1"}
    MaxDemoFaults = 2
    MaxBlinks = 3
    MaxFrames = 3
    MaxPlugFrames = 2
    MaxPlugFaults = 2
    MaxPlugMisses = 3
    MaxVerifies = 2
PROPERTIES BrainDevicesAreSafe LegoLinkIsSound RobotsAreStopped PlugBridgeIsSound
CHECK_DEADLOCK FALSE
