SPECIFICATION MCSpec
CONSTANTS
    ph1 = ph1
    ph2 = ph2
    dt = dt
    Phones = {ph1, ph2, dt}
    Desktops = {dt}
    NoPhone = NoPhone
    PhoneLimit = 2
    RemoteOrigin = TRUE
    Deliveries = {d1}
    NoDelivery = NoDelivery
    NoEvent = NoEvent
    PhoneEvents <- MCEvents
    MaxSaveFailures = 1
    plugs = plugs
    tello = tello
    plug1 = plug1
    plug2 = plug2
    drone1 = drone1
    Profiles = {plugs, tello}
    Endpoints = {plug1, plug2, drone1}
    ProfileOf <- MCProfileOf
    Unattended = {plugs}
    Aircraft = {tello}
    MaxStreak = 2
    Cameras = {telloCamera, robotCamera}
    Robots = {robotCamera}
    Publishers = {i1}
    MediaLimit = 2
    MaxFrames = 2
    MaxDebt = 1
    MaxMediaFaults = 1
    Intents <- MCIntents
    Renamed = {}
    FlowRoles = {lamp}
    MaxBoxFrames = 2
    MaxDeliveryFaults = 1
    Operators = {o1, o2}
    MaxSequence = 3
    MaxGatewayFaults = 1
INVARIANTS PhonesAreKept DeliveryIsSafe
PROPERTIES PhoneEventsAreHandled RecoveryIsSound WallIsTrue IntentsAreDelivered GatewaysAreTrue
CHECK_DEADLOCK FALSE
