SPECIFICATION MCSpec
CONSTANTS
    d1 = d1
    d2 = d2
    move1 = move1
    move2 = move2
    stop1 = stop1
    other = other
    None = None
    Device = {d1, d2}
    Command = {move1, move2, stop1, other}
    Target <- MCTarget
    Priority <- MCPriority
    Denials <- MCDenials
    MaxDepth = 2
    Plugs = {plugA, plugB}
    Actors = {ph1}
    NoRun = NoRun
    MaxPlugSessions = 2
    MaxPlugOrders = 2
    MaxPlugMishaps = 1
    LessonRecs = {r1, r2}
    KeptDefault = 1
    KeptChoices = {1, 2}
    DedupeWindow = 2
    HistorySize = 2
    MaxReadings = 2
    MaxReplays = 1
    MaxRecFaults = 2
    Students = {"ada", "bob"}
    MaxVersions = 4
    MaxProjectFaults = 3
    Cameras = {sony, dji}
    Automatic = {sony}
    NoCamera = NoCamera
    MaxImportCrashes = 1
INVARIANTS LaneTypeOK OneCommandPerDevice AnsweredOnReturn QueuedIsAttended
INVARIANTS RefusedIsNotRunning NeverOvertaken ImportsAreSafe
PROPERTIES PlugGroupIsAsked RecordingsAreKept ProjectsAreKept
SYMMETRY PlugSymmetry
CHECK_DEADLOCK FALSE
