SPECIFICATION MCSpec
CONSTANTS
    pa = pa
    pb = pb
    n1 = n1
    Photos = {pa, pb}
    Names = {n1}
    NameOf <- MCNameOf
    NoPhoto = NoPhoto
    MaxReceipts = 1
    MaxFolderCrashes = 1
    Cameras = {sony, dji}
    Automatic = {sony}
    NoCamera = NoCamera
    MaxImportCrashes = 0
    Artifacts = {art1}
    Tutors = {tut1}
    Tokens = {tk1, tk2}
    Jobs = {job1, job2}
    NoJob = NoJob
INVARIANTS UploadsAreSafe
PROPERTIES PrinterImplementsConfirmations PhotosAcknowledged AutomaticImportsGoOn
CHECK_DEADLOCK FALSE
