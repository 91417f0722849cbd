\* A host that has freed the module, or that has no more jobs, may stop.
CONSTANTS
    NoCamera = NoCamera
    Cameras = {camA, camB}
    Secure = {camB}
    Objects = {1}
    Layouts <- MCLayouts
    MaxRuntimes = 2
    MaxJobs = 3
    Options = {"wifi", "local-network", "NULL"}
SPECIFICATION Spec
INVARIANTS
    TypeOK
    ThumbIsOwn
    WifiIsOwn
PROPERTIES
    SavedIsAccepted
    DeadIsReported
CHECK_DEADLOCK FALSE
