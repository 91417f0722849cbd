CONSTANTS
    MaxTransactions = 4
    RemoteVersions <- MCRemoteVersions
    ViewVersions <- MCViewVersions
    GrantedStates = {1, 2, 3, 6, 11, 20}
SPECIFICATION Spec
INVARIANTS
    TypeOK
    Ready
    ModeFitsTransport
    ScreenMatchesCamera
    VideoSocketOnce
PROPERTIES
    SetupEnds
