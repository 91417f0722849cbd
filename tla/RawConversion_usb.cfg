\* A caller that does not call again may stop.
CONSTANTS
    NULL = NULL
    BadText = BadText
    MaxConnects = 2
    Jobs = 2
    CameraProfiles <- MCCameraProfiles
    UserFiles <- MCUserFiles
    Garbage = {0, 1}
    Leftovers <- MCLeftovers
SPECIFICATION Spec
INVARIANTS
    TypeOK
    OnlyInRawMode
    RoundTrip
    UntestedAreKept
    OutputIsOwn
PROPERTIES
    NoResultLost
    CallsReturn
CHECK_DEADLOCK FALSE
