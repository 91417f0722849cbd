CONSTANTS
    Transports = {"WIRELESS_COMM", "WIRELESS_TETHER"}
    States = {1, 2, 6}
    MaxObjects = 1
    MaxChanges = 3
    MaxEvents = 4
    MaxValue = 1
SPECIFICATION Spec
INVARIANTS
    TypeOK
    Tracks
PROPERTIES
    Settles
    PollsReturn
