CONSTANTS
    Transports = {"WIRELESS_TETHER"}
    States = {2}
    MaxObjects = 2
    MaxChanges = 3
    MaxEvents = 5
    MaxValue = 1
SPECIFICATION Spec
INVARIANTS
    AllPicturesQueued
