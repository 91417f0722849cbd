SPECIFICATION Spec
INVARIANTS
    SetupHasSocket
