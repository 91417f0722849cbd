SPECIFICATION Spec
INVARIANTS
    ClosedAfterSuccess
    Agreement
PROPERTIES
    CancelEnds
