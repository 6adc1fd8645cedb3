SPECIFICATION FairSpec
CONSTANTS
    Tables = {"t", "u"}
    Columns = {"a", "b"}
    Key = "k"
    InitialSchema <- Schema
    InitialRequests <- Requests
    MaxLSN = 3
    Base = 8
    Routines = {"r1", "r2", "r3"}
    MaxRows = 1
    MaxChanges = 1
    Faults = {"open", "stream", "cancel"}
    MaxFaults = 2
INVARIANTS
    TypeOK
    Exclusive
    BackfillIsRequired
    NoStaleRows
    CompletedInOrder
PROPERTIES
    WatermarksAdvance
    NobodyStarves
    EventuallyBackfilled
CHECK_DEADLOCK FALSE
