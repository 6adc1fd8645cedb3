SPECIFICATION FairSpec
CONSTANTS
    Tables = {"t"}
    Columns = {"a", "b"}
    Key = "k"
    InitialSchema <- Schema
    InitialRequests <- Requests
    MaxLSN = 3
    Base = 8
    Routines = {"r1", "r2", "r3"}
    MaxRows = 1
    MaxChanges = 0
    Faults = {"stream"}
    MaxFaults = 1
PROPERTIES
    ReplicationProceeds
CHECK_DEADLOCK FALSE
