SPECIFICATION Spec
CONSTANTS
    MaxLSN = 3
    Kinds = {"tx", "idle"}
    TrackBackup = TRUE
INVARIANT
    AckedByBothStores
