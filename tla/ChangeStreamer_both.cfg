SPECIFICATION Spec
CONSTANTS
    Replicas = {"b", "v"}
    Backup = "b"
    MaxTx = 3
    Start = 1
    MaxQueue = 1
    Faults = {"disconnect", "storer", "late", "rollback", "crash"}
    MaxFaults = 1
INVARIANTS
    TypeOK
    DeliversInOrder
    LogIsContiguous
    BackupNeverReset
PROPERTIES
    ImplementsHistory
