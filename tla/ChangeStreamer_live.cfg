SPECIFICATION FairSpec
CONSTANTS
    Replicas = {"v"}
    Backup = "b"
    MaxTx = 3
    Start = 1
    MaxQueue = 1
    Faults = {"storer", "late", "rollback", "crash"}
    MaxFaults = 2
INVARIANTS
    DeliversInOrder
    LogIsContiguous
PROPERTIES
    CaughtUpOrClosed
