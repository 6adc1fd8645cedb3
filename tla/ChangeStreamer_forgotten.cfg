SPECIFICATION FairSpec
CONSTANTS
    Replicas = {"v"}
    Backup = "b"
    MaxTx = 2
    Start = 1
    MaxQueue = 4
    Faults = {"disconnect"}
    MaxFaults = 1
PROPERTIES
    CaughtUpOrClosed
CHECK_DEADLOCK FALSE
