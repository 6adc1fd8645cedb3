SPECIFICATION Spec
CONSTANTS
    Replicas = {"v"}
    Backup = "b"
    MaxTx = 2
    Start = 0
    MaxQueue = 4
    Faults = {}
    MaxFaults = 0
INVARIANTS
    DeliversInOrder
CHECK_DEADLOCK FALSE
