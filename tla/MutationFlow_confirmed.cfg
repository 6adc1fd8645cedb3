SPECIFICATION FairSpec
CONSTANTS
    Clients = {"a", "b"}
    Pushers = {"p1", "p2"}
    Orphan = "orphan"
    None = "none"
    Most = 1
    Limit <- Limits
    Rejected <- First
    Closing = {"a"}
    MaxPersists = 1
    MaxFaults = 1
    SharedReplica = TRUE
PROPERTIES
    EventuallyConfirmed
    LeftBehindIsCommitted
CHECK_DEADLOCK FALSE
