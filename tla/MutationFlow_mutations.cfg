SPECIFICATION Spec
CONSTANTS
    Clients = {"a", "b"}
    Pushers = {"p1", "p2"}
    Orphan = "orphan"
    None = "none"
    Most = 2
    Limit <- Limits
    Rejected <- First
    Closing = {}
    MaxPersists = 1
    MaxFaults = 1
    SharedReplica = TRUE
INVARIANTS
    TypeOK
    OutcomesAreTrue
    NoGap
    
PROPERTIES
    ImplementsMutationLog
CHECK_DEADLOCK FALSE
