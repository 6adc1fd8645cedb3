SPECIFICATION Spec
CONSTANTS
    s1 = s1
    s2 = s2
    Syncers = {s1, s2}
    TaskOf <- Tasks
    Clients = {"c1"}
    Rows = {"r1"}
    Queries = {"q1"}
    Selects <- Select
    NoOne = NoOne
    Survivors = TRUE
    MaxVersion = 2
    MaxEvents = 4
SYMMETRY Symmetry
INVARIANT ViewMatchesCookie
CHECK_DEADLOCK FALSE
