SPECIFICATION Spec
CONSTANTS
    s1 = s1
    s2 = s2
    Syncers = {s1, s2}
    TaskOf <- Tasks
    Clients = {"c1"}
    Rows = {"r1"}
    Queries = {"q1"}
    Selects <- Select
    NoOne = NoOne
    Survivors = FALSE
    MaxVersion = 2
    MaxEvents = 3
SYMMETRY Symmetry
INVARIANTS
    TypeOK
    
    
    
    

    
CHECK_DEADLOCK FALSE
