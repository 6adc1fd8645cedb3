SPECIFICATION FairSpec
CONSTANTS
    MaxLSN = 4
    Kinds = {"tx", "skip", "idle"}
    TrackBackup = TRUE
INVARIANTS
    TypeOK
    
    
PROPERTIES
    StatusIsEchoed
