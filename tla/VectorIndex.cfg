SPECIFICATION Spec
CONSTANTS
    Tables = {"t"}
    Vecs = {0, 1}
    Levels <- MCLevels
    M = 2
    EfConstruction = 2
    EfSearch = 4
    Overfetch = 2
    MaintMinNodes = 2
    MaintDeadPct = 50
    PerPage = 2
    MaxLag = 1
    MaxVid = 3
    MaxOwners = 2
    MaxLsn = 4
    MaxCrashes = 1
INVARIANTS
    
    KnnMatchesScan
CHECK_DEADLOCK FALSE
