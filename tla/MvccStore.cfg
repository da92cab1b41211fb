SPECIFICATION Spec
CONSTANTS
    Conns = {c1, c2}
    c1 = c1
    c2 = c2
    Tables = {t1}
    t1 = t1
    Keys = {k1, k2}
    k1 = k1
    k2 = k2
    Vals = {x1}
    x1 = x1
    Unique = {}
    OnConflicts = {"error", "nothing"}
    Midway = {}
    MaxOwners = 3
    MaxOps = 2
    MaxVid = 3
    MaxSaves = 2
    MaxCrashes = 1
SYMMETRY Symmetry
INVARIANTS StoreMatchesLog PendingMatchesOps NoLostUpdate
