SPECIFICATION Spec
CONSTANTS
    Pages = {p1, p2}
    p1 = p1
    p2 = p2
    Readers = {r1}
    r1 = r1
    Wal = Wal
    Pending = Pending
    Failed = Failed
    flush_threshold = 2
    FloorSlack = 0
    ImageFaults = FALSE
    MaxLsn = 3
    MaxReads = 1
    MaxGc = 1
    MaxFaults = 1
    MaxCrashes = 1
SYMMETRY Symmetry
INVARIANTS CrashLosesNothing
PROPERTIES ImplementsContract
