SPECIFICATION Spec
CONSTANTS
    Pages = {p1}
    p1 = p1
    MaxRecords = 2
    OpenWhileWriting = FALSE
    MaxFrames = 5
    MaxFails = 1
    MaxOpens = 1
    MaxCrashes = 1
    MaxOverlay = 2
    OverlayFloors = FALSE
INVARIANTS AckedSurvives MemoryIsReplay BranchIsPrivateCopy
