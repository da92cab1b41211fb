CONSTANTS
    c1 = c1  c2 = c2  c3 = c3
    Conns = {c1, c2, c3}
    MAX_BATCH_RECORDS = 4
    MaxOwners = 2
    MaxOps = 1
    MaxLsn = 2
    MaxPages = 1
    MaxCrashes = 1
SPECIFICATION FairSpec
INVARIANTS ReadersSeeLog AckedDurable LsnsTileLog IInv
PROPERTIES SnapshotStable PipelineProgress
