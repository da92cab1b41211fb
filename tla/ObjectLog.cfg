SPECIFICATION Spec
CONSTANTS
    Handles = {h1, h2}
    h1 = h1
    h2 = h2
    cas_max_retries = 1
    MaxItems = 2
    MaxOps = 3
    MaxLease = 3
    MaxFaults = 1
SYMMETRY Symmetry
INVARIANTS TokensDistinct LogExact StaleLandsOnce LsnExactUntilSlotLost
