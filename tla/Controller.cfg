SPECIFICATION FairSpec
CONSTANTS
    Callers = {a, b, c}
    Urls = {u1}
    a = a
    b = b
    c = c
    u1 = u1
    max_concurrent_warms = 2
    keep_warm = FALSE
    MaxStarts = 3
    MaxStops = 2
    MaxTakeovers = 1
    MaxFailures = 1
CHECK_DEADLOCK FALSE
INVARIANTS PhaseSound Counted OneWarmUnlessStopped
PROPERTIES StartReturns
