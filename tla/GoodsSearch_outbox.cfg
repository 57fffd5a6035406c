CONSTANTS
    g1 = g1
    g2 = g2
    w1 = w1
    w2 = w2
    Goods = {g1, g2}
    Workers = {w1, w2}
    BatchSize = 2
    MaxRetry = 2
    MaxEvents = 2
    MaxFaults = 1
    MaxConsole = 1
SPECIFICATION GFairSpec
INVARIANTS GTypeOK EventsApplied
PROPERTIES IndexForward EventsEnd
CHECK_DEADLOCK FALSE
