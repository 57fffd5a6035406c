CONSTANTS
    o1 = o1
    p1 = p1
    p2 = p2
    w1 = w1
    w2 = w2
    None = None
    OrderSns = {o1}
    Procs = {p1}
    Workers = {w1}
    Events = {}
    MaxFaults = 0
    MaxRequests = 2
    Finishes = FALSE
    MaxAttempts = 2
    Amounts = {2, 3}
    Total = 3
    LeaseHolds = TRUE
SPECIFICATION RSpec
INVARIANT RefundsWithinTotal
CHECK_DEADLOCK FALSE
