CONSTANTS
    o1 = o1
    p1 = p1
    p2 = p2
    w1 = w1
    w2 = w2
    None = None
    OrderSns = {o1}
    Procs = {p1}
    Workers = {w1, w2}
    Events <- MCEvents
    MaxFaults = 1
    MaxRequests = 2
    Finishes = TRUE
    MaxAttempts = 2
    Amounts = {3}
    Total = 3
    LeaseHolds = FALSE
SYMMETRY Symmetry
SPECIFICATION RSpec
INVARIANTS RTypeOK DeadFailed RefundedPaid
CHECK_DEADLOCK FALSE
