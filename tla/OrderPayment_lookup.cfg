CONSTANTS
    o1 = o1
    p1 = p1
    p2 = p2
    w = w
    None = None
    OrderSns = {o1}
    Procs = {p1, p2}
    Events <- MCPaidEvents
    Role <- MCCallbackRoles
    MaxFaults = 0
    LookupServed = FALSE
    Rows = {1}
    Goods = {1}
    Details <- MCDetails
    StockInputs <- MCStockInputs
    Corrs = {}
    Half = 8
SPECIFICATION FairSpec
PROPERTY PaymentApplied
