SPECIFICATION Spec
CONSTANTS
    Sns = {"o1", "o2"}
    Goods = {1, 3}
    StoreOf <- MCStoreOf
    Removable = {1}
    Rows = {1, 3}
    InStock = {1}
    Requests = {1, 2}
    Slots = {1, 2, 3}
    MaxNums = 2
    MaxTimeouts = 1
    ListLimit = 2
    Half = 3
INVARIANTS
    TypeOK
    PlacedIsReserved
    FailedHoldsNothing
    OneOrder
    OneRow
PROPERTIES
    OrdersStay
    
CHECK_DEADLOCK FALSE
