SPECIFICATION TSpec
CONSTANTS
    Rows <- MCRows
    Goods <- MCGoods
    Orders <- MCOrders
    Details <- MCDetails
    StockInputs <- MCStockInputs
    Corrs = {c1}
    Half = 8
    Procs = {p1, p2}
    None = None
    Dead = Dead
    LockExpires = TRUE
SYMMETRY ProcSymmetry
INVARIANTS TTypeOK AckedSettled DeadlocksExplained
PROPERTIES Serializable
CHECK_DEADLOCK FALSE
