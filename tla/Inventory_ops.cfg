SPECIFICATION Spec
CONSTANTS
    Rows <- MCRows
    Goods <- MCGoods
    Orders = {o1, o2}
    Details <- MCDetails
    StockInputs <- MCStockInputs
    Corrs = {c1, c2}
    Half = 8
SYMMETRY Symmetry
INVARIANTS TypeOK  ReservationsSettleable
PROPERTIES PiecesKept LedgerAgrees
CHECK_DEADLOCK FALSE
