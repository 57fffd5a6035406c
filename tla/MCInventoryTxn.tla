--------------------------- MODULE MCInventoryTxn ---------------------------
(* Small instances of InventoryTxn for TLC.                                *)
EXTENDS InventoryTxn, TLC

MCRows == 1..2
MCGoods == 1..2
MCOrders == 1..2

MCDetails == {[x \in Goods |-> 1]}

MCStock(g, n) == [goods |-> g, stocks |-> n, total |-> 0,
                  available |-> 0, locked |-> 0, sold |-> 0]

MCStockInputs == {MCStock(1, 2), MCStock(2, 1)}

ProcSymmetry == Permutations(Procs)
=============================================================================
