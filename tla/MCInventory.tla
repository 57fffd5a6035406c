---------------------------- MODULE MCInventory ----------------------------
(* Small instances of Inventory for TLC.                                   *)
EXTENDS Inventory, TLC

MCRows == 1..2
MCGoods == 1..2

Item(g, n) == [x \in Goods |-> IF x = g THEN n ELSE 0]

(* One piece, two pieces, one piece of each goods, and a list with no item, *)
(* which validateStockOperation refuses.                                    *)
MCDetails == {Item(1, 1), Item(1, 2), [x \in Goods |-> 1], [x \in Goods |-> 0]}

Body(g, stocks, total, available, locked, sold) ==
    [goods |-> g, stocks |-> stocks, total |-> total,
     available |-> available, locked |-> locked, sold |-> sold]

(* New goods: the legacy form with stocks only, and the full form.          *)
MCNewGoods == {Body(1, 3, 0, 0, 0, 0), Body(2, 0, 5, 2, 0, 0)}

(* Corrections an administrator makes: more and less than is there, with    *)
(* and without locked pieces, and one that does not add up.                 *)
MCCorrections == {Body(1, 4, 0, 0, 0, 0), Body(1, 0, 0, 1, 1, 0),
                  Body(2, 0, 2, 2, 1, 0), Body(1, -1, 0, 0, 0, 0)}

MCStockInputs == MCNewGoods \cup MCCorrections

Symmetry == Permutations(Orders) \cup Permutations(Corrs)
=============================================================================
