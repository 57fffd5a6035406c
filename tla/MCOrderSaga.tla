---------------------------- MODULE MCOrderSaga ----------------------------
(* Goods 1 and 2 belong to one store, goods 3 to another.                   *)
EXTENDS OrderSaga

MCStoreOf == [g \in Goods |-> IF g < 3 THEN "s1" ELSE "s2"]
=============================================================================
