--------------------------- MODULE MCGoodsSearch ---------------------------
(* A small instance of GoodsSearch for TLC: two goods, two replicas.        *)
EXTENDS GoodsSearch

CONSTANTS g1, g2, w1, w2
=============================================================================
