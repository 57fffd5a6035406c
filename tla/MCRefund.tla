------------------------------ MODULE MCRefund ------------------------------
EXTENDS Refund, TLC

CONSTANTS o1, p1, p2, w1, w2

RefundEvent(id, r, type) == [id |-> id, sn |-> o1, type |-> type, ok |-> TRUE, refund |-> r]

MCEvents == {RefundEvent(1, 1, "refund_succeeded"), RefundEvent(2, 1, "refund_failed")}

Symmetry == Permutations(Procs) \cup Permutations(Workers)
=============================================================================
