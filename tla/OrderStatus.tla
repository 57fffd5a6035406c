---------------------------- MODULE OrderStatus ----------------------------
(***************************************************************************)
(* The order states and the three tables of allowed transitions: the one   *)
(* of the order service (canTransitionOrderStatus) and the two the gateway *)
(* consults before it acts on a payment (paymentEventAllowed and           *)
(* canApplyPayCallback).                                                   *)
(***************************************************************************)

OrderStatuses == {"WAIT_BUYER_PAY", "PAYING", "TRADE_SUCCESS", "TRADE_CLOSED",
                  "TRADE_FINISHED", "REFUND_PENDING", "REFUNDED", "REFUND_FAILED"}

NoOrder == "NO_ORDER"

Unpaid == {"WAIT_BUYER_PAY", "PAYING"}

PaidStatuses == OrderStatuses \ (Unpaid \cup {"TRADE_CLOSED"})

Successors(s) ==
    CASE s = "WAIT_BUYER_PAY" -> {"PAYING", "TRADE_SUCCESS", "TRADE_CLOSED"}
      [] s = "PAYING"         -> {"TRADE_SUCCESS", "TRADE_CLOSED"}
      [] s = "TRADE_SUCCESS"  -> {"TRADE_FINISHED", "REFUND_PENDING"}
      [] s = "TRADE_FINISHED" -> {"REFUND_PENDING"}
      [] s = "REFUND_PENDING" -> {"REFUNDED", "REFUND_FAILED"}
      [] s = "REFUND_FAILED"  -> {"REFUND_PENDING"}
      [] OTHER                -> {}

canTransitionUnchecked(s, next) == TRUE

canTransitionOrderStatus(s, next) == s = next \/ next \in Successors(s)

EventTypes == {"payment_succeeded", "payment_failed", "refund_succeeded", "refund_failed"}

paymentEventAllowed(type, s) ==
    \/ type \in {"payment_succeeded", "payment_failed"} /\ s \in Unpaid
    \/ type \in {"refund_succeeded", "refund_failed"} /\ s = "REFUND_PENDING"

(* The status a callback of this type asks for.                             *)
EventTarget(type) ==
    CASE type = "payment_succeeded" -> "TRADE_SUCCESS"
      [] type = "payment_failed"    -> "TRADE_CLOSED"
      [] type = "refund_succeeded"  -> "REFUNDED"
      [] type = "refund_failed"     -> "REFUND_FAILED"

canApplyPayCallback(s, target) ==
    \/ s = target
    \/ s = "WAIT_BUYER_PAY" /\ target \in {"PAYING", "TRADE_SUCCESS", "TRADE_CLOSED"}
    \/ s = "PAYING" /\ target \in {"TRADE_SUCCESS", "TRADE_CLOSED"}
    \/ s = "TRADE_SUCCESS" /\ target = "TRADE_FINISHED"
=============================================================================
