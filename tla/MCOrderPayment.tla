--------------------------- MODULE MCOrderPayment ---------------------------
EXTENDS OrderPayment

CONSTANTS o1, p1, p2, w

MCDetails == {[g \in Goods |-> 1]}

MCStockInputs == {[goods |-> g, stocks |-> 1, total |-> 0, available |-> 0,
                   locked |-> 0, sold |-> 0] : g \in Goods}

Event(id, type, ok) == [id |-> id, sn |-> o1, type |-> type, ok |-> ok]

Paid == Event(1, "payment_succeeded", TRUE)

MCEvents == {Paid, Event(2, "payment_failed", TRUE)}

MCPaidEvents == {Paid}

MCAllEvents == MCEvents \cup {Event(3, "payment_succeeded", FALSE)}

Gateway == {"callback", "initiate", "cancel", "simulate"}

Sweeps == {"expire", "finish"}

(* Two processes that serve anything but the console's requests.            *)
MCRoles == [p \in Procs |-> Gateway \cup Sweeps]

(* One of them serves the console as well.                                  *)
MCConsoleRoles == [p \in Procs |-> IF p = p1 THEN Ops ELSE Gateway \cup Sweeps]

MCWorkerRoles == [p \in Procs |-> IF p = w THEN Sweeps ELSE Gateway]

MCCallbackRoles == [p \in Procs |-> {"callback"}]
=============================================================================
