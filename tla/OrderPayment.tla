---------------------------- MODULE OrderPayment ----------------------------
(***************************************************************************)
(* An order from its creation to the end of its payment: the gateway's     *)
(* payment callback, InitiatePayment, CancelOrder and SimulatePayCallback  *)
(* (app/goshop/api), the console's closeOrder (app/goshop/admin) and the   *)
(* sweeps of the order service that close unpaid orders and finish paid    *)
(* ones.  All of them call the inventory service (module Inventory, here   *)
(* Stock) and UpdateOrderStatus (module OrderService), one call after the  *)
(* other, with nothing that spans two calls.                               *)
(***************************************************************************)
EXTENDS OrderService

CONSTANTS
    Rows, Goods, Details, StockInputs, Corrs, Half,  \* see Inventory
    Role,          \* the requests each process serves, a subset of Ops
    LookupServed   \* whether the order service implements GetOrderBySn

VARIABLES inv, sellDetail, audits

stockVars == <<inv, sellDetail, audits>>

pvars == <<orderVars, stockVars>>

Stock == INSTANCE Inventory WITH Orders <- OrderSns

Ops == {"callback", "initiate", "cancel", "expire", "finish", "close", "simulate"}

ASSUME RoleAssumption == Role \in [Procs -> SUBSET Ops]
ASSUME LookupServedAssumption == LookupServed \in BOOLEAN
(* Refund events are module Refund's.                                       *)
ASSUME PaymentEventsAssumption ==
    \A e \in Events : e.type \in {"payment_succeeded", "payment_failed"}

-----------------------------------------------------------------------------
PInit == OInit /\ Stock!Init

(* The console puts goods on the shelf; once per goods here.                *)
SetInv ==
    /\ \E in \in StockInputs : Stock!RowsOf(in.goods) = {} /\ Stock!Create(in)
    /\ UNCHANGED orderVars

(* A submitted saga that went through: the stock is reserved and the order  *)
(* created.                                                                 *)
SubmitOrder(sn) ==
    /\ \E d \in Details : Stock!Sell(sn, d)
    /\ CreateOrder(sn)
    /\ UNCHANGED <<event, task, faults>>

(* A request that is no callback begins with a read of the order; what it   *)
(* goes on to is decided by the status it saw.                              *)
Begins(p, op, sn, pc, target) ==
    /\ op \in Role[p]
    /\ Starts(p, pc, sn, target, None)
    /\ UNCHANGED <<status, statusLog, event, faults, stockVars>>

InitiatePayment(p, sn) ==
    /\ status[sn] \in Unpaid
    /\ Begins(p, "initiate", sn, "get", "PAYING")

CancelOrderUnreleased(p, sn) ==
    /\ status[sn] \in Unpaid
    /\ Begins(p, "cancel", sn, "get", "TRADE_CLOSED")

CancelOrder(p, sn) ==
    /\ status[sn] \in Unpaid
    /\ Begins(p, "cancel", sn, "stock", "TRADE_CLOSED")

ExpireWaitingOnly(p, sn) ==
    /\ status[sn] = "WAIT_BUYER_PAY"
    /\ Begins(p, "expire", sn, "stock", "TRADE_CLOSED")

ExpireUnreleased(p, sn) ==
    /\ status[sn] \in Unpaid
    /\ Begins(p, "expire", sn, "get", "TRADE_CLOSED")

(* The sweeps list their candidates and take one after the other.           *)
processExpiredOrdersOnce(p, sn) ==
    /\ status[sn] \in Unpaid
    /\ Begins(p, "expire", sn, "stock", "TRADE_CLOSED")

processFinishedOrdersOnce(p, sn) ==
    /\ status[sn] = "TRADE_SUCCESS"
    /\ Begins(p, "finish", sn, "get", "TRADE_FINISHED")

(* The console looks the order up to check whose it is, and closes it.      *)
closeOrder(p, sn) ==
    /\ LookupServed
    /\ status[sn] # NoOrder
    /\ Begins(p, "close", sn, "get", "TRADE_CLOSED")

SimulatePayCallback(p, sn, target) ==
    /\ canApplyPayCallback(status[sn], target)
    /\ Begins(p, "simulate", sn, "stock", target)

ProcessPayCallback(p, e) ==
    /\ "callback" \in Role[p]
    /\ BeginPaymentEvent(p, e)
    /\ UNCHANGED stockVars

GetOrderSkippingStock(p) ==
    /\ task[p].pc = "look"
    /\ IF LookupServed /\ paymentEventAllowed(task[p].event.type, status[task[p].sn])
         THEN Goes(p, "get")
         ELSE Fails(p)
    /\ UNCHANGED <<status, statusLog, event, faults, stockVars>>

(* The callback loads the order; an event out of order fails.               *)
GetOrderBySn(p) ==
    /\ task[p].pc = "look"
    /\ IF LookupServed /\ paymentEventAllowed(task[p].event.type, status[task[p].sn])
         THEN Goes(p, "stock")
         ELSE Fails(p)
    /\ UNCHANGED <<status, statusLog, event, faults, stockVars>>

(* Confirm for a payment, Release for a closure.  A reservation that is     *)
(* settled already, either way, is left alone and the call succeeds.        *)
CallStock(p) ==
    LET sn == task[p].sn IN
    /\ task[p].pc = "stock"
    /\ IF sellDetail[sn].status = "reserved" /\ Stock!Settleable(sn)
         THEN IF task[p].target = "TRADE_SUCCESS" THEN Stock!Confirm(sn)
                                                  ELSE Stock!RebackReserved(sn)
         ELSE UNCHANGED stockVars
    /\ IF sellDetail[sn].status = "reserved" /\ ~Stock!Settleable(sn)
         THEN Fails(p)
         ELSE Goes(p, "get")
    /\ UNCHANGED <<status, statusLog, event, faults>>

Request(p, sn) ==
    \/ InitiatePayment(p, sn)
    \/ CancelOrder(p, sn)
    \/ processExpiredOrdersOnce(p, sn)
    \/ processFinishedOrdersOnce(p, sn)
    \/ closeOrder(p, sn)
    \/ \E target \in {"TRADE_SUCCESS", "TRADE_CLOSED"} : SimulatePayCallback(p, sn, target)

Step(p) ==
    \/ GetOrderBySn(p)
    \/ CallStock(p)
    \/ Get(p) /\ UNCHANGED stockVars
    \/ Write(p) /\ UNCHANGED stockVars
    \/ CompletePaymentEvent(p) /\ UNCHANGED stockVars

PNext ==
    \/ SetInv
    \/ \E sn \in OrderSns : SubmitOrder(sn)
    \/ \E p \in Procs :
        \/ \E sn \in OrderSns : Request(p, sn)
        \/ \E e \in Events : ProcessPayCallback(p, e)
        \/ Step(p)
        \/ CallFails(p) /\ UNCHANGED stockVars
        \/ Crash(p) /\ UNCHANGED stockVars

PSpec == PInit /\ [][PNext]_pvars

(* A request that has begun goes on; the sweep comes round every few        *)
(* seconds and finds each order it should close; the provider delivers its  *)
(* events until they are taken.                                             *)
Fairness ==
    /\ \A p \in Procs : WF_pvars(Step(p))
    /\ \A p \in Procs, sn \in OrderSns : WF_pvars(processExpiredOrdersOnce(p, sn))
    /\ \A p \in Procs, e \in Events : WF_pvars(ProcessPayCallback(p, e))

FairSpec == PSpec /\ Fairness

-----------------------------------------------------------------------------
(* Every variable holds a value of its kind, and a task that works on a     *)
(* callback has its event claimed.                                          *)
PTypeOK ==
    /\ status \in [OrderSns -> OrderStatuses \cup {NoOrder}]
    /\ event \in [Events -> EventStatuses]
    /\ task \in [Procs -> Tasks]
    /\ \A p \in Procs : task[p].event # None => event[task[p].event] = "processing"
    /\ \A p, q \in Procs : task[p].event # None /\ task[p].event = task[q].event => p = q
    /\ Stock!TypeOK

(* A status that takes a payment to reach is never shown while the stock of *)
(* the order is only reserved: whatever races with the callback, or fails   *)
(* between its calls, the stock is settled first (ProcessPayCallback,       *)
(* SimulatePayCallback, Update).                                            *)
PaidSettled ==
    \A sn \in OrderSns : status[sn] \in PaidStatuses => sellDetail[sn].status # "reserved"

(* Whoever is about to write TRADE_CLOSED, but for the console's closeOrder, *)
(* writes it over settled stock: CancelOrder, the timeout sweep and the      *)
(* callback of a failed payment release first and close after, and nothing   *)
(* that runs in between reserves the stock again.                            *)
ClosesSettled ==
    \A p \in Procs :
        "close" \notin Role[p] /\ task[p].pc \in {"get", "write"} /\ task[p].target = "TRADE_CLOSED"
            => sellDetail[task[p].sn].status # "reserved"

(* An event marked completed did what it says: the order's log has the      *)
(* change to its target, by this event or by another request.  Duplicates,  *)
(* redeliveries after a failure and lost replies included                   *)
(* (ProcessPayCallback, CompletePaymentEvent).                              *)
CompletedApplied ==
    \A e \in Events : event[e] = "completed" =>
        \E entry \in statusLog[e.sn].entries : entry[2] = EventTarget(e.type)

(* Every change an order's log records is one canTransitionOrderStatus      *)
(* allows, even when the status written was stale.                          *)
LogLegal ==
    \A sn \in OrderSns : \A entry \in statusLog[sn].entries :
        entry[1] = NoOrder \/ entry[2] \in Successors(entry[1])

(* An order that waits for its payment does not wait for ever: it is paid   *)
(* or closed, whatever requests come in between and even if a sweep is cut  *)
(* short after it has released the stock (processExpiredOrdersOnce).        *)
UnpaidEnds ==
    \A sn \in OrderSns : status[sn] \in Unpaid ~> status[sn] \notin Unpaid

(* Every reservation ends: the stock of an order is sold or given back      *)
(* (service/v1/inventory.go:51,54).                                         *)
ReservationsEnd ==
    \A sn \in OrderSns :
        sellDetail[sn].status = "reserved" ~> sellDetail[sn].status # "reserved"

-----------------------------------------------------------------------------
(* Statements of the repository that the code does not keep.                *)

(* Orders move one way through the state machine                            *)
(* (docs/business-and-observability.md:7): the status only ever changes     *)
(* along canTransitionOrderStatus.                                          *)
OneWay ==
    [][\A sn \in OrderSns : status[sn] # NoOrder =>
         status'[sn] \in {status[sn]} \cup Successors(status[sn])]_pvars

(* A successful payment confirms the stock (service/v1/inventory.go:51): a  *)
(* paid order's reservation was confirmed, not released.                    *)
PaidConfirmed ==
    \A sn \in OrderSns : status[sn] = "TRADE_SUCCESS" => sellDetail[sn].status = "confirmed"

(* A payment the provider reports, and goes on reporting, gets its order    *)
(* out of the unpaid states.                                                *)
PaymentApplied ==
    \A e \in Events : event[e] # "new" ~> status[e.sn] \notin Unpaid
=============================================================================
