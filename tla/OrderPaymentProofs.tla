------------------------- MODULE OrderPaymentProofs -------------------------
(***************************************************************************)
(* Proofs about OrderPayment, for any number of orders, events, processes, *)
(* faults and any assignment of requests to processes.                     *)
(***************************************************************************)
EXTENDS OrderPayment, TLAPS

AllStatuses == OrderStatuses \cup {NoOrder}

Logs == [entries : SUBSET (AllStatuses \X AllStatuses), last : AllStatuses]

Ledger == [status : {"absent", "reserved", "released", "confirmed"},
           detail : Details \cup {Stock!NoItems}]

Types ==
    /\ status \in [OrderSns -> AllStatuses]
    /\ statusLog \in [OrderSns -> Logs]
    /\ event \in [Events -> EventStatuses]
    /\ task \in [Procs -> Tasks]
    /\ sellDetail \in [OrderSns -> Ledger]

(* What a task knows of its order: there is one, a callback carries its     *)
(* event's order and target, and only payments and closures go to the stock.*)
TaskOK(p) ==
    task[p].pc # "idle" =>
        /\ task[p].sn \in OrderSns
        /\ task[p].target \in OrderStatuses
        /\ status[task[p].sn] # NoOrder
        /\ task[p].event # None =>
             /\ task[p].event \in Events
             /\ task[p].sn = task[p].event.sn
             /\ task[p].target = EventTarget(task[p].event.type)
        /\ task[p].pc \in {"look", "done", "failed"} => task[p].event # None
        /\ task[p].pc \in {"look", "stock"} => task[p].target \in {"TRADE_SUCCESS", "TRADE_CLOSED"}

Settled(sn) == sellDetail[sn].status # "reserved"

(* A task past the inventory call that is about to show the order paid has  *)
(* seen its stock settled.                                                  *)
TaskSettled(p) ==
    task[p].pc \in {"get", "write"} /\ task[p].target \in PaidStatuses => Settled(task[p].sn)

Inv ==
    /\ Types
    /\ \A p \in Procs : TaskOK(p)
    /\ PaidSettled
    /\ \A p \in Procs : TaskSettled(p)

LEMMA InitInv == PInit => Inv
  BY DEF PInit, OInit, Stock!Init, Stock!NoDetail, Inv, Types, TaskOK, PaidSettled, TaskSettled,
     AllStatuses, Logs, Ledger, NoLog, EventStatuses, Tasks, Idle, PaidStatuses, OrderStatuses,
     NoOrder, Unpaid
(* The inventory service only ever settles a reservation, except for Sell.  *)
LEMMA StockSettles ==
    ASSUME Types, NEW sn \in OrderSns, Stock!Confirm(sn) \/ Stock!RebackReserved(sn)
    PROVE  /\ sellDetail' \in [OrderSns -> Ledger]
           /\ Settled(sn)'
           /\ \A q \in OrderSns : q # sn => sellDetail'[q] = sellDetail[q]
  BY DEF Types, Ledger, Stock!Confirm, Stock!RebackReserved, Settled

LEMMA SubmitKeepsInv ==
    ASSUME Inv, NEW sn \in OrderSns, SubmitOrder(sn)
    PROVE  Inv'
<1>1. PICK d \in Details : Stock!Sell(sn, d)
  BY DEF SubmitOrder
<1>2. status[sn] = NoOrder
  BY DEF SubmitOrder, CreateOrder
<1>3. /\ sellDetail' = [sellDetail EXCEPT ![sn] = [status |-> "reserved", detail |-> d]]
      /\ status' = [status EXCEPT ![sn] = "WAIT_BUYER_PAY"]
      /\ statusLog' = [statusLog EXCEPT ![sn] = Logged(@, NoOrder, "WAIT_BUYER_PAY")]
      /\ UNCHANGED <<event, task>>
  BY <1>1 DEF SubmitOrder, CreateOrder, Stock!Sell
<1>4. Types'
  <2>1. Logged(statusLog[sn], NoOrder, "WAIT_BUYER_PAY") \in Logs
    BY DEF Inv, Types, Logs, Logged, AllStatuses, OrderStatuses, NoOrder
  <2>2. statusLog' \in [OrderSns -> Logs]
    BY <1>3, <2>1 DEF Inv, Types
  <2>3. status' \in [OrderSns -> AllStatuses]
    BY <1>3 DEF Inv, Types, AllStatuses, OrderStatuses
  <2>4. sellDetail' \in [OrderSns -> Ledger]
    BY <1>3 DEF Inv, Types, Ledger
  <2> QED
    BY <1>3, <2>2, <2>3, <2>4 DEF Inv, Types
<1>5. ASSUME NEW p \in Procs
      PROVE  TaskOK(p)' /\ TaskSettled(p)'
  <2>1. TaskOK(p) /\ TaskSettled(p)
    BY <1>5 DEF Inv
  <2>2. task[p].pc # "idle" => task[p].sn # sn
    BY <1>2, <2>1 DEF TaskOK
  <2> QED
    BY <1>3, <2>1, <2>2 DEF TaskOK, TaskSettled, Settled, Inv, Types
<1>6. PaidSettled'
  BY <1>3 DEF PaidSettled, Inv, Types, PaidStatuses, OrderStatuses, Unpaid
<1> QED
  BY <1>4, <1>5, <1>6 DEF Inv

LEMMA BeginsKeepsInv ==
    ASSUME Inv, NEW p \in Procs, NEW op, NEW sn \in OrderSns, NEW pc \in {"stock", "get"},
           NEW target \in OrderStatuses, Begins(p, op, sn, pc, target), status[sn] # NoOrder,
           pc = "stock" => target \in {"TRADE_SUCCESS", "TRADE_CLOSED"},
           pc = "get" /\ target \in PaidStatuses => Settled(sn)
    PROVE  Inv'
<1>1. /\ task' = [task EXCEPT ![p] = [pc |-> pc, sn |-> sn, target |-> target,
                                      seen |-> NoOrder, event |-> None]]
      /\ UNCHANGED <<status, statusLog, event, sellDetail>>
  BY DEF Begins, Starts, stockVars
<1>2. Types'
  BY <1>1 DEF Inv, Types, Tasks
<1>3. ASSUME NEW q \in Procs
      PROVE  TaskOK(q)' /\ TaskSettled(q)'
  <2>1. TaskOK(q) /\ TaskSettled(q)
    BY <1>3 DEF Inv
  <2>2. CASE q = p
    BY <1>1, <2>2 DEF TaskOK, TaskSettled, Settled, Inv, Types
  <2>3. CASE q # p
    BY <1>1, <2>1, <2>3 DEF TaskOK, TaskSettled, Settled, Inv, Types
  <2> QED
    BY <2>2, <2>3
<1>4. PaidSettled'
  BY <1>1 DEF PaidSettled, Inv
<1> QED
  BY <1>2, <1>3, <1>4 DEF Inv

LEMMA RequestKeepsInv ==
    ASSUME Inv, NEW p \in Procs, NEW sn \in OrderSns, Request(p, sn)
    PROVE  Inv'
<1> USE DEF OrderStatuses, Unpaid, PaidStatuses, NoOrder
<1>1. CASE InitiatePayment(p, sn)
  BY <1>1, BeginsKeepsInv DEF InitiatePayment
<1>2. CASE CancelOrder(p, sn)
  BY <1>2, BeginsKeepsInv DEF CancelOrder
<1>3. CASE processExpiredOrdersOnce(p, sn)
  BY <1>3, BeginsKeepsInv DEF processExpiredOrdersOnce
<1>4. CASE processFinishedOrdersOnce(p, sn)
  <2>1. Settled(sn)
    BY <1>4 DEF processFinishedOrdersOnce, Inv, PaidSettled, Settled
  <2> QED
    BY <1>4, <2>1, BeginsKeepsInv DEF processFinishedOrdersOnce
<1>5. CASE closeOrder(p, sn)
  BY <1>5, BeginsKeepsInv DEF closeOrder
<1>6. ASSUME NEW target \in {"TRADE_SUCCESS", "TRADE_CLOSED"},
             SimulatePayCallback(p, sn, target)
      PROVE  Inv'
  <2>1. status[sn] # NoOrder
    BY <1>6 DEF SimulatePayCallback, canApplyPayCallback
  <2> QED
    BY <1>6, <2>1, BeginsKeepsInv DEF SimulatePayCallback
<1> QED
  BY <1>1, <1>2, <1>3, <1>4, <1>5, <1>6 DEF Request

LEMMA CallbackKeepsInv ==
    ASSUME Inv, NEW p \in Procs, NEW e \in Events, ProcessPayCallback(p, e)
    PROVE  Inv'
<1>1. /\ task' = [task EXCEPT ![p] = [pc |-> IF e.ok THEN "look" ELSE "failed",
                                      sn |-> e.sn, target |-> EventTarget(e.type),
                                      seen |-> NoOrder, event |-> e]]
      /\ status[e.sn] # NoOrder
      /\ event' = [event EXCEPT ![e] = "processing"]
      /\ UNCHANGED <<status, statusLog, sellDetail>>
  BY DEF ProcessPayCallback, BeginPaymentEvent, Starts, stockVars
<1>2. /\ e.sn \in OrderSns
      /\ EventTarget(e.type) \in {"TRADE_SUCCESS", "TRADE_CLOSED"}
  BY EventsAssumption, PaymentEventsAssumption DEF EventTarget
<1>3. Types'
  BY <1>1, <1>2 DEF Inv, Types, Tasks, EventStatuses, OrderStatuses
<1>4. ASSUME NEW q \in Procs
      PROVE  TaskOK(q)' /\ TaskSettled(q)'
  <2>1. TaskOK(q) /\ TaskSettled(q)
    BY <1>4 DEF Inv
  <2>2. CASE q = p
    BY <1>1, <1>2, <2>2, NoneAssumption
    DEF TaskOK, TaskSettled, Settled, Inv, Types, OrderStatuses
  <2>3. CASE q # p
    BY <1>1, <2>1, <2>3 DEF TaskOK, TaskSettled, Settled, Inv, Types
  <2> QED
    BY <2>2, <2>3
<1>5. PaidSettled'
  BY <1>1 DEF PaidSettled, Inv
<1> QED
  BY <1>3, <1>4, <1>5 DEF Inv

(* A task that stops, or goes on to settle its event, disturbs nothing.     *)
LEMMA EndingKeepsInv ==
    ASSUME Inv, NEW p \in Procs, task[p].pc # "idle",
           \/ task' = [task EXCEPT ![p] = Idle]
           \/ /\ task[p].event # None
              /\ \/ task' = [task EXCEPT ![p].pc = "done"]
                 \/ task' = [task EXCEPT ![p].pc = "failed"],
           event' \in [Events -> EventStatuses],
           UNCHANGED <<status, statusLog, sellDetail>>
    PROVE  Inv'
<1>1. /\ task' \in [Procs -> Tasks]
      /\ \A q \in Procs : q # p => task'[q] = task[q]
      /\ \/ task'[p] = Idle
         \/ /\ task[p].event # None
            /\ task'[p].pc \in {"done", "failed"}
            /\ task'[p].sn = task[p].sn
            /\ task'[p].target = task[p].target
            /\ task'[p].event = task[p].event
  BY DEF Inv, Types, Tasks, Idle
<1>2. Types'
  BY <1>1 DEF Inv, Types
<1>3. ASSUME NEW q \in Procs
      PROVE  TaskOK(q)' /\ TaskSettled(q)'
  <2>1. TaskOK(q) /\ TaskSettled(q)
    BY <1>3 DEF Inv
  <2>2. CASE q = p
    BY <1>1, <2>1, <2>2 DEF TaskOK, TaskSettled, Settled, Idle
  <2>3. CASE q # p
    BY <1>1, <2>1, <2>3 DEF TaskOK, TaskSettled, Settled
  <2> QED
    BY <2>2, <2>3
<1>4. PaidSettled'
  BY DEF PaidSettled, Inv
<1> QED
  BY <1>2, <1>3, <1>4 DEF Inv
LEMMA FailsKeepsInv ==
    ASSUME Inv, NEW p \in Procs, task[p].pc # "idle", Fails(p),
           UNCHANGED <<status, statusLog, event, sellDetail>>
    PROVE  Inv'
<1>1. event' \in [Events -> EventStatuses]
  BY DEF Inv, Types
<1> QED
  BY <1>1, EndingKeepsInv DEF Fails, Goes

(* A task that moves on to another call, knowing what it must know there.   *)
LEMMA MovingKeepsInv ==
    ASSUME Inv, NEW p \in Procs, NEW pc \in {"stock", "get", "write"}, NEW s \in AllStatuses,
           task[p].pc # "idle",
           \/ task' = [task EXCEPT ![p].pc = pc]
           \/ task' = [task EXCEPT ![p].pc = pc, ![p].seen = s],
           UNCHANGED <<status, statusLog, event>>,
           sellDetail' \in [OrderSns -> Ledger],
           \A q \in OrderSns : Settled(q) => Settled(q)',
           pc = "stock" => task[p].target \in {"TRADE_SUCCESS", "TRADE_CLOSED"},
           pc # "stock" /\ task[p].target \in PaidStatuses => sellDetail'[task[p].sn].status # "reserved"
    PROVE  Inv'
<1>1. /\ task' \in [Procs -> Tasks]
      /\ \A q \in Procs : q # p => task'[q] = task[q]
      /\ task'[p].pc = pc
      /\ task'[p].sn = task[p].sn
      /\ task'[p].target = task[p].target
      /\ task'[p].event = task[p].event
  BY DEF Inv, Types, Tasks, AllStatuses
<1>2. Types'
  BY <1>1 DEF Inv, Types
<1>3. ASSUME NEW q \in Procs
      PROVE  TaskOK(q)' /\ TaskSettled(q)'
  <2>1. TaskOK(q) /\ TaskSettled(q)
    BY <1>3 DEF Inv
  <2>2. CASE q = p
    BY <1>1, <2>1, <2>2 DEF TaskOK, TaskSettled, Settled
  <2>3. CASE q # p
    BY <1>1, <2>1, <2>3 DEF TaskOK, TaskSettled
  <2> QED
    BY <2>2, <2>3
<1>4. PaidSettled'
  BY DEF PaidSettled, Inv, Settled
<1> QED
  BY <1>2, <1>3, <1>4 DEF Inv

LEMMA LookKeepsInv ==
    ASSUME Inv, NEW p \in Procs, GetOrderBySn(p)
    PROVE  Inv'
<1>1. task[p].pc = "look" /\ UNCHANGED <<status, statusLog, event, sellDetail>>
  BY DEF GetOrderBySn, stockVars
<1>2. CASE Fails(p)
  BY <1>1, <1>2, FailsKeepsInv
<1>3. CASE Goes(p, "stock")
  <2>1. TaskOK(p)
    BY DEF Inv
  <2>2. task[p].target \in {"TRADE_SUCCESS", "TRADE_CLOSED"}
    BY <1>1, <2>1 DEF TaskOK
  <2>3. sellDetail' \in [OrderSns -> Ledger] /\ \A q \in OrderSns : Settled(q) => Settled(q)'
    BY <1>1 DEF Inv, Types, Settled
  <2>4. NoOrder \in AllStatuses
    BY DEF AllStatuses
  <2> QED
    BY <1>1, <1>3, <2>2, <2>3, <2>4, MovingKeepsInv DEF Goes
<1> QED
  BY <1>2, <1>3 DEF GetOrderBySn

LEMMA StockKeepsInv ==
    ASSUME Inv, NEW p \in Procs, CallStock(p)
    PROVE  Inv'
<1> DEFINE sn == task[p].sn
<1>1. task[p].pc = "stock" /\ UNCHANGED <<status, statusLog, event>>
  BY DEF CallStock
<1>2. sn \in OrderSns
  <2>1. TaskOK(p)
    BY DEF Inv
  <2> QED
    BY <1>1, <2>1 DEF TaskOK
<1>3. CASE sellDetail[sn].status = "reserved" /\ ~Stock!Settleable(sn)
  <2>1. Fails(p) /\ UNCHANGED stockVars
    BY <1>3 DEF CallStock
  <2> QED
    BY <1>1, <2>1, FailsKeepsInv DEF stockVars
<1>4. CASE ~(sellDetail[sn].status = "reserved" /\ ~Stock!Settleable(sn))
  <2>1. Goes(p, "get")
    BY <1>4 DEF CallStock
  <2>2. /\ sellDetail' \in [OrderSns -> Ledger]
        /\ \A q \in OrderSns : Settled(q) => Settled(q)'
        /\ sellDetail'[sn].status # "reserved"
    <3>1. CASE sellDetail[sn].status = "reserved"
      <4>1. Stock!Confirm(sn) \/ Stock!RebackReserved(sn)
        BY <1>4, <3>1 DEF CallStock
      <4> QED
        BY <1>2, <4>1, StockSettles DEF Inv, Settled
    <3>2. CASE sellDetail[sn].status # "reserved"
      <4>1. UNCHANGED stockVars
        BY <3>2 DEF CallStock
      <4> QED
        BY <3>2, <4>1 DEF stockVars, Inv, Types, Settled
    <3> QED
      BY <3>1, <3>2
  <2>3. NoOrder \in AllStatuses
    BY DEF AllStatuses
  <2> QED
    BY <1>1, <2>1, <2>2, <2>3, MovingKeepsInv DEF Goes
<1> QED
  BY <1>3, <1>4

LEMMA GetKeepsInv ==
    ASSUME Inv, NEW p \in Procs, Get(p), UNCHANGED stockVars
    PROVE  Inv'
<1>1. task[p].pc = "get" /\ UNCHANGED <<status, statusLog, event, sellDetail>>
  BY DEF Get, stockVars
<1>2. TaskOK(p) /\ TaskSettled(p)
  BY DEF Inv
<1>3. CASE Fails(p)
  BY <1>1, <1>3, FailsKeepsInv
<1>4. CASE task' = [task EXCEPT ![p].pc = "write", ![p].seen = status[task[p].sn]]
  <2>1. status[task[p].sn] \in AllStatuses
    BY <1>1, <1>2 DEF TaskOK, Inv, Types
  <2>2. sellDetail' \in [OrderSns -> Ledger] /\ \A q \in OrderSns : Settled(q) => Settled(q)'
    BY <1>1 DEF Inv, Types, Settled
  <2>3. task[p].target \in PaidStatuses => sellDetail'[task[p].sn].status # "reserved"
    BY <1>1, <1>2 DEF TaskSettled, Settled
  <2> QED
    BY <1>1, <1>4, <2>1, <2>2, <2>3, MovingKeepsInv
<1> QED
  BY <1>3, <1>4 DEF Get

LEMMA WriteKeepsInv ==
    ASSUME Inv, NEW p \in Procs, Write(p), UNCHANGED stockVars
    PROVE  Inv'
<1> DEFINE sn == task[p].sn
<1>1. /\ task[p].pc = "write"
      /\ status' = [status EXCEPT ![sn] = task[p].target]
      /\ statusLog' = [statusLog EXCEPT ![sn] = Logged(@, task[p].seen, task[p].target)]
      /\ UNCHANGED <<event, sellDetail>>
  BY DEF Write, stockVars
<1>2. TaskOK(p) /\ TaskSettled(p)
  BY DEF Inv
<1>3. sn \in OrderSns /\ task[p].target \in OrderStatuses /\ task[p].seen \in AllStatuses
  BY <1>1, <1>2 DEF TaskOK, Inv, Types, Tasks, AllStatuses
<1>4. NoOrder \notin OrderStatuses
  BY DEF NoOrder, OrderStatuses
<1>5. /\ task' \in [Procs -> Tasks]
      /\ \A q \in Procs : q # p => task'[q] = task[q]
      /\ \/ task'[p] = Idle
         \/ /\ task[p].event # None
            /\ task'[p].pc = "done"
            /\ task'[p].sn = task[p].sn
            /\ task'[p].target = task[p].target
            /\ task'[p].event = task[p].event
  BY DEF Write, Succeeds, Goes, Inv, Types, Tasks, Idle
<1>6. Types'
  <2>1. Logged(statusLog[sn], task[p].seen, task[p].target) \in Logs
    BY <1>3 DEF Inv, Types, Logs, Logged, AllStatuses
  <2>2. statusLog' \in [OrderSns -> Logs]
    BY <1>1, <2>1 DEF Inv, Types
  <2>3. status' \in [OrderSns -> AllStatuses]
    BY <1>1, <1>3 DEF Inv, Types, AllStatuses
  <2> QED
    BY <1>1, <1>5, <2>2, <2>3 DEF Inv, Types
<1>7. \A q \in OrderSns : status[q] # NoOrder => status'[q] # NoOrder
  BY <1>1, <1>3, <1>4 DEF Inv, Types
<1>8. ASSUME NEW q \in Procs
      PROVE  TaskOK(q)' /\ TaskSettled(q)'
  <2>1. TaskOK(q) /\ TaskSettled(q)
    BY <1>8 DEF Inv
  <2>2. CASE q = p
    BY <1>1, <1>5, <1>7, <2>1, <2>2 DEF TaskOK, TaskSettled, Settled, Idle
  <2>3. CASE q # p
    BY <1>1, <1>5, <1>7, <2>1, <2>3 DEF TaskOK, TaskSettled, Settled
  <2> QED
    BY <2>2, <2>3
<1>9. PaidSettled'
  BY <1>1, <1>2, <1>3 DEF PaidSettled, TaskSettled, Settled, Inv, Types
<1> QED
  BY <1>6, <1>8, <1>9 DEF Inv
LEMMA UnchangedKeepsInv ==
    ASSUME Inv, UNCHANGED <<orderVars, sellDetail>>
    PROVE  Inv'
  BY DEF Inv, orderVars, Types, TaskOK, TaskSettled, Settled, PaidSettled

LEMMA StepKeepsInv ==
    ASSUME Inv, [PNext]_pvars
    PROVE  Inv'
<1>1. CASE SetInv
  BY <1>1, UnchangedKeepsInv DEF SetInv, Stock!Create
<1>2. ASSUME NEW sn \in OrderSns, SubmitOrder(sn)
      PROVE  Inv'
  BY <1>2, SubmitKeepsInv
<1>3. ASSUME NEW p \in Procs, NEW sn \in OrderSns, Request(p, sn)
      PROVE  Inv'
  BY <1>3, RequestKeepsInv
<1>4. ASSUME NEW p \in Procs, NEW e \in Events, ProcessPayCallback(p, e)
      PROVE  Inv'
  BY <1>4, CallbackKeepsInv
<1>5. ASSUME NEW p \in Procs, Step(p)
      PROVE  Inv'
  <2>1. CASE CompletePaymentEvent(p) /\ UNCHANGED stockVars
    <3>1. event' \in [Events -> EventStatuses]
      BY <2>1 DEF CompletePaymentEvent, Inv, Types, EventStatuses
    <3> QED
      BY <1>5, <2>1, <3>1, EndingKeepsInv DEF CompletePaymentEvent, stockVars
  <2> QED
    BY <1>5, <2>1, LookKeepsInv, StockKeepsInv, GetKeepsInv, WriteKeepsInv DEF Step
<1>6. ASSUME NEW p \in Procs, CallFails(p) /\ UNCHANGED stockVars
      PROVE  Inv'
  <2>1. event' \in [Events -> EventStatuses]
    BY <1>6 DEF CallFails, Inv, Types
  <2> QED
    BY <1>6, <2>1, EndingKeepsInv DEF CallFails, Goes, stockVars
<1>7. ASSUME NEW p \in Procs, Crash(p) /\ UNCHANGED stockVars
      PROVE  Inv'
  <2>1. event' \in [Events -> EventStatuses]
    BY <1>7 DEF Crash, Inv, Types
  <2>2. CASE task[p].pc # "idle"
    BY <1>7, <2>1, <2>2, EndingKeepsInv DEF Crash, stockVars
  <2>3. CASE task[p].pc = "idle"
    <3>1. /\ task' \in [Procs -> Tasks]
          /\ \A q \in Procs : task'[q] = task[q] \/ task'[q] = Idle
          /\ UNCHANGED <<status, statusLog, event, sellDetail>>
      BY <1>7 DEF Crash, Inv, Types, Tasks, Idle, stockVars
    <3>2. \A q \in Procs : TaskOK(q)' /\ TaskSettled(q)'
      BY <3>1 DEF Inv, TaskOK, TaskSettled, Settled, Idle
    <3> QED
      BY <3>1, <3>2 DEF Inv, Types, PaidSettled
  <2> QED
    BY <2>2, <2>3
<1>8. CASE UNCHANGED pvars
  BY <1>8, UnchangedKeepsInv DEF pvars, orderVars, stockVars
<1> QED
  BY <1>1, <1>2, <1>3, <1>4, <1>5, <1>6, <1>7, <1>8 DEF PNext

(* For any number of orders, events and processes, whatever races with the  *)
(* payment and whatever fails on the way: an order is shown paid, finished  *)
(* or in refund only once its stock is settled.                             *)
THEOREM StockSettledBeforePaid == PSpec => []PaidSettled
<1>1. Inv => PaidSettled
  BY DEF Inv
<1> QED
  BY InitInv, StepKeepsInv, <1>1, PTL DEF PSpec
-----------------------------------------------------------------------------
(* The status log.  What a task has read is in the log, because every       *)
(* status ever written is: so a write that changes nothing need not log.    *)

HasEntry(sn, s) == \E entry \in statusLog[sn].entries : entry[2] = s

TaskLogged(p) ==
    /\ task[p].pc = "write" =>
         /\ HasEntry(task[p].sn, task[p].seen)
         /\ task[p].seen # NoOrder
         /\ canTransitionOrderStatus(task[p].seen, task[p].target)
    /\ task[p].pc = "done" => HasEntry(task[p].sn, task[p].target)

StatusLogged == \A sn \in OrderSns : status[sn] # NoOrder => HasEntry(sn, status[sn])

LogInv ==
    /\ StatusLogged
    /\ \A p \in Procs : TaskLogged(p)
    /\ CompletedApplied
    /\ LogLegal

LEMMA InitLogInv == PInit => LogInv
  BY DEF PInit, OInit, LogInv, StatusLogged, TaskLogged, CompletedApplied, LogLegal, NoLog, Idle

(* A step that writes no order keeps it, if the task it moves knows enough. *)
LEMMA QuietKeepsLogInv ==
    ASSUME Inv, LogInv, UNCHANGED <<status, statusLog>>,
           \A q \in Procs : task'[q] = task[q] \/ TaskLogged(q)',
           \A e \in Events : event'[e] = "completed" =>
               event[e] = "completed" \/ HasEntry(e.sn, EventTarget(e.type))
    PROVE  LogInv'
<1>1. StatusLogged' /\ LogLegal'
  BY DEF LogInv, StatusLogged, LogLegal, HasEntry
<1>2. CompletedApplied'
  BY DEF LogInv, CompletedApplied, HasEntry
<1>3. ASSUME NEW q \in Procs
      PROVE  TaskLogged(q)'
  <2>1. TaskLogged(q)
    BY <1>3 DEF LogInv
  <2> QED
    BY <2>1 DEF TaskLogged, HasEntry
<1> QED
  BY <1>1, <1>2, <1>3 DEF LogInv

(* A step that puts a status in the log, or one that is there already.      *)
LEMMA LoggingKeepsLogInv ==
    ASSUME Inv, LogInv, NEW sn \in OrderSns, NEW from \in AllStatuses, NEW to \in OrderStatuses,
           from = NoOrder \/ canTransitionOrderStatus(from, to),
           from = to => HasEntry(sn, to),
           status' = [status EXCEPT ![sn] = to],
           statusLog' = [statusLog EXCEPT ![sn] = Logged(@, from, to)],
           UNCHANGED event,
           \A q \in Procs : \/ task'[q] = task[q]
                            \/ task'[q].pc = "idle"
                            \/ task'[q].pc = "done" /\ task'[q].sn = sn /\ task'[q].target = to
    PROVE  LogInv'
<1>1. /\ status \in [OrderSns -> AllStatuses]
      /\ statusLog \in [OrderSns -> Logs]
  BY DEF Inv, Types
<1>2. \A q \in OrderSns : statusLog[q].entries \subseteq statusLog'[q].entries
  BY <1>1 DEF Logged
<1>3. \A q \in OrderSns, s \in AllStatuses : HasEntry(q, s) => HasEntry(q, s)'
  BY <1>2 DEF HasEntry
<1>4. HasEntry(sn, to)'
  <2>1. CASE from = to
    BY <1>3, <2>1 DEF AllStatuses
  <2>2. CASE from # to
    <3>1. <<from, to>> \in statusLog'[sn].entries
      BY <1>1, <2>2 DEF Logged
    <3> QED
      BY <3>1 DEF HasEntry
  <2> QED
    BY <2>1, <2>2
<1>5. StatusLogged'
  BY <1>1, <1>3, <1>4 DEF LogInv, StatusLogged
<1>6. CompletedApplied'
  <2>1. ASSUME NEW e \in Events, event[e] = "completed"
        PROVE  \E entry \in statusLog'[e.sn].entries : entry[2] = EventTarget(e.type)
    BY <1>2, <2>1, EventsAssumption DEF LogInv, CompletedApplied
  <2> QED
    BY <2>1 DEF CompletedApplied
<1>7. LogLegal'
  <2>1. ASSUME NEW q \in OrderSns, NEW entry \in statusLog'[q].entries
        PROVE  entry[1] = NoOrder \/ entry[2] \in Successors(entry[1])
    <3>1. entry \in statusLog[q].entries \/ (from # to /\ entry = <<from, to>>)
      BY <1>1, <2>1 DEF Logged
    <3> QED
      BY <3>1 DEF LogInv, LogLegal, canTransitionOrderStatus
  <2> QED
    BY <2>1 DEF LogLegal
<1>8. ASSUME NEW q \in Procs
      PROVE  TaskLogged(q)'
  <2>1. TaskLogged(q) /\ TaskOK(q) /\ task[q] \in Tasks
    BY <1>8 DEF LogInv, Inv, Types
  <2>2. CASE task'[q] = task[q]
    <3>1. task[q].pc # "idle" => task[q].sn \in OrderSns
      BY <2>1 DEF TaskOK
    <3>2. task[q].seen \in AllStatuses /\ task[q].target \in AllStatuses
      BY <2>1 DEF Tasks, AllStatuses
    <3> QED
      BY <1>3, <2>1, <2>2, <3>1, <3>2 DEF TaskLogged, HasEntry
  <2>3. CASE task'[q] # task[q]
    BY <1>4, <1>8, <2>3 DEF TaskLogged, HasEntry
  <2> QED
    BY <2>2, <2>3
<1> QED
  BY <1>5, <1>6, <1>7, <1>8 DEF LogInv
LEMMA StepKeepsLogInv ==
    ASSUME Inv, LogInv, [PNext]_pvars
    PROVE  LogInv'
<1> USE DEF Inv, Types
<1>1. CASE SetInv \/ UNCHANGED pvars
  BY <1>1, QuietKeepsLogInv DEF SetInv, pvars, orderVars
<1>2. ASSUME NEW sn \in OrderSns, SubmitOrder(sn)
      PROVE  LogInv'
  <2>1. NoOrder \in AllStatuses /\ "WAIT_BUYER_PAY" \in OrderStatuses /\ NoOrder # "WAIT_BUYER_PAY"
    BY DEF AllStatuses, OrderStatuses, NoOrder
  <2> QED
    BY <1>2, <2>1, LoggingKeepsLogInv DEF SubmitOrder, CreateOrder
<1>3. ASSUME NEW p \in Procs, NEW sn \in OrderSns, Request(p, sn)
      PROVE  LogInv'
  <2> USE DEF Request, InitiatePayment, CancelOrder, processExpiredOrdersOnce,
          processFinishedOrdersOnce, closeOrder, SimulatePayCallback, Begins
  <2>1. \A q \in Procs : task'[q] = task[q] \/ task'[q].pc \in {"stock", "get"}
    BY <1>3 DEF Starts
  <2>2. \A q \in Procs : task'[q] = task[q] \/ TaskLogged(q)'
    BY <2>1 DEF TaskLogged
  <2> QED
    BY <1>3, <2>2, QuietKeepsLogInv
<1>4. ASSUME NEW p \in Procs, NEW e \in Events, ProcessPayCallback(p, e)
      PROVE  LogInv'
  <2>1. \A q \in Procs : task'[q] = task[q] \/ task'[q].pc \in {"look", "failed"}
    BY <1>4 DEF ProcessPayCallback, BeginPaymentEvent, Starts
  <2>2. \A q \in Procs : task'[q] = task[q] \/ TaskLogged(q)'
    BY <2>1 DEF TaskLogged
  <2>3. \A f \in Events : event'[f] = "completed" => event[f] = "completed"
    BY <1>4 DEF ProcessPayCallback, BeginPaymentEvent
  <2> QED
    BY <1>4, <2>2, <2>3, QuietKeepsLogInv DEF ProcessPayCallback, BeginPaymentEvent
<1>5. ASSUME NEW p \in Procs, GetOrderBySn(p) \/ CallStock(p) \/ CallFails(p) \/ Crash(p)
      PROVE  LogInv'
  <2>1. \A q \in Procs : task'[q] = task[q] \/ task'[q].pc \in {"idle", "stock", "get", "failed"}
    BY <1>5 DEF GetOrderBySn, CallStock, CallFails, Crash, Fails, Goes, Idle, Tasks
  <2>2. \A q \in Procs : task'[q] = task[q] \/ TaskLogged(q)'
    BY <2>1 DEF TaskLogged
  <2> QED
    BY <1>5, <2>2, QuietKeepsLogInv DEF GetOrderBySn, CallStock, CallFails, Crash
<1>6. ASSUME NEW p \in Procs, Get(p)
      PROVE  LogInv'
  <2>1. TaskOK(p)
    OBVIOUS
  <2>2. CASE Fails(p)
    <3>1. \A q \in Procs : task'[q] = task[q] \/ task'[q].pc \in {"idle", "failed"}
      BY <2>2 DEF Fails, Goes, Idle, Tasks
    <3>2. \A q \in Procs : task'[q] = task[q] \/ TaskLogged(q)'
      BY <3>1 DEF TaskLogged
    <3> QED
      BY <1>6, <3>2, QuietKeepsLogInv DEF Get
  <2>3. CASE /\ canTransitionOrderStatus(status[task[p].sn], task[p].target)
             /\ task' = [task EXCEPT ![p].pc = "write", ![p].seen = status[task[p].sn]]
    <3>1. task[p].sn \in OrderSns /\ status[task[p].sn] # NoOrder
      BY <1>6, <2>1 DEF Get, TaskOK
    <3>2. HasEntry(task[p].sn, status[task[p].sn])
      BY <3>1 DEF LogInv, StatusLogged
    <3>3. /\ task'[p].pc = "write" /\ task'[p].sn = task[p].sn
          /\ task'[p].target = task[p].target /\ task'[p].seen = status[task[p].sn]
          /\ \A q \in Procs : q # p => task'[q] = task[q]
          /\ UNCHANGED <<status, statusLog, event>>
      BY <1>6, <2>3 DEF Get, Tasks
    <3>4. TaskLogged(p)'
      BY <2>3, <3>1, <3>2, <3>3 DEF TaskLogged, HasEntry
    <3> QED
      BY <3>3, <3>4, QuietKeepsLogInv
  <2> QED
    BY <1>6, <2>2, <2>3 DEF Get
<1>7. ASSUME NEW p \in Procs, Write(p)
      PROVE  LogInv'
  <2>1. TaskOK(p) /\ TaskLogged(p) /\ task[p] \in Tasks /\ task[p].pc = "write"
    BY <1>7 DEF LogInv, Write
  <2>2. /\ task[p].sn \in OrderSns /\ task[p].target \in OrderStatuses
        /\ task[p].seen \in AllStatuses
        /\ HasEntry(task[p].sn, task[p].seen)
        /\ canTransitionOrderStatus(task[p].seen, task[p].target)
    BY <2>1 DEF TaskOK, TaskLogged, Tasks, AllStatuses
  <2>3. \A q \in Procs : \/ task'[q] = task[q]
                         \/ task'[q].pc = "idle"
                         \/ /\ task'[q].pc = "done" /\ task'[q].sn = task[p].sn
                            /\ task'[q].target = task[p].target
    BY <1>7 DEF Write, Succeeds, Goes, Idle, Tasks
  <2> QED
    BY <1>7, <2>2, <2>3, LoggingKeepsLogInv DEF Write
<1>8. ASSUME NEW p \in Procs, CompletePaymentEvent(p)
      PROVE  LogInv'
  <2>1. TaskOK(p) /\ TaskLogged(p) /\ task[p].pc \in {"done", "failed"}
    BY <1>8 DEF LogInv, CompletePaymentEvent
  <2>2. task[p].event \in Events /\ task[p].sn = task[p].event.sn
        /\ task[p].target = EventTarget(task[p].event.type)
    BY <2>1 DEF TaskOK
  <2>3. \A e \in Events : event'[e] = "completed" =>
            event[e] = "completed" \/ HasEntry(e.sn, EventTarget(e.type))
    BY <1>8, <2>1, <2>2 DEF CompletePaymentEvent, TaskLogged
  <2>4. \A q \in Procs : task'[q] = task[q] \/ task'[q].pc = "idle"
    BY <1>8 DEF CompletePaymentEvent, Idle
  <2>5. \A q \in Procs : task'[q] = task[q] \/ TaskLogged(q)'
    BY <2>4 DEF TaskLogged
  <2> QED
    BY <1>8, <2>3, <2>5, QuietKeepsLogInv DEF CompletePaymentEvent
<1> QED
  BY <1>1, <1>2, <1>3, <1>4, <1>5, <1>6, <1>7, <1>8 DEF PNext, Step

(* Whatever is delivered twice, redelivered after a failure or answered     *)
(* into the void: an event is marked completed only when its order's log    *)
(* shows the change it asks for.                                            *)
THEOREM CompletedEventsApplied == PSpec => []CompletedApplied
<1>1. LogInv => CompletedApplied
  BY DEF LogInv
<1> QED
  BY InitInv, StepKeepsInv, InitLogInv, StepKeepsLogInv, <1>1, PTL DEF PSpec

(* The log of an order never records a change the state machine forbids,    *)
(* although the status it was written over may have been another.           *)
THEOREM LoggedChangesLegal == PSpec => []LogLegal
<1>1. LogInv => LogLegal
  BY DEF LogInv
<1> QED
  BY InitInv, StepKeepsInv, InitLogInv, StepKeepsLogInv, <1>1, PTL DEF PSpec
=============================================================================
