---------------------------- MODULE OrderService ----------------------------
(***************************************************************************)
(* The order service's tables (app/order/srv) and the steps of the requests*)
(* that change an order's status: UpdateOrderStatus, which reads the order *)
(* and then writes it in a transaction of its own, and the claim on a      *)
(* payment event that brackets the handling of a provider callback.        *)
(*                                                                         *)
(* A request is a task of a process: its pc says which call comes next.    *)
(* The modules that extend this one say how tasks start and what they do   *)
(* between the claim and the update.                                       *)
(***************************************************************************)
EXTENDS OrderStatus, Naturals

CONSTANTS
    OrderSns,   \* order numbers
    Events,     \* provider events: [id, sn, type, ok], ok = the amount is right
    Procs,      \* goroutines of the gateway, the console and the workers
    None,       \* no event: the task is not a callback
    MaxFaults   \* bound: crashes and failed calls in a behaviour

ASSUME EventsAssumption ==
    \A e \in Events : e.sn \in OrderSns /\ e.type \in EventTypes /\ e.ok \in BOOLEAN
ASSUME NoneAssumption == None \notin Events

VARIABLES
    status,     \* orderinfo.status, NoOrder where there is no row
    statusLog,  \* order_status_logs: the entries, and the to_status of the last
    event,      \* payment_events.status, "new" where there is no row
    task,       \* what each process is doing
    faults      \* how many faults there have been

orderVars == <<status, statusLog, event, task, faults>>

EventStatuses == {"new", "processing", "failed", "completed"}

Idle == [pc |-> "idle", sn |-> None, target |-> NoOrder, seen |-> NoOrder, event |-> None]

Tasks == [pc : {"idle", "look", "stock", "get", "write", "done", "failed"},
          sn : OrderSns \cup {None}, target : OrderStatuses \cup {NoOrder},
          seen : OrderStatuses \cup {NoOrder}, event : Events \cup {None}]

NoLog == [entries |-> {}, last |-> NoOrder]

Logged(log, from, to) ==
    IF from = to THEN log
                 ELSE [entries |-> log.entries \cup {<<from, to>>}, last |-> to]

OInit ==
    /\ status = [sn \in OrderSns |-> NoOrder]
    /\ statusLog = [sn \in OrderSns |-> NoLog]
    /\ event = [e \in Events |-> "new"]
    /\ task = [p \in Procs |-> Idle]
    /\ faults = 0

Starts(p, pc, sn, target, e) ==
    /\ task[p] = Idle
    /\ task' = [task EXCEPT ![p] = [pc |-> pc, sn |-> sn, target |-> target,
                                    seen |-> NoOrder, event |-> e]]

Goes(p, pc) == task' = [task EXCEPT ![p].pc = pc]

(* A callback settles its event on the way out, whatever happened; any      *)
(* other request just returns.                                              *)
Succeeds(p) ==
    IF task[p].event = None THEN task' = [task EXCEPT ![p] = Idle] ELSE Goes(p, "done")

Fails(p) ==
    IF task[p].event = None THEN task' = [task EXCEPT ![p] = Idle] ELSE Goes(p, "failed")

(* CreateOrder: the row and the first log entry, in one transaction.        *)
CreateOrder(sn) ==
    /\ status[sn] = NoOrder
    /\ status' = [status EXCEPT ![sn] = "WAIT_BUYER_PAY"]
    /\ statusLog' = [statusLog EXCEPT ![sn] = Logged(@, NoOrder, "WAIT_BUYER_PAY")]

(* Update, first half: read the order and check the transition.             *)
Get(p) ==
    /\ task[p].pc = "get"
    /\ IF canTransitionOrderStatus(status[task[p].sn], task[p].target)
         THEN task' = [task EXCEPT ![p].pc = "write", ![p].seen = status[task[p].sn]]
         ELSE Fails(p)
    /\ UNCHANGED <<status, statusLog, event, faults>>

WriteUnlogged(p) ==
    /\ task[p].pc = "write"
    /\ status' = [status EXCEPT ![task[p].sn] = task[p].target]
    /\ Succeeds(p)
    /\ UNCHANGED <<statusLog, event, faults>>

(* Update, second half: one transaction writes the status by order number,  *)
(* whatever it is by now, and logs the change from the status read before.  *)
Write(p) ==
    /\ task[p].pc = "write"
    /\ status' = [status EXCEPT ![task[p].sn] = task[p].target]
    /\ statusLog' = [statusLog EXCEPT ![task[p].sn] = Logged(@, task[p].seen, task[p].target)]
    /\ Succeeds(p)
    /\ UNCHANGED <<event, faults>>

BeginRepeatedly(p, e) ==
    /\ event[e] \in {"new", "processing", "failed"}
    /\ status[e.sn] # NoOrder
    /\ event' = [event EXCEPT ![e] = "processing"]
    /\ Starts(p, IF e.ok THEN "look" ELSE "failed", e.sn, EventTarget(e.type), e)
    /\ UNCHANGED <<status, statusLog, faults>>

(* A callback claims its event.  One that is being processed or completed   *)
(* is refused; a failed one is taken up again.  A wrong amount fails it.    *)
BeginPaymentEvent(p, e) ==
    /\ event[e] \in {"new", "failed"}
    /\ status[e.sn] # NoOrder
    /\ event' = [event EXCEPT ![e] = "processing"]
    /\ Starts(p, IF e.ok THEN "look" ELSE "failed", e.sn, EventTarget(e.type), e)
    /\ UNCHANGED <<status, statusLog, faults>>

CompletePaymentEvent(p) ==
    /\ task[p].pc \in {"done", "failed"}
    /\ event' = [event EXCEPT ![task[p].event] =
                    CASE @ # "processing"     -> @
                      [] task[p].pc = "done"  -> "completed"
                      [] OTHER                -> "failed"]
    /\ task' = [task EXCEPT ![p] = Idle]
    /\ UNCHANGED <<status, statusLog, faults>>

(* A call of a callback fails, or its reply is lost after it took effect.   *)
CallFails(p) ==
    /\ task[p].event # None
    /\ task[p].pc \in {"look", "stock", "get", "write", "done"}
    /\ faults < MaxFaults
    /\ faults' = faults + 1
    /\ Goes(p, "failed")
    /\ UNCHANGED <<status, statusLog, event>>

(* The process dies, or a call of a request that is no callback fails, or   *)
(* the call that settles an event does: the task ends where it is.          *)
Crash(p) ==
    /\ task[p] # Idle
    /\ faults < MaxFaults
    /\ faults' = faults + 1
    /\ task' = [task EXCEPT ![p] = Idle]
    /\ UNCHANGED <<status, statusLog, event>>
=============================================================================
