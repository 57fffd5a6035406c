------------------------------- MODULE Refund -------------------------------
(***************************************************************************)
(* Refunds of a paid order.  The console asks for one (UpdateOrderStatus   *)
(* to REFUND_PENDING, which writes a refund request and its outbox row in  *)
(* the same transaction); the workers of the gateway claim the rows, call  *)
(* the payment provider and report the outcome; the provider may also call *)
(* back; the sweep of the order service may finish the order meanwhile;    *)
(* an operator may put a dead job back.                                    *)
(***************************************************************************)
EXTENDS OrderService, FiniteSetsExt

CONSTANTS
    Workers,       \* refund workers
    Amounts,       \* the amounts the console asks for
    Total,         \* orderinfo.order_mount_fen
    MaxRequests,   \* bound: refund requests
    MaxAttempts,   \* payment.max-attempts
    Finishes,      \* whether the finish sweep runs
    LeaseHolds     \* whether the lease of a job outlives the work on it

VARIABLES
    request,   \* order_refund_requests by id
    outbox,    \* order_refund_outbox by request id
    job,       \* what each worker is doing
    verdict    \* what the provider has done with each request

refundVars == <<request, outbox, job, verdict>>

rvars == <<orderVars, refundVars>>

Ids == 1 .. MaxRequests

ASSUME RefundAssumption ==
    /\ Total \in Nat /\ Amounts \subseteq Nat \ {0}
    /\ MaxRequests \in Nat /\ MaxAttempts \in Nat \ {0}
    /\ Finishes \in BOOLEAN /\ LeaseHolds \in BOOLEAN
    /\ \A e \in Events : e.type \in {"refund_succeeded", "refund_failed"} /\ e.refund \in Ids

NoRequest == [sn |-> None, amount |-> 0, status |-> "absent"]

RefundRequestDO == [sn : OrderSns \cup {None}, amount : Amounts \cup {0},
                    status : {"absent", "REFUND_PENDING", "PROCESSING", "REFUNDED", "FAILED"}]

NoRow == [status |-> "absent", attempts |-> 0]

(* Attempts are counted up to one more than the limit.                      *)
RefundOutboxDO == [status : {"absent", "pending", "processing", "retry", "completed", "dead"},
                   attempts : 0 .. MaxAttempts + 1]

NoJob == [pc |-> "idle", id |-> 0]

Verdicts == {"unknown", "accepted", "refunded", "declined"}

RInit ==
    /\ status = [sn \in OrderSns |-> "TRADE_SUCCESS"]
    /\ statusLog = [sn \in OrderSns |->
                      [entries |-> {<<NoOrder, "WAIT_BUYER_PAY">>,
                                    <<"WAIT_BUYER_PAY", "TRADE_SUCCESS">>},
                       last |-> "TRADE_SUCCESS"]]
    /\ event = [e \in Events |-> "new"]
    /\ task = [p \in Procs |-> Idle]
    /\ faults = 0
    /\ request = [r \in Ids |-> NoRequest]
    /\ outbox = [r \in Ids |-> NoRow]
    /\ job = [w \in Workers |-> NoJob]
    /\ verdict = [r \in Ids |-> "unknown"]

-----------------------------------------------------------------------------
(* Requests on the order.                                                   *)

Unused == {r \in Ids : request[r].status = "absent"}

(* The console's refundOrder, and the finish sweep's candidate.             *)
RefundOrder(p, sn) ==
    /\ Cardinality(Unused) > Cardinality({q \in Procs : task[q].target = "REFUND_PENDING"})
    /\ Starts(p, "get", sn, "REFUND_PENDING", None)
    /\ UNCHANGED <<status, statusLog, event, faults, refundVars>>

FinishOrder(p, sn) ==
    /\ Finishes
    /\ status[sn] = "TRADE_SUCCESS"
    /\ Starts(p, "get", sn, "TRADE_FINISHED", None)
    /\ UNCHANGED <<status, statusLog, event, faults, refundVars>>

CreateRequestOnly(sn) ==
    \E r \in Unused, a \in Amounts :
        /\ \A q \in Unused : r <= q
        /\ a <= Total
        /\ request' = [request EXCEPT ![r] = [sn |-> sn, amount |-> a, status |-> "REFUND_PENDING"]]
        /\ UNCHANGED outbox

(* The request and its outbox row.  Only this one amount is held against    *)
(* the order's total.                                                       *)
CreateRefundRequest(sn) ==
    \E r \in Unused, a \in Amounts :
        /\ \A q \in Unused : r <= q
        /\ a <= Total
        /\ request' = [request EXCEPT ![r] = [sn |-> sn, amount |-> a, status |-> "REFUND_PENDING"]]
        /\ outbox' = [outbox EXCEPT ![r] = [status |-> "pending", attempts |-> 0]]

UpdateOrder(p) ==
    /\ Write(p)
    /\ IF task[p].target = "REFUND_PENDING" THEN CreateRefundRequest(task[p].sn)
                                            ELSE UNCHANGED <<request, outbox>>
    /\ UNCHANGED <<job, verdict>>

(* The provider calls back about a refund it has decided.                   *)
RefundCallback(p, e) ==
    /\ verdict[e.refund] = (IF e.type = "refund_succeeded" THEN "refunded" ELSE "declined")
    /\ BeginPaymentEvent(p, e)
    /\ UNCHANGED refundVars

GetOrderBySn(p) ==
    /\ task[p].pc = "look"
    /\ IF paymentEventAllowed(task[p].event.type, status[task[p].sn])
         THEN Goes(p, "get")
         ELSE Fails(p)
    /\ UNCHANGED <<status, statusLog, event, faults, refundVars>>

(* A completed callback also closes the latest open request of the order.   *)
OpenRequests(sn) ==
    {r \in Ids : request[r].sn = sn /\ request[r].status \in {"REFUND_PENDING", "PROCESSING"}}

CompleteRefundEvent(p) ==
    /\ CompletePaymentEvent(p)
    /\ request' =
         IF task[p].pc = "done" /\ OpenRequests(task[p].sn) # {}
         THEN [request EXCEPT ![Max(OpenRequests(task[p].sn))].status =
                 IF task[p].event.type = "refund_succeeded" THEN "REFUNDED" ELSE "FAILED"]
         ELSE request
    /\ UNCHANGED <<outbox, job, verdict>>

Step(p) ==
    \/ GetOrderBySn(p)
    \/ Get(p) /\ UNCHANGED refundVars
    \/ UpdateOrder(p)
    \/ CompleteRefundEvent(p)

-----------------------------------------------------------------------------
(* The workers.                                                             *)

ClaimableLimited(row) ==
    \/ row.status \in {"pending", "retry"} /\ row.attempts < MaxAttempts
    \/ row.status = "processing" /\ row.attempts < MaxAttempts

(* A row is claimed when it is due, or when the lease of its claim is over: *)
(* then it may be claimed again however often it was before.                *)
Claimable(row) ==
    \/ row.status \in {"pending", "retry"} /\ row.attempts < MaxAttempts
    \/ row.status = "processing"

(* The lease is longer than a batch and its last report may take.  A report *)
(* the server executes after its caller gave up is past it all the same.    *)
Held(r) == \E w \in Workers : job[w].pc # "idle" /\ job[w].id = r

ClaimRefundJobs(w, r) ==
    /\ job[w] = NoJob
    /\ Claimable(outbox[r])
    /\ LeaseHolds => ~Held(r)
    /\ outbox' = [outbox EXCEPT ![r] = [status |-> "processing",
                                        attempts |-> Min({@.attempts + 1, MaxAttempts + 1})]]
    /\ job' = [job EXCEPT ![w] = [pc |-> "call", id |-> r]]
    /\ UNCHANGED <<orderVars, request, verdict>>

(* The provider is external.  It executes a request id at most once and     *)
(* answers a repeated one with what it has done; it may take a request and  *)
(* decide later, refuse it, or answer too late for the caller to hear.      *)
ProviderRefund(w) ==
    LET r == job[w].id IN
    /\ job[w].pc = "call"
    /\ verdict' \in {[verdict EXCEPT ![r] = v] :
                       v \in IF verdict[r] = "unknown" THEN {"unknown", "accepted", "refunded"}
                                                       ELSE {verdict[r]}}
    /\ job' = [job EXCEPT ![w].pc = CASE verdict'[r] = "refunded" -> "refunded"
                                      [] verdict'[r] = "accepted" -> "accepted"
                                      [] OTHER                    -> "error"]
    /\ UNCHANGED <<orderVars, request, outbox>>

ProviderDecides(r) ==
    /\ verdict[r] = "accepted"
    /\ \E v \in {"refunded", "declined"} : verdict' = [verdict EXCEPT ![r] = v]
    /\ UNCHANGED <<orderVars, request, outbox, job>>

CallTimesOut(w) ==
    /\ job[w].pc \in {"refunded", "accepted"}
    /\ faults < MaxFaults
    /\ faults' = faults + 1
    /\ job' = [job EXCEPT ![w].pc = "error"]
    /\ UNCHANGED <<status, statusLog, event, task, request, outbox, verdict>>

(* Moves the order from one status to another, unless it is there already;  *)
(* in any other status the transaction is refused.                          *)
RefundStatusOK(sn, from, to) == status[sn] \in {from, to}

updateRefundOrderStatus(sn, from, to) ==
    /\ RefundStatusOK(sn, from, to)
    /\ status' = [status EXCEPT ![sn] = to]
    /\ statusLog' = [statusLog EXCEPT ![sn] = Logged(@, status[sn], to)]

(* CompleteRefundJob by its outcome: the provider has refunded; it has      *)
(* taken the request; it failed and the job is dead, or is tried again.     *)
Refunded(r) ==
    /\ updateRefundOrderStatus(request[r].sn, "REFUND_PENDING", "REFUNDED")
    /\ request' = [request EXCEPT ![r].status = "REFUNDED"]
    /\ outbox' = [outbox EXCEPT ![r].status = "completed"]

AcceptedAsRefunded(r) ==
    /\ updateRefundOrderStatus(request[r].sn, "REFUND_PENDING", "REFUNDED")
    /\ request' = [request EXCEPT ![r].status = "REFUNDED"]
    /\ outbox' = [outbox EXCEPT ![r].status = "completed"]

Accepted(r) ==
    /\ request' = [request EXCEPT ![r].status = "PROCESSING"]
    /\ outbox' = [outbox EXCEPT ![r].status = "completed"]
    /\ UNCHANGED <<status, statusLog>>

DeadQuietly(r) ==
    /\ outbox' = [outbox EXCEPT ![r].status = "dead"]
    /\ UNCHANGED <<status, statusLog, request>>

Dead(r) ==
    /\ updateRefundOrderStatus(request[r].sn, "REFUND_PENDING", "REFUND_FAILED")
    /\ request' = [request EXCEPT ![r].status = "FAILED"]
    /\ outbox' = [outbox EXCEPT ![r].status = "dead"]

Retry(r) ==
    /\ outbox' = [outbox EXCEPT ![r].status = "retry"]
    /\ UNCHANGED <<status, statusLog, request>>

(* Whether the transaction goes through; if not it leaves the row claimed.  *)
CompleteOK(w) ==
    LET r == job[w].id IN
    /\ outbox[r].status = "processing"
    /\ job[w].pc = "refunded" =>
         RefundStatusOK(request[r].sn, "REFUND_PENDING", "REFUNDED")
    /\ job[w].pc = "error" /\ outbox[r].attempts >= MaxAttempts =>
         RefundStatusOK(request[r].sn, "REFUND_PENDING", "REFUND_FAILED")

CompleteRefundJob(w) ==
    LET r == job[w].id IN
    /\ job[w].pc \in {"refunded", "accepted", "error"}
    /\ IF CompleteOK(w)
         THEN CASE job[w].pc = "refunded" -> Refunded(r)
                [] job[w].pc = "accepted" -> Accepted(r)
                [] OTHER -> IF outbox[r].attempts >= MaxAttempts THEN Dead(r) ELSE Retry(r)
         ELSE UNCHANGED <<status, statusLog, request, outbox>>
    /\ job' = [job EXCEPT ![w] = NoJob]
    /\ UNCHANGED <<event, task, faults, verdict>>

WorkerStep(w) == ProviderRefund(w) \/ CompleteRefundJob(w)

WorkerCrash(w) ==
    /\ job[w] # NoJob
    /\ faults < MaxFaults
    /\ faults' = faults + 1
    /\ job' = [job EXCEPT ![w] = NoJob]
    /\ UNCHANGED <<status, statusLog, event, task, request, outbox, verdict>>

(* An operator puts a dead job back.                                        *)
RetryDeadRefundJob(r) ==
    LET sn == request[r].sn IN
    /\ outbox[r].status = "dead"
    /\ request' = IF request[r].status = "FAILED" THEN [request EXCEPT ![r].status = "PROCESSING"]
                                                  ELSE request
    /\ IF status[sn] = "REFUND_FAILED"
         THEN updateRefundOrderStatus(sn, "REFUND_FAILED", "REFUND_PENDING")
         ELSE UNCHANGED <<status, statusLog>>
    /\ outbox' = [outbox EXCEPT ![r] = [status |-> "retry", attempts |-> 0]]
    /\ UNCHANGED <<event, task, faults, job, verdict>>

-----------------------------------------------------------------------------
RNext ==
    \/ \E p \in Procs, sn \in OrderSns : RefundOrder(p, sn) \/ FinishOrder(p, sn)
    \/ \E p \in Procs, e \in Events : RefundCallback(p, e)
    \/ \E p \in Procs :
        \/ Step(p)
        \/ CallFails(p) /\ UNCHANGED refundVars
        \/ Crash(p) /\ UNCHANGED refundVars
    \/ \E w \in Workers, r \in Ids : ClaimRefundJobs(w, r)
    \/ \E w \in Workers : WorkerStep(w) \/ CallTimesOut(w) \/ WorkerCrash(w)
    \/ \E r \in Ids : ProviderDecides(r) \/ RetryDeadRefundJob(r)

RSpec == RInit /\ [][RNext]_rvars

(* Requests and workers go on; the workers poll; the provider decides what  *)
(* it has taken and delivers its events.                                    *)
Fairness ==
    /\ \A p \in Procs : WF_rvars(Step(p))
    /\ \A p \in Procs, e \in Events : SF_rvars(RefundCallback(p, e))
    /\ \A w \in Workers : WF_rvars(WorkerStep(w))
    /\ \A r \in Ids : WF_rvars(\E w \in Workers : ClaimRefundJobs(w, r))
    /\ \A r \in Ids : WF_rvars(ProviderDecides(r))

FairSpec == RSpec /\ Fairness

-----------------------------------------------------------------------------
(* Every variable holds a value of its kind, and a request has its outbox   *)
(* row.                                                                     *)
RTypeOK ==
    /\ status \in [OrderSns -> OrderStatuses]
    /\ event \in [Events -> EventStatuses]
    /\ task \in [Procs -> Tasks]
    /\ request \in [Ids -> RefundRequestDO]
    /\ outbox \in [Ids -> RefundOutboxDO]
    /\ verdict \in [Ids -> Verdicts]
    /\ \A r \in Ids : request[r].status = "absent" <=> outbox[r].status = "absent"

(* An order is shown as refunded only if the provider has paid one of its   *)
(* refunds out, whoever reports it and in whatever order (CompleteRefundJob,*)
(* ProcessPayCallback).                                                     *)
RefundedPaid ==
    \A sn \in OrderSns : status[sn] = "REFUNDED" =>
        \E r \in Ids : request[r].sn = sn /\ verdict[r] = "refunded"

(* A dead job has a failed request, whatever callback or late report of     *)
(* another worker comes in: what the operator sees dead can be put back     *)
(* (CompleteRefundJob, CompletePaymentEvent, RetryDeadRefundJob).           *)
DeadFailed == \A r \in Ids : outbox[r].status = "dead" => request[r].status = "FAILED"

(* Every job comes to an end, completed or dead (docs/rules/operations.md:  *)
(* 109-110), although calls time out and workers die.                       *)
JobsEnd ==
    \A r \in Ids : outbox[r].status \in {"pending", "processing", "retry"}
                     ~> outbox[r].status \in {"completed", "dead"}

(* An event whose callback died: it stays "processing", so that             *)
(* BeginPaymentEvent refuses every redelivery.                              *)
Abandoned(e) == event[e] = "processing" /\ \A p \in Procs : task[p].event # e

(* An order whose refund is asked for does not stay REFUND_PENDING, unless  *)
(* the provider's last word was abandoned (runRefunds, ProcessPayCallback). *)
RefundEnds ==
    \A sn \in OrderSns :
        status[sn] = "REFUND_PENDING" ~>
            status[sn] # "REFUND_PENDING" \/ \E e \in Events : Abandoned(e)

-----------------------------------------------------------------------------
(* Statements of the repository that the code does not keep.                *)

(* Refunds do not exceed the order's total (service/v1/order.go:554-557).   *)
RefundsWithinTotal ==
    \A sn \in OrderSns :
        MapThenSumSet(LAMBDA r : request[r].amount,
                      {r \in Ids : request[r].sn = sn /\ verdict[r] = "refunded"}) <= Total
=============================================================================
