------------------------------ MODULE OrderSaga ------------------------------
(***************************************************************************)
(* One user's shopping cart and the saga that turns its checked rows into  *)
(* an order (app/order/srv: the cart handlers, Submit, Create, CreateCom). *)
(* Submit registers the saga with the DTM server under the order number;   *)
(* DTM then calls Inventory/Sell and Order/CreateOrder, and on a refusal   *)
(* Order/CreateOrderCom and Inventory/Reback.  DTM calls a branch again    *)
(* whenever its call timed out or failed without being refused, so a call  *)
(* it gave up on may still run, late, beside its successors.               *)
(***************************************************************************)
EXTENDS Integers, Sequences, FiniteSets

CONSTANTS
    Sns,         \* order numbers
    Goods,       \* goods ids
    StoreOf,     \* the store each goods belongs to, NoStore for none
    Removable,   \* the goods that may be deleted
    Rows,        \* primary keys of the inventory table
    InStock,     \* the pieces of each goods there may be at the start
    Requests,    \* the requests to change the cart, numbered in the order they come
    Slots,       \* branch calls that can run at a time
    MaxNums,     \* the most pieces a cart request asks for
    MaxTimeouts, \* how many branch calls DTM gives up on
    ListLimit,   \* 10 in the code: the rows one listing of the cart returns
    Half         \* 2^31 in the code: an int32 is in -Half .. Half-1

VARIABLES
    cart,        \* the shoppingcart table, in the order of its keys
    add,         \* how far each cart request is
    catalog,     \* the goods that exist
    orders,      \* the orderinfo table, with the items of each order
    saga,        \* what DTM knows of each order number
    call,        \* the branch calls that have not returned
    timeouts,    \* the calls DTM has given up on so far
    inv,         \* the inventory table
    sellDetail,  \* the inventory ledger
    raced,       \* history: goods two CreateCartItem requests met over
    overtaken    \* history: orders two CreateOrder calls met over

stock == <<inv, sellDetail>>
vars == <<cart, add, catalog, orders, saga, call, timeouts, stock, raced, overtaken>>

NoStore == ""
Stores == {StoreOf[g] : g \in Goods}

ASSUME SagaAssumption ==
    /\ Goods \subseteq Nat \ {0} /\ Removable \subseteq Goods
    /\ {MaxNums, MaxTimeouts, ListLimit} \subseteq Nat
    /\ Half \in Nat \ {0} /\ MaxNums < Half
    /\ Slots \subseteq Nat /\ Requests \subseteq Nat /\ DOMAIN StoreOf = Goods

Stock == INSTANCE Inventory WITH Orders <- Sns, Details <- {}, StockInputs <- {},
                                 Corrs <- {}, audits <- {}

Forward == {"sell", "create"}
Backward == {"createCom", "reback"}
Ended == {"succeed", "failed"}

ShoppingCartDO == [goods : Goods, nums : 1 .. Half - 1, checked : BOOLEAN]
OrderGoods == [goods : Goods, nums : 1 .. Half - 1]
NoRow == [goods |-> 0, nums |-> 0, checked |-> FALSE]
Request(st) == [state |-> st, row |-> NoRow, seen |-> 0]
NoCall == [sn |-> "", op |-> "none", awaited |-> FALSE, passed |-> FALSE]
NoSaga == [status |-> "none", list |-> <<>>]

-----------------------------------------------------------------------------
(* Tables.                                                                  *)

RowsOf(g) == {k \in DOMAIN cart : cart[k].goods = g}

GoodsIn(list) == {list[k].goods : k \in DOMAIN list}

(* The pieces a list of order items asks for, per goods.                    *)
aggregateOrderGoods(list) ==
    [g \in Goods |->
        LET upTo[k \in 0 .. Len(list)] ==
              IF k = 0 THEN 0
              ELSE upTo[k - 1] + IF list[k].goods = g THEN list[k].nums ELSE 0
        IN  upTo[Len(list)]]

(* The rows SubmitOrder lists: checked ones, no more than the default page. *)
List ==
    LET checked == SelectSeq(cart, LAMBDA r : r.checked)
    IN  SubSeq(checked, 1, IF Len(checked) < ListLimit THEN Len(checked) ELSE ListLimit)

DeleteByGoodsIDs(S) == SelectSeq(cart, LAMBDA r : r.goods \notin S)

UpdateNum(g, n, c) ==
    [k \in DOMAIN cart |-> IF cart[k].goods = g THEN [cart[k] EXCEPT !.nums = n, !.checked = c]
                                                ELSE cart[k]]

OrdersOf(sn) == {k \in DOMAIN orders : orders[k].sn = sn}

GetNothing(sn) == {}

(* The first order with the number, if there is one.                        *)
Get(sn) == {k \in OrdersOf(sn) : \A j \in OrdersOf(sn) : k <= j}

DeleteAt(seq, k) == SubSeq(seq, 1, k - 1) \o SubSeq(seq, k + 1, Len(seq))

-----------------------------------------------------------------------------
(* One row of each goods in the inventory, an empty cart, no orders.        *)
Init ==
    /\ cart = <<>> /\ orders = <<>>
    /\ add = [u \in Requests |-> Request("new")]
    /\ catalog = Goods
    /\ saga = [sn \in Sns |-> NoSaga]
    /\ call = [s \in Slots |-> NoCall]
    /\ timeouts = 0
    /\ \E n \in [Goods -> InStock] :
         inv = [r \in Rows |-> IF r \in Goods
                  THEN [goods |-> r, stocks |-> n[r], total |-> n[r],
                        available |-> n[r], locked |-> 0, sold |-> 0]
                  ELSE Stock!EmptyRow]
    /\ sellDetail = [sn \in Sns |-> Stock!NoDetail]
    /\ raced = {} /\ overtaken = {}

-----------------------------------------------------------------------------
(* The cart.  CreateCartItem reads the row of the goods, and in a second    *)
(* statement either overwrites it with the sum or inserts a row; the table  *)
(* has no unique key that would refuse a second row.                        *)

Arrives(u) == add[u].state = "new" /\ \A v \in Requests : add[v].state = "new" => u <= v

CreateCartItem(u, g, n, c) ==
    /\ Arrives(u)
    /\ add' = [add EXCEPT ![u] =
         [state |-> "read", row |-> [goods |-> g, nums |-> n, checked |-> c],
          seen |-> IF RowsOf(g) = {} THEN 0
                   ELSE cart[CHOOSE k \in RowsOf(g) : \A j \in RowsOf(g) : k <= j].nums]]
    /\ raced' = IF \E v \in Requests : add[v].state = "read" /\ add[v].row.goods = g
                THEN raced \cup {g} ELSE raced
    /\ UNCHANGED <<cart, catalog, orders, saga, call, timeouts, stock, overtaken>>

WriteCartItemWide(u) ==
    /\ add[u].state = "read"
    /\ cart' = IF add[u].seen = 0 THEN Append(cart, add[u].row)
               ELSE UpdateNum(add[u].row.goods, add[u].seen + add[u].row.nums, add[u].row.checked)
    /\ add' = [add EXCEPT ![u] = Request("done")]
    /\ UNCHANGED <<catalog, orders, saga, call, timeouts, stock, raced, overtaken>>

WriteCartItemInserts(u) ==
    /\ add[u].state = "read"
    /\ cart' = Append(cart, add[u].row)
    /\ add' = [add EXCEPT ![u] = Request("done")]
    /\ UNCHANGED <<catalog, orders, saga, call, timeouts, stock, raced, overtaken>>

WriteCartItem(u) ==
    LET row == add[u].row
        sum == Stock!Int32(add[u].seen + row.nums)
    IN  /\ add[u].state = "read"
        /\ cart' = CASE add[u].seen = 0 -> Append(cart, row)
                     [] add[u].seen > 0 /\ sum > 0 -> UpdateNum(row.goods, sum, row.checked)
                     [] OTHER -> cart
        /\ add' = [add EXCEPT ![u] = Request("done")]
        /\ UNCHANGED <<catalog, orders, saga, call, timeouts, stock, raced, overtaken>>

UpdateCartItem(u, g, n, c) ==
    /\ Arrives(u)
    /\ RowsOf(g) # {}
    /\ cart' = UpdateNum(g, n, c)
    /\ add' = [add EXCEPT ![u] = Request("done")]
    /\ UNCHANGED <<catalog, orders, saga, call, timeouts, stock, raced, overtaken>>

DeleteCartItem(u, k) ==
    /\ Arrives(u)
    /\ cart' = DeleteAt(cart, k)
    /\ add' = [add EXCEPT ![u] = Request("done")]
    /\ UNCHANGED <<catalog, orders, saga, call, timeouts, stock, raced, overtaken>>

(* The goods service deletes a goods.                                       *)
RemoveGoods(g) ==
    /\ g \in catalog
    /\ catalog' = catalog \ {g}
    /\ UNCHANGED <<cart, add, orders, saga, call, timeouts, stock, raced, overtaken>>

-----------------------------------------------------------------------------
(* DTM.  It takes an order number once, calls the branches in order, moves  *)
(* on when a call succeeds, turns back when one is refused (the gRPC code   *)
(* Aborted), starting with the compensation of the refused branch, and      *)
(* calls again after any other error.                                       *)

After(op, answer) ==
    CASE answer = "retry"                      -> op
      [] op = "sell" /\ answer = "ok"          -> "create"
      [] op = "sell" /\ answer = "refused"     -> "reback"
      [] op = "create" /\ answer = "ok"        -> "succeed"
      [] op = "create" /\ answer = "refused"   -> "createCom"
      [] op = "createCom" /\ answer = "ok"     -> "reback"
      [] op = "reback" /\ answer = "ok"        -> "failed"

(* The call in slot s returns.  DTM hears the answer unless it gave up.     *)
Return(s, answer) ==
    /\ call' = [call EXCEPT ![s] = NoCall]
    /\ saga' = IF call[s].awaited
               THEN [saga EXCEPT ![call[s].sn].status = After(call[s].op, answer)]
               ELSE saga
    /\ UNCHANGED <<add, catalog, timeouts, raced>>

(* SubmitOrder: the checked rows of the cart become the payload of both     *)
(* branches.  With no row it is refused.                                    *)
Submit(sn) ==
    /\ saga[sn] = NoSaga
    /\ List # <<>>
    /\ saga' = [saga EXCEPT ![sn] =
         [status |-> "sell",
          list |-> [k \in DOMAIN List |-> [goods |-> List[k].goods, nums |-> List[k].nums]]]]
    /\ UNCHANGED <<cart, add, catalog, orders, call, timeouts, stock, raced, overtaken>>

Waiting(sn) == \E s \in Slots : call[s].sn = sn /\ call[s].awaited

Free == {s \in Slots : call[s] = NoCall}

Send(sn) ==
    /\ saga[sn].status \in Forward \cup Backward
    /\ ~Waiting(sn)
    /\ \E s \in Free :
         /\ \A q \in Free : s <= q
         /\ call' = [call EXCEPT ![s] = [sn |-> sn, op |-> saga[sn].status,
                                         awaited |-> TRUE, passed |-> FALSE]]
    /\ UNCHANGED <<cart, add, catalog, orders, saga, timeouts, stock, raced, overtaken>>

Timeout(s) ==
    /\ call[s].awaited
    /\ timeouts < MaxTimeouts
    /\ timeouts' = timeouts + 1
    /\ call' = [call EXCEPT ![s].awaited = FALSE]
    /\ UNCHANGED <<cart, add, catalog, orders, saga, stock, raced, overtaken>>

-----------------------------------------------------------------------------
(* The branches.                                                            *)

Listed(s) == saga[call[s].sn].list

Asked(s) == aggregateOrderGoods(Listed(s))

SellCallUnrefused(s) ==
    /\ call[s].op = "sell"
    /\ IF sellDetail[call[s].sn].status = "absent" /\ Stock!AllMatch(Stock!Reducible, Asked(s))
       THEN Stock!Sell(call[s].sn, Asked(s)) ELSE UNCHANGED stock
    /\ Return(s, "ok")
    /\ UNCHANGED <<cart, orders, overtaken>>

(* Inventory/Sell: one item short and it is refused.                        *)
SellCall(s) ==
    LET known == sellDetail[call[s].sn].status # "absent"
        enough == Stock!AllMatch(Stock!Reducible, Asked(s))
    IN  /\ call[s].op = "sell"
        /\ IF known \/ ~enough THEN UNCHANGED stock
                               ELSE Stock!Sell(call[s].sn, Asked(s))
        /\ Return(s, IF known \/ enough THEN "ok" ELSE "refused")
        /\ UNCHANGED <<cart, orders, overtaken>>

RebackCallUnrecorded(s) ==
    /\ call[s].op = "reback"
    /\ IF sellDetail[call[s].sn].status = "reserved"
       THEN Stock!RebackReserved(call[s].sn) ELSE UNCHANGED stock
    /\ Return(s, "ok")
    /\ UNCHANGED <<cart, orders, overtaken>>

(* Inventory/Reback.                                                        *)
RebackCall(s) ==
    /\ call[s].op = "reback"
    /\ IF sellDetail[call[s].sn].status \in {"released", "confirmed"}
       THEN UNCHANGED stock ELSE Stock!Reback(call[s].sn, Asked(s))
    /\ Return(s, "ok")
    /\ UNCHANGED <<cart, orders, overtaken>>

(* Order/CreateOrder, up to its transaction.  The goods are asked for by    *)
(* id, and the answer is a map: a goods that is gone, or listed twice,      *)
(* leaves it shorter than the list.                                         *)
sameCreateOrderAndStore(k, s) ==
    /\ StoreOf[orders[k].list[1].goods] = NoStore
    /\ aggregateOrderGoods(orders[k].list) = Asked(s)

sameCreateOrder(k, s) ==
    aggregateOrderGoods(orders[k].list) = Asked(s)

Missing(list) == Cardinality(GoodsIn(list) \cap catalog) # Len(list)

StoreAt(list, k) == StoreOf[list[k].goods]

(* The first item without a store, or with another one than those before.   *)
Strays(list) ==
    {k \in DOMAIN list : StoreAt(list, k) \in {NoStore} \cup (Stores \ {StoreAt(list, 1)})}

Stray(list) == CHOOSE k \in Strays(list) : \A j \in Strays(list) : k <= j

VerdictAlwaysRetry(list) ==
    IF Missing(list) \/ Strays(list) # {} THEN "retry" ELSE "pass"

Verdict(list) ==
    CASE Missing(list) -> "retry"
      [] ~Missing(list) /\ Strays(list) # {} ->
           IF StoreAt(list, Stray(list)) = NoStore THEN "retry" ELSE "refused"
      [] OTHER -> "pass"

CheckOrder(s) ==
    LET sn == call[s].sn
    IN  /\ call[s].op = "create" /\ ~call[s].passed
        /\ CASE Get(sn) # {} ->
                  /\ Return(s, IF \E k \in Get(sn) : sameCreateOrder(k, s) THEN "ok" ELSE "refused")
                  /\ UNCHANGED overtaken
             [] Get(sn) = {} /\ Verdict(Listed(s)) # "pass" ->
                  Return(s, Verdict(Listed(s))) /\ UNCHANGED overtaken
             [] OTHER ->
                  /\ call' = [call EXCEPT ![s].passed = TRUE]
                  /\ overtaken' = IF \E q \in Slots : call[q].sn = sn /\ call[q].passed
                                  THEN overtaken \cup {sn} ELSE overtaken
                  /\ UNCHANGED <<add, catalog, saga, timeouts, raced>>
        /\ UNCHANGED <<cart, orders, stock>>

(* Its transaction: the order with its items and its first status log, and  *)
(* the cart without any row of these goods.                                 *)
InsertOrder(s) ==
    /\ call[s].op = "create" /\ call[s].passed
    /\ orders' = Append(orders, [sn |-> call[s].sn, list |-> Listed(s)])
    /\ cart' = DeleteByGoodsIDs(GoodsIn(Listed(s)))
    /\ Return(s, "ok")
    /\ UNCHANGED <<stock, overtaken>>

(* Order/CreateOrderCom: the items go back to the cart, raising a row that  *)
(* is there already, and the first order with the number goes.  Only calls  *)
(* of the same saga write that order, so the read before the transaction is *)
(* part of the step.                                                        *)
RestoreCheckedItems(list) ==
    LET asked == aggregateOrderGoods(list)
        kept == [k \in DOMAIN cart |->
                   IF cart[k].goods \in GoodsIn(list)
                   THEN [cart[k] EXCEPT !.checked = TRUE,
                           !.nums = IF @ < asked[cart[k].goods] THEN asked[cart[k].goods] ELSE @]
                   ELSE cart[k]]
        new == SelectSeq(list, LAMBDA i : RowsOf(i.goods) = {})
    IN  kept \o [k \in DOMAIN new |->
                   [goods |-> new[k].goods, nums |-> new[k].nums, checked |-> TRUE]]

CreateCom(s) ==
    /\ call[s].op = "createCom"
    /\ IF Get(call[s].sn) = {} THEN UNCHANGED <<cart, orders>>
       ELSE \E k \in Get(call[s].sn) :
              /\ cart' = RestoreCheckedItems(orders[k].list)
              /\ orders' = DeleteAt(orders, k)
    /\ Return(s, "ok")
    /\ UNCHANGED <<stock, overtaken>>

-----------------------------------------------------------------------------
Run(s) ==
    \/ SellCall(s)
    \/ RebackCall(s)
    \/ CheckOrder(s)
    \/ InsertOrder(s)
    \/ CreateCom(s)

Shop(u) ==
    \/ \E g \in Goods, n \in 1 .. MaxNums, c \in BOOLEAN :
         CreateCartItem(u, g, n, c) \/ UpdateCartItem(u, g, n, c)
    \/ WriteCartItem(u)
    \/ \E k \in DOMAIN cart : DeleteCartItem(u, k)

Next ==
    \/ \E u \in Requests : Shop(u)
    \/ \E g \in Removable : RemoveGoods(g)
    \/ \E sn \in Sns : Submit(sn) \/ Send(sn)
    \/ \E s \in Slots : Timeout(s) \/ Run(s)

(* DTM keeps calling until a saga ends, and a call it waits for returns.    *)
(* Nothing is assumed of the calls it gave up on.                           *)
Fairness ==
    \A sn \in Sns :
        /\ WF_vars(Send(sn))
        /\ WF_vars(\E s \in Slots : call[s].sn = sn /\ call[s].awaited /\ Run(s))

Spec == Init /\ [][Next]_vars /\ Fairness

-----------------------------------------------------------------------------
(* The tables and the messages hold what their columns and fields can hold; *)
(* in particular a cart row always asks for a positive int32, though two    *)
(* requests may add up to more (CreateCartItem, UpdateNum).                 *)
TypeOK ==
    /\ cart \in Seq(ShoppingCartDO)
    /\ \A u \in Requests :
         /\ add[u].state \in {"new", "read", "done"}
         /\ add[u].state = "read" => add[u].row \in ShoppingCartDO /\ add[u].seen \in 0 .. Half - 1
    /\ catalog \subseteq Goods
    /\ orders \in Seq([sn : Sns, list : Seq(OrderGoods)])
    /\ saga \in [Sns -> [status : {"none"} \cup Forward \cup Backward \cup Ended, list : Seq(OrderGoods)]]
    /\ \A s \in Slots : call[s] = NoCall
         \/ call[s] \in [sn : Sns, op : Forward \cup Backward, awaited : BOOLEAN, passed : BOOLEAN]
    /\ timeouts \in 0 .. MaxTimeouts
    /\ Stock!TypeOK
    /\ raced \subseteq Goods /\ overtaken \subseteq Sns

(* An order the user is told has been placed has an order row, and exactly  *)
(* its items are reserved in the inventory, however often Sell and          *)
(* CreateOrder were called and in whatever order the calls ran.             *)
PlacedIsReserved ==
    \A sn \in Sns : saga[sn].status = "succeed" =>
        /\ sellDetail[sn] = [status |-> "reserved", detail |-> aggregateOrderGoods(saga[sn].list)]
        /\ \E k \in OrdersOf(sn) : orders[k].list = saga[sn].list

(* A failed order holds no stock and has no order row, and this stays so    *)
(* when a Sell or a CreateOrder that DTM gave up on runs after the          *)
(* compensations: Reback leaves a record a late Sell finds, and CreateOrder *)
(* is refused only for what every call of it is refused for.                *)
FailedHoldsNothing ==
    \A sn \in Sns : saga[sn].status = "failed" =>
        sellDetail[sn].status = "released" /\ OrdersOf(sn) = {}

(* An order number has at most one order row, unless two CreateOrder calls  *)
(* were between their lookup and their insert at the same time: the column  *)
(* has no unique key, so only the lookup stands against a second row.       *)
OneOrder == \A sn \in Sns \ overtaken : Cardinality(OrdersOf(sn)) <= 1

(* A compensation never takes an order away: CreateOrder is refused only    *)
(* before it inserts, and a repeated call of it finds the same order and    *)
(* succeeds (sameCreateOrder), so CreateOrderCom finds nothing to undo.     *)
OrdersStay == [][\A k \in DOMAIN orders : k \in DOMAIN orders' /\ orders'[k] = orders[k]]_vars

(* A goods has at most one row in the cart unless two CreateCartItem        *)
(* requests for it overlapped, whatever orders, edits and removals ran in   *)
(* between; a list with two rows of a goods can never become an order.      *)
OneRow == \A g \in Goods \ raced : Cardinality(RowsOf(g)) <= 1

Hopeless(sn) ==
    \/ Missing(saga[sn].list)
    \/ \E g \in GoodsIn(saga[sn].list) : StoreOf[g] = NoStore

(* Every submitted order is placed or fails, unless one of its goods was    *)
(* deleted, has no store or was listed twice: CreateOrder then answers      *)
(* NotFound, which DTM takes for a passing error.                           *)
SubmitEnds ==
    \A sn \in Sns : saga[sn].status # "none" ~> saga[sn].status \in Ended \/ Hopeless(sn)
=============================================================================
