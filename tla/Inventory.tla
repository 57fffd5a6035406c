------------------------------ MODULE Inventory ------------------------------
(***************************************************************************)
(* The inventory service (app/inventory/srv): what each of its operations  *)
(* does to the database when its transaction runs alone.  InventoryTxn     *)
(* runs the same transactions statement by statement, concurrently, and is *)
(* shown to implement this module.                                         *)
(*                                                                         *)
(* The service keeps two tables.  `inventory` counts the pieces of each    *)
(* goods: available, locked by reservations, sold, and the legacy column   *)
(* stocks.  `stockselldetail` is the ledger: one record per order number   *)
(* with the items of the order and the status of the reservation.          *)
(***************************************************************************)
EXTENDS Integers, FiniteSetsExt

CONSTANTS
    Rows,        \* primary keys of the inventory table
    Goods,       \* goods ids
    Orders,      \* order numbers
    Details,     \* the item lists requests carry, as functions Goods -> Nat
    StockInputs, \* the bodies of SetInv and SetStock requests
    Corrs,       \* correlation ids of SetStock requests
    Half         \* 2^31 in the code: an int32 is in -Half .. Half-1

VARIABLES
    inv,         \* the inventory table; a row with goods = NoGoods is absent
    sellDetail,  \* the stockselldetail table
    audits       \* the inventory_adjustments table

vars == <<inv, sellDetail, audits>>

NoGoods == 0

ASSUME RowsAssumption == Rows \subseteq Nat
ASSUME GoodsAssumption == Goods \subseteq Nat \ {NoGoods}
ASSUME HalfAssumption == Half \in Nat \ {0}
ASSUME DetailsAssumption == Details \subseteq [Goods -> Nat]
ASSUME StockInputsAssumption ==
    StockInputs \subseteq [goods : Goods, stocks : -Half .. Half - 1, total : -Half .. Half - 1,
                           available : -Half .. Half - 1, locked : -Half .. Half - 1,
                           sold : -Half .. Half - 1]

InventoryDO == [goods : Goods \cup {NoGoods}, stocks : -Half .. Half - 1,
                total : -Half .. Half - 1, available : -Half .. Half - 1,
                locked : -Half .. Half - 1, sold : -Half .. Half - 1]

EmptyRow == [goods |-> NoGoods, stocks |-> 0, total |-> 0,
             available |-> 0, locked |-> 0, sold |-> 0]

Statuses == {"absent", "reserved", "released", "confirmed"}

StockSellDetailDO == [status : Statuses, detail : [Goods -> Nat]]

NoItems == [g \in Goods |-> 0]

NoDetail == [status |-> "absent", detail |-> NoItems]

-----------------------------------------------------------------------------
(* Requests.  An item list maps each goods to the number of pieces asked    *)
(* for; the goods it leaves out have 0.                                     *)

Items(d) == {g \in Goods : d[g] > 0}

validateStockOperation(d) == Items(d) # {}

(* Go's int32 addition wraps around.                                        *)
Int32(x) == ((x + Half) % (2 * Half)) - Half

Pieces(row) == row.available + row.locked + row.sold

Provided(in) == in.total > 0 \/ in.available > 0 \/ in.locked > 0 \/ in.sold > 0

Normalized(in) ==
    LET available == IF Provided(in) THEN in.available ELSE in.stocks
        total == CASE ~Provided(in) -> in.stocks
                   [] Provided(in) /\ in.total = 0 -> Int32(Pieces(in))
                   [] OTHER -> in.total
    IN  [in EXCEPT !.available = available, !.stocks = available, !.total = total]

normalizeInventory(in) ==
    /\ in.stocks >= 0 /\ in.total >= 0
    /\ in.available >= 0 /\ in.locked >= 0 /\ in.sold >= 0
    /\ Normalized(in).total >= Int32(Pieces(Normalized(in)))

-----------------------------------------------------------------------------
(* The SQL of the store.  Each UPDATE changes every row its WHERE clause    *)
(* matches and reports how many there were; a result that does not fit the  *)
(* INT column is an error of the statement.                                 *)

ReducibleUnchecked(row, d) == row.goods \in Items(d)

Reducible(row, d) == row.goods \in Items(d) /\ row.available >= d[row.goods]

Held(row, d) == row.goods \in Items(d) /\ row.locked >= d[row.goods]

(* One UPDATE: a to available and stocks, l to locked, s to sold.           *)
Move(row, a, l, s) ==
    [goods |-> row.goods, total |-> row.total, stocks |-> row.stocks + a,
     available |-> row.available + a, locked |-> row.locked + l, sold |-> row.sold + s]

ReduceForgetsStocks(row, n) == [Move(row, -n, n, 0) EXCEPT !.stocks = row.stocks]

Reduce(row, n) == Move(row, -n, n, 0)

Increase(row, n) == Move(row, n, -n, 0)

ConfirmSellUncounted(row, n) == Move(row, 0, -n, 0)

ConfirmSell(row, n) == Move(row, 0, -n, n)

Fits(row) == row.available < Half /\ row.locked < Half /\ row.sold < Half

(* Every goods of d has a row the WHERE clause matches.                     *)
AllMatch(Match(_, _), d) ==
    \A g \in Items(d) : \E r \in Rows : inv[r].goods = g /\ Match(inv[r], d)

Reduced(d) ==
    [r \in Rows |-> IF Reducible(inv[r], d) THEN Reduce(inv[r], d[inv[r].goods])
                                            ELSE inv[r]]

Increased(d) ==
    [r \in Rows |-> IF Held(inv[r], d) THEN Increase(inv[r], d[inv[r].goods])
                                       ELSE inv[r]]

Sold(d) ==
    [r \in Rows |-> IF Held(inv[r], d) THEN ConfirmSell(inv[r], d[inv[r].goods])
                                       ELSE inv[r]]

RowsOf(g) == {r \in Rows : inv[r].goods = g}

IsFirst(r, S) == r \in S /\ \A q \in S : r <= q

-----------------------------------------------------------------------------
Init ==
    /\ inv = [r \in Rows |-> EmptyRow]
    /\ sellDetail = [o \in Orders |-> NoDetail]
    /\ audits = {}

(* Sell reserves the items of an order.  An order the ledger already knows, *)
(* in whatever status, is left alone and the request succeeds; one item     *)
(* short and the whole transaction is rolled back.                          *)
Sell(o, d) ==
    /\ validateStockOperation(d)
    /\ sellDetail[o].status = "absent"
    /\ AllMatch(Reducible, d)
    /\ \A r \in Rows : Fits(Reduced(d)[r])
    /\ inv' = Reduced(d)
    /\ sellDetail' = [sellDetail EXCEPT ![o] = [status |-> "reserved", detail |-> d]]
    /\ UNCHANGED audits

(* Reback (and Release, which calls it) gives a reservation back.  For an   *)
(* order the ledger does not know it writes a released record, so that a    *)
(* Sell that arrives later finds it and reserves nothing.                   *)
RebackUnknown(o, d) ==
    /\ validateStockOperation(d)
    /\ sellDetail[o].status = "absent"
    /\ sellDetail' = [sellDetail EXCEPT ![o] = [status |-> "released", detail |-> d]]
    /\ UNCHANGED <<inv, audits>>

RebackSettled(o) ==
    /\ sellDetail[o].status \in {"reserved", "confirmed"}
    /\ AllMatch(Held, sellDetail[o].detail)
    /\ inv' = Increased(sellDetail[o].detail)
    /\ sellDetail' = [sellDetail EXCEPT ![o].status = "released"]
    /\ UNCHANGED audits

RebackUnmarked(o) ==
    /\ sellDetail[o].status = "reserved"
    /\ AllMatch(Held, sellDetail[o].detail)
    /\ inv' = Increased(sellDetail[o].detail)
    /\ UNCHANGED <<sellDetail, audits>>

RebackReserved(o) ==
    /\ sellDetail[o].status = "reserved"
    /\ AllMatch(Held, sellDetail[o].detail)
    /\ \A r \in Rows : Fits(Increased(sellDetail[o].detail)[r])
    /\ inv' = Increased(sellDetail[o].detail)
    /\ sellDetail' = [sellDetail EXCEPT ![o].status = "released"]
    /\ UNCHANGED audits

Reback(o, d) == RebackUnknown(o, d) \/ RebackReserved(o)

(* Confirm turns a reservation into a sale.  A released or confirmed record *)
(* is left alone and the request succeeds; an absent one is an error.       *)
Confirm(o) ==
    /\ sellDetail[o].status = "reserved"
    /\ AllMatch(Held, sellDetail[o].detail)
    /\ \A r \in Rows : Fits(Sold(sellDetail[o].detail)[r])
    /\ inv' = Sold(sellDetail[o].detail)
    /\ sellDetail' = [sellDetail EXCEPT ![o].status = "confirmed"]
    /\ UNCHANGED audits

(* SetInv inserts a row under the next key, whether or not the goods has    *)
(* one already.                                                             *)
Create(in) ==
    /\ normalizeInventory(in)
    /\ \E r \in Rows : IsFirst(r, RowsOf(NoGoods)) /\ inv' = [inv EXCEPT ![r] = Normalized(in)]
    /\ UNCHANGED <<sellDetail, audits>>

(* SetStock overwrites the first row of the goods, or inserts one, and      *)
(* records the change under its correlation id, which is unique.            *)
AdjustRow(in, r, corr) ==
    /\ normalizeInventory(in)
    /\ \A a \in audits : a.corr # corr
    /\ inv' = [inv EXCEPT ![r] = Normalized(in)]
    /\ audits' = audits \cup
         {[corr |-> corr, goods |-> in.goods, before |-> inv[r].available,
           after |-> Normalized(in).available]}
    /\ UNCHANGED sellDetail

Adjust(in, corr) ==
    \E r \in Rows :
        /\ IF RowsOf(in.goods) # {} THEN IsFirst(r, RowsOf(in.goods))
                                    ELSE IsFirst(r, RowsOf(NoGoods))
        /\ AdjustRow(in, r, corr)

Next ==
    \/ \E o \in Orders, d \in Details : Sell(o, d)
    \/ \E o \in Orders, d \in Details : Reback(o, d)
    \/ \E o \in Orders : Confirm(o)
    \/ \E in \in StockInputs : Create(in)
    \/ \E in \in StockInputs, corr \in Corrs : Adjust(in, corr)

Spec == Init /\ [][Next]_vars

-----------------------------------------------------------------------------
(* The tables hold what their columns can hold: int32 counters, one of the  *)
(* three statuses or no record, at most one audit row per correlation id.   *)
TypeOK ==
    /\ inv \in [Rows -> InventoryDO]
    /\ sellDetail \in [Orders -> StockSellDetailDO]
    /\ audits \subseteq [corr : Corrs, goods : Goods, before : Int, after : Int]
    /\ \A a, b \in audits : a.corr = b.corr => a = b

(* No request adds up to more pieces than an int32 can count.               *)
NoOverflow == \A in \in StockInputs : Pieces(in) < Half

(* Whatever sequence of reservations, releases, confirmations, new rows and *)
(* adjustments runs, no counter is negative, the legacy column stocks       *)
(* agrees with available, and the pieces available, locked and sold never   *)
(* add up to more than the total: stock is never oversold                   *)
(* (Reduce/Increase/ConfirmSell and normalizeInventory).                    *)
RowConserved ==
    \A r \in Rows :
        /\ inv[r].available >= 0 /\ inv[r].locked >= 0 /\ inv[r].sold >= 0
        /\ inv[r].stocks = inv[r].available
        /\ Pieces(inv[r]) <= inv[r].total

(* Only SetStock, which leaves an audit row, changes how many pieces an     *)
(* existing row has: Sell, Reback and Confirm move pieces between available,*)
(* locked and sold, and none gets lost or made on the way.                  *)
PiecesKept ==
    [][\A r \in Rows : inv[r].goods # NoGoods /\ audits' = audits =>
         /\ Pieces(inv'[r]) = Pieces(inv[r])
         /\ inv'[r].total = inv[r].total
         /\ inv'[r].goods = inv[r].goods]_vars

WithStatus(st) == {o \in Orders : sellDetail[o].status = st}

Booked(g, st) == MapThenSumSet(LAMBDA o : sellDetail[o].detail[g], WithStatus(st))

(* The goods whose counters only reservations have moved: one row, never    *)
(* adjusted.                                                                *)
Untouched(g) ==
    /\ Cardinality(RowsOf(g)) = 1
    /\ \A a \in audits : a.goods # g

(* The two tables move together: the locked pieces of a goods change by what *)
(* the orders with a reserved record do, the sold pieces by what the         *)
(* confirmed ones do.  Every status change comes with exactly one change of  *)
(* the counters, duplicates and late requests included (Sell, Reback,        *)
(* Confirm).                                                                 *)
LedgerAgrees ==
    [][\A g \in Goods : Untouched(g) /\ Untouched(g)' => \A r \in RowsOf(g) :
         /\ inv'[r].locked - inv[r].locked = Booked(g, "reserved")' - Booked(g, "reserved")
         /\ inv'[r].sold - inv[r].sold = Booked(g, "confirmed")' - Booked(g, "confirmed")]_vars

Settleable(o) == AllMatch(Held, sellDetail[o].detail)

(* Every reservation can still be given back or confirmed while only        *)
(* reservations move its goods: their rows hold at least the pieces it      *)
(* locked, so neither the UPDATE of Increase nor the one of ConfirmSell     *)
(* comes back with no row.                                                  *)
ReservationsSettleable ==
    \A o \in WithStatus("reserved") :
        (\A g \in Items(sellDetail[o].detail) : Untouched(g)) => Settleable(o)
=============================================================================
