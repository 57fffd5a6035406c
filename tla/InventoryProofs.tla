-------------------------- MODULE InventoryProofs --------------------------
(***************************************************************************)
(* Proofs about Inventory, for any number of goods, rows and orders and    *)
(* any item lists.                                                         *)
(*                                                                         *)
(* The argument: a statement of the store turns a good row (int32 columns, *)
(* no negative counter, stocks equal to available) into a good row with    *)
(* the same goods, pieces and total, and a normalised request body is a    *)
(* good row.  RowGood is the strengthening that makes TypeOK inductive:    *)
(* only because available and stocks agree and are not negative does       *)
(* stocks - n stay within its column.                                      *)
(***************************************************************************)
EXTENDS Inventory, TLAPS

GoodRow(row) ==
    /\ row \in InventoryDO
    /\ row.available >= 0 /\ row.locked >= 0 /\ row.sold >= 0
    /\ row.stocks = row.available

IInv ==
    /\ TypeOK
    /\ \A r \in Rows : GoodRow(inv[r])

(* Addition on int32 lands in the int32 range.                              *)
LEMMA Int32Range == ASSUME NEW x \in Int PROVE Int32(x) \in -Half .. Half - 1
  BY HalfAssumption DEF Int32

(* A sum that fits is not changed by the wrap-around.                       *)
LEMMA Int32Identity == ASSUME NEW x \in -Half .. Half - 1 PROVE Int32(x) = x
  BY HalfAssumption DEF Int32

(* What an UPDATE of the store keeps of a row.                              *)
Keeps(new, old) ==
    /\ GoodRow(new)
    /\ Pieces(new) = Pieces(old)
    /\ new.total = old.total
    /\ new.goods = old.goods

(* Reduce, Increase and ConfirmSell (db/inventory.go), each under its WHERE *)
(* clause, keep a row good.                                                 *)
LEMMA ReduceKeeps ==
  ASSUME NEW row, GoodRow(row), NEW n \in Nat, row.available >= n, Fits(Reduce(row, n))
  PROVE  Keeps(Reduce(row, n), row)
  BY HalfAssumption DEF GoodRow, InventoryDO, Reduce, Move, Keeps, Pieces, Fits

LEMMA IncreaseKeeps ==
  ASSUME NEW row, GoodRow(row), NEW n \in Nat, row.locked >= n, Fits(Increase(row, n))
  PROVE  Keeps(Increase(row, n), row)
  BY HalfAssumption DEF GoodRow, InventoryDO, Increase, Move, Keeps, Pieces, Fits

LEMMA ConfirmSellKeeps ==
  ASSUME NEW row, GoodRow(row), NEW n \in Nat, row.locked >= n, Fits(ConfirmSell(row, n))
  PROVE  Keeps(ConfirmSell(row, n), row)
  BY HalfAssumption DEF GoodRow, InventoryDO, ConfirmSell, Move, Keeps, Pieces, Fits

(* normalizeInventory only lets good rows through.                          *)
LEMMA NormalizedGood ==
  ASSUME NEW in \in StockInputs, normalizeInventory(in)
  PROVE  GoodRow(Normalized(in)) /\ Normalized(in).goods = in.goods
<1>1. Pieces(in) \in Int
  BY StockInputsAssumption DEF Pieces
<1>2. Int32(Pieces(in)) \in -Half .. Half - 1
  BY <1>1, Int32Range
<1> QED
  BY <1>2, HalfAssumption, StockInputsAssumption
     DEF GoodRow, InventoryDO, Normalized, normalizeInventory, Provided

(* Unless the request overflows, the pieces it counts are within its total. *)
LEMMA NormalizedConserved ==
  ASSUME NEW in \in StockInputs, normalizeInventory(in), Pieces(in) < Half
  PROVE  Pieces(Normalized(in)) <= Normalized(in).total
<1>1. in \in [goods : Goods, stocks : -Half .. Half - 1, total : -Half .. Half - 1,
              available : -Half .. Half - 1, locked : -Half .. Half - 1,
              sold : -Half .. Half - 1]
  BY StockInputsAssumption
<1>2. Pieces(Normalized(in)) \in -Half .. Half - 1
  BY <1>1, HalfAssumption DEF Pieces, Normalized, normalizeInventory, Provided
<1> QED
  BY <1>2, Int32Identity DEF normalizeInventory

(* The table after a Sell, a Reback or a Confirm: every row is kept.        *)
LEMMA ReducedKeeps ==
  ASSUME IInv, NEW d \in [Goods -> Nat], \A r \in Rows : Fits(Reduced(d)[r]), NEW r \in Rows
  PROVE  Keeps(Reduced(d)[r], inv[r])
<1>1. CASE Reducible(inv[r], d)
  <2>1. d[inv[r].goods] \in Nat /\ inv[r].available >= d[inv[r].goods]
    BY <1>1 DEF Reducible, Items
  <2>2. Reduced(d)[r] = Reduce(inv[r], d[inv[r].goods])
    BY <1>1 DEF Reduced
  <2>3. GoodRow(inv[r]) /\ Fits(Reduce(inv[r], d[inv[r].goods]))
    BY <2>2 DEF IInv
  <2>4. Keeps(Reduce(inv[r], d[inv[r].goods]), inv[r])
    BY <2>1, <2>3, ReduceKeeps
  <2> QED
    BY <2>2, <2>4
<1>2. CASE ~Reducible(inv[r], d)
  BY <1>2 DEF Reduced, IInv, Keeps
<1> QED
  BY <1>1, <1>2

LEMMA IncreasedKeeps ==
  ASSUME IInv, NEW d \in [Goods -> Nat], \A r \in Rows : Fits(Increased(d)[r]), NEW r \in Rows
  PROVE  Keeps(Increased(d)[r], inv[r])
<1>1. CASE Held(inv[r], d)
  <2>1. d[inv[r].goods] \in Nat /\ inv[r].locked >= d[inv[r].goods]
    BY <1>1 DEF Held, Items
  <2>2. Increased(d)[r] = Increase(inv[r], d[inv[r].goods])
    BY <1>1 DEF Increased
  <2>3. GoodRow(inv[r]) /\ Fits(Increase(inv[r], d[inv[r].goods]))
    BY <2>2 DEF IInv
  <2>4. Keeps(Increase(inv[r], d[inv[r].goods]), inv[r])
    BY <2>1, <2>3, IncreaseKeeps
  <2> QED
    BY <2>2, <2>4
<1>2. CASE ~Held(inv[r], d)
  BY <1>2 DEF Increased, IInv, Keeps
<1> QED
  BY <1>1, <1>2

LEMMA SoldKeeps ==
  ASSUME IInv, NEW d \in [Goods -> Nat], \A r \in Rows : Fits(Sold(d)[r]), NEW r \in Rows
  PROVE  Keeps(Sold(d)[r], inv[r])
<1>1. CASE Held(inv[r], d)
  <2>1. d[inv[r].goods] \in Nat /\ inv[r].locked >= d[inv[r].goods]
    BY <1>1 DEF Held, Items
  <2>2. Sold(d)[r] = ConfirmSell(inv[r], d[inv[r].goods])
    BY <1>1 DEF Sold
  <2>3. GoodRow(inv[r]) /\ Fits(ConfirmSell(inv[r], d[inv[r].goods]))
    BY <2>2 DEF IInv
  <2>4. Keeps(ConfirmSell(inv[r], d[inv[r].goods]), inv[r])
    BY <2>1, <2>3, ConfirmSellKeeps
  <2> QED
    BY <2>2, <2>4
<1>2. CASE ~Held(inv[r], d)
  BY <1>2 DEF Sold, IInv, Keeps
<1> QED
  BY <1>1, <1>2

(* A step that keeps every row and the types of the other tables keeps the  *)
(* invariant.                                                               *)
LEMMA KeptRows ==
  ASSUME IInv, inv' = [r \in Rows |-> inv'[r]], \A r \in Rows : Keeps(inv'[r], inv[r]),
         sellDetail' \in [Orders -> StockSellDetailDO], UNCHANGED audits
  PROVE  IInv'
<1>1. \A r \in Rows : GoodRow(inv'[r])
  BY DEF Keeps
<1>2. inv' \in [Rows -> InventoryDO]
  BY <1>1 DEF GoodRow
<1> QED
  BY <1>1, <1>2 DEF IInv, TypeOK, GoodRow

(* A step that writes one normalised row keeps the invariant.               *)
LEMMA WrittenRow ==
  ASSUME IInv, NEW in \in StockInputs, normalizeInventory(in), NEW r \in Rows,
         inv' = [inv EXCEPT ![r] = Normalized(in)], UNCHANGED sellDetail,
         audits' \subseteq [corr : Corrs, goods : Goods, before : Int, after : Int],
         \A a, b \in audits' : a.corr = b.corr => a = b
  PROVE  IInv'
<1>1. GoodRow(Normalized(in))
  BY NormalizedGood
<1>2. \A q \in Rows : inv'[q] = IF q = r THEN Normalized(in) ELSE inv[q]
  BY DEF IInv, TypeOK
<1>3. \A q \in Rows : GoodRow(inv'[q])
  BY <1>1, <1>2 DEF IInv
<1>4. inv' \in [Rows -> InventoryDO]
  BY <1>1 DEF IInv, TypeOK, GoodRow
<1> QED
  BY <1>3, <1>4 DEF IInv, TypeOK, GoodRow

(* The stored item lists are functions of the goods to numbers.             *)
LEMMA StoredDetail ==
  ASSUME IInv, NEW o \in Orders
  PROVE  /\ sellDetail[o].detail \in [Goods -> Nat]
         /\ \A st \in Statuses :
              [sellDetail EXCEPT ![o].status = st] \in [Orders -> StockSellDetailDO]
  BY DEF IInv, TypeOK, StockSellDetailDO

(* Each operation of the service keeps the invariant.                       *)
LEMMA StepKeepsIInv == IInv /\ [Next]_vars => IInv'
<1> SUFFICES ASSUME IInv, [Next]_vars PROVE IInv'
  OBVIOUS
<1>1. ASSUME NEW o \in Orders, NEW d \in Details, Sell(o, d) PROVE IInv'
  <2>1. d \in [Goods -> Nat]
    BY DetailsAssumption
  <2>2. \A r \in Rows : Keeps(inv'[r], inv[r])
    BY <1>1, <2>1, ReducedKeeps DEF Sell
  <2>3. sellDetail' \in [Orders -> StockSellDetailDO]
    BY <1>1, <2>1 DEF Sell, IInv, TypeOK, StockSellDetailDO, Statuses
  <2>4. inv' = [r \in Rows |-> inv'[r]]
    BY <1>1 DEF Sell, Reduced
  <2> QED
    BY <1>1, <2>2, <2>3, <2>4, KeptRows DEF Sell
<1>2. ASSUME NEW o \in Orders, NEW d \in Details, RebackUnknown(o, d) PROVE IInv'
  <2>1. d \in [Goods -> Nat]
    BY DetailsAssumption
  <2>2. sellDetail' \in [Orders -> StockSellDetailDO]
    BY <1>2, <2>1 DEF RebackUnknown, IInv, TypeOK, StockSellDetailDO, Statuses
  <2> QED
    BY <1>2, <2>2 DEF RebackUnknown, IInv, TypeOK, GoodRow
<1>3. ASSUME NEW o \in Orders, RebackReserved(o) PROVE IInv'
  <2>1. \A r \in Rows : Keeps(inv'[r], inv[r])
    BY <1>3, StoredDetail, IncreasedKeeps DEF RebackReserved
  <2>2. sellDetail' \in [Orders -> StockSellDetailDO]
    BY <1>3, StoredDetail DEF RebackReserved, Statuses
  <2>3. inv' = [r \in Rows |-> inv'[r]]
    BY <1>3 DEF RebackReserved, Increased
  <2> QED
    BY <1>3, <2>1, <2>2, <2>3, KeptRows DEF RebackReserved
<1>4. ASSUME NEW o \in Orders, Confirm(o) PROVE IInv'
  <2>1. \A r \in Rows : Keeps(inv'[r], inv[r])
    BY <1>4, StoredDetail, SoldKeeps DEF Confirm
  <2>2. sellDetail' \in [Orders -> StockSellDetailDO]
    BY <1>4, StoredDetail DEF Confirm, Statuses
  <2>3. inv' = [r \in Rows |-> inv'[r]]
    BY <1>4 DEF Confirm, Sold
  <2> QED
    BY <1>4, <2>1, <2>2, <2>3, KeptRows DEF Confirm
<1>5. ASSUME NEW in \in StockInputs, Create(in) PROVE IInv'
  BY <1>5, WrittenRow DEF Create, IInv, TypeOK
<1>6. ASSUME NEW in \in StockInputs, NEW corr \in Corrs, Adjust(in, corr) PROVE IInv'
  <2> PICK r \in Rows : AdjustRow(in, r, corr)
    BY <1>6 DEF Adjust
  <2>1. inv[r].available \in Int /\ Normalized(in).available \in Int /\ in.goods \in Goods
    BY NormalizedGood, StockInputsAssumption, HalfAssumption
       DEF IInv, TypeOK, GoodRow, InventoryDO, AdjustRow
  <2>2. /\ audits' \subseteq [corr : Corrs, goods : Goods, before : Int, after : Int]
        /\ \A a, b \in audits' : a.corr = b.corr => a = b
    BY <2>1 DEF AdjustRow, IInv, TypeOK
  <2> QED
    BY <2>2, WrittenRow DEF AdjustRow
<1>7. CASE UNCHANGED vars
  BY <1>7 DEF vars, IInv, TypeOK, GoodRow
<1> QED
  BY <1>1, <1>2, <1>3, <1>4, <1>5, <1>6, <1>7 DEF Next, Reback

LEMMA InitIInv == Init => IInv
  BY HalfAssumption DEF Init, IInv, TypeOK, GoodRow, InventoryDO, EmptyRow, NoGoods,
     StockSellDetailDO, Statuses, NoDetail, NoItems

(* Every table always holds what its columns can hold: no operation of the  *)
(* service overflows a counter or writes two audit rows for one correlation *)
(* id.                                                                      *)
THEOREM TypeCorrect == Spec => []TypeOK
<1>1. IInv => TypeOK
  BY DEF IInv
<1> QED
  BY <1>1, InitIInv, StepKeepsIInv, PTL DEF Spec

(* What one operation does to the rows of goods: it keeps them all, or      *)
(* writes one normalised row.                                               *)
LEMMA StepOnRows ==
  ASSUME IInv, Next
  PROVE  \/ \A r \in Rows : Keeps(inv'[r], inv[r])
         \/ \E in \in StockInputs, r \in Rows :
              /\ normalizeInventory(in)
              /\ inv' = [inv EXCEPT ![r] = Normalized(in)]
              /\ audits' # audits \/ inv[r].goods = NoGoods
<1>1. ASSUME NEW o \in Orders, NEW d \in Details, Sell(o, d)
      PROVE  \A r \in Rows : Keeps(inv'[r], inv[r])
  BY <1>1, DetailsAssumption, ReducedKeeps DEF Sell
<1>2. ASSUME NEW o \in Orders, NEW d \in Details, RebackUnknown(o, d)
      PROVE  \A r \in Rows : Keeps(inv'[r], inv[r])
  BY <1>2 DEF RebackUnknown, IInv, Keeps
<1>3. ASSUME NEW o \in Orders, RebackReserved(o)
      PROVE  \A r \in Rows : Keeps(inv'[r], inv[r])
  BY <1>3, StoredDetail, IncreasedKeeps DEF RebackReserved
<1>4. ASSUME NEW o \in Orders, Confirm(o)
      PROVE  \A r \in Rows : Keeps(inv'[r], inv[r])
  BY <1>4, StoredDetail, SoldKeeps DEF Confirm
<1>5. ASSUME NEW in \in StockInputs, Create(in)
      PROVE  \E r \in Rows :
              /\ normalizeInventory(in)
              /\ inv' = [inv EXCEPT ![r] = Normalized(in)]
              /\ inv[r].goods = NoGoods
  BY <1>5 DEF Create, IsFirst, RowsOf
<1>6. ASSUME NEW in \in StockInputs, NEW corr \in Corrs, Adjust(in, corr)
      PROVE  \E r \in Rows :
              /\ normalizeInventory(in)
              /\ inv' = [inv EXCEPT ![r] = Normalized(in)]
              /\ audits' # audits
  <2> PICK r \in Rows : AdjustRow(in, r, corr)
    BY <1>6 DEF Adjust
  <2> DEFINE a == [corr |-> corr, goods |-> in.goods, before |-> inv[r].available,
                   after |-> Normalized(in).available]
  <2>1. a \in audits' /\ a.corr = corr
    <3>1. a.corr = corr
      OBVIOUS
    <3>2. a \in audits'
      BY Zenon DEF AdjustRow
    <3> QED
      BY <3>1, <3>2
  <2> QED
    BY <2>1 DEF AdjustRow
<1> QED
  BY <1>1, <1>2, <1>3, <1>4, <1>5, <1>6 DEF Next, Reback

(* Stock is never oversold: as long as no request body adds up to more than *)
(* an int32, no counter goes negative, stocks agrees with available, and    *)
(* the pieces available, locked and sold stay within the total, for any     *)
(* number of goods, rows and orders and any interleaving of operations.     *)
THEOREM StockConserved == NoOverflow => (Spec => []RowConserved)
<1> SUFFICES ASSUME NoOverflow PROVE Spec => []RowConserved
  OBVIOUS
<1>1. Init => RowConserved
  BY DEF Init, RowConserved, EmptyRow, Pieces
<1>2. IInv /\ RowConserved /\ [Next]_vars => RowConserved'
  <2> SUFFICES ASSUME IInv, RowConserved, [Next]_vars PROVE RowConserved'
    OBVIOUS
  <2>1. ASSUME \A r \in Rows : Keeps(inv'[r], inv[r]) PROVE RowConserved'
    BY <2>1 DEF Keeps, GoodRow, RowConserved, Pieces
  <2>2. ASSUME NEW in \in StockInputs, NEW r \in Rows, normalizeInventory(in),
               inv' = [inv EXCEPT ![r] = Normalized(in)]
        PROVE  RowConserved'
    <3>1. GoodRow(Normalized(in)) /\ Pieces(Normalized(in)) <= Normalized(in).total
      BY <2>2, NormalizedGood, NormalizedConserved DEF NoOverflow
    <3>2. \A q \in Rows : inv'[q] = IF q = r THEN Normalized(in) ELSE inv[q]
      BY <2>2 DEF IInv, TypeOK
    <3> QED
      BY <3>1, <3>2 DEF RowConserved, GoodRow, Pieces
  <2>3. CASE UNCHANGED vars
    BY <2>3 DEF vars, RowConserved
  <2> QED
    BY <2>1, <2>2, <2>3, StepOnRows
<1> QED
  BY <1>1, <1>2, InitIInv, StepKeepsIInv, PTL DEF Spec

(* No piece is lost or made: only an audited SetStock changes how many      *)
(* pieces a row has, its total or its goods.                                *)
THEOREM PiecesNeverLost == Spec => PiecesKept
<1>1. IInv /\ [Next]_vars =>
      [\A r \in Rows : inv[r].goods # NoGoods /\ audits' = audits =>
         /\ Pieces(inv'[r]) = Pieces(inv[r])
         /\ inv'[r].total = inv[r].total
         /\ inv'[r].goods = inv[r].goods]_vars
  <2> SUFFICES ASSUME IInv, Next, NEW r \in Rows, inv[r].goods # NoGoods, audits' = audits
               PROVE  /\ Pieces(inv'[r]) = Pieces(inv[r])
                      /\ inv'[r].total = inv[r].total
                      /\ inv'[r].goods = inv[r].goods
    OBVIOUS
  <2>1. CASE \A q \in Rows : Keeps(inv'[q], inv[q])
    BY <2>1 DEF Keeps
  <2>2. ASSUME NEW in \in StockInputs, NEW q \in Rows, inv[q].goods = NoGoods,
               inv' = [inv EXCEPT ![q] = Normalized(in)]
        PROVE  inv'[r] = inv[r]
    BY <2>2 DEF IInv, TypeOK
  <2> QED
    BY <2>1, <2>2, StepOnRows
<1> QED
  BY <1>1, InitIInv, StepKeepsIInv, PTL DEF Spec, PiecesKept
=============================================================================
