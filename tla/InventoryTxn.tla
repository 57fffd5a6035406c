---------------------------- MODULE InventoryTxn ----------------------------
(***************************************************************************)
(* The same operations statement by statement.  Requests for one or more   *)
(* orders run at once, in one or several instances of the service; each    *)
(* takes the Redis lock of its order (redsync), opens a transaction, and   *)
(* issues the statements of Sell, Reback or Confirm one by one.  The lock  *)
(* has a time limit nobody renews or checks again, so it may be gone while *)
(* its holder still works; a process may die at any statement.             *)
(*                                                                         *)
(* MySQL (InnoDB, REPEATABLE READ) is external and modelled from the SQL   *)
(* the store sends: an UPDATE and a SELECT ... FOR UPDATE lock the records *)
(* they meet until the transaction ends; a FOR UPDATE that finds nothing   *)
(* locks the gap the key would be in, against inserts of other             *)
(* transactions; a plain SELECT reads committed data and locks nothing.    *)
(*                                                                         *)
(* The committed tables are Inventory's variables, so that module's Spec   *)
(* is what this one must implement.                                        *)
(***************************************************************************)
EXTENDS Inventory

CONSTANTS
    Procs,       \* requests being served at once
    None,        \* no holder
    Dead,        \* the holder of a Redis lock died
    LockExpires  \* a live holder may lose the Redis lock

VARIABLES
    pc,          \* where each request is
    req,         \* operation, order and items of each request
    todo,        \* goods whose UPDATE is still to come
    mutex,       \* the Redis lock of each order
    cur,         \* inventory with the uncommitted updates
    curDetail,   \* stockselldetail with the uncommitted changes
    rowLock,     \* transaction that locks an inventory row
    keyLock,     \* transaction that locks a stockselldetail record
    gap,         \* keys of stockselldetail a transaction's gap lock covers
    acked        \* orders a Reback or Confirm returned success for

tvars == <<pc, req, todo, mutex, cur, curDetail, rowLock, keyLock, gap, acked>>

allvars == <<vars, tvars>>

ASSUME OrdersAssumption == Orders \subseteq Nat
ASSUME HoldersAssumption == None \notin Procs /\ Dead \notin Procs /\ None # Dead
ASSUME LockExpiresAssumption == LockExpires \in BOOLEAN

Ops == {"sell", "reback", "confirm"}

Labels == {"idle", "lock", "read", "items", "insert", "mark", "commit"}

NoRequest == [op |-> "sell", order |-> 0, detail |-> NoItems]

TInit ==
    /\ Init
    /\ pc = [p \in Procs |-> "idle"]
    /\ req = [p \in Procs |-> NoRequest]
    /\ todo = [p \in Procs |-> {}]
    /\ mutex = [o \in Orders |-> None]
    /\ cur = inv
    /\ curDetail = sellDetail
    /\ rowLock = [r \in Rows |-> None]
    /\ keyLock = [o \in Orders |-> None]
    /\ gap = [p \in Procs |-> {}]
    /\ acked = {}

-----------------------------------------------------------------------------
(* The end of a transaction.  A commit makes the changes to the records the *)
(* transaction locked visible, a rollback undoes them; both drop the locks. *)

Unlocked(p) ==
    /\ rowLock' = [r \in Rows |-> IF rowLock[r] = p THEN None ELSE rowLock[r]]
    /\ keyLock' = [o \in Orders |-> IF keyLock[o] = p THEN None ELSE keyLock[o]]
    /\ gap' = [gap EXCEPT ![p] = {}]
    /\ todo' = [todo EXCEPT ![p] = {}]

Commit(p) ==
    /\ inv' = [r \in Rows |-> IF rowLock[r] = p THEN cur[r] ELSE inv[r]]
    /\ sellDetail' = [o \in Orders |-> IF keyLock[o] = p THEN curDetail[o] ELSE sellDetail[o]]
    /\ Unlocked(p)
    /\ UNCHANGED <<audits, cur, curDetail>>

Rollback(p) ==
    /\ cur' = [r \in Rows |-> IF rowLock[r] = p THEN inv[r] ELSE cur[r]]
    /\ curDetail' = [o \in Orders |-> IF keyLock[o] = p THEN sellDetail[o] ELSE curDetail[o]]
    /\ Unlocked(p)
    /\ UNCHANGED vars

(* unlockOrderMutex deletes the Redis key only while it still holds this    *)
(* request's value.                                                         *)
unlockOrderMutex(p) ==
    LET o == req[p].order
    IN  mutex' = [mutex EXCEPT ![o] = IF @ = p THEN None ELSE @]

Return(p) ==
    /\ pc' = [pc EXCEPT ![p] = "idle"]
    /\ req' = [req EXCEPT ![p] = NoRequest]
    /\ unlockOrderMutex(p)

Succeed(p) ==
    /\ Commit(p)
    /\ Return(p)
    /\ acked' = IF req[p].op = "sell" THEN acked ELSE acked \cup {req[p].order}

FailWithoutRollback(p) ==
    /\ Return(p)
    /\ UNCHANGED <<vars, todo, cur, curDetail, rowLock, keyLock, gap, acked>>

Fail(p) ==
    /\ Rollback(p)
    /\ Return(p)
    /\ UNCHANGED acked

-----------------------------------------------------------------------------
(* Waiting for a lock of another transaction.                               *)

RowHolders(p, g) == {rowLock[r] : r \in RowsOf(g)} \ {None, p}

KeyHolders(p, o) == {keyLock[o]} \ {None, p}

GapHolders(p, o) == {q \in Procs \ {p} : o \in gap[q]}

NextItemUnsorted(p) ==
    IF req[p].order = 1 THEN CHOOSE g \in todo[p] : \A h \in todo[p] : g >= h
                        ELSE CHOOSE g \in todo[p] : \A h \in todo[p] : g <= h

NextItem(p) == CHOOSE g \in todo[p] : \A h \in todo[p] : g <= h

WaitsFor(p) ==
    CASE pc[p] = "items" -> RowHolders(p, NextItem(p))
      [] pc[p] = "insert" -> KeyHolders(p, req[p].order) \cup GapHolders(p, req[p].order)
      [] pc[p] = "read" /\ req[p].op # "sell" -> KeyHolders(p, req[p].order)
      [] OTHER -> {}

(* The gap of the index on order_sn a missing key o falls into.             *)
Between(a, b, k) == (a < k /\ k < b) \/ (b < k /\ k < a)

GapOf(o) ==
    {k \in Orders :
        /\ curDetail[k].status = "absent"
        /\ \A e \in Orders : curDetail[e].status # "absent" => ~Between(o, k, e)}

-----------------------------------------------------------------------------
(* A request arrives and asks for the Redis lock of its order; redsync      *)
(* gives up after its retries.                                              *)
Start(p, op, o, d) ==
    /\ pc[p] = "idle"
    /\ validateStockOperation(d)
    /\ pc' = [pc EXCEPT ![p] = "lock"]
    /\ req' = [req EXCEPT ![p] = [op |-> op, order |-> o, detail |-> d]]
    /\ UNCHANGED <<vars, todo, mutex, cur, curDetail, rowLock, keyLock, gap, acked>>

lockOrder(p) ==
    /\ pc[p] = "lock"
    /\ mutex[req[p].order] = None
    /\ mutex' = [mutex EXCEPT ![req[p].order] = p]
    /\ pc' = [pc EXCEPT ![p] = "read"]
    /\ UNCHANGED <<vars, req, todo, cur, curDetail, rowLock, keyLock, gap, acked>>

LockFails(p) ==
    /\ pc[p] = "lock"
    /\ mutex[req[p].order] # None
    /\ Fail(p)

(* The Redis key times out: always once its holder is dead, and when        *)
(* LockExpires also under a holder slower than the time limit.              *)
Expire(o) ==
    /\ mutex[o] # None
    /\ mutex[o] = Dead \/ LockExpires
    /\ mutex' = [mutex EXCEPT ![o] = None]
    /\ UNCHANGED <<vars, pc, req, todo, cur, curDetail, rowLock, keyLock, gap, acked>>

-----------------------------------------------------------------------------
Continue(p, label, goods) ==
    /\ pc' = [pc EXCEPT ![p] = label]
    /\ todo' = [todo EXCEPT ![p] = goods]
    /\ UNCHANGED <<vars, req, mutex, acked>>

(* Sell reads the record of its order without locking it.                   *)
GetSellDetail(p) ==
    LET o == req[p].order
    IN  /\ pc[p] = "read" /\ req[p].op = "sell"
        /\ \/ /\ sellDetail[o].status # "absent"
              /\ Succeed(p)
           \/ /\ sellDetail[o].status = "absent"
              /\ Continue(p, "items", Items(req[p].detail))
              /\ UNCHANGED <<cur, curDetail, rowLock, keyLock, gap>>

(* Reback and Confirm read it FOR UPDATE.                                   *)
GetSellDetailUnlocked(p) ==
    LET o == req[p].order
        st == sellDetail[o].status
    IN  /\ pc[p] = "read" /\ req[p].op # "sell"
        /\ \/ /\ st \in {"released", "confirmed"}
              /\ Succeed(p)
           \/ /\ st = "reserved"
              /\ Continue(p, "items", Items(sellDetail[o].detail))
              /\ UNCHANGED <<cur, curDetail, rowLock, keyLock, gap>>
           \/ /\ st = "absent" /\ req[p].op = "reback"
              /\ Continue(p, "insert", {})
              /\ UNCHANGED <<cur, curDetail, rowLock, keyLock, gap>>
           \/ /\ st = "absent" /\ req[p].op = "confirm"
              /\ Fail(p)

GetSellDetailForUpdate(p) ==
    LET o == req[p].order
        st == curDetail[o].status
    IN  /\ pc[p] = "read" /\ req[p].op # "sell"
        /\ WaitsFor(p) = {}
        /\ \/ /\ st \in {"released", "confirmed"}
              /\ Succeed(p)
           \/ /\ st = "reserved"
              /\ keyLock' = [keyLock EXCEPT ![o] = p]
              /\ Continue(p, "items", Items(curDetail[o].detail))
              /\ UNCHANGED <<cur, curDetail, rowLock, gap>>
           \/ /\ st = "absent" /\ req[p].op = "reback"
              /\ gap' = [gap EXCEPT ![p] = GapOf(o)]
              /\ Continue(p, "insert", {})
              /\ UNCHANGED <<cur, curDetail, rowLock, keyLock>>
           \/ /\ st = "absent" /\ req[p].op = "confirm"
              /\ Fail(p)

-----------------------------------------------------------------------------
(* The UPDATE of one goods: Reduce, Increase or ConfirmSell.  It locks all  *)
(* rows of the goods and changes those its WHERE clause matches; the goods  *)
(* come in increasing order of their ids.                                   *)

ItemList(p) == IF req[p].op = "sell" THEN req[p].detail ELSE curDetail[req[p].order].detail

Matches(p, row) ==
    IF req[p].op = "sell" THEN Reducible(row, ItemList(p)) ELSE Held(row, ItemList(p))

Updated(p, row) ==
    LET n == ItemList(p)[row.goods]
    IN  CASE req[p].op = "sell" -> Reduce(row, n)
          [] req[p].op = "reback" -> Increase(row, n)
          [] req[p].op = "confirm" -> ConfirmSell(row, n)

UpdateItemOutsideTxn(p) ==
    LET g == NextItem(p)
        hit == {r \in RowsOf(g) : Matches(p, cur[r])}
    IN  /\ pc[p] = "items"
        /\ WaitsFor(p) = {}
        /\ hit # {}
        /\ cur' = [r \in Rows |-> IF r \in hit THEN Updated(p, cur[r]) ELSE cur[r]]
        /\ inv' = cur'
        /\ todo' = [todo EXCEPT ![p] = @ \ {g}]
        /\ pc' = [pc EXCEPT ![p] = IF todo[p] # {g} THEN "items"
                                   ELSE IF req[p].op = "sell" THEN "insert" ELSE "mark"]
        /\ UNCHANGED <<sellDetail, audits, req, mutex, acked, rowLock, curDetail, keyLock, gap>>

UpdateItem(p) ==
    LET g == NextItem(p)
        hit == {r \in RowsOf(g) : Matches(p, cur[r])}
    IN  /\ pc[p] = "items"
        /\ WaitsFor(p) = {}
        /\ \/ /\ hit # {} /\ \A r \in hit : Fits(Updated(p, cur[r]))
              /\ cur' = [r \in Rows |-> IF r \in hit THEN Updated(p, cur[r]) ELSE cur[r]]
              /\ rowLock' = [r \in Rows |-> IF r \in RowsOf(g) THEN p ELSE rowLock[r]]
              /\ Continue(p, IF todo[p] # {g} THEN "items"
                             ELSE IF req[p].op = "sell" THEN "insert" ELSE "mark",
                          todo[p] \ {g})
              /\ UNCHANGED <<curDetail, keyLock, gap>>
           \/ /\ hit = {} \/ \E r \in hit : ~Fits(Updated(p, cur[r]))
              /\ Fail(p)

(* CreateStockSellDetail of Sell and CreateStockSellDetailIfAbsent of       *)
(* Reback.  The insert waits for a transaction that locks the record or the *)
(* gap; a record that is there fails the one and is ignored by the other.   *)
InsertDetail(p) ==
    LET o == req[p].order
        st == IF req[p].op = "sell" THEN "reserved" ELSE "released"
    IN  /\ pc[p] = "insert"
        /\ WaitsFor(p) = {}
        /\ \/ /\ curDetail[o].status = "absent"
              /\ curDetail' = [curDetail EXCEPT ![o] = [status |-> st, detail |-> req[p].detail]]
              /\ keyLock' = [keyLock EXCEPT ![o] = p]
              /\ Continue(p, "commit", {})
              /\ UNCHANGED <<cur, rowLock, gap>>
           \/ /\ curDetail[o].status # "absent"
              /\ IF req[p].op = "sell" THEN Fail(p) ELSE Succeed(p)

(* UpdateStockSellDetailStatus, on the record locked by the read.           *)
UpdateStockSellDetailStatus(p) ==
    LET o == req[p].order
        st == IF req[p].op = "reback" THEN "released" ELSE "confirmed"
    IN  /\ pc[p] = "mark"
        /\ curDetail' = [curDetail EXCEPT ![o].status = st]
        /\ Continue(p, "commit", {})
        /\ UNCHANGED <<cur, rowLock, keyLock, gap>>

CommitTxn(p) == pc[p] = "commit" /\ Succeed(p)

(* MySQL ends the wait of a deadlock's victim, or of a statement that       *)
(* waited too long, and any statement may fail; the request is rolled back  *)
(* and returns the error.                                                   *)
Abort(p) ==
    /\ pc[p] \in {"read", "items", "insert", "mark", "commit"}
    /\ Fail(p)

(* The process dies: MySQL rolls its transaction back, Redis keeps the key. *)
Crash(p) ==
    /\ pc[p] # "idle"
    /\ Rollback(p)
    /\ pc' = [pc EXCEPT ![p] = "idle"]
    /\ req' = [req EXCEPT ![p] = NoRequest]
    /\ mutex' = [o \in Orders |-> IF mutex[o] = p THEN Dead ELSE mutex[o]]
    /\ UNCHANGED acked

(* SetInv and SetStock, each one transaction that touches the rows of one   *)
(* goods while no other transaction locks them.                             *)
SetInv(in) ==
    /\ \A r \in RowsOf(in.goods) : rowLock[r] = None
    /\ Create(in)
    /\ cur' = [r \in Rows |-> IF inv'[r] # inv[r] THEN inv'[r] ELSE cur[r]]
    /\ UNCHANGED <<pc, req, todo, mutex, curDetail, rowLock, keyLock, gap, acked>>

SetStock(in, corr) ==
    /\ \A r \in RowsOf(in.goods) : rowLock[r] = None
    /\ Adjust(in, corr)
    /\ cur' = [r \in Rows |-> IF inv'[r] # inv[r] THEN inv'[r] ELSE cur[r]]
    /\ UNCHANGED <<pc, req, todo, mutex, curDetail, rowLock, keyLock, gap, acked>>

Step(p) ==
    \/ lockOrder(p) \/ LockFails(p)
    \/ GetSellDetail(p) \/ GetSellDetailForUpdate(p)
    \/ UpdateItem(p) \/ InsertDetail(p) \/ UpdateStockSellDetailStatus(p) \/ CommitTxn(p)
    \/ Abort(p) \/ Crash(p)

TNext ==
    \/ \E p \in Procs, op \in Ops, o \in Orders, d \in Details : Start(p, op, o, d)
    \/ \E p \in Procs : Step(p)
    \/ \E o \in Orders : Expire(o)
    \/ \E in \in StockInputs : SetInv(in)
    \/ \E in \in StockInputs, corr \in Corrs : SetStock(in, corr)

TSpec == TInit /\ [][TNext]_allvars

-----------------------------------------------------------------------------
Request == [op : Ops, order : Orders, detail : Details]

(* Every variable has its type, and a request that has not opened its       *)
(* transaction or has returned holds no lock in the database: every path    *)
(* out of withTxnExecutor ends the transaction.                             *)
TTypeOK ==
    /\ TypeOK
    /\ pc \in [Procs -> Labels]
    /\ req \in [Procs -> Request \cup {NoRequest}]
    /\ \A p \in Procs : req[p] = NoRequest <=> pc[p] = "idle"
    /\ todo \in [Procs -> SUBSET Goods]
    /\ mutex \in [Orders -> Procs \cup {None, Dead}]
    /\ cur \in [Rows -> InventoryDO]
    /\ curDetail \in [Orders -> StockSellDetailDO]
    /\ rowLock \in [Rows -> Procs \cup {None}]
    /\ keyLock \in [Orders -> Procs \cup {None}]
    /\ gap \in [Procs -> SUBSET Orders]
    /\ acked \subseteq Orders
    /\ \A p \in Procs : pc[p] \in {"idle", "lock", "read"} =>
         /\ todo[p] = {} /\ gap[p] = {}
         /\ \A r \in Rows : rowLock[r] # p
         /\ \A o \in Orders : keyLock[o] # p

(* What a caller was told stays true, whatever runs at the same time and    *)
(* even when the Redis lock was lost: once Reback or Confirm returned       *)
(* success for an order, its reservation is settled, and no Sell still on   *)
(* its way can reserve for it (GetSellDetailForUpdate, the released record  *)
(* Reback writes for an unknown order, the unique key on order_sn).         *)
AckedSettled == \A o \in acked : sellDetail[o].status \in {"released", "confirmed"}

(* A set of transactions each of which waits for another one of the set.    *)
Deadlocked(S) == S # {} /\ \A p \in S : WaitsFor(p) \cap S # {}

(* Updating the goods in the order of their ids keeps Sell, Reback and       *)
(* Confirm of different orders from waiting for one another in a circle.     *)
(* The only deadlocks left are between two releases of orders the ledger     *)
(* does not know, whose gap locks block each other's insert, and between two *)
(* requests for one order after the Redis lock of the first ran out: a Sell  *)
(* that holds the rows and waits to insert, and a Reback or Confirm that     *)
(* holds the record and waits for the rows.                                  *)
DeadlocksExplained ==
    \A S \in SUBSET Procs :
        Deadlocked(S) => \E p, q \in S :
            /\ p # q
            /\ \/ gap[p] # {} /\ gap[q] # {}
               \/ LockExpires /\ req[p].order = req[q].order

(* The transactions, interleaved statement by statement, implement the      *)
(* operations of Inventory: to the committed tables every one of them       *)
(* happens at once or not at all.                                           *)
Serializable == Spec
=============================================================================
