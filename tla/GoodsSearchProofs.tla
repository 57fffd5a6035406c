------------------------- MODULE GoodsSearchProofs -------------------------
(***************************************************************************)
(* Proofs about GoodsSearch, for any set of goods, any number of workers   *)
(* and any bounds: its types, that a done event took effect, and that the  *)
(* index only goes back where two writers overlapped.                      *)
(***************************************************************************)
EXTENDS GoodsSearch, TLAPS

Pcs == {"idle", "event", "write", "ok", "failed"}

Rows == [live : BOOLEAN, rev : Revisions]

(* A batch has the ids of events that exist.                                *)
Known(claims) == \A k \in 1 .. Len(claims) : claims[k].id <= Len(outbox)

PageOK ==
    /\ reindex = [ids |-> reindex.ids, page |-> reindex.page]
    /\ reindex.ids \subseteq Goods
    /\ DOMAIN reindex.page \subseteq Goods
    /\ reindex.page = [g \in DOMAIN reindex.page |-> reindex.page[g]]
    /\ \A g \in DOMAIN reindex.page : reindex.page[g] \in Revisions

Types ==
    /\ row \in [Goods -> Rows]
    /\ \A g \in Goods : row[g].rev <= Len(outbox)
    /\ outbox \in Seq(OutboxEventDO) /\ Len(outbox) <= MaxEvents
    /\ index \in [Goods -> Rows]
    /\ worker \in [Workers -> [pc : Pcs, batch : Seq(Claims), rev : Revisions]]
    /\ \A w \in Workers : /\ worker[w].pc = "idle" <=> worker[w].batch = <<>>
                          /\ Known(worker[w].batch)
    /\ replay \in Seq(Claims) /\ Known(replay)
    /\ PageOK
    /\ newest \in [Goods -> Revisions]
    /\ shared \subseteq Goods
    /\ faults \in 0 .. MaxFaults
    /\ requests \in 0 .. MaxConsole

(* What a step may do to the outbox: add to it, and change the status and   *)
(* the retry count of its events.                                           *)
Keeps ==
    /\ outbox' \in Seq(OutboxEventDO)
    /\ Len(outbox') >= Len(outbox)
    /\ Len(outbox') <= MaxEvents
    /\ \A i \in 1 .. Len(outbox) :
          /\ outbox'[i].goods = outbox[i].goods
          /\ outbox'[i].rev = outbox[i].rev
          /\ outbox'[i].action = outbox[i].action

LEMMA RowOfWorker ==
    ASSUME Types, NEW w \in Workers, worker[w].pc # "idle"
    PROVE  /\ worker[w].batch \in Seq(Claims)
           /\ Len(worker[w].batch) \in Nat \ {0}
           /\ Head(worker[w].batch) \in Claims
           /\ Head(worker[w].batch) = worker[w].batch[1]
           /\ Head(worker[w].batch).id \in 1 .. Len(outbox)
           /\ Current(w) \in OutboxEventDO
           /\ Current(w) = outbox[Head(worker[w].batch).id]
           /\ Tail(worker[w].batch) \in Seq(Claims)
           /\ Known(Tail(worker[w].batch))
           /\ Len(worker[w].batch) # 1 => Tail(worker[w].batch) # <<>>
  <1> DEFINE b == worker[w].batch
  <1>1. b \in Seq(Claims) /\ b # <<>> /\ Known(b)
    BY DEF Types
  <1>2. Len(b) \in Nat \ {0} /\ Head(b) = b[1] /\ b[1] \in Claims /\ Tail(b) \in Seq(Claims)
        /\ Len(Tail(b)) = Len(b) - 1 /\ \A k \in 1 .. Len(Tail(b)) : Tail(b)[k] = b[k + 1]
    BY <1>1
  <1>3. b[1].id \in 1 .. Len(outbox)
    BY <1>1, <1>2, GoodsAssumption DEF Known, Claims, Types
  <1>4. Known(Tail(b))
    BY <1>1, <1>2 DEF Known
  <1>5. Len(b) # 1 => Tail(b) # <<>>
    <2>1. Len(Tail(b)) = 0 => Len(b) = 1
      BY <1>2
    <2> QED
      BY <2>1
  <1>6. Current(w) \in OutboxEventDO
    BY <1>2, <1>3 DEF Current, Types
  <1> QED
    BY <1>1, <1>2, <1>3, <1>4, <1>5, <1>6 DEF Current

LEMMA EventsTyped ==
    ASSUME Types, NEW i \in 1 .. Len(outbox)
    PROVE  outbox[i].goods \in Goods /\ outbox[i].rev \in Nat
  <1>1. outbox[i] \in OutboxEventDO
    BY DEF Types
  <1> QED
    BY <1>1, GoodsAssumption DEF OutboxEventDO, Revisions

LEMMA InitTypes == GInit => Types
  BY GoodsAssumption DEF GInit, Types, Rows, Revisions, Idle, Off, NoPage, PageOK, Known, Pcs

-----------------------------------------------------------------------------
(* Types, and what happens to the outbox, action by action.                 *)

(* Ids of events that exist stay so.                                        *)
LEMMA KnownKept ==
    ASSUME Types, Keeps, NEW c \in Seq(Claims), Known(c)
    PROVE  Known(c)'
  <1>1. Len(outbox) \in Nat /\ Len(outbox') \in Nat /\ Len(outbox') >= Len(outbox)
    BY DEF Types, Keeps
  <1>2. \A k \in 1 .. Len(c) : c[k].id \in Nat /\ c[k].id <= Len(outbox)
    <2>1. \A k \in 1 .. Len(c) : c[k] \in Claims
      OBVIOUS
    <2>2. \A x \in Claims : x.id \in Nat
      BY GoodsAssumption DEF Claims
    <2> QED
      BY <2>1, <2>2 DEF Known
  <1> QED
    BY <1>1, <1>2 DEF Known

(* What a worker's step leaves to show of Types.                            *)
LEMMA RestTyped ==
    ASSUME Types, Keeps, UNCHANGED <<row, replay, reindex, shared, requests>>,
           worker' \in [Workers -> [pc : Pcs, batch : Seq(Claims), rev : Revisions]],
           \A v \in Workers : /\ worker'[v].pc = "idle" <=> worker'[v].batch = <<>>
                              /\ Known(worker[v].batch)',
           index' \in [Goods -> Rows], newest' \in [Goods -> Revisions],
           faults' \in 0 .. MaxFaults
    PROVE  Types'
  <1>1. row' \in [Goods -> Rows] /\ \A g \in Goods : row'[g].rev <= Len(outbox')
    <2>1. \A g \in Goods : row[g].rev \in Nat /\ row[g].rev <= Len(outbox)
      BY GoodsAssumption DEF Types, Rows, Revisions
    <2>2. Len(outbox) \in Nat /\ Len(outbox') \in Nat /\ Len(outbox) <= Len(outbox')
      BY DEF Types, Keeps
    <2> QED
      BY <2>1, <2>2 DEF Types
  <1>2. replay' \in Seq(Claims) /\ Known(replay)'
    BY KnownKept DEF Types
  <1>3. PageOK'
    BY DEF Types, PageOK
  <1>4. shared' \subseteq Goods /\ requests' \in 0 .. MaxConsole
    BY DEF Types
  <1>5. outbox' \in Seq(OutboxEventDO) /\ Len(outbox') <= MaxEvents
    BY DEF Keeps
  <1> QED
    BY <1>1, <1>2, <1>3, <1>4, <1>5 DEF Types

LEMMA ServiceSaves ==
    ASSUME Types, NEW g \in Goods, Create(g) \/ Update(g) \/ Delete(g)
    PROVE  \E live \in BOOLEAN, action \in {"upsert", "delete"} :
              /\ action = "delete" <=> ~live
              /\ row[g].live \/ row[g].rev = 0
              /\ Saves(g, live, Event(g, action, row[g].rev + 1))
  <1>1. CASE Create(g)
    <2>1. row[g].rev + 1 = 1
      BY <1>1 DEF Create
    <2> QED
      BY <1>1, <2>1 DEF Create, newGoodsSyncEvent
  <1>2. CASE Update(g)
    BY <1>2 DEF Update, newGoodsSyncEvent
  <1>3. CASE Delete(g)
    BY <1>3 DEF Delete, newGoodsDeleteEvent
  <1> QED
    BY <1>1, <1>2, <1>3

LEMMA ServiceTypes ==
    ASSUME Types, NEW g \in Goods, Create(g) \/ Update(g) \/ Delete(g)
    PROVE  Types' /\ Keeps
  <1>1. PICK live \in BOOLEAN, action \in {"upsert", "delete"} :
          Saves(g, live, Event(g, action, row[g].rev + 1))
    BY ServiceSaves
  <1> DEFINE e == Event(g, action, row[g].rev + 1)
  <1>2. e \in OutboxEventDO /\ row[g].rev + 1 \in Revisions
    BY <1>1, GoodsAssumption DEF Types, Rows, Saves, Event, OutboxEventDO, Revisions, Statuses
  <1>3. Keeps /\ Len(outbox') = Len(outbox) + 1
    BY <1>1, <1>2, GoodsAssumption DEF Types, Saves, Keeps
  <1>4. /\ row' \in [Goods -> Rows]
        /\ \A h \in Goods : row'[h].rev <= Len(outbox')
    BY <1>1, <1>2, <1>3 DEF Types, Saves, Rows, Revisions
  <1>5. (\A w \in Workers : Known(worker[w].batch)') /\ Known(replay)'
    BY <1>1, <1>3, KnownKept DEF Types, Saves, Known
  <1> QED
    BY <1>1, <1>3, <1>4, <1>5 DEF Types, Saves, Keeps, PageOK

(* A step that leaves every event where it is and may only change statuses  *)
(* and retry counts.                                                        *)
LEMMA Remarked ==
    ASSUME Types,
           outbox' \in [1 .. Len(outbox) -> OutboxEventDO],
           \A i \in 1 .. Len(outbox) :
              /\ outbox'[i].goods = outbox[i].goods
              /\ outbox'[i].rev = outbox[i].rev
              /\ outbox'[i].action = outbox[i].action
    PROVE  Keeps /\ Len(outbox') = Len(outbox)
  <1>1. Len(outbox) \in Nat /\ Len(outbox) <= MaxEvents
    BY DEF Types
  <1>2. outbox' \in Seq(OutboxEventDO) /\ Len(outbox') = Len(outbox)
    BY <1>1
  <1> QED
    BY <1>1, <1>2 DEF Keeps

(* One event marked: what Marks and ReplayNext do.                          *)
LEMMA MarkedOne ==
    ASSUME Types, NEW i \in 1 .. Len(outbox), NEW st \in Statuses, NEW rt \in Nat,
           outbox' = [outbox EXCEPT ![i].status = st, ![i].retry = rt]
    PROVE  /\ Keeps
           /\ Len(outbox') = Len(outbox)
           /\ outbox'[i].status = st
           /\ \A k \in 1 .. Len(outbox) : k # i => outbox'[k] = outbox[k]
  <1>1. outbox \in [1 .. Len(outbox) -> OutboxEventDO]
    BY DEF Types
  <1>2. outbox' \in [1 .. Len(outbox) -> OutboxEventDO]
    BY <1>1 DEF OutboxEventDO
  <1>3. \A k \in 1 .. Len(outbox) :
              /\ outbox'[k].goods = outbox[k].goods
              /\ outbox'[k].rev = outbox[k].rev
              /\ outbox'[k].action = outbox[k].action
    BY <1>1 DEF OutboxEventDO
  <1> QED
    BY <1>1, <1>2, <1>3, Remarked DEF OutboxEventDO

(* Several events with a new status: RequeueStale and ClaimPending.         *)
LEMMA MarkedSome ==
    ASSUME Types, NEW S, NEW st \in Statuses,
           outbox' = [i \in 1 .. Len(outbox) |->
                        IF i \in S THEN [outbox[i] EXCEPT !.status = st] ELSE outbox[i]]
    PROVE  /\ Keeps
           /\ Len(outbox') = Len(outbox)
           /\ \A k \in 1 .. Len(outbox) : outbox'[k].status \in {st, outbox[k].status}
  <1>1. outbox \in [1 .. Len(outbox) -> OutboxEventDO]
    BY DEF Types
  <1>2. outbox' \in [1 .. Len(outbox) -> OutboxEventDO]
    BY <1>1 DEF OutboxEventDO
  <1>3. \A k \in 1 .. Len(outbox) :
              /\ outbox'[k].goods = outbox[k].goods
              /\ outbox'[k].rev = outbox[k].rev
              /\ outbox'[k].action = outbox[k].action
              /\ outbox'[k].status \in {st, outbox[k].status}
    BY <1>1 DEF OutboxEventDO
  <1> QED
    BY <1>1, <1>2, <1>3, Remarked

LEMMA ListedOK ==
    ASSUME Types, NEW n \in Nat, NEW ids \in [1 .. n -> 1 .. Len(outbox)]
    PROVE  /\ Listed(ids) \in Seq(Claims)
           /\ Known(Listed(ids))
           /\ n # 0 => Listed(ids) # <<>>
  <1>1. outbox \in [1 .. Len(outbox) -> OutboxEventDO] /\ Len(outbox) \in Nat /\ Len(outbox) <= MaxEvents
    BY DEF Types
  <1>2. \A k \in 1 .. n : /\ ids[k] \in 1 .. Len(outbox)
                          /\ ids[k] \in 1 .. MaxEvents
                          /\ outbox[ids[k]].retry \in Nat
    BY <1>1, GoodsAssumption DEF OutboxEventDO
  <1>3. Listed(ids) = [k \in 1 .. n |-> [id |-> ids[k], retry |-> outbox[ids[k]].retry]]
    BY DEF Listed
  <1>4. Listed(ids) \in [1 .. n -> Claims]
    <2>1. \A k \in 1 .. n : [id |-> ids[k], retry |-> outbox[ids[k]].retry] \in Claims
      BY <1>2 DEF Claims
    <2> QED
      BY <1>3, <2>1
  <1>5. Listed(ids) \in Seq(Claims) /\ Len(Listed(ids)) = n
    BY <1>4
  <1>6. \A k \in 1 .. n : Listed(ids)[k].id <= Len(outbox)
    BY <1>1, <1>2, <1>3
  <1> QED
    BY <1>5, <1>6 DEF Known

LEMMA IndexedTypes ==
    ASSUME Types, NEW g \in Goods, NEW live \in BOOLEAN, NEW rev \in Revisions, Indexes(g, live, rev)
    PROVE  index' \in [Goods -> Rows] /\ newest' \in [Goods -> Revisions]
  BY DEF Indexes, Types, Rows

(* A worker that goes on with its event.                                    *)
LEMMA Moved ==
    ASSUME Types, NEW w \in Workers, worker[w].pc # "idle",
           NEW pc \in Pcs \ {"idle"}, NEW rev \in Revisions,
           \/ worker' = [worker EXCEPT ![w].pc = pc]
           \/ worker' = [worker EXCEPT ![w].pc = pc, ![w].rev = rev]
    PROVE  /\ worker' \in [Workers -> [pc : Pcs, batch : Seq(Claims), rev : Revisions]]
           /\ worker'[w].pc = pc
           /\ \A v \in Workers : /\ worker'[v].batch = worker[v].batch
                                 /\ worker'[v].pc = "idle" <=> worker[v].pc = "idle"
                                 /\ v # w => worker'[v] = worker[v]
  <1>1. worker \in [Workers -> [pc : Pcs, batch : Seq(Claims), rev : Revisions]]
    BY DEF Types
  <1>2. CASE worker' = [worker EXCEPT ![w].pc = pc]
    BY <1>1, <1>2
  <1>3. CASE worker' = [worker EXCEPT ![w].pc = pc, ![w].rev = rev]
    BY <1>1, <1>3
  <1> QED
    BY <1>2, <1>3

LEMMA WorkerTypes ==
    ASSUME Types, NEW w \in Workers, Sweeps(w) \/ CallFails(w) \/ SweepEnds(w)
    PROVE  Types' /\ Keeps
  <1> USE GoodsAssumption
  <1>0. Types /\ outbox' = outbox => Keeps
    BY DEF Types, Keeps
  <1>a. {"ok", "write", "failed"} \subseteq Pcs \ {"idle"} /\ 0 \in Revisions
    BY DEF Pcs, Revisions
  <1>1. CASE RequeueStale(w)
    <2>1. PICK S : outbox' = [i \in 1 .. Len(outbox) |->
                       IF i \in S THEN [outbox[i] EXCEPT !.status = "PENDING"] ELSE outbox[i]]
      BY <1>1 DEF RequeueStale
    <2>2. Keeps /\ Len(outbox') = Len(outbox)
      BY <2>1, MarkedSome DEF Statuses
    <2> QED
      BY <1>1, <2>2 DEF RequeueStale, Types, Keeps, Known, PageOK
  <1>2. CASE ClaimPending(w)
    <2>0. PICK n \in 1 .. BatchSize : \E ids \in [1 .. n -> 1 .. Len(outbox)] :
            /\ outbox' = [i \in 1 .. Len(outbox) |->
                          IF \E k \in 1 .. n : ids[k] = i
                          THEN [outbox[i] EXCEPT !.status = "PROCESSING"] ELSE outbox[i]]
            /\ worker' = [worker EXCEPT ![w] = [pc |-> "event", batch |-> Listed(ids), rev |-> 0]]
      BY <1>2 DEF ClaimPending
    <2>1. PICK ids \in [1 .. n -> 1 .. Len(outbox)] :
            /\ outbox' = [i \in 1 .. Len(outbox) |->
                          IF \E k \in 1 .. n : ids[k] = i
                          THEN [outbox[i] EXCEPT !.status = "PROCESSING"] ELSE outbox[i]]
            /\ worker' = [worker EXCEPT ![w] = [pc |-> "event", batch |-> Listed(ids), rev |-> 0]]
      BY <2>0
    <2> DEFINE S == {i \in 1 .. Len(outbox) : \E k \in 1 .. n : ids[k] = i}
    <2>2. outbox' = [i \in 1 .. Len(outbox) |->
                       IF i \in S THEN [outbox[i] EXCEPT !.status = "PROCESSING"] ELSE outbox[i]]
      BY <2>1
    <2>3. Keeps /\ Len(outbox') = Len(outbox)
      <3> HIDE DEF S
      <3> QED
        BY <2>2, MarkedSome DEF Statuses
    <2>4. n \in Nat \ {0} /\ Listed(ids) \in Seq(Claims) /\ Known(Listed(ids)) /\ Listed(ids) # <<>>
      BY <2>1, ListedOK
    <2>5. [pc |-> "event", batch |-> Listed(ids), rev |-> 0]
            \in [pc : Pcs, batch : Seq(Claims), rev : Revisions]
      BY <2>4 DEF Pcs, Revisions
    <2>6. worker' \in [Workers -> [pc : Pcs, batch : Seq(Claims), rev : Revisions]]
      BY <2>1, <2>5 DEF Types
    <2>7. \A v \in Workers : /\ worker'[v].pc = "idle" <=> worker'[v].batch = <<>>
                             /\ Known(worker'[v].batch)
      BY <2>1, <2>4 DEF Types
    <2>8. \A v \in Workers : Known(worker[v].batch)'
      BY <2>3, <2>7 DEF Known
    <2>9. UNCHANGED <<row, index, replay, reindex, newest, shared, faults, requests>>
      BY <1>2 DEF ClaimPending
    <2>10. index' \in [Goods -> Rows] /\ newest' \in [Goods -> Revisions] /\ faults' \in 0 .. MaxFaults
      BY <2>9 DEF Types
    <2> QED
      BY <2>3, <2>6, <2>7, <2>8, <2>9, <2>10, RestTyped
  <1>3. CASE Resolve(w)
    <2>1. worker[w].pc # "idle" /\ outbox' = outbox
      BY <1>3 DEF Resolve
    <2>2. Current(w) \in OutboxEventDO
      BY <2>1, RowOfWorker
    <2>3. \/ worker' = [worker EXCEPT ![w].pc = "failed"]
          \/ \E rev \in Revisions : worker' = [worker EXCEPT ![w].pc = "write", ![w].rev = rev]
      BY <1>3, <2>2 DEF Resolve, Types, OutboxEventDO, Rows
    <2>4. /\ worker' \in [Workers -> [pc : Pcs, batch : Seq(Claims), rev : Revisions]]
          /\ \A v \in Workers : /\ worker'[v].batch = worker[v].batch
                                /\ worker'[v].pc = "idle" <=> worker[v].pc = "idle"
      BY <2>1, <2>3, <1>a, Moved
    <2>5. shared' \subseteq Goods
      BY <1>3, <2>2 DEF Resolve, Takes, Types, OutboxEventDO
    <2> QED
      BY <1>0, <1>3, <2>1, <2>4, <2>5 DEF Resolve, Types, PageOK, Known
  <1>4. CASE WriteIndex(w)
    <2>1. worker[w].pc # "idle" /\ outbox' = outbox
      BY <1>4 DEF WriteIndex, Writing
    <2>2. Current(w) \in OutboxEventDO
      BY <2>1, RowOfWorker
    <2>3. /\ worker' \in [Workers -> [pc : Pcs, batch : Seq(Claims), rev : Revisions]]
          /\ \A v \in Workers : /\ worker'[v].batch = worker[v].batch
                                /\ worker'[v].pc = "idle" <=> worker[v].pc = "idle"
      BY <1>4, <2>1, <1>a, Moved DEF WriteIndex
    <2>4. index' \in [Goods -> Rows] /\ newest' \in [Goods -> Revisions]
      BY <1>4, <2>2, IndexedTypes DEF WriteIndex, Types, OutboxEventDO
    <2>5. \A v \in Workers : /\ worker'[v].pc = "idle" <=> worker'[v].batch = <<>>
                             /\ Known(worker[v].batch)'
      BY <2>1, <2>3 DEF Types, Known
    <2>6. UNCHANGED <<row, replay, reindex, shared, requests>> /\ faults' \in 0 .. MaxFaults
      BY <1>4 DEF WriteIndex, Types
    <2> QED
      BY <1>0, <2>1, <2>3, <2>4, <2>5, <2>6, RestTyped
  <1>5. CASE MarkDone(w) \/ MarkFailed(w)
    <2>1. worker[w].pc # "idle"
      BY <1>5 DEF MarkDone, MarkFailed
    <2> DEFINE i == Head(worker[w].batch).id
    <2>2. /\ i \in 1 .. Len(outbox)
          /\ Head(worker[w].batch) \in Claims
          /\ Current(w) \in OutboxEventDO
          /\ Tail(worker[w].batch) \in Seq(Claims)
          /\ Known(Tail(worker[w].batch))
          /\ Len(worker[w].batch) # 1 => Tail(worker[w].batch) # <<>>
      BY <2>1, RowOfWorker
    <2>3. PICK st \in Statuses, rt \in Nat : Marks(w, st, rt)
      <3>1. CASE MarkDone(w)
        BY <3>1, <2>2 DEF MarkDone, Statuses, OutboxEventDO
      <3>2. CASE MarkFailed(w)
        <4>1. Head(worker[w].batch).retry + 1 \in Nat
          <5>1. \A c \in Claims : c.retry + 1 \in Nat
            BY DEF Claims
          <5> QED
            BY <2>2, <5>1
        <4> QED
          BY <3>2, <4>1 DEF MarkFailed, Statuses
      <3> QED
        BY <1>5, <3>1, <3>2
    <2>4. Keeps /\ Len(outbox') = Len(outbox)
      BY <2>2, <2>3, MarkedOne DEF Marks
    <2>5. PICK next \in [pc : Pcs, batch : Seq(Claims), rev : Revisions] :
            /\ worker' = [worker EXCEPT ![w] = next]
            /\ next.pc = "idle" <=> next.batch = <<>>
            /\ Known(next.batch)
      <3>1. CASE Len(worker[w].batch) = 1
        <4>1. Idle \in [pc : Pcs, batch : Seq(Claims), rev : Revisions]
          BY DEF Idle, Pcs, Revisions
        <4>2. Known(Idle.batch) /\ Idle.pc = "idle" /\ Idle.batch = <<>>
          BY DEF Idle, Known
        <4>3. worker' = [worker EXCEPT ![w] = Idle]
          BY <2>3, <3>1 DEF Marks
        <4> QED
          BY <4>1, <4>2, <4>3
      <3>2. CASE Len(worker[w].batch) # 1
        <4> DEFINE next == [pc |-> "event", batch |-> Tail(worker[w].batch), rev |-> 0]
        <4>1. next \in [pc : Pcs, batch : Seq(Claims), rev : Revisions]
          BY <2>2 DEF Pcs, Revisions
        <4>2. worker' = [worker EXCEPT ![w] = next]
          BY <2>3, <3>2 DEF Marks
        <4> QED
          BY <2>2, <3>2, <4>1, <4>2
      <3> QED
        BY <3>1, <3>2
    <2>7. worker' \in [Workers -> [pc : Pcs, batch : Seq(Claims), rev : Revisions]]
      BY <2>5 DEF Types
    <2>8. \A v \in Workers : /\ worker'[v].pc = "idle" <=> worker'[v].batch = <<>>
                             /\ Known(worker'[v].batch)
      BY <2>5 DEF Types
    <2>9. \A v \in Workers : Known(worker[v].batch)'
      BY <2>4, <2>8 DEF Known
    <2>10. UNCHANGED <<row, index, replay, reindex, newest, shared, faults, requests>>
      BY <2>3 DEF Marks
    <2>11. index' \in [Goods -> Rows] /\ newest' \in [Goods -> Revisions] /\ faults' \in 0 .. MaxFaults
      BY <2>10 DEF Types
    <2> QED
      BY <2>4, <2>7, <2>8, <2>9, <2>10, <2>11, RestTyped
  <1>6. CASE CallFails(w)
    <2>1. worker[w].pc # "idle" /\ outbox' = outbox
      BY <1>6 DEF CallFails
    <2>2. Current(w) \in OutboxEventDO
      BY <2>1, RowOfWorker
    <2>3. /\ worker' \in [Workers -> [pc : Pcs, batch : Seq(Claims), rev : Revisions]]
          /\ \A v \in Workers : /\ worker'[v].batch = worker[v].batch
                                /\ worker'[v].pc = "idle" <=> worker[v].pc = "idle"
      BY <1>6, <2>1, <1>a, Moved DEF CallFails
    <2>4. index' \in [Goods -> Rows] /\ newest' \in [Goods -> Revisions]
      BY <1>6, <2>2, IndexedTypes DEF CallFails, Types, OutboxEventDO
    <2>5. \A v \in Workers : /\ worker'[v].pc = "idle" <=> worker'[v].batch = <<>>
                             /\ Known(worker[v].batch)'
      BY <2>1, <2>3 DEF Types, Known
    <2>6. UNCHANGED <<row, replay, reindex, shared, requests>> /\ faults' \in 0 .. MaxFaults
      BY <1>6 DEF CallFails, Fault, Types
    <2> QED
      BY <1>0, <2>1, <2>3, <2>4, <2>5, <2>6, RestTyped
  <1>7. CASE SweepEnds(w)
    <2>1. Idle \in [pc : Pcs, batch : Seq(Claims), rev : Revisions]
      BY DEF Idle, Pcs, Revisions
    <2>2. Known(Idle.batch) /\ Idle.pc = "idle" /\ Idle.batch = <<>>
      BY DEF Idle, Known
    <2>3. outbox' = outbox /\ worker' = [worker EXCEPT ![w] = Idle]
      BY <1>7 DEF SweepEnds
    <2>4. /\ worker' \in [Workers -> [pc : Pcs, batch : Seq(Claims), rev : Revisions]]
          /\ \A v \in Workers : /\ worker'[v].pc = "idle" <=> worker'[v].batch = <<>>
                                /\ Known(worker'[v].batch)
      BY <2>1, <2>2, <2>3 DEF Types
    <2>5. \A v \in Workers : Known(worker[v].batch)'
      BY <2>3, <2>4 DEF Known
    <2>6. /\ UNCHANGED <<row, index, newest, replay, reindex, shared, requests>>
          /\ faults' \in 0 .. MaxFaults
      BY <1>7 DEF SweepEnds, Fault, Types
    <2>7. index' \in [Goods -> Rows] /\ newest' \in [Goods -> Revisions]
      BY <2>6 DEF Types
    <2> QED
      BY <1>0, <2>3, <2>4, <2>5, <2>6, <2>7, RestTyped
  <1> QED
    BY <1>1, <1>2, <1>3, <1>4, <1>5, <1>6, <1>7 DEF Sweeps, processGoodsOutboxEvent

LEMMA OffOK ==
    ASSUME reindex' = Off
    PROVE  PageOK'
  <1>1. reindex' = [ids |-> {}, page |-> NoPage]
    BY DEF Off
  <1> QED
    BY <1>1 DEF PageOK, NoPage

LEMMA OperatorTypes ==
    ASSUME Types, Operator
    PROVE  Types' /\ Keeps
  <1> USE GoodsAssumption
  <1>0. Types /\ outbox' = outbox => Keeps
    BY DEF Types, Keeps
  <1>1. ASSUME NEW s \in Statuses, ReplayOutbox(s)
        PROVE  Types' /\ Keeps
    <2>1. PICK n \in 1 .. Len(outbox) : \E ids \in [1 .. n -> 1 .. Len(outbox)] : replay' = Listed(ids)
      BY <1>1 DEF ReplayOutbox
    <2>2. PICK ids \in [1 .. n -> 1 .. Len(outbox)] : replay' = Listed(ids)
      BY <2>1
    <2>3. n \in Nat
      BY DEF Types
    <2>4. replay' \in Seq(Claims) /\ Known(replay')
      BY <2>2, <2>3, ListedOK
    <2> QED
      BY <1>0, <1>1, <2>4 DEF ReplayOutbox, Request, Types, PageOK, Known
  <1>2. CASE ReplayNext
    <2>1. replay \in Seq(Claims) /\ replay # <<>> /\ Known(replay)
      BY <1>2 DEF ReplayNext, Types
    <2>2. /\ Head(replay) = replay[1] /\ replay[1] \in Claims /\ 1 \in 1 .. Len(replay)
          /\ Tail(replay) \in Seq(Claims) /\ Len(Tail(replay)) = Len(replay) - 1
          /\ \A k \in 1 .. Len(Tail(replay)) : Tail(replay)[k] = replay[k + 1]
      BY <2>1
    <2>3. Head(replay).id \in 1 .. Len(outbox) /\ Head(replay).retry \in Nat
      BY <2>1, <2>2 DEF Known, Claims, Types
    <2>4. Keeps /\ Len(outbox') = Len(outbox)
      BY <1>2, <2>3, MarkedOne DEF ReplayNext, Statuses
    <2>5. Known(Tail(replay))
      BY <2>1, <2>2 DEF Known
    <2> QED
      BY <1>2, <2>2, <2>4, <2>5 DEF ReplayNext, Types, Keeps, PageOK, Known
  <1>3. ASSUME NEW S \in SUBSET Goods, Reindex(S)
        PROVE  Types' /\ Keeps
    <2>1. PageOK'
      BY <1>3 DEF Reindex, PageOK, NoPage
    <2> QED
      BY <1>0, <1>3, <2>1 DEF Reindex, Request, Types, Known
  <1>4. CASE reindexAll
    <2>1. PageOK'
      BY <1>4 DEF reindexAll, PageOK, Live, Types, Rows
    <2> QED
      BY <1>0, <1>4, <2>1 DEF reindexAll, Request, Live, Types, Known
  <1>5. ASSUME NEW g \in Goods, ReindexRead(g)
        PROVE  Types' /\ Keeps
    <2>1. PageOK'
      <3>1. CASE row[g].live
        BY <1>5, <3>1 DEF ReindexRead, PageOK, Types, Rows
      <3>2. CASE ~row[g].live
        BY <1>5, <3>2, OffOK DEF ReindexRead
      <3> QED
        BY <3>1, <3>2
    <2>2. shared' \subseteq Goods
      BY <1>5 DEF ReindexRead, Takes, Types
    <2> QED
      BY <1>0, <1>5, <2>1, <2>2 DEF ReindexRead, Types, Known
  <1>6. ASSUME NEW g \in Goods, ReindexWrite(g)
        PROVE  Types' /\ Keeps
    <2>1. PageOK'
      BY <1>6 DEF ReindexWrite, PageOK, Types
    <2>2. index' \in [Goods -> Rows] /\ newest' \in [Goods -> Revisions]
      BY <1>6, IndexedTypes DEF ReindexWrite, Types, PageOK
    <2> QED
      BY <1>0, <1>6, <2>1, <2>2 DEF ReindexWrite, Types, Known
  <1>7. CASE RequestFails
    <2>1. PageOK'
      <3>1. CASE reindex' = Off
        BY <3>1, OffOK
      <3>2. CASE reindex' = reindex
        BY <3>2 DEF Types, PageOK
      <3> QED
        BY <1>7, <3>1, <3>2 DEF RequestFails
    <2>2. replay' \in Seq(Claims) /\ Known(replay')
      <3>1. CASE replay' = <<>>
        <4>1. Len(replay') = 0 /\ replay' \in Seq(Claims)
          BY <3>1
        <4> QED
          BY <4>1 DEF Known
      <3>2. CASE replay' = replay
        BY <3>2 DEF Types
      <3> QED
        BY <1>7, <3>1, <3>2 DEF RequestFails
    <2> QED
      BY <1>0, <1>7, <2>1, <2>2 DEF RequestFails, Fault, Types, Known
  <1> QED
    BY <1>1, <1>2, <1>3, <1>4, <1>5, <1>6, <1>7 DEF Operator, Reindexes

LEMMA NextTypes ==
    ASSUME Types, [GNext]_gvars
    PROVE  Types' /\ Keeps
  <1>1. CASE UNCHANGED gvars
    BY <1>1 DEF gvars, Types, PageOK, Known, Keeps
  <1>2. CASE GNext
    BY <1>2, ServiceTypes, WorkerTypes, OperatorTypes DEF GNext, Service
  <1> QED
    BY <1>1, <1>2

-----------------------------------------------------------------------------
(* The inductive invariant.  The table is never behind: neither an event,   *)
(* nor the index, nor a revision somebody has in hand is newer than the     *)
(* row, and a deletion is the last event of its goods.                      *)

Behind ==
    /\ \A g \in Goods : index[g].rev <= row[g].rev
    /\ \A i \in 1 .. Len(outbox) :
          /\ outbox[i].rev >= 1 /\ outbox[i].rev <= row[outbox[i].goods].rev
          /\ outbox[i].action = "delete" =>
               ~row[outbox[i].goods].live /\ outbox[i].rev = row[outbox[i].goods].rev
    /\ \A w \in Workers : Writing(w) => worker[w].rev <= row[Current(w).goods].rev
    /\ \A g \in DOMAIN reindex.page : reindex.page[g] <= row[g].rev

(* A worker writes at least its event's revision, and is done with an event *)
(* only once the index has had it.                                          *)
Effective ==
    /\ EventsApplied
    /\ \A w \in Workers : Writing(w) => worker[w].rev >= Current(w).rev
    /\ \A w \in Workers : worker[w].pc = "ok" => newest[Current(w).goods] >= Current(w).rev

(* A goods that was never shared has at most one writer, and that writer    *)
(* has nothing older than the index.                                        *)
Holds(w, g) == Writing(w) /\ Current(w).goods = g

Apart ==
    \A g \in Goods : g \notin shared =>
        /\ \A w \in Workers : Holds(w, g) =>
              /\ worker[w].rev >= index[g].rev
              /\ g \notin DOMAIN reindex.page
              /\ \A v \in Workers : Holds(v, g) => v = w
        /\ g \in DOMAIN reindex.page => reindex.page[g] >= index[g].rev

Inv == Types /\ Behind /\ Effective /\ Apart

(* The revisions of a goods, and how they compare.                          *)
LEMMA Revs ==
    ASSUME Types, Behind, NEW g \in Goods
    PROVE  row[g].rev \in Nat /\ index[g].rev \in Nat /\ index[g].rev <= row[g].rev
  <1>1. row[g] \in Rows /\ index[g] \in Rows
    BY DEF Types
  <1> QED
    BY <1>1, GoodsAssumption DEF Behind, Rows, Revisions

LEMMA InitInv == GInit => Inv
  <1> SUFFICES ASSUME GInit PROVE Inv
    OBVIOUS
  <1>1. Types
    BY InitTypes
  <1>2. \A w \in Workers : worker[w].pc = "idle"
    BY DEF GInit, Idle
  <1>3. DOMAIN reindex.page = {} /\ Len(outbox) = 0
    BY DEF GInit, Off, NoPage
  <1>4. Behind
    BY <1>1, <1>2, <1>3 DEF Behind, GInit, Writing
  <1>5. Effective
    BY <1>2, <1>3 DEF Effective, EventsApplied, Writing
  <1>6. Apart
    BY <1>2, <1>3 DEF Apart, Holds, Writing
  <1> QED
    BY <1>1, <1>4, <1>5, <1>6 DEF Inv

(* A worker that stays at its event stays with the same event.              *)
LEMMA SameEvent ==
    ASSUME Types, Types', Keeps, NEW w \in Workers, worker[w].pc # "idle",
           worker'[w].batch = worker[w].batch
    PROVE  /\ Current(w)'.goods = Current(w).goods
           /\ Current(w)'.rev = Current(w).rev
           /\ Current(w)'.action = Current(w).action
  <1>1. Head(worker[w].batch).id \in 1 .. Len(outbox)
    BY RowOfWorker
  <1> QED
    BY <1>1 DEF Current, Keeps

LEMMA ServiceInv ==
    ASSUME Inv, Types', Keeps, NEW g \in Goods, Create(g) \/ Update(g) \/ Delete(g)
    PROVE  Inv'
  <1>1. PICK live \in BOOLEAN, action \in {"upsert", "delete"} :
              /\ action = "delete" <=> ~live
              /\ row[g].live \/ row[g].rev = 0
              /\ Saves(g, live, Event(g, action, row[g].rev + 1))
    BY ServiceSaves DEF Inv
  <1> DEFINE e == Event(g, action, row[g].rev + 1)
  <1>2. /\ row' = [row EXCEPT ![g] = [live |-> live, rev |-> row[g].rev + 1]]
        /\ outbox' = Append(outbox, e)
        /\ UNCHANGED <<index, worker, replay, reindex, newest, shared, faults, requests>>
    BY <1>1 DEF Saves
  <1>3. /\ Len(outbox) \in Nat /\ Len(outbox') = Len(outbox) + 1
        /\ \A i \in 1 .. Len(outbox) : outbox'[i] = outbox[i]
        /\ outbox'[Len(outbox) + 1] = e
    <2>1. outbox \in Seq(OutboxEventDO)
      BY DEF Inv, Types
    <2> QED
      BY <1>2, <2>1
  <1>4. \A h \in Goods : /\ row[h].rev \in Nat /\ row'[h].rev \in Nat
                         /\ row'[h].rev >= row[h].rev
                         /\ h # g => row'[h] = row[h]
    BY <1>2 DEF Inv, Types, Rows, Revisions
  <1>5. \A w \in Workers : worker[w].pc # "idle" => Current(w)' = Current(w)
    <2> SUFFICES ASSUME NEW w \in Workers, worker[w].pc # "idle" PROVE Current(w)' = Current(w)
      OBVIOUS
    <2>1. Head(worker[w].batch).id \in 1 .. Len(outbox)
      BY RowOfWorker DEF Inv
    <2> QED
      BY <1>2, <1>3, <2>1 DEF Current
  <1>6. \A i \in 1 .. Len(outbox) : outbox[i].goods \in Goods /\ outbox[i].rev \in Nat
    BY EventsTyped DEF Inv
  <1>7. Behind'
    <2>1. \A h \in Goods : index'[h].rev <= row'[h].rev
      <3>1. \A h \in Goods : index[h].rev \in Nat /\ index[h].rev <= row[h].rev
        BY Revs DEF Inv
      <3> QED
        BY <1>2, <1>4, <3>1
    <2>2. ASSUME NEW i \in 1 .. Len(outbox')
          PROVE  /\ outbox'[i].rev >= 1 /\ outbox'[i].rev <= row'[outbox'[i].goods].rev
                 /\ outbox'[i].action = "delete" =>
                      ~row'[outbox'[i].goods].live /\ outbox'[i].rev = row'[outbox'[i].goods].rev
      <3>1. CASE i = Len(outbox) + 1
        <4>1. outbox'[i].goods = g /\ outbox'[i].rev = row[g].rev + 1 /\ outbox'[i].action = action
          BY <1>3, <3>1 DEF Event
        <4>2. row'[g].live = live /\ row'[g].rev = row[g].rev + 1
          BY <1>2 DEF Inv, Types
        <4> QED
          BY <1>1, <1>4, <4>1, <4>2
      <3>2. CASE i \in 1 .. Len(outbox)
        <4>1. outbox'[i] = outbox[i] /\ outbox[i].goods \in Goods
          BY <1>3, <1>6, <3>2
        <4>2. CASE outbox[i].goods # g
          BY <1>4, <4>1, <4>2, <3>2 DEF Inv, Behind
        <4>3. CASE outbox[i].goods = g
          <5>1. /\ outbox[i].rev \in Nat /\ outbox[i].rev >= 1 /\ outbox[i].rev <= row[g].rev
                /\ outbox[i].action = "delete" => ~row[g].live /\ outbox[i].rev = row[g].rev
            BY <1>6, <4>3, <3>2 DEF Inv, Behind
          <5>2. outbox[i].action # "delete"
            BY <1>1, <5>1
          <5> QED
            BY <1>4, <4>1, <4>3, <5>1, <5>2
        <4> QED
          BY <4>2, <4>3
      <3> QED
        BY <1>3, <3>1, <3>2
    <2>3. \A w \in Workers : Writing(w)' => worker'[w].rev <= row'[Current(w)'.goods].rev
      <3> SUFFICES ASSUME NEW w \in Workers, Writing(w)
                   PROVE  worker[w].rev <= row'[Current(w)'.goods].rev
        BY <1>2 DEF Writing
      <3>1. Current(w) \in OutboxEventDO /\ Current(w)' = Current(w)
        BY <1>5, RowOfWorker DEF Inv, Writing
      <3>2. worker[w].rev \in Nat /\ worker[w].rev <= row[Current(w).goods].rev
        <4>1. worker[w].rev \in Nat
          BY DEF Inv, Types, Revisions
        <4> QED
          BY <4>1 DEF Inv, Behind
      <3> QED
        BY <1>4, <3>1, <3>2 DEF OutboxEventDO
    <2>4. \A h \in DOMAIN reindex'.page : reindex'.page[h] <= row'[h].rev
      BY <1>2, <1>4 DEF Inv, Behind, Types, PageOK, Revisions
    <2> QED
      BY <2>1, <2>2, <2>3, <2>4 DEF Behind
  <1>8. Effective'
    <2>1. EventsApplied'
      <3> SUFFICES ASSUME NEW i \in 1 .. Len(outbox'), outbox'[i].status = "DONE"
                   PROVE  newest'[outbox'[i].goods] >= outbox'[i].rev
        BY DEF EventsApplied
      <3>1. Len(outbox) \in Nat /\ i \in 1 .. Len(outbox) + 1
        BY <1>3 DEF Inv, Types
      <3>2. i # Len(outbox) + 1
        BY <1>3 DEF Event
      <3>3. i \in 1 .. Len(outbox) /\ outbox'[i] = outbox[i]
        BY <1>3, <3>1, <3>2
      <3> QED
        BY <1>2, <3>3 DEF Inv, Effective, EventsApplied
    <2> QED
      BY <1>2, <1>5, <2>1 DEF Inv, Effective, Writing
  <1>9. Apart'
    <2>1. \A h \in Goods, w \in Workers : Holds(w, h)' <=> Holds(w, h)
      BY <1>2, <1>5 DEF Holds, Writing
    <2> QED
      BY <1>2, <2>1 DEF Inv, Apart
  <1> QED
    BY <1>7, <1>8, <1>9 DEF Inv

(* Steps in which nobody takes a goods in hand and nobody writes the index: *)
(* claims, marks, failures, replays.                                        *)
LEMMA QuietInv ==
    ASSUME Inv, Types', Keeps, Len(outbox') = Len(outbox),
           UNCHANGED <<row, index, newest, shared>>,
           DOMAIN reindex'.page \subseteq DOMAIN reindex.page,
           \A g \in DOMAIN reindex'.page : reindex'.page[g] = reindex.page[g],
           \A v \in Workers : worker'[v].pc \in {"write", "ok"} => worker'[v] = worker[v],
           EventsApplied'
    PROVE  Inv'
  <1>1. \A v \in Workers : worker'[v].pc \in {"write", "ok"} =>
          /\ worker'[v] = worker[v]
          /\ Current(v)'.goods = Current(v).goods
          /\ Current(v)'.rev = Current(v).rev
    BY SameEvent DEF Inv
  <1>2. Behind'
    <2>1. \A i \in 1 .. Len(outbox') :
          /\ outbox'[i].rev >= 1 /\ outbox'[i].rev <= row'[outbox'[i].goods].rev
          /\ outbox'[i].action = "delete" =>
               ~row'[outbox'[i].goods].live /\ outbox'[i].rev = row'[outbox'[i].goods].rev
      BY DEF Inv, Behind, Keeps
    <2>2. \A w \in Workers : Writing(w)' => worker'[w].rev <= row'[Current(w)'.goods].rev
      <3> SUFFICES ASSUME NEW w \in Workers, Writing(w)'
                   PROVE  worker'[w].rev <= row'[Current(w)'.goods].rev
        OBVIOUS
      <3>1. worker'[w] = worker[w] /\ Writing(w) /\ Current(w)'.goods = Current(w).goods
        BY <1>1 DEF Writing
      <3> QED
        BY <3>1 DEF Inv, Behind
    <2> QED
      BY <2>1, <2>2 DEF Inv, Behind
  <1>3. Effective'
    BY <1>1 DEF Inv, Effective, Writing
  <1>4. Apart'
    BY <1>1 DEF Inv, Apart, Holds, Writing
  <1> QED
    BY <1>2, <1>3, <1>4 DEF Inv

(* No event becomes done: then nothing has to have had its effect.          *)
LEMMA NoneDone ==
    ASSUME Inv, Keeps, Len(outbox') = Len(outbox), newest' = newest,
           \A i \in 1 .. Len(outbox) : outbox'[i].status = "DONE" => outbox[i].status = "DONE"
    PROVE  EventsApplied'
  BY DEF Inv, Effective, EventsApplied, Keeps

(* A write of the index with a revision somebody had in hand.               *)
LEMMA IndexedNewest ==
    ASSUME Types, NEW g \in Goods, NEW live \in BOOLEAN, NEW rev \in Revisions, Indexes(g, live, rev)
    PROVE  /\ \A h \in Goods : newest'[h] \in Nat /\ newest[h] \in Nat /\ newest'[h] >= newest[h]
           /\ newest'[g] >= rev
           /\ index'[g].rev = rev
           /\ \A h \in Goods : h # g => index'[h] = index[h]
  BY GoodsAssumption DEF Types, Indexes, Rows, Revisions

LEMMA AppliedGrows ==
    ASSUME Inv, Types', outbox' = outbox,
           \A h \in Goods : newest'[h] \in Nat /\ newest[h] \in Nat /\ newest'[h] >= newest[h]
    PROVE  EventsApplied'
  <1> SUFFICES ASSUME NEW i \in 1 .. Len(outbox), outbox[i].status = "DONE"
               PROVE  newest'[outbox[i].goods] >= outbox[i].rev
    BY DEF EventsApplied
  <1>1. outbox[i].goods \in Goods /\ outbox[i].rev \in Nat
    BY EventsTyped DEF Inv
  <1> QED
    BY <1>1 DEF Inv, Effective, EventsApplied

(* A worker w writes what it has in hand; it ends in pc, where it no longer *)
(* has anything in hand.                                                    *)
LEMMA WriteInv ==
    ASSUME Inv, Types', NEW w \in Workers, Writing(w), NEW pc \in {"ok", "failed"},
           Indexes(Current(w).goods, Current(w).action = "upsert", worker[w].rev),
           worker' = [worker EXCEPT ![w].pc = pc],
           UNCHANGED <<row, outbox, reindex, shared>>
    PROVE  Inv'
  <1> DEFINE g == Current(w).goods
  <1>1. worker[w].pc # "idle" /\ Types
    BY DEF Writing, Inv
  <1>2. g \in Goods /\ worker[w].rev \in Revisions /\ Current(w).rev \in Nat
    <2>1. Current(w) \in OutboxEventDO
      BY <1>1, RowOfWorker
    <2> QED
      BY <1>1, <2>1, GoodsAssumption DEF OutboxEventDO, Types, Revisions
  <1>3. /\ \A h \in Goods : newest'[h] \in Nat /\ newest[h] \in Nat /\ newest'[h] >= newest[h]
        /\ newest'[g] >= worker[w].rev
        /\ index'[g].rev = worker[w].rev
        /\ \A h \in Goods : h # g => index'[h] = index[h]
    BY <1>1, <1>2, IndexedNewest
  <1>4. /\ \A v \in Workers : v # w => worker'[v] = worker[v]
        /\ \A v \in Workers : worker'[v].batch = worker[v].batch
        /\ worker'[w].pc = pc
    BY <1>1 DEF Types
  <1>5. \A v \in Workers : Current(v)' = Current(v)
    BY <1>4 DEF Current
  <1>6. \A v \in Workers : Writing(v)' => v # w /\ Writing(v) /\ worker'[v] = worker[v]
    BY <1>4 DEF Writing
  <1>7. Behind'
    BY <1>2, <1>3, <1>5, <1>6 DEF Inv, Behind
  <1>8. Effective'
    <2>1. EventsApplied'
      BY <1>3, AppliedGrows
    <2>2. \A v \in Workers : Writing(v)' => worker'[v].rev >= Current(v)'.rev
      BY <1>5, <1>6 DEF Inv, Effective
    <2>3. ASSUME NEW v \in Workers, worker'[v].pc = "ok"
          PROVE  newest'[Current(v)'.goods] >= Current(v)'.rev
      <3>1. CASE v = w
        BY <1>2, <1>3, <1>5, <3>1 DEF Inv, Effective, Types, Revisions
      <3>2. CASE v # w
        <4>1. worker[v].pc = "ok"
          BY <1>4, <2>3, <3>2
        <4>2. Current(v) \in OutboxEventDO
          BY <1>1, <4>1, RowOfWorker
        <4>3. Current(v).goods \in Goods /\ Current(v).rev \in Nat
          BY <4>2, GoodsAssumption DEF OutboxEventDO, Revisions
        <4> QED
          BY <1>3, <1>5, <4>1, <4>3 DEF Inv, Effective
      <3> QED
        BY <3>1, <3>2
    <2> QED
      BY <2>1, <2>2, <2>3 DEF Effective
  <1>9. Apart'
    BY <1>2, <1>3, <1>5, <1>6 DEF Inv, Apart, Holds
  <1> QED
    BY <1>7, <1>8, <1>9 DEF Inv

(* A worker takes a goods in hand: with the row's revision, or with that of *)
(* a deletion, which is the row's too.                                      *)
LEMMA ResolveInv ==
    ASSUME Inv, Types', Keeps, NEW w \in Workers, Resolve(w)
    PROVE  Inv'
  <1> DEFINE e == Current(w)
             g == e.goods
  <1>1. worker[w].pc = "event" /\ Types
    BY DEF Resolve, Inv
  <1>2. e \in OutboxEventDO /\ Head(worker[w].batch).id \in 1 .. Len(outbox)
        /\ e = outbox[Head(worker[w].batch).id]
    BY <1>1, RowOfWorker
  <1>3. g \in Goods /\ e.rev \in Nat /\ e.action \in {"upsert", "delete"}
    <2>1. \A x \in OutboxEventDO : x.goods \in Goods /\ x.rev \in Nat /\ x.action \in {"upsert", "delete"}
      BY GoodsAssumption DEF OutboxEventDO, Revisions
    <2> QED
      BY <1>2, <2>1
  <1>4. UNCHANGED <<row, outbox, index, replay, reindex, newest>>
    BY DEF Resolve
  <1>5. \A v \in Workers : v # w => worker'[v] = worker[v]
    BY <1>1 DEF Resolve, Types
  <1>6. CASE e.action = "upsert" /\ ~row[g].live
    <2>1. worker' = [worker EXCEPT ![w].pc = "failed"] /\ shared' = shared
      BY <1>6 DEF Resolve
    <2>2. worker'[w].pc = "failed"
      BY <1>1, <2>1 DEF Types
    <2>3. EventsApplied'
      BY <1>4 DEF Inv, Effective, EventsApplied
    <2> QED
      BY <1>4, <1>5, <2>1, <2>2, <2>3, QuietInv
  <1>7. CASE ~(e.action = "upsert" /\ ~row[g].live)
    <2> DEFINE rev == IF e.action = "upsert" THEN row[g].rev ELSE e.rev
    <2>1. worker' = [worker EXCEPT ![w].pc = "write", ![w].rev = rev]
          /\ shared' = IF InHand(g) THEN shared \cup {g} ELSE shared
      BY <1>7 DEF Resolve, Takes
    <2>2. /\ worker'[w].pc = "write" /\ worker'[w].rev = rev
          /\ \A v \in Workers : worker'[v].batch = worker[v].batch
      BY <1>1, <2>1 DEF Types
    <2>3. \A v \in Workers : Current(v)' = Current(v)
      BY <1>4, <2>2 DEF Current
    <2>4. rev = row[g].rev /\ row[g].rev \in Nat /\ rev >= e.rev
      <3>1. e.rev <= row[g].rev /\ (e.action = "delete" => e.rev = row[g].rev)
        BY <1>2 DEF Inv, Behind
      <3>2. row[g].rev \in Nat
        BY <1>1, <1>3, GoodsAssumption DEF Types, Rows, Revisions
      <3> QED
        BY <1>3, <3>1, <3>2
    <2>5. Behind'
      <3>1. ASSUME NEW v \in Workers, Writing(v)'
            PROVE  worker'[v].rev <= row'[Current(v)'.goods].rev
        <4>1. CASE v = w
          BY <1>4, <2>2, <2>3, <2>4, <4>1
        <4>2. CASE v # w
          <5>1. worker'[v] = worker[v] /\ Writing(v)
            BY <1>5, <3>1, <4>2 DEF Writing
          <5> QED
            BY <1>4, <2>3, <5>1 DEF Inv, Behind
        <4> QED
          BY <4>1, <4>2
      <3> QED
        BY <1>4, <3>1 DEF Inv, Behind
    <2>6. Effective'
      <3>1. EventsApplied'
        BY <1>4 DEF Inv, Effective, EventsApplied
      <3> QED
        BY <1>4, <1>5, <2>2, <2>3, <2>4, <3>1 DEF Inv, Effective, Writing
    <2>7. Apart'
      <3> SUFFICES ASSUME NEW h \in Goods, h \notin shared'
                   PROVE  /\ \A v \in Workers : Holds(v, h)' =>
                                /\ worker'[v].rev >= index'[h].rev
                                /\ h \notin DOMAIN reindex'.page
                                /\ \A u \in Workers : Holds(u, h)' => u = v
                          /\ h \in DOMAIN reindex'.page => reindex'.page[h] >= index'[h].rev
        BY DEF Apart
      <3>1. h \notin shared
        BY <2>1
      <3>2. \A v \in Workers : v # w => (Holds(v, h)' <=> Holds(v, h))
        BY <1>5, <2>3 DEF Holds, Writing
      <3>3. CASE h # g
        <4>1. ~Holds(w, h)'
          BY <2>3, <3>3 DEF Holds
        <4> QED
          BY <1>4, <1>5, <3>1, <3>2, <4>1 DEF Inv, Apart
      <3>4. CASE h = g
        <4>1. ~InHand(g)
          BY <2>1, <3>4
        <4>2. h \notin DOMAIN reindex.page /\ \A v \in Workers : ~Holds(v, h)
          BY <3>4, <4>1 DEF InHand, Holds
        <4>3. worker'[w].rev >= index'[h].rev
          BY <1>3, <1>4, <2>2, <2>4, <3>4 DEF Inv, Behind, Types, Rows, Revisions
        <4> QED
          BY <1>4, <3>2, <4>2, <4>3
      <3> QED
        BY <3>3, <3>4
    <2> QED
      BY <2>5, <2>6, <2>7 DEF Inv
  <1> QED
    BY <1>6, <1>7

(* After a mark the worker is idle or at the start of its next event.       *)
LEMMA NotAtWork ==
    ASSUME Types, NEW w \in Workers,
           worker' = [worker EXCEPT ![w] =
                        IF Len(@.batch) = 1 THEN Idle
                        ELSE [pc |-> "event", batch |-> Tail(@.batch), rev |-> 0]]
    PROVE  \A v \in Workers : worker'[v].pc \in {"write", "ok"} => worker'[v] = worker[v]
  <1>1. worker'[w] \in {Idle, [pc |-> "event", batch |-> Tail(worker[w].batch), rev |-> 0]}
    BY DEF Types
  <1>2. worker'[w].pc \notin {"write", "ok"}
    BY <1>1 DEF Idle
  <1>3. \A v \in Workers : v # w => worker'[v] = worker[v]
    BY DEF Types
  <1> QED
    BY <1>2, <1>3

LEMMA WorkerInv ==
    ASSUME Inv, Types', Keeps, NEW w \in Workers, Sweeps(w) \/ CallFails(w) \/ SweepEnds(w)
    PROVE  Inv'
  <1>0. Types
    BY DEF Inv
  <1>1. CASE RequeueStale(w)
    <2>1. PICK S : outbox' = [i \in 1 .. Len(outbox) |->
                       IF i \in S THEN [outbox[i] EXCEPT !.status = "PENDING"] ELSE outbox[i]]
      BY <1>1 DEF RequeueStale
    <2>2. /\ Len(outbox') = Len(outbox)
          /\ \A k \in 1 .. Len(outbox) : outbox'[k].status \in {"PENDING", outbox[k].status}
      BY <1>0, <2>1, MarkedSome DEF Statuses
    <2>3. EventsApplied'
      BY <1>1, <2>2, NoneDone DEF RequeueStale
    <2> QED
      BY <1>1, <2>2, <2>3, QuietInv DEF RequeueStale
  <1>2. CASE ClaimPending(w)
    <2>1. PICK b, S :
            /\ outbox' = [i \in 1 .. Len(outbox) |->
                         IF i \in S THEN [outbox[i] EXCEPT !.status = "PROCESSING"] ELSE outbox[i]]
            /\ worker' = [worker EXCEPT ![w] = [pc |-> "event", batch |-> b, rev |-> 0]]
      <3>1. PICK n \in 1 .. BatchSize : \E ids \in [1 .. n -> 1 .. Len(outbox)] :
            /\ outbox' = [i \in 1 .. Len(outbox) |->
                          IF \E k \in 1 .. n : ids[k] = i
                          THEN [outbox[i] EXCEPT !.status = "PROCESSING"] ELSE outbox[i]]
            /\ worker' = [worker EXCEPT ![w] = [pc |-> "event", batch |-> Listed(ids), rev |-> 0]]
        BY <1>2 DEF ClaimPending
      <3>2. PICK ids \in [1 .. n -> 1 .. Len(outbox)] :
            /\ outbox' = [i \in 1 .. Len(outbox) |->
                          IF \E k \in 1 .. n : ids[k] = i
                          THEN [outbox[i] EXCEPT !.status = "PROCESSING"] ELSE outbox[i]]
            /\ worker' = [worker EXCEPT ![w] = [pc |-> "event", batch |-> Listed(ids), rev |-> 0]]
        BY <3>1
      <3>3. outbox' = [i \in 1 .. Len(outbox) |->
                         IF i \in {j \in 1 .. Len(outbox) : \E k \in 1 .. n : ids[k] = j}
                         THEN [outbox[i] EXCEPT !.status = "PROCESSING"] ELSE outbox[i]]
        BY <3>2
      <3> QED
        BY <3>2, <3>3
    <2>2. /\ Len(outbox') = Len(outbox)
          /\ \A k \in 1 .. Len(outbox) : outbox'[k].status \in {"PROCESSING", outbox[k].status}
      BY <1>0, <2>1, MarkedSome DEF Statuses
    <2>3. EventsApplied'
      BY <1>2, <2>2, NoneDone DEF ClaimPending
    <2>4. \A v \in Workers : worker'[v].pc \in {"write", "ok"} => worker'[v] = worker[v]
      BY <1>0, <2>1 DEF Types
    <2> QED
      BY <1>2, <2>2, <2>3, <2>4, QuietInv DEF ClaimPending
  <1>3. CASE Resolve(w)
    BY <1>3, ResolveInv
  <1>4. CASE WriteIndex(w)
    BY <1>4, WriteInv DEF WriteIndex
  <1>5. CASE MarkDone(w)
    <2>1. worker[w].pc = "ok" /\ Marks(w, "DONE", Current(w).retry)
      BY <1>5 DEF MarkDone
    <2>2. /\ Head(worker[w].batch).id \in 1 .. Len(outbox)
          /\ Current(w) \in OutboxEventDO
          /\ Current(w) = outbox[Head(worker[w].batch).id]
      BY <1>0, <2>1, RowOfWorker
    <2> DEFINE i == Head(worker[w].batch).id
    <2>3. /\ Len(outbox') = Len(outbox)
          /\ \A k \in 1 .. Len(outbox) : k # i => outbox'[k] = outbox[k]
      BY <1>0, <2>1, <2>2, MarkedOne DEF Marks, Statuses, OutboxEventDO
    <2>4. newest[outbox[i].goods] >= outbox[i].rev
      BY <2>1, <2>2 DEF Inv, Effective
    <2>5. EventsApplied'
      <3>1. newest' = newest
        BY <2>1 DEF Marks
      <3>2. \A k \in 1 .. Len(outbox) : outbox[k].status = "DONE" => newest[outbox[k].goods] >= outbox[k].rev
        BY DEF Inv, Effective, EventsApplied
      <3>3. \A k \in 1 .. Len(outbox) : outbox'[k].status = "DONE" => newest[outbox[k].goods] >= outbox[k].rev
        BY <2>3, <2>4, <3>2
      <3> QED
        BY <2>3, <3>1, <3>3 DEF Keeps, EventsApplied
    <2>6. \A v \in Workers : worker'[v].pc \in {"write", "ok"} => worker'[v] = worker[v]
      BY <1>0, <2>1, NotAtWork DEF Marks
    <2> QED
      BY <2>1, <2>3, <2>5, <2>6, QuietInv DEF Marks
  <1>6. CASE MarkFailed(w)
    <2>1. worker[w].pc = "failed"
      BY <1>6 DEF MarkFailed
    <2>2. /\ Head(worker[w].batch).id \in 1 .. Len(outbox)
          /\ Head(worker[w].batch) \in Claims
      BY <1>0, <2>1, RowOfWorker
    <2>3. \A c \in Claims : c.retry + 1 \in Nat
      BY DEF Claims
    <2>4. PICK st \in Statuses \ {"DONE"}, rt \in Nat : Marks(w, st, rt)
      BY <1>6, <2>2, <2>3 DEF MarkFailed, Statuses
    <2> DEFINE i == Head(worker[w].batch).id
    <2>5. /\ Len(outbox') = Len(outbox)
          /\ outbox'[i].status = st
          /\ \A k \in 1 .. Len(outbox) : k # i => outbox'[k] = outbox[k]
      BY <1>0, <2>2, <2>4, MarkedOne DEF Marks
    <2>6. EventsApplied'
      BY <2>4, <2>5, NoneDone DEF Marks
    <2>7. \A v \in Workers : worker'[v].pc \in {"write", "ok"} => worker'[v] = worker[v]
      BY <1>0, <2>4, NotAtWork DEF Marks
    <2> QED
      BY <2>4, <2>5, <2>6, <2>7, QuietInv DEF Marks
  <1>7. CASE CallFails(w)
    <2>1. CASE UNCHANGED <<index, newest>>
      <3>1. \A v \in Workers : worker'[v].pc \in {"write", "ok"} => worker'[v] = worker[v]
        BY <1>0, <1>7 DEF CallFails, Types
      <3>2. EventsApplied'
        BY <1>7, <2>1 DEF CallFails, Inv, Effective, EventsApplied
      <3> QED
        BY <1>7, <2>1, <3>1, <3>2, QuietInv DEF CallFails
    <2>2. CASE Writing(w) /\ Indexes(Current(w).goods, Current(w).action = "upsert", worker[w].rev)
      BY <1>7, <2>2, WriteInv DEF CallFails
    <2> QED
      BY <1>7, <2>1, <2>2 DEF CallFails
  <1>8. CASE SweepEnds(w)
    <2>1. \A v \in Workers : worker'[v].pc \in {"write", "ok"} => worker'[v] = worker[v]
      BY <1>0, <1>8 DEF SweepEnds, Types, Idle
    <2>2. EventsApplied'
      BY <1>8 DEF SweepEnds, Inv, Effective, EventsApplied
    <2> QED
      BY <1>8, <2>1, <2>2, QuietInv DEF SweepEnds
  <1> QED
    BY <1>1, <1>2, <1>3, <1>4, <1>5, <1>6, <1>7, <1>8 DEF Sweeps, processGoodsOutboxEvent

LEMMA OperatorInv ==
    ASSUME Inv, Types', Keeps, Operator
    PROVE  Inv'
  <1>0. Types
    BY DEF Inv
  <1>a. outbox' = outbox /\ newest' = newest => EventsApplied'
    BY DEF Inv, Effective, EventsApplied
  <1>1. ASSUME NEW s \in Statuses, ReplayOutbox(s)
        PROVE  Inv'
    BY <1>1, <1>a, QuietInv DEF ReplayOutbox
  <1>2. CASE ReplayNext
    <2>1. replay \in Seq(Claims) /\ replay # <<>> /\ Known(replay)
      BY <1>0, <1>2 DEF ReplayNext, Types
    <2>2. Head(replay) = replay[1] /\ replay[1] \in Claims /\ 1 \in 1 .. Len(replay)
      BY <2>1
    <2>3. Head(replay).id \in 1 .. Len(outbox) /\ Head(replay).retry \in Nat
      BY <1>0, <2>1, <2>2, GoodsAssumption DEF Known, Claims, Types
    <2>4. /\ Len(outbox') = Len(outbox)
          /\ outbox'[Head(replay).id].status = "PENDING"
          /\ \A k \in 1 .. Len(outbox) : k # Head(replay).id => outbox'[k] = outbox[k]
      BY <1>0, <1>2, <2>3, MarkedOne DEF ReplayNext, Statuses
    <2>5. EventsApplied'
      BY <1>2, <2>4, NoneDone DEF ReplayNext
    <2> QED
      BY <1>2, <2>4, <2>5, QuietInv DEF ReplayNext
  <1>3. ASSUME NEW S \in SUBSET Goods, Reindex(S)
        PROVE  Inv'
    <2>1. DOMAIN reindex'.page = {}
      BY <1>3 DEF Reindex, NoPage
    <2> QED
      BY <1>3, <1>a, <2>1, QuietInv DEF Reindex
  <1>4. CASE reindexAll
    <2>1. /\ UNCHANGED <<row, outbox, index, worker, newest>>
          /\ reindex' = [ids |-> {}, page |-> [g \in Live |-> row[g].rev]]
          /\ shared' = shared \cup {g \in Live : InHand(g)}
          /\ DOMAIN reindex.page = {}
      BY <1>4 DEF reindexAll, Off, NoPage
    <2>2. DOMAIN reindex'.page = Live /\ Live \subseteq Goods /\ \A g \in Live : reindex'.page[g] = row[g].rev
      BY <2>1 DEF Live
    <2>3. \A g \in Goods : row[g].rev \in Nat /\ index[g].rev \in Nat /\ index[g].rev <= row[g].rev
      BY Revs DEF Inv
    <2>4. \A w \in Workers : Current(w)' = Current(w) /\ (Writing(w)' <=> Writing(w))
      BY <2>1 DEF Current, Writing
    <2>5. Behind'
      <3>1. \A w \in Workers : Writing(w)' => worker'[w].rev <= row'[Current(w)'.goods].rev
        BY <2>1, <2>4 DEF Inv, Behind
      <3>2. \A g \in DOMAIN reindex'.page : reindex'.page[g] <= row'[g].rev
        BY <2>1, <2>2, <2>3
      <3> QED
        BY <2>1, <3>1, <3>2 DEF Inv, Behind
    <2>6. Effective'
      BY <2>1, <2>4, <1>a DEF Inv, Effective
    <2>7. Apart'
      <3>1. \A g \in Goods, w \in Workers : Holds(w, g)' <=> Holds(w, g)
        BY <2>4 DEF Holds
      <3>2. \A g \in Goods, w \in Workers : g \notin shared' /\ Holds(w, g) => g \notin Live
        BY <2>1 DEF Holds, InHand
      <3> QED
        BY <2>1, <2>2, <2>3, <3>1, <3>2 DEF Inv, Apart
    <2> QED
      BY <2>5, <2>6, <2>7 DEF Inv
  <1>5. ASSUME NEW g \in Goods, ReindexRead(g)
        PROVE  Inv'
    <2>1. UNCHANGED <<row, outbox, index, worker, newest>> /\ DOMAIN reindex.page = {}
      BY <1>5 DEF ReindexRead, NoPage
    <2>2. CASE row[g].live
      <3>1. /\ reindex' = [ids |-> reindex.ids \ {g}, page |-> [h \in {g} |-> row[g].rev]]
            /\ shared' = IF InHand(g) THEN shared \cup {g} ELSE shared
        BY <1>5, <2>2 DEF ReindexRead, Takes
      <3>2. DOMAIN reindex'.page = {g} /\ reindex'.page[g] = row[g].rev
        BY <3>1
      <3>3. \A h \in Goods : row[h].rev \in Nat /\ index[h].rev \in Nat /\ index[h].rev <= row[h].rev
        BY Revs DEF Inv
      <3>4. \A w \in Workers : Current(w)' = Current(w) /\ (Writing(w)' <=> Writing(w))
        BY <2>1 DEF Current, Writing
      <3>5. Behind'
        <4>1. \A w \in Workers : Writing(w)' => worker'[w].rev <= row'[Current(w)'.goods].rev
          BY <2>1, <3>4 DEF Inv, Behind
        <4>2. \A h \in DOMAIN reindex'.page : reindex'.page[h] <= row'[h].rev
          BY <2>1, <3>2, <3>3
        <4> QED
          BY <2>1, <4>1, <4>2 DEF Inv, Behind
      <3>6. Effective'
        BY <2>1, <3>4, <1>a DEF Inv, Effective
      <3>7. Apart'
        <4>1. \A h \in Goods, w \in Workers : Holds(w, h)' <=> Holds(w, h)
          BY <3>4 DEF Holds
        <4>2. \A w \in Workers : g \notin shared' => ~Holds(w, g)
          BY <3>1 DEF Holds, InHand
        <4> QED
          <5> SUFFICES ASSUME NEW h \in Goods, h \notin shared'
                       PROVE  /\ \A w \in Workers : Holds(w, h)' =>
                                    /\ worker'[w].rev >= index'[h].rev
                                    /\ h \notin DOMAIN reindex'.page
                                    /\ \A v \in Workers : Holds(v, h)' => v = w
                              /\ h \in DOMAIN reindex'.page => reindex'.page[h] >= index'[h].rev
            BY DEF Apart
          <5>1. h \notin shared
            BY <3>1
          <5>2. \A w \in Workers : Holds(w, h) => h # g
            BY <4>2
          <5> QED
            BY <2>1, <3>2, <3>3, <4>1, <5>1, <5>2 DEF Inv, Apart
      <3> QED
        BY <3>5, <3>6, <3>7 DEF Inv
    <2>3. CASE ~row[g].live
      <3>1. DOMAIN reindex'.page = {} /\ shared' = shared
        BY <1>5, <2>3 DEF ReindexRead, Off, NoPage
      <3> QED
        BY <2>1, <1>a, <3>1, QuietInv
    <2> QED
      BY <2>2, <2>3
  <1>6. ASSUME NEW g \in Goods, ReindexWrite(g)
        PROVE  Inv'
    <2>1. /\ UNCHANGED <<row, outbox, worker, shared>>
          /\ g \in DOMAIN reindex.page
          /\ reindex'.page = [h \in DOMAIN reindex.page \ {g} |-> reindex.page[h]]
          /\ Indexes(g, TRUE, reindex.page[g])
      BY <1>0, <1>6 DEF ReindexWrite, Types, PageOK
    <2>2. reindex.page[g] \in Revisions /\ reindex.page[g] \in Nat
      BY <1>0, <2>1, GoodsAssumption DEF Types, PageOK, Revisions
    <2>3. /\ \A h \in Goods : newest'[h] \in Nat /\ newest[h] \in Nat /\ newest'[h] >= newest[h]
          /\ index'[g].rev = reindex.page[g]
          /\ \A h \in Goods : h # g => index'[h] = index[h]
      BY <1>0, <2>1, <2>2, IndexedNewest
    <2>4. \A w \in Workers : Current(w)' = Current(w) /\ (Writing(w)' <=> Writing(w))
      BY <2>1 DEF Current, Writing
    <2>5. Behind'
      BY <2>1, <2>3, <2>4 DEF Inv, Behind
    <2>6. Effective'
      <3>1. EventsApplied'
        BY <2>1, <2>3, AppliedGrows
      <3>2. ASSUME NEW w \in Workers, worker[w].pc = "ok"
            PROVE  newest'[Current(w).goods] >= Current(w).rev
        <4>1. Current(w) \in OutboxEventDO
          BY <1>0, <3>2, RowOfWorker
        <4>2. Current(w).goods \in Goods /\ Current(w).rev \in Nat
          BY <4>1, GoodsAssumption DEF OutboxEventDO, Revisions
        <4> QED
          BY <2>3, <3>2, <4>2 DEF Inv, Effective
      <3> QED
        BY <2>1, <2>4, <3>1, <3>2 DEF Inv, Effective
    <2>7. Apart'
      <3>1. \A h \in Goods, w \in Workers : Holds(w, h)' <=> Holds(w, h)
        BY <2>4 DEF Holds
      <3> QED
        BY <2>1, <2>3, <3>1 DEF Inv, Apart
    <2> QED
      BY <2>5, <2>6, <2>7 DEF Inv
  <1>7. CASE RequestFails
    <2>1. CASE reindex' = Off
      <3>1. DOMAIN reindex'.page = {}
        BY <2>1 DEF Off, NoPage
      <3> QED
        BY <1>7, <1>a, <3>1, QuietInv DEF RequestFails
    <2>2. CASE reindex' = reindex
      BY <1>7, <1>a, <2>2, QuietInv DEF RequestFails
    <2> QED
      BY <1>7, <2>1, <2>2 DEF RequestFails
  <1> QED
    BY <1>1, <1>2, <1>3, <1>4, <1>5, <1>6, <1>7 DEF Operator, Reindexes

LEMMA NextInv == Inv /\ [GNext]_gvars => Inv'
  <1> SUFFICES ASSUME Inv, [GNext]_gvars PROVE Inv'
    OBVIOUS
  <1>1. Types' /\ Keeps
    BY NextTypes DEF Inv
  <1>2. CASE UNCHANGED gvars
    <2>1. \A w \in Workers : Current(w)' = Current(w) /\ (Writing(w)' <=> Writing(w))
      BY <1>2 DEF gvars, Current, Writing
    <2> QED
      BY <1>1, <1>2, <2>1 DEF gvars, Inv, Behind, Effective, EventsApplied, Apart, Holds
  <1>3. CASE GNext
    BY <1>1, <1>3, ServiceInv, WorkerInv, OperatorInv DEF GNext, Service
  <1> QED
    BY <1>2, <1>3

(* What a worker writes over a goods nobody else had in hand.               *)
LEMMA WriteForward ==
    ASSUME Inv, NEW w \in Workers, Writing(w),
           Indexes(Current(w).goods, Current(w).action = "upsert", worker[w].rev),
           NEW g \in Goods, g \notin shared
    PROVE  index'[g].rev >= index[g].rev
  <1>1. Types /\ worker[w].pc # "idle"
    BY DEF Inv, Writing
  <1>2. Current(w).goods \in Goods /\ worker[w].rev \in Revisions
    <2>1. Current(w) \in OutboxEventDO
      BY <1>1, RowOfWorker
    <2> QED
      BY <1>1, <2>1 DEF OutboxEventDO, Types
  <1>3. /\ index'[Current(w).goods].rev = worker[w].rev
        /\ \A h \in Goods : h # Current(w).goods => index'[h] = index[h]
    BY <1>1, <1>2, IndexedNewest
  <1>4. index[g].rev \in Nat
    BY <1>1, GoodsAssumption DEF Types, Rows, Revisions
  <1>5. CASE g = Current(w).goods
    BY <1>3, <1>5 DEF Inv, Apart, Holds
  <1>6. CASE g # Current(w).goods
    BY <1>3, <1>4, <1>6
  <1> QED
    BY <1>5, <1>6

LEMMA StepForward ==
    ASSUME Inv, [GNext]_gvars, NEW g \in Goods, g \notin shared'
    PROVE  index'[g].rev >= index[g].rev
  <1>1. Types /\ index[g].rev \in Nat
    BY GoodsAssumption DEF Inv, Types, Rows, Revisions
  <1>2. CASE index' = index
    BY <1>1, <1>2
  <1>3. ASSUME NEW w \in Workers, WriteIndex(w) \/ CallFails(w), index' # index
        PROVE  index'[g].rev >= index[g].rev
    BY <1>3, WriteForward DEF WriteIndex, CallFails
  <1>4. ASSUME NEW h \in Goods, ReindexWrite(h)
        PROVE  index'[g].rev >= index[g].rev
    <2>1. h \in DOMAIN reindex.page /\ reindex.page[h] \in Revisions
      BY <1>1, <1>4 DEF ReindexWrite, Types, PageOK
    <2>2. index'[h].rev = reindex.page[h] /\ \A k \in Goods : k # h => index'[k] = index[k]
      BY <1>1, <1>4, <2>1, IndexedNewest DEF ReindexWrite
    <2>3. g \notin shared
      BY <1>4 DEF ReindexWrite
    <2>4. CASE g = h
      BY <2>1, <2>2, <2>3, <2>4 DEF Inv, Apart
    <2>5. CASE g # h
      BY <1>1, <2>2, <2>5
    <2> QED
      BY <2>4, <2>5
  <1>5. \/ index' = index
        \/ \E w \in Workers : WriteIndex(w) \/ CallFails(w)
        \/ \E h \in Goods : ReindexWrite(h)
    BY DEF GNext, gvars, Service, Create, Update, Delete, Saves, Sweeps, RequeueStale, ClaimPending,
       processGoodsOutboxEvent, Resolve, MarkDone, MarkFailed, Marks, SweepEnds, Operator,
       ReplayOutbox, Reindex, reindexAll, ReplayNext, Reindexes, ReindexRead, RequestFails
  <1> QED
    BY <1>2, <1>3, <1>4, <1>5

-----------------------------------------------------------------------------
LEMMA InvHolds == GSpec => []Inv
  BY InitInv, NextInv, PTL DEF GSpec

(* The tables, the index, the workers and the operator's requests keep      *)
(* their types, for any number of goods, events, workers and faults.        *)
THEOREM TypesHold == GSpec => []GTypeOK
  <1>1. Inv => GTypeOK
    <2> SUFFICES ASSUME Inv PROVE GTypeOK
      OBVIOUS
    <2>1. \A w \in Workers : Claimed(w) \subseteq 1 .. Len(outbox)
      <3> SUFFICES ASSUME NEW w \in Workers, NEW k \in 1 .. Len(worker[w].batch)
                   PROVE  worker[w].batch[k].id \in 1 .. Len(outbox)
        BY DEF Claimed
      <3>1. worker[w].batch \in Seq(Claims) /\ Known(worker[w].batch) /\ Len(outbox) \in Nat
        BY DEF Inv, Types
      <3>2. worker[w].batch[k] \in Claims
        BY <3>1
      <3> QED
        BY <3>1, <3>2, GoodsAssumption DEF Known, Claims
    <2> QED
      BY <2>1 DEF Inv, Types, GTypeOK, PageOK, Rows, Pcs
  <1> QED
    BY <1>1, InvHolds, PTL

(* An event marked done took effect on the index, whatever retries, replays *)
(* and crashes came before.                                                 *)
THEOREM DoneEventsApplied == GSpec => []EventsApplied
  <1>1. Inv => EventsApplied
    BY DEF Inv, Effective
  <1> QED
    BY <1>1, InvHolds, PTL

(* The index goes back only for a goods that two writers had in hand at the *)
(* same time.                                                               *)
THEOREM IndexGoesForward == GSpec => IndexForward
  <1>1. Inv /\ [GNext]_gvars => [\A g \in Goods : g \notin shared' => index'[g].rev >= index[g].rev]_gvars
    BY StepForward
  <1> QED
    BY <1>1, InvHolds, PTL DEF GSpec, IndexForward
=============================================================================
