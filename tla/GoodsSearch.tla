---------------------------- MODULE GoodsSearch ----------------------------
(***************************************************************************)
(* Goods in MySQL and their documents in the search index.  Every write of *)
(* a goods row adds an event to the outbox in the same transaction; the    *)
(* workers of the service's replicas claim events, read the row as it is   *)
(* now, write the document and mark the event; an operator may replay      *)
(* events and reindex goods.                                               *)
(***************************************************************************)
EXTENDS Integers, Sequences

CONSTANTS
    Goods,       \* goods ids
    Workers,     \* one outbox worker in each replica of the service
    BatchSize,   \* outboxBatchSize
    MaxRetry,    \* outboxMaxRetry
    MaxEvents,   \* bound: events ever written
    MaxFaults,   \* bound: crashes, timeouts and failed calls
    MaxConsole   \* bound: replays and reindexings

ASSUME GoodsAssumption ==
    /\ BatchSize \in Nat \ {0} /\ MaxRetry \in Nat \ {0}
    /\ MaxEvents \in Nat /\ MaxFaults \in Nat /\ MaxConsole \in Nat

VARIABLES
    row,       \* the goods table: whether the row is live, and its revision
    outbox,    \* the outbox events, in the order of their ids
    index,     \* the search index: whether there is a document, its revision
    worker,    \* what each worker is doing
    replay,    \* events a ReplayOutbox request has listed and not yet marked
    reindex,   \* goods a Reindex request has not read, and those it has not written
    newest,    \* history: the highest revision the index has had
    shared,    \* history: goods two writers had in hand at the same time
    faults,    \* faults so far
    requests   \* operator requests so far

gvars == <<row, outbox, index, worker, replay, reindex, newest, shared, faults, requests>>

Revisions == 0 .. MaxEvents

Statuses == {"PENDING", "PROCESSING", "DONE", "DEAD"}

OutboxEventDO == [goods : Goods, action : {"upsert", "delete"}, rev : Revisions,
                  status : Statuses, retry : Nat]

(* A claimed event as the worker read it, and what it has in hand for the   *)
(* first of them: the revision it is about to write.                        *)
Claims == [id : 1 .. MaxEvents, retry : Nat]

Idle == [pc |-> "idle", batch |-> <<>>, rev |-> 0]

NoPage == [g \in {} |-> 0]

Off == [ids |-> {}, page |-> NoPage]

GInit ==
    /\ row = [g \in Goods |-> [live |-> FALSE, rev |-> 0]]
    /\ outbox = <<>>
    /\ index = [g \in Goods |-> [live |-> FALSE, rev |-> 0]]
    /\ worker = [w \in Workers |-> Idle]
    /\ replay = <<>>
    /\ reindex = Off
    /\ newest = [g \in Goods |-> 0]
    /\ shared = {}
    /\ faults = 0
    /\ requests = 0

-----------------------------------------------------------------------------
(* The goods service: the row and its event in one transaction.             *)

Event(g, action, rev) ==
    [goods |-> g, action |-> action, rev |-> rev, status |-> "PENDING", retry |-> 0]

newGoodsSyncEvent(g, rev) == Event(g, "upsert", rev)

newGoodsDeleteEvent(g, rev) == Event(g, "delete", rev)

(* CreateInTxn of the outbox.                                               *)
Saves(g, live, event) ==
    /\ Len(outbox) < MaxEvents
    /\ row' = [row EXCEPT ![g] = [live |-> live, rev |-> row[g].rev + 1]]
    /\ outbox' = Append(outbox, event)
    /\ UNCHANGED <<index, worker, replay, reindex, newest, shared, faults, requests>>

Create(g) ==
    /\ row[g].rev = 0
    /\ Saves(g, TRUE, newGoodsSyncEvent(g, 1))

(* Only a live row is updated or deleted: the statement itself says so, the *)
(* look before the transaction does not count.                              *)
Update(g) ==
    /\ row[g].live
    /\ Saves(g, TRUE, newGoodsSyncEvent(g, row[g].rev + 1))

Delete(g) ==
    /\ row[g].live
    /\ Saves(g, FALSE, newGoodsDeleteEvent(g, row[g].rev + 1))

-----------------------------------------------------------------------------
(* Who has a revision of which goods in hand, between reading the row and   *)
(* writing the document.                                                    *)

Current(w) == outbox[Head(worker[w].batch).id]

Writing(w) == worker[w].pc = "write"

InHand(g) ==
    \/ \E w \in Workers : Writing(w) /\ Current(w).goods = g
    \/ g \in DOMAIN reindex.page

Takes(g) == shared' = IF InHand(g) THEN shared \cup {g} ELSE shared

(* Index and Delete of the search store: the index keeps what came last.    *)
Indexes(g, live, rev) ==
    /\ index' = [index EXCEPT ![g] = [live |-> live, rev |-> rev]]
    /\ newest' = [newest EXCEPT ![g] = IF rev > @ THEN rev ELSE @]

-----------------------------------------------------------------------------
(* The outbox workers.                                                      *)

Claimed(w) == {worker[w].batch[i].id : i \in 1 .. Len(worker[w].batch)}

(* A sweep is given up after two minutes, so a claim of five minutes has    *)
(* nobody at work on it.                                                    *)
Abandoned ==
    {i \in 1 .. Len(outbox) : /\ outbox[i].status = "PROCESSING"
                              /\ \A w \in Workers : i \notin Claimed(w)}

RequeueStale(w) ==
    /\ worker[w].pc = "idle"
    /\ \E S \in (SUBSET Abandoned) \ {{}} :
          outbox' = [i \in 1 .. Len(outbox) |->
                       IF i \in S THEN [outbox[i] EXCEPT !.status = "PENDING"] ELSE outbox[i]]
    /\ UNCHANGED <<row, index, worker, replay, reindex, newest, shared, faults, requests>>

(* Events as a query returns them, by id.                                   *)
Increasing(ids) == \A j, k \in DOMAIN ids : j < k => ids[j] < ids[k]

Listed(ids) == [k \in DOMAIN ids |-> [id |-> ids[k], retry |-> outbox[ids[k]].retry]]

(* The oldest events that are due; one that failed may not be due yet.      *)
Due(ids) ==
    /\ Increasing(ids)
    /\ \A k \in DOMAIN ids : outbox[ids[k]].status = "PENDING"
    /\ \A i \in 1 .. Len(outbox) :
          /\ outbox[i].status = "PENDING" /\ outbox[i].retry = 0
          /\ \A k \in DOMAIN ids : ids[k] # i
          => Len(ids) = BatchSize /\ \A k \in DOMAIN ids : ids[k] < i

ClaimPending(w) ==
    /\ worker[w].pc = "idle"
    /\ \E n \in 1 .. BatchSize : \E ids \in [1 .. n -> 1 .. Len(outbox)] :
          /\ Due(ids)
          /\ outbox' = [i \in 1 .. Len(outbox) |->
                          IF \E k \in 1 .. n : ids[k] = i
                          THEN [outbox[i] EXCEPT !.status = "PROCESSING"] ELSE outbox[i]]
          /\ worker' = [worker EXCEPT ![w] = [pc |-> "event", batch |-> Listed(ids), rev |-> 0]]
    /\ UNCHANGED <<row, index, replay, reindex, newest, shared, faults, requests>>

ResolveGoneAsDone(w) ==
    /\ worker[w].pc = "event"
    /\ LET e == Current(w) IN
       IF e.action = "upsert" /\ ~row[e.goods].live
       THEN /\ worker' = [worker EXCEPT ![w].pc = "ok"]
            /\ UNCHANGED shared
       ELSE /\ worker' = [worker EXCEPT ![w].pc = "write",
                                        ![w].rev = IF e.action = "upsert" THEN row[e.goods].rev
                                                                          ELSE e.rev]
            /\ Takes(e.goods)
    /\ UNCHANGED <<row, outbox, index, replay, reindex, newest, faults, requests>>

ResolvePayload(w) ==
    /\ worker[w].pc = "event"
    /\ LET e == Current(w) IN
       /\ worker' = [worker EXCEPT ![w].pc = "write", ![w].rev = e.rev]
       /\ Takes(e.goods)
    /\ UNCHANGED <<row, outbox, index, replay, reindex, newest, faults, requests>>

(* The row as it is now, not as the event has it; a row that is gone fails  *)
(* the event.  A delete event asks no row.                                  *)
Resolve(w) ==
    /\ worker[w].pc = "event"
    /\ LET e == Current(w) IN
       IF e.action = "upsert" /\ ~row[e.goods].live
       THEN /\ worker' = [worker EXCEPT ![w].pc = "failed"]
            /\ UNCHANGED shared
       ELSE /\ worker' = [worker EXCEPT ![w].pc = "write",
                                        ![w].rev = IF e.action = "upsert" THEN row[e.goods].rev
                                                                          ELSE e.rev]
            /\ Takes(e.goods)
    /\ UNCHANGED <<row, outbox, index, replay, reindex, newest, faults, requests>>

WriteIndex(w) ==
    /\ Writing(w)
    /\ Indexes(Current(w).goods, Current(w).action = "upsert", worker[w].rev)
    /\ worker' = [worker EXCEPT ![w].pc = "ok"]
    /\ UNCHANGED <<row, outbox, replay, reindex, shared, faults, requests>>

MarksInPlace(w, status, retry) ==
    /\ outbox' = [outbox EXCEPT ![Head(worker[w].batch).id].status = status,
                                ![Head(worker[w].batch).id].retry = retry]
    /\ worker' = [worker EXCEPT ![w] = [pc |-> "event", batch |-> Tail(@.batch), rev |-> 0]]
    /\ UNCHANGED <<row, index, replay, reindex, newest, shared, faults, requests>>

(* updateStatus of the claimed event, by id and whatever its status is now; *)
(* then the next event of the batch.                                        *)
Marks(w, status, retry) ==
    /\ outbox' = [outbox EXCEPT ![Head(worker[w].batch).id].status = status,
                                ![Head(worker[w].batch).id].retry = retry]
    /\ worker' = [worker EXCEPT ![w] =
                    IF Len(@.batch) = 1 THEN Idle
                    ELSE [pc |-> "event", batch |-> Tail(@.batch), rev |-> 0]]
    /\ UNCHANGED <<row, index, replay, reindex, newest, shared, faults, requests>>

MarkDone(w) ==
    /\ worker[w].pc = "ok"
    /\ Marks(w, "DONE", Current(w).retry)

MarkFailedForEver(w) ==
    /\ worker[w].pc = "failed"
    /\ LET retryCount == Head(worker[w].batch).retry + 1 IN
       Marks(w, "PENDING", IF retryCount >= MaxRetry THEN MaxRetry ELSE retryCount)

MarkFailed(w) ==
    /\ worker[w].pc = "failed"
    /\ LET retryCount == Head(worker[w].batch).retry + 1 IN
       Marks(w, IF retryCount >= MaxRetry THEN "DEAD" ELSE "PENDING", retryCount)

processGoodsOutboxEvent(w) == Resolve(w) \/ WriteIndex(w) \/ MarkDone(w) \/ MarkFailed(w)

-----------------------------------------------------------------------------
(* Faults: a failed read or write of one event, which the write may still   *)
(* have reached the index; and a crash, a sweep that runs out of time or a  *)
(* mark that fails, which leave the rest of the batch claimed.              *)

Fault ==
    /\ faults < MaxFaults
    /\ faults' = faults + 1

CallFails(w) ==
    /\ Fault
    /\ worker[w].pc \in {"event", "write"}
    /\ worker' = [worker EXCEPT ![w].pc = "failed"]
    /\ \/ UNCHANGED <<index, newest>>
       \/ /\ Writing(w)
          /\ Indexes(Current(w).goods, Current(w).action = "upsert", worker[w].rev)
    /\ UNCHANGED <<row, outbox, replay, reindex, shared, requests>>

SweepEnds(w) ==
    /\ Fault
    /\ worker[w].pc # "idle"
    /\ worker' = [worker EXCEPT ![w] = Idle]
    /\ UNCHANGED <<row, outbox, index, replay, reindex, newest, shared, requests>>

-----------------------------------------------------------------------------
(* The operator's requests: events of a status, all or some of them, are    *)
(* listed and then marked one by one; goods are read one by one, or a page  *)
(* at once, and written one by one.                                         *)

Request ==
    /\ requests < MaxConsole
    /\ requests' = requests + 1

ReplayOutbox(s) ==
    /\ Request
    /\ replay = <<>>
    /\ \E n \in 1 .. Len(outbox) : \E ids \in [1 .. n -> 1 .. Len(outbox)] :
          /\ Increasing(ids)
          /\ \A k \in 1 .. n : outbox[ids[k]].status = s
          /\ replay' = Listed(ids)
    /\ UNCHANGED <<row, outbox, index, worker, reindex, newest, shared, faults>>

(* MarkRetry with the retry count that was listed.                          *)
ReplayNext ==
    /\ replay # <<>>
    /\ LET c == Head(replay) IN
       outbox' = [outbox EXCEPT ![c.id].status = "PENDING", ![c.id].retry = c.retry]
    /\ replay' = Tail(replay)
    /\ UNCHANGED <<row, index, worker, reindex, newest, shared, faults, requests>>

Reindex(S) ==
    /\ Request
    /\ reindex = Off
    /\ S # {}
    /\ reindex' = [ids |-> S, page |-> NoPage]
    /\ UNCHANGED <<row, outbox, index, worker, replay, newest, shared, faults>>

Live == {g \in Goods : row[g].live}

reindexAll ==
    /\ Request
    /\ reindex = Off
    /\ Live # {}
    /\ reindex' = [ids |-> {}, page |-> [g \in Live |-> row[g].rev]]
    /\ shared' = shared \cup {g \in Live : InHand(g)}
    /\ UNCHANGED <<row, outbox, index, worker, replay, newest, faults>>

(* A goods that is gone ends the request with an error.                     *)
ReindexRead(g) ==
    /\ reindex.page = NoPage
    /\ g \in reindex.ids
    /\ IF row[g].live
         THEN /\ reindex' = [ids |-> reindex.ids \ {g}, page |-> [h \in {g} |-> row[g].rev]]
              /\ Takes(g)
         ELSE reindex' = Off /\ UNCHANGED shared
    /\ UNCHANGED <<row, outbox, index, worker, replay, newest, faults, requests>>

ReindexWrite(g) ==
    /\ g \in DOMAIN reindex.page
    /\ Indexes(g, TRUE, reindex.page[g])
    /\ reindex' = [reindex EXCEPT !.page = [h \in DOMAIN reindex.page \ {g} |-> reindex.page[h]]]
    /\ UNCHANGED <<row, outbox, worker, replay, shared, faults, requests>>

RequestFails ==
    /\ Fault
    /\ \/ replay # <<>> /\ replay' = <<>> /\ UNCHANGED reindex
       \/ reindex # Off /\ reindex' = Off /\ UNCHANGED replay
    /\ UNCHANGED <<row, outbox, index, worker, newest, shared, requests>>

-----------------------------------------------------------------------------
Service == \E g \in Goods : Create(g) \/ Update(g) \/ Delete(g)

Sweeps(w) == RequeueStale(w) \/ ClaimPending(w) \/ processGoodsOutboxEvent(w)

Reindexes == \E g \in Goods : ReindexRead(g) \/ ReindexWrite(g)

Operator ==
    \/ \E s \in Statuses : ReplayOutbox(s)
    \/ \E S \in SUBSET Goods : Reindex(S)
    \/ reindexAll
    \/ ReplayNext
    \/ Reindexes
    \/ RequestFails

GNext ==
    \/ Service
    \/ \E w \in Workers : Sweeps(w) \/ CallFails(w) \/ SweepEnds(w)
    \/ Operator

GSpec == GInit /\ [][GNext]_gvars

(* A replica sweeps every two seconds; an operator's request ends.          *)
GFairSpec ==
    /\ GSpec
    /\ \A w \in Workers : WF_gvars(Sweeps(w))
    /\ WF_gvars(ReplayNext) /\ WF_gvars(Reindexes)

-----------------------------------------------------------------------------
(* The tables, the index, the workers and the operator's request hold what  *)
(* their columns and fields may hold; in particular a worker at work has an *)
(* event in its batch.                                                      *)
GTypeOK ==
    /\ row \in [Goods -> [live : BOOLEAN, rev : Revisions]]
    /\ outbox \in Seq(OutboxEventDO) /\ Len(outbox) <= MaxEvents
    /\ index \in [Goods -> [live : BOOLEAN, rev : Revisions]]
    /\ \A w \in Workers :
          /\ worker[w].pc \in {"idle", "event", "write", "ok", "failed"}
          /\ worker[w].rev \in Revisions
          /\ worker[w].batch \in Seq(Claims)
          /\ worker[w].pc = "idle" <=> worker[w].batch = <<>>
          /\ Claimed(w) \subseteq 1 .. Len(outbox)
    /\ replay \in Seq(Claims)
    /\ reindex.ids \subseteq Goods
    /\ DOMAIN reindex.page \subseteq Goods
    /\ \A g \in DOMAIN reindex.page : reindex.page[g] \in Revisions
    /\ newest \in [Goods -> Revisions]
    /\ shared \subseteq Goods
    /\ faults \in 0 .. MaxFaults
    /\ requests \in 0 .. MaxConsole

(* An event that is done took effect: the index has had the change the      *)
(* event tells of, or a later one of the same goods.  Retries, replays,     *)
(* requeued claims and several workers on one event do not break it.        *)
EventsApplied ==
    \A i \in 1 .. Len(outbox) :
        outbox[i].status = "DONE" => newest[outbox[i].goods] >= outbox[i].rev

(* The index never takes an older document of a goods for a newer one, as   *)
(* long as no two writers (workers, or a worker and a reindexing) have had  *)
(* the goods in hand at once.  Nothing in the code keeps them apart: with   *)
(* one replica and no reindexing they are.                                  *)
IndexForward ==
    [][\A g \in Goods : g \notin shared' => index'[g].rev >= index[g].rev]_gvars

(* Every event ends done or dead: none is stuck claimed after a crash, none *)
(* is retried for ever.                                                     *)
EventsEnd ==
    \A i \in 1 .. MaxEvents :
        (i <= Len(outbox) /\ outbox[i].status \in {"PENDING", "PROCESSING"})
            ~> (i <= Len(outbox) /\ outbox[i].status \in {"DONE", "DEAD"})
=============================================================================
