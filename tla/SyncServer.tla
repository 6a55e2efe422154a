---- MODULE SyncServer ----
(***************************************************************************)
(* The Worker's side of data sync: the org's rows in D1 and the handlers   *)
(* of POST /api/sync/push.  A handler reads the stored rows, partitions    *)
(* the batch in memory, and upserts the winners in D1 batches; between two *)
(* of its awaits any other handler may run.                                *)
(*                                                                         *)
(* A request is what the desktop posts: at most one change per row.  The   *)
(* audit rows of sync_conflicts, the rate limit and the size checks of     *)
(* preparePushChanges are left out.                                        *)
(***************************************************************************)
EXTENDS HybridClock, TextTime, Integers, FiniteSets

CONSTANTS Rows,       \* record identities: (table_name, global_id)
          Values,     \* what a row may hold
          NoRow,      \* "no such row"
          Slots,      \* handlers that may be running at the same time
          BatchSize,  \* D1_BATCH_SIZE
          LegacyRows, \* unclocked rows D1 may hold since before protocol 2
          NoChange    \* "this row is not in the batch"

SyncRow == [ua : Text, hlc : Hlc, val : Values, del : BOOLEAN]
Change  == {c \in SyncRow : c.hlc # NoHlc}
Batch   == [Rows -> Change \cup {NoChange}]

ASSUME ServerAssumption ==
    /\ IsFiniteSet(Rows)
    /\ BatchSize \in Nat \ {0}
    /\ LegacyRows \subseteq {r \in SyncRow : r.hlc = NoHlc}
    /\ NoRow \notin SyncRow
    /\ NoChange \notin SyncRow

VARIABLES server,   \* the sync_rows table of the org
          handler   \* one record per slot
serverVars == <<server, handler>>

Stages == {"free", "fetch", "write", "done", "failed"}
NoBatch == [k \in Rows |-> NoChange]
FreeHandler == [st |-> "free", batch |-> NoBatch, todo |-> {}]

InBatch(b) == {k \in Rows : b[k] # NoChange}

\* Mutant of Stale: the row comparison of protocol 1 for every row.
StaleByTime(kept, item) == TextLeq(item.ua, kept.ua)

\* The `stale` test of partitionPushChanges.
Stale(kept, item) ==
    IF kept.hlc # NoHlc THEN ~ HlcLess(kept.hlc, item.hlc) ELSE TextLeq(item.ua, kept.ua)

\* Mutant of Winners: rows outside the batch are not left out.
WinnersAnywhere(stored, b) ==
    {k \in Rows : stored[k] = NoRow \/ (k \in InBatch(b) /\ ~ Stale(stored[k], b[k]))}

\* Keys of partition.apply, given what the fetch returned.
Winners(stored, b) ==
    {k \in InBatch(b) : stored[k] = NoRow \/ ~ Stale(stored[k], b[k])}

----------------------------------------------------------------------------
ServerInit ==
    /\ server \in [Rows -> LegacyRows \cup {NoRow}]
    /\ handler = [s \in Slots |-> FreeHandler]

Received(b) == [st |-> "fetch", batch |-> b, todo |-> {}]

\* A push request reaches the Worker.
Receive(s, b) ==
    /\ handler[s].st = "free"
    /\ InBatch(b) # {}
    /\ handler' = [handler EXCEPT ![s] = Received(b)]

\* fetchExistingUpdatedAt, then partitionPushChanges in the same turn.
Fetch(s) ==
    /\ handler[s].st = "fetch"
    /\ LET won == Winners(server, handler[s].batch)
       IN handler' = [handler EXCEPT ![s].todo = won,
                                     ![s].st = IF won = {} THEN "done" ELSE "write"]
    /\ UNCHANGED server

\* The changes were stamped in the order of the batch, so the first
\* BatchSize statements are the ones with the lowest clocks.
FirstOf(b, todo) ==
    {S \in SUBSET todo :
        /\ \/ Cardinality(S) = BatchSize
           \/ Cardinality(S) < BatchSize /\ S = todo
        /\ \A i \in S, j \in todo \ S : HlcLess(b[i].hlc, b[j].hlc)}

\* One db.batch(...) of unguarded upserts; each D1 batch is atomic.
WriteBatch(s) ==
    /\ handler[s].st = "write"
    /\ \E S \in FirstOf(handler[s].batch, handler[s].todo) :
          /\ server' = [k \in Rows |-> IF k \in S THEN handler[s].batch[k] ELSE server[k]]
          /\ handler' = [handler EXCEPT
                ![s].todo = @ \ S,
                ![s].st = IF handler[s].todo \subseteq S THEN "done" ELSE "write"]

\* D1 or the Worker gives up: a 5xx. What was written stays written.
FailHandler(s) ==
    /\ handler[s].st \in {"fetch", "write"}
    /\ handler' = [handler EXCEPT ![s].st = "failed"]
    /\ UNCHANGED server

\* The answer has been read, or nobody is waiting for it any more.
Release(s) ==
    /\ handler[s].st \in {"done", "failed"}
    /\ handler' = [handler EXCEPT ![s] = FreeHandler]

HandlerStep(s) == Fetch(s) \/ WriteBatch(s) \/ FailHandler(s)

----------------------------------------------------------------------------
HandlerRecord == [st : Stages, batch : Batch, todo : SUBSET Rows]

ServerTypeOK ==
    /\ server \in [Rows -> SyncRow \cup {NoRow}]
    /\ handler \in [Slots -> HandlerRecord]
    /\ \A s \in Slots : handler[s].todo \subseteq InBatch(handler[s].batch)
====
