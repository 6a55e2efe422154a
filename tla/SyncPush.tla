---- MODULE SyncPush ----
(***************************************************************************)
(* The push endpoint on its own: any of the Offered batches may arrive,    *)
(* any number of times (a desktop retries after a 5xx or a timeout, up to  *)
(* three times), and handlers overlap as far as there are Slots.           *)
(***************************************************************************)
EXTENDS SyncServer

CONSTANT Offered   \* the batches devices post

ASSUME OfferedAssumption == Offered \subseteq Batch

VARIABLE acked     \* history: what the responses of finished handlers covered
vars == <<server, handler, acked>>

\* The stored rows as the last-writer-wins store the design document promises.
LWW == INSTANCE LwwStore WITH store <- server

\* A change refused in favour of an unclocked row of protocol 1 is outside
\* the promise: it lost by updated_at.
Acks(b) == {<<k, b[k]>> : k \in {k \in InBatch(b) :
                                server[k] = NoRow \/ server[k].hlc # NoHlc}}

Init == ServerInit /\ acked = {}

Post(s) ==
    /\ \E b \in Offered : Receive(s, b)
    /\ UNCHANGED <<server, acked>>

Work(s) == HandlerStep(s) /\ UNCHANGED acked

\* `applied`, `skipped` and `conflicts` go back to the device.
Answer(s) ==
    /\ handler[s].st = "done"
    /\ Release(s)
    /\ acked' = acked \cup Acks(handler[s].batch)
    /\ UNCHANGED server

Refuse(s) ==
    /\ handler[s].st = "failed"
    /\ Release(s)
    /\ UNCHANGED <<server, acked>>

Next == \E s \in Slots : Post(s) \/ Work(s) \/ Answer(s) \/ Refuse(s)

Spec == Init /\ [][Next]_vars

FairSpec == Spec /\ \A s \in Slots : WF_vars(Work(s)) /\ WF_vars(Answer(s) \/ Refuse(s))

ImplementsLww == LWW!Spec
AckedCovered == LWW!AckedCovered

----------------------------------------------------------------------------
TypeOK ==
    /\ ServerTypeOK
    /\ acked \subseteq Rows \X Change

\* Where pushes do not overlap, what a handler has decided to write is still
\* newer than what is stored when the write lands: its read is not stale.
WinnersStillNewer ==
    \A s \in Slots : handler[s].st = "write" =>
        \A k \in handler[s].todo :
            server[k] = NoRow \/ ~ Stale(server[k], handler[s].batch[k])

\* A finished handler leaves every row of its batch at that change or at a
\* higher one.
DoneCovered ==
    \A s \in Slots : handler[s].st = "done" =>
        \A k \in InBatch(handler[s].batch) :
            /\ server[k] # NoRow
            /\ server[k].hlc # NoHlc => HlcLeq(handler[s].batch[k].hlc, server[k].hlc)
====
