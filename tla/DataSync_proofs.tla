---- MODULE DataSync_proofs ----
(***************************************************************************)
(* For any devices, rows, page sizes, clock skews and number of handlers:  *)
(* the clock of a device dominates what it holds, a clock names one write, *)
(* what a device sends beats its copy, and no pull cursor passes a change  *)
(* that is owed to its desktop.                                            *)
(***************************************************************************)
EXTENDS PullDelivery, HybridClock_proofs, FiniteSetTheorems

\* Only a session that waits for an answer remembers a batch.
OutOnlyWaiting == \A d \in Devices : sess[d].pc # "wait" => sess[d].out = NoBatch

\* A clock on the wire was stamped by the device it names, which has not
\* gone back since.
WireBelow ==
    \A x \in OnWire : x[2].hlc # NoHlc =>
        /\ x[2].hlc.node \in Devices
        /\ HlcLeq(x[2].hlc, hlcLast[x[2].hlc.node])

----------------------------------------------------------------------------
(* Types.                                                                  *)

LEMMA TextTypes ==
    /\ Empty \in Text
    /\ \A t \in Nat : RowText(t) \in Text /\ IsoText(t) \in Text
<1>1. \A t \in Nat : t \div DayLen \in Int /\ t % DayLen \in Nat
  BY TimeAssumption
<1> QED BY <1>1, TimeAssumption DEF Empty, Text, RowText, IsoText

LEMMA RowTypes ==
    /\ NoPage \in [Rows -> SyncRow \cup {NoRow}]
    /\ NoBatch \in Batch
    /\ Idle \in Session
    /\ FreeHandler \in HandlerRecord
    /\ \A b \in Batch : Received(b) \in HandlerRecord
    /\ \A r \in SyncRow : r.hlc \in Hlc /\ r.ua \in Text
    /\ \A b \in Batch : InBatch(b) \subseteq Rows
    /\ \A b \in Batch : \A k \in InBatch(b) :
          b[k] \in SyncRow /\ b[k] \in Change /\ b[k].hlc # NoHlc /\ b[k].hlc \in Hlc
    /\ NoHlc \in Hlc
<1>1. NoPage \in [Rows -> SyncRow \cup {NoRow}]
  BY DEF NoPage
<1>2. NoBatch \in Batch
  BY DEF NoBatch, Batch
<1>3. Idle \in Session
  BY <1>1, <1>2, TextTypes DEF Idle, Session
<1>4. FreeHandler \in HandlerRecord /\ \A b \in Batch : Received(b) \in HandlerRecord
  BY <1>2 DEF FreeHandler, Received, HandlerRecord, Stages
<1>5. \A r \in SyncRow : r.hlc \in Hlc /\ r.ua \in Text
  BY DEF SyncRow
<1>6. \A b \in Batch : InBatch(b) \subseteq Rows
  BY DEF InBatch
<1>7. \A b \in Batch : \A k \in InBatch(b) :
          b[k] \in SyncRow /\ b[k] \in Change /\ b[k].hlc # NoHlc /\ b[k].hlc \in Hlc
  BY <1>5 DEF Batch, InBatch, Change
<1>8. NoHlc \in Hlc
  BY DEF NoHlc, Hlc
<1> QED BY <1>1, <1>2, <1>3, <1>4, <1>5, <1>6, <1>7, <1>8

LEMMA InitType == Init => TypeOK
<1> SUFFICES ASSUME Init PROVE TypeOK
  OBVIOUS
<1>1. ServerTypeOK
  BY RowTypes, ServerAssumption DEF Init, ServerInit, ServerTypeOK, FreeHandler
<1> QED BY <1>1, RowTypes, TextTypes DEF Init, TypeOK

LEMMA ReleaseType ==
    ASSUME ServerTypeOK, NEW s, Release(s), UNCHANGED server
    PROVE  ServerTypeOK'
BY RowTypes DEF Release, ServerTypeOK, FreeHandler

\* Steps of the Worker keep the types of its state.
LEMMA WorkerType ==
    ASSUME ServerTypeOK, NEW s \in Slots, HandlerStep(s)
    PROVE  ServerTypeOK'
<1> DEFINE b == handler[s].batch
<1>1. handler[s] \in HandlerRecord /\ b \in Batch /\ handler[s].todo \subseteq InBatch(b)
  BY DEF ServerTypeOK, HandlerRecord
<1>2. CASE Fetch(s)
  BY <1>1, <1>2 DEF Fetch, ServerTypeOK, HandlerRecord, Stages, Winners, InBatch
<1>3. CASE WriteBatch(s)
  <2>1. PICK S \in FirstOf(b, handler[s].todo) :
          /\ server' = [k \in Rows |-> IF k \in S THEN b[k] ELSE server[k]]
          /\ handler' = [handler EXCEPT ![s].todo = @ \ S,
                ![s].st = IF handler[s].todo \subseteq S THEN "done" ELSE "write"]
    BY <1>3 DEF WriteBatch
  <2>2. S \subseteq InBatch(b)
    BY <1>1 DEF FirstOf
  <2>3. server' \in [Rows -> SyncRow \cup {NoRow}]
    BY <1>1, <2>1, <2>2, RowTypes DEF ServerTypeOK
  <2>4. handler' \in [Slots -> HandlerRecord]
    BY <1>1, <2>1 DEF ServerTypeOK, HandlerRecord, Stages
  <2>5. \A t \in Slots : handler'[t].batch = handler[t].batch
                         /\ handler'[t].todo \subseteq handler[t].todo
    BY <2>1 DEF ServerTypeOK, HandlerRecord
  <2> QED BY <2>3, <2>4, <2>5 DEF ServerTypeOK
<1>4. CASE FailHandler(s)
  BY <1>4 DEF FailHandler, ServerTypeOK, HandlerRecord, Stages
<1> QED BY <1>2, <1>3, <1>4 DEF HandlerStep

LEMMA ReceiveType ==
    ASSUME ServerTypeOK, NEW s, NEW b \in Batch,
           handler' = [handler EXCEPT ![s] = Received(b)], server' = server
    PROVE  ServerTypeOK'
BY RowTypes DEF ServerTypeOK, Received

\* What a collect sends: changes stamped above hlcLast, one clock per row.
LEMMA Collected ==
    ASSUME TypeOK, NEW d \in Devices, NEW f \in Orders(d), Pending(d) # {}
    PROVE  LET n == Cardinality(Pending(d))
               stamp(k) == Stamp(hlcLast[d], Wall(d), d, f[k])
               out == [k \in Rows |-> IF k \in Pending(d) /\ f[k] <= PushPageSize
                                      THEN [rows[d][k] EXCEPT !.hlc = stamp(k)]
                                      ELSE NoChange]
               top == Stamp(hlcLast[d], Wall(d), d, n)
           IN /\ out \in Batch
              /\ top \in Hlc /\ HlcLess(hlcLast[d], top)
              /\ \A k \in InBatch(out) :
                    /\ k \in Pending(d) /\ out[k].hlc = stamp(k)
                    /\ HlcLess(hlcLast[d], stamp(k)) /\ HlcLeq(stamp(k), top)
                    /\ stamp(k).node = d
              /\ \A i, j \in InBatch(out) : stamp(i) = stamp(j) => i = j
<1> DEFINE P == Pending(d)
           n == Cardinality(P)
           last == hlcLast[d]
           stamp(k) == Stamp(last, Wall(d), d, f[k])
           top == Stamp(last, Wall(d), d, n)
           out == [k \in Rows |-> IF k \in P /\ f[k] <= PushPageSize
                                  THEN [rows[d][k] EXCEPT !.hlc = stamp(k)] ELSE NoChange]
<1>1. P \subseteq Rows /\ IsFiniteSet(P)
  BY FS_Subset, ServerAssumption DEF Pending
<1>2. n \in Nat \ {0}
  BY <1>1, FS_CardinalityType, FS_EmptySet
<1>3. last \in Hlc /\ Wall(d) \in Nat /\ d \in Nat
  BY DesktopAssumption DEF TypeOK, Wall
<1>4. /\ f \in [P -> 1 .. n]
      /\ \A i, j \in P : f[i] = f[j] => i = j
  BY DEF Orders
<1>5. \A k \in P : f[k] \in Nat \ {0} /\ f[k] <= n
  BY <1>2, <1>4
<1>6. top \in Hlc /\ HlcLess(last, top)
  BY <1>2, <1>3, StampAboveLast
<1>7. \A k \in P : stamp(k) \in Hlc /\ stamp(k).node = d /\ HlcLess(last, stamp(k))
  <2>1. \A i \in Nat \ {0} : LET t == Stamp(last, Wall(d), d, i)
                             IN t \in Hlc /\ t.node = d /\ HlcLess(last, t)
    <3> HIDE DEF last
    <3> SUFFICES ASSUME NEW i \in Nat \ {0}
                 PROVE  LET t == Stamp(last, Wall(d), d, i)
                        IN t \in Hlc /\ t.node = d /\ HlcLess(last, t)
      OBVIOUS
    <3> QED BY ONLY <1>3, i \in Nat \ {0}, StampAboveLast
  <2> QED BY <1>5, <2>1
<1>8. \A k \in P : stamp(k) # NoHlc
  BY <1>3, <1>7, RowTypes DEF NoHlc, Hlc, HlcLess
<1>9. \A k \in P : rows[d][k] \in SyncRow
  BY <1>1 DEF Pending, Live, TypeOK
<1>10. \A k \in P : [rows[d][k] EXCEPT !.hlc = stamp(k)] \in Change
  BY <1>7, <1>8, <1>9 DEF SyncRow, Change
<1>11. out \in Batch
  BY <1>1, <1>10 DEF Batch
<1>12. \A k \in InBatch(out) : k \in P /\ out[k].hlc = stamp(k)
  BY <1>9 DEF InBatch, SyncRow
<1>13. \A k \in P : HlcLeq(stamp(k), top)
  BY <1>2, <1>3, <1>5, StampIncreasing DEF HlcLeq
<1>14. \A i, j \in P : stamp(i) = stamp(j) => i = j
  <2> SUFFICES ASSUME NEW i \in P, NEW j \in P, stamp(i) = stamp(j), i # j PROVE FALSE
    OBVIOUS
  <2>1. f[i] < f[j] \/ f[j] < f[i]
    BY <1>4, <1>5
  <2>2. HlcLess(stamp(i), stamp(j)) \/ HlcLess(stamp(j), stamp(i))
    BY <1>3, <1>5, <2>1, StampIncreasing
  <2> QED BY <1>7, <2>2, HlcIrreflexive
<1> HIDE DEF stamp, top, out, P, n
<1>15. /\ \A k \in InBatch(out) :
            /\ k \in P /\ out[k].hlc = stamp(k)
            /\ HlcLess(last, stamp(k)) /\ HlcLeq(stamp(k), top)
            /\ stamp(k).node = d
       /\ \A i, j \in InBatch(out) : stamp(i) = stamp(j) => i = j
  BY <1>7, <1>12, <1>13, <1>14
<1> QED BY <1>6, <1>11, <1>15 DEF stamp, top, out, P, n

\* _apply_remote_change: a known row stays a row, its clock does not go
\* down, and the clock it has afterwards is one of the two it was given.
LEMMA Merged ==
    ASSUME NEW local \in SyncRow \cup {NoRow}, NEW remote \in SyncRow
    PROVE  /\ Merge(local, remote) \in SyncRow \cup {NoRow}
           /\ local # NoRow => /\ Merge(local, remote) # NoRow
                               /\ HlcLeq(local.hlc, Merge(local, remote).hlc)
           /\ Merge(local, remote) # NoRow =>
                 \/ Merge(local, remote).hlc = remote.hlc
                 \/ local # NoRow /\ Merge(local, remote).hlc = local.hlc
<1> DEFINE m == Merge(local, remote)
           clock == IF remote.hlc # NoHlc \/ local = NoRow THEN remote.hlc ELSE local.hlc
<1>1. CASE Skipped(local, remote)
  BY <1>1 DEF Merge, HlcLeq, Skipped
<1>2. CASE ~ Skipped(local, remote) /\ local = NoRow
  BY <1>2 DEF Merge
<1>3. CASE ~ Skipped(local, remote) /\ local # NoRow
  <2>1. local \in SyncRow
    BY <1>3
  <2>2. local.hlc \in Hlc /\ remote.hlc \in Hlc /\ clock \in Hlc
    BY <2>1, <1>3, RowTypes
  <2>3. m \in SyncRow /\ m.hlc = clock
    <3>1. CASE remote.del
      <4>1. m = [local EXCEPT !.del = TRUE, !.ua = remote.ua, !.hlc = clock]
        BY <1>3, <3>1 DEF Merge
      <4> QED BY <2>1, <2>2, <4>1 DEF SyncRow
    <3>2. CASE ~ remote.del
      <4>1. m = [local EXCEPT !.val = remote.val, !.ua = remote.ua, !.hlc = clock]
        BY <1>3, <3>2 DEF Merge
      <4> QED BY <2>1, <2>2, <4>1 DEF SyncRow
    <3> QED BY <3>1, <3>2
  <2>4. HlcLeq(local.hlc, clock)
    <3>1. CASE remote.hlc # NoHlc /\ local.hlc # NoHlc
      <4>1. ~ HlcLeq(remote.hlc, local.hlc)
        BY <1>3, <3>1 DEF Skipped, LocalClock
      <4> QED BY <2>2, <3>1, <4>1, HlcTotal DEF HlcLeq
    <3>2. CASE local.hlc = NoHlc
      BY <2>2, <3>2, NoHlcLowest
    <3>3. CASE remote.hlc = NoHlc
      BY <1>3, <3>3 DEF HlcLeq
    <3> QED BY <3>1, <3>2, <3>3
  <2>5. clock = remote.hlc \/ clock = local.hlc
    OBVIOUS
  <2> QED BY <1>3, <2>1, <2>3, <2>4, <2>5, ServerAssumption
<1> QED BY <1>1, <1>2, <1>3

\* A user's write: a row of the device gets a new value, no new clock.
LEMMA PutType ==
    ASSUME TypeOK, NEW d \in Devices, NEW k \in Rows, NEW row \in SyncRow, Put(d, k, row)
    PROVE  TypeOK'
<1>1. Wall(d) \in Nat
  BY DesktopAssumption DEF TypeOK, Wall
<1>2. [row EXCEPT !.ua = RowText(Wall(d))] \in SyncRow
  BY <1>1, TextTypes DEF SyncRow
<1>3. rows' \in [Devices -> [Rows -> SyncRow \cup {NoRow}]]
  BY <1>2 DEF Put, TypeOK
<1> QED BY <1>3 DEF Put, TypeOK, ServerTypeOK, serverVars

\* UserStep is one Put.
LEMMA UserPut ==
    ASSUME TypeOK, UserStep
    PROVE  \E d \in Devices, k \in Rows, row \in SyncRow :
              /\ Put(d, k, row)
              /\ Live(d, k) => row.hlc = rows[d][k].hlc
              /\ ~ Live(d, k) => row.hlc = NoHlc
<1>1. PICK d \in Devices, k \in Rows :
          Create(d, k) \/ Edit(d, k) \/ SoftDelete(d, k) \/ Restore(d, k)
  BY DEF UserStep
<1>2. CASE Create(d, k)
  <2>1. PICK v \in Values : Put(d, k, [ua |-> Empty, hlc |-> NoHlc, val |-> v, del |-> FALSE])
    BY <1>2 DEF Create
  <2>2. [ua |-> Empty, hlc |-> NoHlc, val |-> v, del |-> FALSE] \in SyncRow
    BY TextTypes, RowTypes DEF SyncRow
  <2>3. ~ Live(d, k)
    BY <1>2 DEF Create
  <2> QED BY <2>1, <2>2, <2>3
<1>3. ASSUME Live(d, k) PROVE rows[d][k] \in SyncRow
  BY <1>3 DEF Live, TypeOK
<1>4. CASE Edit(d, k)
  <2>1. PICK v \in Values : Put(d, k, [rows[d][k] EXCEPT !.val = v])
    BY <1>4 DEF Edit
  <2>2. Live(d, k)
    BY <1>4 DEF Edit
  <2>3. /\ [rows[d][k] EXCEPT !.val = v] \in SyncRow
        /\ [rows[d][k] EXCEPT !.val = v].hlc = rows[d][k].hlc
    BY <1>3, <2>2 DEF SyncRow
  <2> QED BY <2>1, <2>2, <2>3
<1>5. \A b \in BOOLEAN : Live(d, k) => /\ [rows[d][k] EXCEPT !.del = b] \in SyncRow
                                      /\ [rows[d][k] EXCEPT !.del = b].hlc = rows[d][k].hlc
  BY <1>3 DEF SyncRow
<1>6. CASE SoftDelete(d, k)
  BY <1>5, <1>6 DEF SoftDelete
<1>7. CASE Restore(d, k)
  BY <1>5, <1>7 DEF Restore
<1> QED BY <1>1, <1>2, <1>4, <1>6, <1>7

\* What a session is made of, and what its pages hold.
LEMMA SessionTypes ==
    ASSUME TypeOK, NEW d \in Devices
    PROVE  /\ sess[d] \in Session
           /\ sess[d].cursor \in Text /\ sess[d].stime \in Text
           /\ sess[d].pages \in Nat /\ sess[d].tries \in Nat
           /\ sess[d].out \in Batch
           /\ sess[d].page \in [Rows -> SyncRow \cup {NoRow}]
           /\ OnPage(sess[d].page) \subseteq Rows
           /\ \A k \in OnPage(sess[d].page) :
                 sess[d].page[k] \in SyncRow /\ sess[d].page[k].hlc \in Hlc
           /\ \A K \in SUBSET OnPage(sess[d].page) : LastOf(sess[d].page, K) \subseteq Text
           /\ \A K \in SUBSET InBatch(sess[d].out) : LastOf(sess[d].out, K) \subseteq Text
           /\ \A h \in Noted(hlcLast[d], sess[d].page) : h \in Hlc /\ HlcLeq(hlcLast[d], h)
<1>1. sess[d] \in Session
  BY DEF TypeOK
<1>2. /\ sess[d].cursor \in Text /\ sess[d].stime \in Text
      /\ sess[d].pages \in Nat /\ sess[d].tries \in Nat
      /\ sess[d].out \in Batch
      /\ sess[d].page \in [Rows -> SyncRow \cup {NoRow}]
  BY <1>1 DEF Session
<1>3. OnPage(sess[d].page) \subseteq Rows
  BY DEF OnPage
<1>4. \A k \in OnPage(sess[d].page) : sess[d].page[k] \in SyncRow
  BY <1>2 DEF OnPage
<1>5. \A K \in SUBSET OnPage(sess[d].page) : LastOf(sess[d].page, K) \subseteq Text
  BY <1>4, RowTypes DEF LastOf
<1>6. \A K \in SUBSET InBatch(sess[d].out) : LastOf(sess[d].out, K) \subseteq Text
  BY <1>2, RowTypes DEF LastOf
<1>7. \A h \in Noted(hlcLast[d], sess[d].page) : h \in Hlc /\ HlcLeq(hlcLast[d], h)
  BY <1>4, RowTypes DEF Noted, TypeOK
<1> QED BY <1>1, <1>2, <1>3, <1>4, <1>5, <1>6, <1>7, RowTypes

\* A step that touches nothing but the session of d.
LEMMA OnlySession ==
    ASSUME TypeOK, NEW d \in Devices, NEW r \in Session, sess' = [sess EXCEPT ![d] = r],
           UNCHANGED <<now, edits, rows, hlcLast, serverVars>>,
           starts' \in Nat,
           lastPull' \in [Devices -> Text], lastPush' \in [Devices -> Text]
    PROVE  TypeOK'
<1>1. sess' \in [Devices -> Session]
  BY DEF TypeOK
<1>2. ServerTypeOK'
  BY DEF TypeOK, ServerTypeOK, serverVars
<1> QED BY <1>1, <1>2 DEF TypeOK

\* The updates of a session record.
LEMMA SessionAfterRead ==
    ASSUME NEW s \in Session, NEW page \in [Rows -> SyncRow \cup {NoRow}], NEW t \in Text
    PROVE  [s EXCEPT !.page = page, !.pages = @ + 1, !.stime = t, !.pc = "apply"] \in Session
<1> DEFINE n == s.pages + 1
<1>1. n \in Nat
  BY DEF Session
<1> HIDE DEF n
<1>2. [s EXCEPT !.page = page, !.pages = n, !.stime = t, !.pc = "apply"] \in Session
  BY <1>1 DEF Session
<1> QED BY <1>2 DEF n

LEMMA SessionAfterPage ==
    ASSUME NEW s \in Session, NEW c \in Text, NEW n \in Nat,
           NEW pc \in {"pull", "finish", "collect"}
    PROVE  [s EXCEPT !.pc = pc, !.cursor = c, !.page = NoPage, !.pages = n] \in Session
BY RowTypes DEF Session

LEMMA SessionAfterCollect ==
    ASSUME NEW s \in Session, NEW out \in Batch, NEW slot \in Slots
    PROVE  [s EXCEPT !.pc = "wait", !.pages = @ + 1, !.out = out, !.slot = slot, !.tries = 1]
              \in Session
<1> DEFINE n == s.pages + 1
<1>1. n \in Nat
  BY DEF Session
<1> HIDE DEF n
<1>2. [s EXCEPT !.pc = "wait", !.pages = n, !.out = out, !.slot = slot, !.tries = 1] \in Session
  BY <1>1 DEF Session
<1> QED BY <1>2 DEF n

LEMMA PullType ==
    ASSUME TypeOK, NEW d \in Devices, Start(d) \/ Stop(d) \/ PullRead(d) \/ NothingToPush(d) \/ Finish(d)
    PROVE  TypeOK'
<1>1. CASE Start(d)
  <2>1. PICK mode \in {"full", "pull", "push"} :
          sess' = [sess EXCEPT ![d] =
              [Idle EXCEPT !.mode = mode,
                           !.pc = IF mode = "push" THEN "collect" ELSE "pull",
                           !.cursor = IF mode = "push" THEN lastPush[d] ELSE lastPull[d]]]
    BY <1>1 DEF Start
  <2>2. lastPush[d] \in Text /\ lastPull[d] \in Text
    BY DEF TypeOK
  <2>3. [Idle EXCEPT !.mode = mode,
                     !.pc = IF mode = "push" THEN "collect" ELSE "pull",
                     !.cursor = IF mode = "push" THEN lastPush[d] ELSE lastPull[d]] \in Session
    BY <2>2, RowTypes DEF Session
  <2>4. starts' \in Nat /\ lastPull' \in [Devices -> Text] /\ lastPush' \in [Devices -> Text]
    BY <1>1 DEF Start, TypeOK
  <2> QED BY <1>1, <2>1, <2>3, <2>4, OnlySession DEF Start
<1>2. CASE Stop(d)
  <2>1. starts' \in Nat /\ lastPull' \in [Devices -> Text] /\ lastPush' \in [Devices -> Text]
    BY <1>2 DEF Stop, TypeOK
  <2> QED BY <1>2, <2>1, RowTypes, OnlySession DEF Stop
<1>3. CASE PullRead(d)
  <2>1. PICK S \in PullPages(sess[d].cursor) :
          sess' = [sess EXCEPT ![d].page = [k \in Rows |-> IF k \in S THEN server[k] ELSE NoRow],
                               ![d].pages = @ + 1,
                               ![d].stime = IsoText(now),
                               ![d].pc = "apply"]
    BY <1>3 DEF PullRead
  <2> DEFINE page == [k \in Rows |-> IF k \in S THEN server[k] ELSE NoRow]
             r == [sess[d] EXCEPT !.page = page, !.pages = @ + 1, !.stime = IsoText(now),
                                  !.pc = "apply"]
  <2>2. page \in [Rows -> SyncRow \cup {NoRow}] /\ IsoText(now) \in Text
    BY TextTypes DEF TypeOK, ServerTypeOK
  <2>3. r \in Session
    <3> HIDE DEF page
    <3> QED BY <2>2, SessionTypes, SessionAfterRead
  <2>4. sess' = [sess EXCEPT ![d] = r]
    BY <2>1, SessionTypes DEF TypeOK, Session
  <2>5. starts' \in Nat /\ lastPull' \in [Devices -> Text] /\ lastPush' \in [Devices -> Text]
    BY <1>3 DEF PullRead, TypeOK
  <2> HIDE DEF r
  <2> QED BY <1>3, <2>3, <2>4, <2>5, OnlySession DEF PullRead
<1>4. CASE NothingToPush(d)
  <2>1. [sess[d] EXCEPT !.pc = "finish"] \in Session
    BY SessionTypes DEF Session
  <2>2. starts' \in Nat /\ lastPull' \in [Devices -> Text] /\ lastPush' \in [Devices -> Text]
    BY <1>4 DEF NothingToPush, TypeOK
  <2>3. sess' = [sess EXCEPT ![d] = [sess[d] EXCEPT !.pc = "finish"]]
    BY <1>4 DEF NothingToPush, TypeOK
  <2> QED BY <1>4, <2>1, <2>2, <2>3, OnlySession DEF NothingToPush
<1>5. CASE Finish(d)
  <2>1. starts' \in Nat /\ lastPull' \in [Devices -> Text] /\ lastPush' \in [Devices -> Text]
    BY <1>5, SessionTypes DEF Finish, TypeOK
  <2> QED BY <1>5, <2>1, RowTypes, OnlySession DEF Finish
<1> QED BY <1>1, <1>2, <1>3, <1>4, <1>5

LEMMA ApplyType ==
    ASSUME TypeOK, NEW d \in Devices, PullApply(d)
    PROVE  TypeOK'
<1> DEFINE page == sess[d].page
           after == [k \in Rows |-> IF k \in OnPage(page) THEN Merge(rows[d][k], page[k]) ELSE rows[d][k]]
<1>1. after \in [Rows -> SyncRow \cup {NoRow}]
  BY Merged, SessionTypes DEF TypeOK
<1>2. rows' \in [Devices -> [Rows -> SyncRow \cup {NoRow}]]
  BY <1>1 DEF PullApply, TypeOK
<1>3. hlcLast' \in [Devices -> Hlc]
  BY SessionTypes DEF PullApply, TypeOK
<1>4. CursorAfterPage(d) \subseteq Text /\ AfterPage(d) \in {"pull", "finish", "collect"}
  BY SessionTypes DEF CursorAfterPage, AfterPage, TypeOK
<1>5. PICK c \in CursorAfterPage(d) :
          sess' = [sess EXCEPT ![d] =
              [sess[d] EXCEPT !.pc = AfterPage(d), !.cursor = c, !.page = NoPage,
                        !.pages = IF AfterPage(d) = "collect" THEN 0 ELSE @]]
  BY DEF PullApply
<1>6. sess' \in [Devices -> Session]
  <2> DEFINE r == [sess[d] EXCEPT !.pc = AfterPage(d), !.cursor = c, !.page = NoPage,
                      !.pages = IF AfterPage(d) = "collect" THEN 0 ELSE @]
  <2>1. r \in Session
    <3> DEFINE n == IF AfterPage(d) = "collect" THEN 0 ELSE sess[d].pages
    <3>1. n \in Nat /\ c \in Text /\ r = [sess[d] EXCEPT !.pc = AfterPage(d), !.cursor = c,
                                             !.page = NoPage, !.pages = n]
      BY <1>4, SessionTypes
    <3> HIDE DEF n
    <3> QED BY <1>4, <3>1, SessionTypes, SessionAfterPage
  <2>2. sess' = [sess EXCEPT ![d] = r]
    BY <1>5
  <2> QED BY <2>1, <2>2 DEF TypeOK
<1> QED BY <1>2, <1>3, <1>6 DEF PullApply, TypeOK, ServerTypeOK, serverVars

\* The pushing steps of a session.
LEMMA PushType ==
    ASSUME TypeOK, NEW d \in Devices, PushCollect(d) \/ PushRetry(d) \/ PushAnswer(d)
    PROVE  TypeOK'
<1> DEFINE out == sess[d].out
<1>1. UNCHANGED <<now, edits, starts, rows, lastPull, server>>
  BY DEF PushCollect, PushRetry, PushAnswer
<1>2. /\ sess[d] \in Session /\ out \in Batch /\ ServerTypeOK
      /\ sess[d].tries + 1 \in Nat
  BY SessionTypes DEF TypeOK
<1>3. ASSUME ServerTypeOK', NEW r \in Session, sess' = [sess EXCEPT ![d] = r],
             hlcLast' \in [Devices -> Hlc], lastPush' \in [Devices -> Text]
      PROVE  TypeOK'
  BY <1>1, <1>3 DEF TypeOK
<1>4. CASE PushCollect(d)
  <2>1. PICK f \in Orders(d), s \in Slots :
          LET stamp(k) == Stamp(hlcLast[d], Wall(d), d, f[k])
              batch == [k \in Rows |-> IF k \in Pending(d) /\ f[k] <= PushPageSize
                                     THEN [rows[d][k] EXCEPT !.hlc = stamp(k)]
                                     ELSE NoChange]
          IN /\ Receive(s, batch)
             /\ hlcLast' = [hlcLast EXCEPT ![d] =
                    Stamp(@, Wall(d), d, Cardinality(Pending(d)))]
             /\ sess' = [sess EXCEPT ![d].pc = "wait", ![d].pages = @ + 1,
                                     ![d].out = batch, ![d].slot = s, ![d].tries = 1]
    BY <1>4 DEF PushCollect
  <2> DEFINE batch == [k \in Rows |-> IF k \in Pending(d) /\ f[k] <= PushPageSize
                        THEN [rows[d][k] EXCEPT !.hlc = Stamp(hlcLast[d], Wall(d), d, f[k])]
                        ELSE NoChange]
             r == [sess[d] EXCEPT !.pc = "wait", !.pages = @ + 1, !.out = batch, !.slot = s, !.tries = 1]
  <2>2. batch \in Batch /\ Stamp(hlcLast[d], Wall(d), d, Cardinality(Pending(d))) \in Hlc
    BY <1>4, Collected DEF PushCollect
  <2> HIDE DEF batch
  <2>3. ServerTypeOK'
    BY <1>1, <1>2, <2>1, <2>2, ReceiveType DEF Receive, batch
  <2>4. r \in Session
    BY <1>2, <2>2, SessionAfterCollect
  <2>5. sess' = [sess EXCEPT ![d] = r]
    BY <2>1 DEF TypeOK, batch
  <2>6. hlcLast' \in [Devices -> Hlc]
    BY <2>1, <2>2 DEF TypeOK
  <2>7. lastPush' \in [Devices -> Text]
    BY <1>4 DEF PushCollect, TypeOK
  <2> HIDE DEF r
  <2> QED BY <1>3, <2>3, <2>4, <2>5, <2>6, <2>7
<1>5. CASE PushRetry(d)
  <2>1. PICK s \in Slots :
          /\ handler' = [handler EXCEPT ![s] = Received(out)]
          /\ sess' = [sess EXCEPT ![d].slot = s, ![d].tries = @ + 1]
    BY <1>5 DEF PushRetry
  <2> DEFINE n == sess[d].tries + 1
             r == [sess[d] EXCEPT !.slot = s, !.tries = n]
  <2>2. ServerTypeOK'
    BY <1>1, <1>2, <2>1, ReceiveType
  <2>3. sess' = [sess EXCEPT ![d] = r]
    BY <2>1 DEF TypeOK
  <2>4. n \in Nat
    BY <1>2
  <2> HIDE DEF n
  <2>5. r \in Session
    BY <1>2, <2>4 DEF Session
  <2>6. hlcLast' \in [Devices -> Hlc] /\ lastPush' \in [Devices -> Text]
    BY <1>5 DEF PushRetry, TypeOK
  <2> HIDE DEF r
  <2> QED BY <1>3, <2>2, <2>3, <2>5, <2>6
<1>6. CASE PushAnswer(d)
  <2> DEFINE sent == InBatch(out)
  <2>1. PICK last \in LastOf(out, sent) :
          /\ lastPush' = [lastPush EXCEPT ![d] = last]
          /\ sess' = [sess EXCEPT ![d] =
                [sess[d] EXCEPT !.cursor = last, !.stime = IsoText(now), !.out = NoBatch,
                                !.slot = NoSlot, !.tries = 0,
                                !.pc = IF Cardinality(sent) = PushPageSize THEN "collect" ELSE "finish"]]
    BY <1>6 DEF PushAnswer
  <2> DEFINE pc == IF Cardinality(sent) = PushPageSize THEN "collect" ELSE "finish"
             r == [sess[d] EXCEPT !.cursor = last, !.stime = IsoText(now), !.out = NoBatch,
                                  !.slot = NoSlot, !.tries = 0, !.pc = pc]
  <2>2. last \in Text /\ IsoText(now) \in Text /\ pc \in {"collect", "finish"}
    BY SessionTypes, TextTypes DEF TypeOK
  <2>3. sess' = [sess EXCEPT ![d] = r]
    BY <2>1
  <2> HIDE DEF pc
  <2>4. r \in Session
    BY <1>2, <2>2, RowTypes DEF Session
  <2>5. ServerTypeOK'
    BY <1>1, <1>2, <1>6, ReleaseType DEF PushAnswer
  <2>6. hlcLast' \in [Devices -> Hlc] /\ lastPush' \in [Devices -> Text]
    BY <1>6, <2>1, <2>2 DEF PushAnswer, TypeOK
  <2> HIDE DEF r
  <2> QED BY <1>3, <2>3, <2>4, <2>5, <2>6
<1> QED BY <1>4, <1>5, <1>6

LEMMA NextType == TypeOK /\ [Next]_vars => TypeOK'
<1> SUFFICES ASSUME TypeOK, [Next]_vars PROVE TypeOK'
  OBVIOUS
<1>1. CASE Tick
  BY <1>1 DEF Tick, TypeOK, ServerTypeOK, deviceVars, serverVars
<1>2. CASE UserStep
  BY <1>2, UserPut, PutType
<1>3. ASSUME NEW d \in Devices, Start(d) \/ Abort(d) \/ SessionStep(d)
      PROVE  TypeOK'
  BY <1>3, PullType, ApplyType, PushType DEF Abort, SessionStep, GiveUp
<1>4. ASSUME NEW s \in Slots, Worker(s) \/ Drop(s)
      PROVE  TypeOK'
  <2>1. ServerTypeOK'
    BY <1>4, WorkerType, ReleaseType DEF Worker, Drop, TypeOK
  <2> QED BY <1>4, <2>1 DEF Worker, Drop, TypeOK, deviceVars
<1>5. CASE UNCHANGED vars
  BY <1>5 DEF vars, TypeOK, ServerTypeOK
<1> QED BY <1>1, <1>2, <1>3, <1>4, <1>5 DEF Next

\* Every reachable state of every instance is well typed.
THEOREM SyncTypeOK == Spec => []TypeOK
BY InitType, NextType, PTL DEF Spec

----------------------------------------------------------------------------
(* Clocks.                                                                 *)

\* What a step does to the persisted clocks: nothing, or it raises one of
\* them.
LEMMA ClockStep ==
    ASSUME TypeOK, [Next]_vars, NEW d \in Devices
    PROVE  HlcLeq(hlcLast[d], hlcLast'[d])
<1>1. CASE hlcLast' = hlcLast
  BY <1>1 DEF HlcLeq
<1>2. ASSUME NEW e \in Devices, PullApply(e)
      PROVE  HlcLeq(hlcLast[d], hlcLast'[d])
  BY <1>2, SessionTypes DEF PullApply, TypeOK, HlcLeq
<1>3. ASSUME NEW e \in Devices, PushCollect(e)
      PROVE  HlcLeq(hlcLast[d], hlcLast'[d])
  <2>1. hlcLast' = [hlcLast EXCEPT ![e] = Stamp(@, Wall(e), e, Cardinality(Pending(e)))]
    BY <1>3 DEF PushCollect
  <2>2. HlcLess(hlcLast[e], Stamp(hlcLast[e], Wall(e), e, Cardinality(Pending(e))))
    BY <1>3, Collected DEF PushCollect
  <2> QED BY <2>1, <2>2 DEF TypeOK, HlcLeq
<1>4. \/ hlcLast' = hlcLast
      \/ \E e \in Devices : PullApply(e) \/ PushCollect(e)
  BY UserPut DEF Next, vars, Tick, Put, Start, Abort, Stop, SessionStep, PullRead, NothingToPush,
        PushRetry, PushAnswer, Finish, GiveUp, Worker, Drop, deviceVars
<1> QED BY <1>1, <1>2, <1>3, <1>4

\* What a step does to the local tables: nothing, one user's write, or the
\* merge of one page.
LEMMA RowsStep ==
    ASSUME TypeOK, [Next]_vars
    PROVE  \/ rows' = rows
           \/ UserStep
           \/ \E d \in Devices : PullApply(d)
BY DEF Next, vars, Tick, Start, Abort, Stop, SessionStep, PullRead, NothingToPush, PushCollect,
       PushRetry, PushAnswer, Finish, GiveUp, Worker, Drop, deviceVars

LEMMA LocalStep ==
    ASSUME TypeOK, [Next]_vars, NEW d \in Devices, NEW k \in Rows, Live(d, k)
    PROVE  rows'[d][k] # NoRow /\ HlcLeq(rows[d][k].hlc, rows'[d][k].hlc)
<1>1. CASE rows' = rows
  BY <1>1 DEF Live, HlcLeq
<1>2. CASE UserStep
  <2>1. PICK e \in Devices, j \in Rows, row \in SyncRow :
              Put(e, j, row) /\ (Live(e, j) => row.hlc = rows[e][j].hlc)
    BY <1>2, UserPut
  <2>2. [row EXCEPT !.ua = RowText(Wall(e))] # NoRow /\ [row EXCEPT !.ua = RowText(Wall(e))].hlc = row.hlc
    <3>1. Wall(e) \in Nat
      BY DesktopAssumption DEF TypeOK, Wall
    <3> QED BY <3>1, TextTypes, ServerAssumption DEF SyncRow
  <2>3. rows' = [rows EXCEPT ![e][j] = [row EXCEPT !.ua = RowText(Wall(e))]]
    BY <2>1 DEF Put
  <2> QED BY <2>1, <2>2, <2>3 DEF TypeOK, Live, HlcLeq
<1>3. ASSUME NEW e \in Devices, PullApply(e)
      PROVE  rows'[d][k] # NoRow /\ HlcLeq(rows[d][k].hlc, rows'[d][k].hlc)
  BY <1>3, Merged, SessionTypes DEF PullApply, TypeOK, Live, HlcLeq
<1> QED BY <1>1, <1>2, <1>3, RowsStep

\* A row a device holds is never forgotten and never moves to a lower clock.
THEOREM SyncLocalMonotone == Spec => LocalMonotone
<1>1. TypeOK /\ [Next]_vars =>
        [\A d \in Devices, k \in Rows : Live(d, k) =>
            /\ rows'[d][k] # NoRow
            /\ HlcLeq(rows[d][k].hlc, rows'[d][k].hlc)]_vars
  BY LocalStep
<1> QED BY <1>1, SyncTypeOK, PTL DEF Spec, LocalMonotone

\* A row in the tables after a step: its clock was there before, or came in
\* with a page whose clocks the step noted.
LEMMA ClockDominatesStep ==
    ASSUME TypeOK, TypeOK', ClockDominates, [Next]_vars
    PROVE  ClockDominates'
<1> SUFFICES ASSUME NEW d \in Devices, NEW k \in Rows, Live(d, k)'
             PROVE  HlcLeq(rows'[d][k].hlc, hlcLast'[d])
  BY DEF ClockDominates
<1>1. hlcLast[d] \in Hlc /\ hlcLast'[d] \in Hlc /\ HlcLeq(hlcLast[d], hlcLast'[d])
  BY ClockStep DEF TypeOK
<1>2. ASSUME Live(d, k), rows'[d][k].hlc = rows[d][k].hlc
      PROVE  HlcLeq(rows'[d][k].hlc, hlcLast'[d])
  <2>1. rows[d][k].hlc \in Hlc /\ HlcLeq(rows[d][k].hlc, hlcLast[d])
    BY <1>2, RowTypes DEF TypeOK, Live, ClockDominates
  <2> QED BY <1>1, <1>2, <2>1, HlcLeqTransitive
<1>3. CASE rows' = rows
  BY <1>2, <1>3 DEF Live
<1>4. CASE UserStep
  <2>1. PICK e \in Devices, j \in Rows, row \in SyncRow :
              /\ Put(e, j, row)
              /\ Live(e, j) => row.hlc = rows[e][j].hlc
              /\ ~ Live(e, j) => row.hlc = NoHlc
    BY <1>4, UserPut
  <2> DEFINE put == [row EXCEPT !.ua = RowText(Wall(e))]
  <2>2. put.hlc = row.hlc
    BY DEF SyncRow
  <2>3. rows' = [rows EXCEPT ![e][j] = put]
    BY <2>1 DEF Put
  <2> HIDE DEF put
  <2>4. CASE d = e /\ k = j
    <3>1. rows'[d][k] = put
      BY <2>3, <2>4 DEF TypeOK
    <3> QED BY <1>1, <1>2, <2>1, <2>2, <2>4, <3>1, NoHlcLowest
  <2>5. CASE ~ (d = e /\ k = j)
    BY <1>2, <2>3, <2>5 DEF TypeOK, Live
  <2> QED BY <2>4, <2>5
<1>5. ASSUME NEW e \in Devices, PullApply(e)
      PROVE  HlcLeq(rows'[d][k].hlc, hlcLast'[d])
  <2> DEFINE page == sess[d].page
  <2>1. CASE d = e /\ k \in OnPage(page)
    <3>1. rows'[d][k] = Merge(rows[d][k], page[k])
      BY <1>5, <2>1 DEF PullApply, TypeOK
    <3>2. HlcLeq(page[k].hlc, hlcLast'[d])
      BY <1>5, <2>1 DEF PullApply, Noted, TypeOK
    <3>3. \/ rows'[d][k].hlc = page[k].hlc
          \/ Live(d, k) /\ rows'[d][k].hlc = rows[d][k].hlc
      BY <2>1, <3>1, Merged, SessionTypes DEF Live, TypeOK
    <3> QED BY <1>2, <3>2, <3>3
  <2>2. CASE ~ (d = e /\ k \in OnPage(page))
    <3>1. rows'[d][k] = rows[d][k]
      BY <1>5, <2>2 DEF PullApply, TypeOK
    <3> QED BY <1>2, <3>1 DEF Live
  <2> QED BY <2>1, <2>2
<1> QED BY <1>3, <1>4, <1>5, RowsStep

\* The clock of a device is at or past every clock in its tables.
THEOREM SyncClockDominates == Spec => []ClockDominates
<1>1. Init => ClockDominates
  BY DEF Init, ClockDominates, Live, NoPage
<1>2. TypeOK /\ TypeOK' /\ ClockDominates /\ [Next]_vars => ClockDominates'
  BY ClockDominatesStep
<1> QED BY <1>1, <1>2, SyncTypeOK, PTL DEF Spec

----------------------------------------------------------------------------
(* The changes on the wire.                                                *)

LEMMA WireHas ==
    /\ Stored \subseteq OnWire
    /\ \A s \in Slots : Handled(s) \subseteq OnWire
    /\ \A d \in Devices : Sent(d) \subseteq OnWire /\ Pulled(d) \subseteq OnWire
<1>1. \A s \in Slots : Handled(s) \subseteq AtWorker
  BY DEF AtWorker
<1>2. \A d \in Devices : Sent(d) \cup Pulled(d) \subseteq AtDevices
  BY DEF AtDevices
<1> QED BY <1>1, <1>2 DEF OnWire

LEMMA WireSplit ==
    ASSUME NEW x \in OnWire
    PROVE  \/ x \in Stored
           \/ \E s \in Slots : x \in Handled(s)
           \/ \E d \in Devices : x \in Sent(d) \/ x \in Pulled(d)
<1>1. CASE x \in AtWorker
  BY <1>1 DEF AtWorker
<1>2. CASE x \in AtDevices
  BY <1>2 DEF AtDevices
<1> QED BY <1>1, <1>2 DEF OnWire

\* The wire after a step, as a bound.
LEMMA WireAfter ==
    ASSUME NEW W, Stored' \subseteq W, \A s \in Slots : Handled(s)' \subseteq W,
           \A d \in Devices : Sent(d)' \subseteq W /\ Pulled(d)' \subseteq W
    PROVE  OnWire' \subseteq W
<1>1. AtWorker' \subseteq W
  BY DEF AtWorker
<1>2. AtDevices' \subseteq W
  BY DEF AtDevices
<1> QED BY <1>1, <1>2 DEF OnWire

LEMMA WireTypes ==
    ASSUME TypeOK, NEW x \in OnWire
    PROVE  x[2].hlc \in Hlc /\ x[1] \in Rows
<1>1. CASE x \in Stored
  BY <1>1, RowTypes DEF TypeOK, ServerTypeOK, Stored, Changes, OnPage
<1>2. ASSUME NEW s \in Slots, x \in Handled(s)
      PROVE  x[2].hlc \in Hlc /\ x[1] \in Rows
  <2>1. handler[s].batch \in Batch
    BY DEF TypeOK, ServerTypeOK, HandlerRecord
  <2> QED BY <1>2, <2>1, RowTypes DEF Handled, Changes
<1>3. ASSUME NEW d \in Devices, x \in Sent(d)
      PROVE  x[2].hlc \in Hlc /\ x[1] \in Rows
  BY <1>3, SessionTypes, RowTypes DEF Sent, Changes
<1>4. ASSUME NEW d \in Devices, x \in Pulled(d)
      PROVE  x[2].hlc \in Hlc /\ x[1] \in Rows
  BY <1>4, SessionTypes DEF Pulled, Changes
<1> QED BY <1>1, <1>2, <1>3, <1>4, WireSplit

LEMMA NothingIn ==
    InBatch(NoBatch) = {} /\ OnPage(NoPage) = {} /\ FreeHandler.batch = NoBatch
BY DEF InBatch, NoBatch, OnPage, NoPage, FreeHandler

\* Only a collect puts anything new on the wire.
LEMMA WireStep ==
    ASSUME TypeOK, [Next]_vars, ~ \E d \in Devices : PushCollect(d)
    PROVE  OnWire' \subseteq OnWire
<1>1. CASE UNCHANGED <<server, handler, sess>>
  BY <1>1, WireHas, WireAfter DEF Stored, Handled, Sent, Pulled
<1>2. ASSUME NEW d \in Devices, NEW r, sess' = [sess EXCEPT ![d] = r],
             r.out = sess[d].out \/ r.out = NoBatch,
             r.page = sess[d].page \/ r.page = NoPage,
             server' = server,
             \A s \in Slots : \/ handler'[s].batch = handler[s].batch
                              \/ handler'[s].batch = NoBatch
                              \/ handler'[s].batch = sess[d].out
      PROVE  OnWire' \subseteq OnWire
  <2>1. \A e \in Devices : sess'[e].out = sess[e].out \/ sess'[e].out = NoBatch
    BY <1>2 DEF TypeOK
  <2>2. \A e \in Devices : sess'[e].page = sess[e].page \/ sess'[e].page = NoPage
    BY <1>2 DEF TypeOK
  <2>3. \A e \in Devices : Sent(e)' \subseteq OnWire /\ Pulled(e)' \subseteq OnWire
    BY <2>1, <2>2, WireHas, NothingIn DEF Sent, Pulled, Changes
  <2>4. \A s \in Slots : Handled(s)' \subseteq OnWire
    BY <1>2, WireHas, NothingIn DEF Handled, Sent, Changes
  <2>5. Stored' \subseteq OnWire
    BY <1>2, WireHas DEF Stored
  <2> QED BY <2>3, <2>4, <2>5, WireAfter
<1>3. ASSUME NEW s, Release(s)
      PROVE  \A t \in Slots : handler'[t].batch = handler[t].batch \/ handler'[t].batch = NoBatch
  BY <1>3, NothingIn DEF Release, TypeOK, ServerTypeOK
<1>4. ASSUME NEW d \in Devices, Start(d) \/ Abort(d) \/ GiveUp(d) \/ Finish(d) \/ NothingToPush(d)
      PROVE  OnWire' \subseteq OnWire
  <2>1. CASE Start(d)
    <3>1. PICK mode \in {"full", "pull", "push"} : sess' = [sess EXCEPT ![d] =
              [Idle EXCEPT !.mode = mode,
                           !.pc = IF mode = "push" THEN "collect" ELSE "pull",
                           !.cursor = IF mode = "push" THEN lastPush[d] ELSE lastPull[d]]]
      BY <2>1 DEF Start
    <3> DEFINE r == [Idle EXCEPT !.mode = mode,
                           !.pc = IF mode = "push" THEN "collect" ELSE "pull",
                           !.cursor = IF mode = "push" THEN lastPush[d] ELSE lastPull[d]]
    <3>2. r.out = NoBatch /\ r.page = NoPage
      BY DEF Idle
    <3> HIDE DEF r
    <3> QED BY <1>2, <2>1, <3>1, <3>2 DEF Start, serverVars, r
  <2>2. CASE Abort(d) \/ GiveUp(d) \/ Finish(d)
    <3>1. Idle.out = NoBatch /\ Idle.page = NoPage
      BY DEF Idle
    <3> QED BY <1>2, <2>2, <3>1 DEF Abort, GiveUp, Stop, Finish, serverVars
  <2>3. CASE NothingToPush(d)
    <3> DEFINE r == [sess[d] EXCEPT !.pc = "finish"]
    <3>1. sess' = [sess EXCEPT ![d] = r] /\ r.out = sess[d].out /\ r.page = sess[d].page
      BY <2>3, SessionTypes DEF NothingToPush, Session
    <3> HIDE DEF r
    <3> QED BY <1>2, <2>3, <3>1 DEF NothingToPush, serverVars
  <2> QED BY <1>4, <2>1, <2>2, <2>3
<1>5. ASSUME NEW d \in Devices, PullRead(d)
      PROVE  OnWire' \subseteq OnWire
  <2>1. PICK S \in PullPages(sess[d].cursor) :
          sess' = [sess EXCEPT ![d].page = [k \in Rows |-> IF k \in S THEN server[k] ELSE NoRow],
                               ![d].pages = @ + 1,
                               ![d].stime = IsoText(now),
                               ![d].pc = "apply"]
    BY <1>5 DEF PullRead
  <2>2. \A e \in Devices : sess'[e].out = sess[e].out
    BY <2>1, ZenonT(60) DEF TypeOK, Session
  <2>3. \A e \in Devices : \A k \in OnPage(sess'[e].page) :
            \/ k \in OnPage(sess[e].page) /\ sess'[e].page[k] = sess[e].page[k]
            \/ k \in OnPage(server) /\ sess'[e].page[k] = server[k]
    <3>1. sess'[d].page = [k \in Rows |-> IF k \in S THEN server[k] ELSE NoRow]
      BY <2>1, SessionTypes DEF TypeOK, Session
    <3>2. \A e \in Devices : e # d => sess'[e] = sess[e]
      BY <2>1 DEF TypeOK
    <3> QED BY <3>1, <3>2 DEF OnPage
  <2>4. \A e \in Devices : Sent(e)' \subseteq OnWire
    BY <2>2, WireHas DEF Sent
  <2>5. \A e \in Devices : Pulled(e)' \subseteq OnWire
    BY <2>3, WireHas DEF Pulled, Stored, Changes
  <2> QED BY <1>5, <2>4, <2>5, WireHas, WireAfter DEF PullRead, serverVars, Stored, Handled
<1>6. ASSUME NEW d \in Devices, PullApply(d)
      PROVE  OnWire' \subseteq OnWire
  <2>1. PICK c \in CursorAfterPage(d) :
          sess' = [sess EXCEPT ![d] =
              [sess[d] EXCEPT !.pc = AfterPage(d), !.cursor = c, !.page = NoPage,
                        !.pages = IF AfterPage(d) = "collect" THEN 0 ELSE @]]
    BY <1>6 DEF PullApply
  <2> DEFINE r == [sess[d] EXCEPT !.pc = AfterPage(d), !.cursor = c, !.page = NoPage,
                        !.pages = IF AfterPage(d) = "collect" THEN 0 ELSE @]
  <2>2. r.out = sess[d].out /\ r.page = NoPage
    BY SessionTypes DEF Session
  <2>3. sess' = [sess EXCEPT ![d] = r]
    BY <2>1
  <2> HIDE DEF r
  <2> QED BY <1>2, <1>6, <2>2, <2>3 DEF PullApply, serverVars
<1>7. ASSUME NEW d \in Devices, PushRetry(d)
      PROVE  OnWire' \subseteq OnWire
  <2>1. \A t \in Slots : handler'[t].batch = handler[t].batch \/ handler'[t].batch = sess[d].out
    <3>1. \E s : handler' = [handler EXCEPT ![s] = Received(sess[d].out)]
      BY <1>7 DEF PushRetry
    <3> QED BY <3>1 DEF Received, TypeOK, ServerTypeOK
  <2>2. \A e \in Devices : sess'[e].out = sess[e].out /\ sess'[e].page = sess[e].page
    <3>1. PICK s \in Slots : sess' = [sess EXCEPT ![d].slot = s, ![d].tries = @ + 1]
      BY <1>7, Zenon DEF PushRetry
    <3> QED BY <3>1, SessionTypes DEF TypeOK, Session
  <2>3. \A t \in Slots : Handled(t)' \subseteq OnWire
    BY <2>1, WireHas DEF Handled, Sent
  <2>4. \A e \in Devices : Sent(e)' \subseteq OnWire /\ Pulled(e)' \subseteq OnWire
    BY <2>2, WireHas DEF Sent, Pulled
  <2> QED BY <1>7, <2>3, <2>4, WireHas, WireAfter DEF PushRetry, Stored
<1>8. ASSUME NEW d \in Devices, PushAnswer(d)
      PROVE  OnWire' \subseteq OnWire
  <2> DEFINE sent == InBatch(sess[d].out)
  <2>1. PICK last \in LastOf(sess[d].out, sent) :
          sess' = [sess EXCEPT ![d] =
                [sess[d] EXCEPT !.cursor = last, !.stime = IsoText(now), !.out = NoBatch,
                                !.slot = NoSlot, !.tries = 0,
                                !.pc = IF Cardinality(sent) = PushPageSize THEN "collect" ELSE "finish"]]
    BY <1>8 DEF PushAnswer
  <2> DEFINE r == [sess[d] EXCEPT !.cursor = last, !.stime = IsoText(now), !.out = NoBatch,
                                !.slot = NoSlot, !.tries = 0,
                                !.pc = IF Cardinality(sent) = PushPageSize THEN "collect" ELSE "finish"]
  <2>2. r.out = NoBatch /\ r.page = sess[d].page
    BY SessionTypes DEF Session
  <2>3. sess' = [sess EXCEPT ![d] = r]
    BY <2>1
  <2>4. \A t \in Slots : handler'[t].batch = handler[t].batch \/ handler'[t].batch = NoBatch
    BY <1>3, <1>8 DEF PushAnswer
  <2> HIDE DEF r
  <2> QED BY <1>2, <1>8, <2>2, <2>3, <2>4 DEF PushAnswer
<1>9. ASSUME NEW s \in Slots, Worker(s)
      PROVE  OnWire' \subseteq OnWire
  <2>1. UNCHANGED sess /\ handler[s].todo \subseteq InBatch(handler[s].batch)
    BY <1>9 DEF Worker, deviceVars, TypeOK, ServerTypeOK
  <2>2. \A t \in Slots : handler'[t].batch = handler[t].batch
    <3>1. handler \in [Slots -> HandlerRecord]
      BY DEF TypeOK, ServerTypeOK
    <3>2. CASE Fetch(s)
      BY <3>1, <3>2 DEF Fetch, HandlerRecord
    <3>3. CASE WriteBatch(s)
      BY <3>1, <3>3 DEF WriteBatch, HandlerRecord
    <3>4. CASE FailHandler(s)
      BY <3>1, <3>4 DEF FailHandler, HandlerRecord
    <3> QED BY <1>9, <3>2, <3>3, <3>4 DEF Worker, HandlerStep
  <2>3. \A k \in Rows : \/ server'[k] = server[k]
                        \/ k \in InBatch(handler[s].batch) /\ server'[k] = handler[s].batch[k]
    BY <1>9, <2>1 DEF Worker, HandlerStep, Fetch, WriteBatch, FailHandler, FirstOf
  <2>4. Stored' \subseteq OnWire
    BY <2>3, WireHas DEF Stored, Handled, Changes, OnPage
  <2>5. \A t \in Slots : Handled(t)' \subseteq OnWire
    BY <2>2, WireHas DEF Handled
  <2>6. \A d \in Devices : Sent(d)' \subseteq OnWire /\ Pulled(d)' \subseteq OnWire
    BY <2>1, WireHas DEF Sent, Pulled
  <2> QED BY <2>4, <2>5, <2>6, WireAfter
<1>10. ASSUME NEW s \in Slots, Drop(s)
      PROVE  OnWire' \subseteq OnWire
  <2>1. \A t \in Slots : Handled(t)' \subseteq OnWire
    BY <1>3, <1>10, WireHas, NothingIn DEF Drop, Handled, Changes
  <2> QED BY <1>10, <2>1, WireHas, WireAfter DEF Drop, deviceVars, Stored, Sent, Pulled
<1>11. CASE UserStep \/ Tick \/ UNCHANGED vars
  BY <1>1, <1>11, UserPut DEF Put, Tick, vars, serverVars, deviceVars
<1> QED BY <1>4, <1>5, <1>6, <1>7, <1>8, <1>9, <1>10, <1>11 DEF Next, SessionStep

\* A collect adds its batch to the wire, under clocks of its device that
\* lie above the persisted one and are pairwise different.
LEMMA CollectStep ==
    ASSUME TypeOK, NEW d \in Devices, PushCollect(d)
    PROVE  \E out \in Batch :
              /\ OnWire' \subseteq OnWire \cup Changes(out, InBatch(out))
              /\ \A k \in InBatch(out) : /\ out[k].hlc \in Hlc /\ out[k].hlc.node = d
                                         /\ HlcLess(hlcLast[d], out[k].hlc)
                                         /\ HlcLeq(out[k].hlc, hlcLast'[d])
                                         /\ out[k].hlc # NoHlc
                                         /\ Live(d, k)
              /\ \A i, j \in InBatch(out) : out[i].hlc = out[j].hlc => i = j
              /\ sess'[d].out = out /\ sess'[d].pc = "wait"
              /\ \A e \in Devices : e # d => sess'[e] = sess[e]
<1>1. PICK f \in Orders(d), s \in Slots :
        LET stamp(k) == Stamp(hlcLast[d], Wall(d), d, f[k])
            batch == [k \in Rows |-> IF k \in Pending(d) /\ f[k] <= PushPageSize
                                   THEN [rows[d][k] EXCEPT !.hlc = stamp(k)]
                                   ELSE NoChange]
        IN /\ Receive(s, batch)
           /\ hlcLast' = [hlcLast EXCEPT ![d] =
                  Stamp(@, Wall(d), d, Cardinality(Pending(d)))]
           /\ sess' = [sess EXCEPT ![d].pc = "wait", ![d].pages = @ + 1,
                                   ![d].out = batch, ![d].slot = s, ![d].tries = 1]
  BY DEF PushCollect
<1> DEFINE stamp(k) == Stamp(hlcLast[d], Wall(d), d, f[k])
           top == Stamp(hlcLast[d], Wall(d), d, Cardinality(Pending(d)))
           out == [k \in Rows |-> IF k \in Pending(d) /\ f[k] <= PushPageSize
                                  THEN [rows[d][k] EXCEPT !.hlc = stamp(k)]
                                  ELSE NoChange]
<1>2. /\ out \in Batch
      /\ top \in Hlc /\ HlcLess(hlcLast[d], top)
      /\ \A k \in InBatch(out) :
            /\ k \in Pending(d) /\ out[k].hlc = stamp(k)
            /\ HlcLess(hlcLast[d], stamp(k)) /\ HlcLeq(stamp(k), top)
            /\ stamp(k).node = d
      /\ \A i, j \in InBatch(out) : stamp(i) = stamp(j) => i = j
  BY Collected, ZenonT(60) DEF PushCollect
<1>3. /\ hlcLast'[d] = top
      /\ sess' = [sess EXCEPT ![d].pc = "wait", ![d].pages = @ + 1,
                              ![d].out = out, ![d].slot = s, ![d].tries = 1]
      /\ handler' = [handler EXCEPT ![s] = Received(out)]
  BY <1>1 DEF TypeOK, Receive
<1> HIDE DEF stamp, top, out
<1>4. /\ sess'[d].out = out /\ sess'[d].pc = "wait" /\ sess'[d].page = sess[d].page
      /\ \A e \in Devices : e # d => sess'[e] = sess[e]
  BY <1>3, SessionTypes DEF TypeOK, Session
<1>5. \A k \in InBatch(out) : out[k].hlc \in Hlc /\ out[k].hlc # NoHlc
  BY <1>2, RowTypes
<1>6. \A k \in Pending(d) : Live(d, k)
  BY DEF Pending
<1> DEFINE W == OnWire \cup Changes(out, InBatch(out))
<1>7. Stored' \subseteq W
  BY WireHas DEF PushCollect, Stored
<1>8. \A t \in Slots : Handled(t)' \subseteq W
  <2>1. \A t \in Slots : handler'[t].batch = handler[t].batch \/ handler'[t].batch = out
    BY <1>3 DEF Received, TypeOK, ServerTypeOK
  <2> QED BY <2>1, WireHas DEF Handled
<1>9. \A e \in Devices : Sent(e)' \subseteq W /\ Pulled(e)' \subseteq W
  <2>1. \A e \in Devices : /\ sess'[e].out = sess[e].out \/ sess'[e].out = out
                           /\ sess'[e].page = sess[e].page
    BY <1>4
  <2> QED BY <2>1, WireHas DEF Sent, Pulled
<1>10. OnWire' \subseteq W
  BY <1>7, <1>8, <1>9, WireAfter
<1>11. \A k \in InBatch(out) : /\ out[k].hlc \in Hlc /\ out[k].hlc.node = d
                              /\ HlcLess(hlcLast[d], out[k].hlc)
                              /\ HlcLeq(out[k].hlc, hlcLast'[d])
                              /\ out[k].hlc # NoHlc
                              /\ Live(d, k)
  BY <1>2, <1>3, <1>5, <1>6
<1>12. out \in Batch /\ \A i, j \in InBatch(out) : out[i].hlc = out[j].hlc => i = j
  BY <1>2
<1> QED BY <1>4, <1>10, <1>11, <1>12

LEMMA WireInit ==
    ASSUME Init
    PROVE  \A x \in OnWire : x[2].hlc = NoHlc
<1>1. \A x \in Stored : x[2].hlc = NoHlc
  BY ServerAssumption DEF Init, ServerInit, Stored, Changes, OnPage
<1>2. \A s \in Slots : Handled(s) = {}
  BY NothingIn DEF Init, ServerInit, Handled, Changes
<1>3. \A d \in Devices : Sent(d) = {} /\ Pulled(d) = {}
  BY NothingIn DEF Init, Idle, Sent, Pulled, Changes
<1> QED BY <1>1, <1>2, <1>3, WireSplit

LEMMA WireBelowStep ==
    ASSUME TypeOK, TypeOK', WireBelow, [Next]_vars
    PROVE  WireBelow'
<1>1. ASSUME NEW x \in OnWire, x[2].hlc # NoHlc
      PROVE  x[2].hlc.node \in Devices /\ HlcLeq(x[2].hlc, hlcLast'[x[2].hlc.node])
  <2>1. x[2].hlc.node \in Devices /\ HlcLeq(x[2].hlc, hlcLast[x[2].hlc.node])
    BY <1>1 DEF WireBelow
  <2>2. HlcLeq(hlcLast[x[2].hlc.node], hlcLast'[x[2].hlc.node])
    BY <2>1, ClockStep
  <2> QED BY <2>1, <2>2, WireTypes, HlcLeqTransitive DEF TypeOK
<1>2. CASE OnWire' \subseteq OnWire
  BY <1>1, <1>2 DEF WireBelow
<1>3. ASSUME NEW d \in Devices, PushCollect(d)
      PROVE  WireBelow'
  <2>1. PICK out \in Batch :
              /\ OnWire' \subseteq OnWire \cup Changes(out, InBatch(out))
              /\ \A k \in InBatch(out) : out[k].hlc.node = d /\ HlcLeq(out[k].hlc, hlcLast'[d])
    BY <1>3, CollectStep
  <2>2. \A x \in Changes(out, InBatch(out)) : x[2].hlc.node = d /\ HlcLeq(x[2].hlc, hlcLast'[d])
    BY <2>1 DEF Changes
  <2> QED BY <1>1, <2>1, <2>2 DEF WireBelow
<1> QED BY <1>2, <1>3, WireStep

LEMMA StampsUniqueStep ==
    ASSUME TypeOK, WireBelow, StampsUnique, [Next]_vars
    PROVE  StampsUnique'
<1>1. CASE OnWire' \subseteq OnWire
  BY <1>1 DEF StampsUnique
<1>2. ASSUME NEW d \in Devices, PushCollect(d)
      PROVE  StampsUnique'
  <2>1. PICK out \in Batch :
              /\ OnWire' \subseteq OnWire \cup Changes(out, InBatch(out))
              /\ \A k \in InBatch(out) : /\ out[k].hlc \in Hlc /\ out[k].hlc.node = d
                                         /\ HlcLess(hlcLast[d], out[k].hlc)
              /\ \A i, j \in InBatch(out) : out[i].hlc = out[j].hlc => i = j
    BY <1>2, CollectStep, SMTT(30)
  <2> DEFINE New == Changes(out, InBatch(out))
  <2>2. \A x \in New : x[2].hlc \in Hlc /\ x[2].hlc.node = d /\ HlcLess(hlcLast[d], x[2].hlc)
    BY <2>1 DEF Changes
  <2>3. \A x, y \in New : x[2].hlc = y[2].hlc => x = y
    BY <2>1 DEF Changes
  <2>4. \A x \in OnWire, y \in New : x[2].hlc # NoHlc => x[2].hlc # y[2].hlc
    <3> SUFFICES ASSUME NEW x \in OnWire, NEW y \in New, x[2].hlc # NoHlc, x[2].hlc = y[2].hlc
                 PROVE  FALSE
      OBVIOUS
    <3>1. HlcLeq(x[2].hlc, hlcLast[d])
      BY <2>2 DEF WireBelow
    <3>2. HlcLess(hlcLast[d], x[2].hlc) /\ x[2].hlc \in Hlc /\ hlcLast[d] \in Hlc
      BY <2>2 DEF TypeOK
    <3> QED BY <3>1, <3>2, HlcLeqLess
  <2> HIDE DEF New
  <2>5. OnWire' \subseteq OnWire \cup New
    BY <2>1 DEF New
  <2> QED BY <2>3, <2>4, <2>5 DEF StampsUnique
<1> QED BY <1>1, <1>2, WireStep

\* A clock names one write of one row, whoever stamps and however often a
\* batch is sent.
THEOREM SyncStampsUnique == Spec => []StampsUnique
<1>1. Init => WireBelow /\ StampsUnique
  BY WireInit DEF WireBelow, StampsUnique
<1>2. TypeOK /\ TypeOK' /\ WireBelow /\ StampsUnique /\ [Next]_vars => (WireBelow /\ StampsUnique)'
  BY WireBelowStep, StampsUniqueStep
<1> QED BY <1>1, <1>2, SyncTypeOK, PTL DEF Spec

----------------------------------------------------------------------------
(* What a session waits for.                                               *)

\* A step leaves the batch of a session alone, forgets it, or is its collect.
LEMMA OutStep ==
    ASSUME TypeOK, [Next]_vars, NEW d \in Devices, ~ PushCollect(d)
    PROVE  \/ sess'[d].out = sess[d].out /\ (sess[d].pc = "wait" => sess'[d].pc = "wait")
           \/ sess'[d].out = NoBatch
<1> DEFINE Kept == sess'[d].out = sess[d].out /\ (sess[d].pc = "wait" => sess'[d].pc = "wait")
           Gone == sess'[d].out = NoBatch
<1>1. CASE sess'[d] = sess[d]
  BY <1>1
<1>2. Idle.out = NoBatch
  BY DEF Idle
<1>3. ASSUME Start(d) \/ Abort(d) \/ GiveUp(d) \/ Finish(d)
      PROVE  Gone
  <2>1. CASE Start(d)
    BY <2>1, <1>2 DEF Start, TypeOK, Idle
  <2>2. CASE Abort(d) \/ GiveUp(d) \/ Finish(d)
    BY <2>2, <1>2 DEF Abort, GiveUp, Stop, Finish, TypeOK
  <2> QED BY <1>3, <2>1, <2>2
<1>4. ASSUME NothingToPush(d) \/ PullRead(d) \/ PullApply(d)
      PROVE  Kept
  <2>1. CASE NothingToPush(d)
    BY <2>1, SessionTypes DEF NothingToPush, TypeOK, Session
  <2>2. CASE PullRead(d)
    <3>1. sess[d].pc = "pull"
      BY <2>2 DEF PullRead
    <3>2. sess'[d].out = sess[d].out
      <4>1. PICK S \in PullPages(sess[d].cursor) :
          sess' = [sess EXCEPT ![d].page = [k \in Rows |-> IF k \in S THEN server[k] ELSE NoRow],
                               ![d].pages = @ + 1,
                               ![d].stime = IsoText(now),
                               ![d].pc = "apply"]
        BY <2>2 DEF PullRead
      <4> QED BY <4>1 DEF TypeOK, Session
    <3> QED BY <3>1, <3>2
  <2>3. CASE PullApply(d)
    BY <2>3, SessionTypes DEF PullApply, TypeOK, Session
  <2> QED BY <1>4, <2>1, <2>2, <2>3
<1>5. ASSUME PushRetry(d)
      PROVE  Kept
  BY <1>5, SessionTypes DEF PushRetry, TypeOK, Session
<1>6. ASSUME PushAnswer(d)
      PROVE  Gone
  BY <1>6, SessionTypes DEF PushAnswer, TypeOK, Session
<1>7. ASSUME NEW e \in Devices, e # d, Start(e) \/ Abort(e) \/ SessionStep(e)
      PROVE  sess'[d] = sess[d]
  BY <1>7 DEF Start, Abort, Stop, SessionStep, PullRead, PullApply, NothingToPush, PushCollect,
              PushRetry, PushAnswer, Finish, GiveUp, TypeOK
<1>8. CASE UserStep \/ Tick \/ UNCHANGED vars \/ \E s \in Slots : Worker(s) \/ Drop(s)
  <2>1. sess' = sess
    BY <1>8, UserPut DEF Put, Tick, vars, deviceVars, Worker, Drop
  <2> QED BY <2>1, <1>1
<1>9. ASSUME Start(d) \/ Abort(d) \/ SessionStep(d)
      PROVE  Kept \/ Gone
  BY <1>3, <1>4, <1>5, <1>6, <1>9 DEF SessionStep
<1> QED BY <1>1, <1>7, <1>8, <1>9 DEF Next

LEMMA OutOnlyWaitingStep ==
    ASSUME TypeOK, OutOnlyWaiting, [Next]_vars
    PROVE  OutOnlyWaiting'
<1> SUFFICES ASSUME NEW d \in Devices, sess'[d].pc # "wait"
             PROVE  sess'[d].out = NoBatch
  BY DEF OutOnlyWaiting
<1>1. CASE PushCollect(d)
  BY <1>1, CollectStep
<1>2. CASE ~ PushCollect(d)
  BY <1>2, OutStep DEF OutOnlyWaiting
<1> QED BY <1>1, <1>2

LEMMA PushBeatsCopyStep ==
    ASSUME TypeOK, OutOnlyWaiting, ClockDominates, PushBeatsCopy, [Next]_vars
    PROVE  PushBeatsCopy'
<1> SUFFICES ASSUME NEW d \in Devices, NEW k \in InBatch(sess'[d].out)
             PROVE  rows'[d][k] # NoRow /\ HlcLess(rows'[d][k].hlc, sess'[d].out[k].hlc)
  BY DEF PushBeatsCopy, Live
<1>1. k \in Rows
  BY DEF InBatch
<1>2. CASE PushCollect(d)
  <2>1. Live(d, k) /\ HlcLess(hlcLast[d], sess'[d].out[k].hlc) /\ sess'[d].out[k].hlc \in Hlc
    BY <1>2, CollectStep
  <2>2. rows[d][k].hlc \in Hlc /\ HlcLeq(rows[d][k].hlc, hlcLast[d]) /\ hlcLast[d] \in Hlc
    BY <1>1, <2>1, RowTypes DEF TypeOK, Live, ClockDominates
  <2>3. rows' = rows
    BY <1>2 DEF PushCollect
  <2> QED BY <2>1, <2>2, <2>3, HlcLeqLess DEF Live
<1>3. CASE ~ PushCollect(d)
  <2>1. /\ sess'[d].out = sess[d].out /\ k \in InBatch(sess[d].out) /\ sess[d].pc = "wait"
        /\ Live(d, k) /\ HlcLess(rows[d][k].hlc, sess[d].out[k].hlc)
    BY <1>3, OutStep, NothingIn DEF OutOnlyWaiting, PushBeatsCopy
  <2>2. CASE rows' = rows
    BY <2>1, <2>2 DEF Live
  <2>3. CASE UserStep
    <3>1. PICK e \in Devices, j \in Rows, row \in SyncRow :
                Put(e, j, row) /\ (Live(e, j) => row.hlc = rows[e][j].hlc)
      BY <2>3, UserPut
    <3> DEFINE put == [row EXCEPT !.ua = RowText(Wall(e))]
    <3>2. put.hlc = row.hlc /\ put # NoRow
      <4>1. Wall(e) \in Nat
        BY DesktopAssumption DEF TypeOK, Wall
      <4> QED BY <4>1, TextTypes, ServerAssumption DEF SyncRow
    <3>3. rows' = [rows EXCEPT ![e][j] = put]
      BY <3>1 DEF Put
    <3> HIDE DEF put
    <3> QED BY <1>1, <2>1, <3>1, <3>2, <3>3 DEF TypeOK, Live
  <2>4. ASSUME NEW e \in Devices, PullApply(e)
        PROVE  rows'[d][k] # NoRow /\ HlcLess(rows'[d][k].hlc, sess'[d].out[k].hlc)
    <3>1. e # d
      BY <2>1, <2>4 DEF PullApply
    <3>2. rows'[d] = rows[d]
      BY <2>4, <3>1 DEF PullApply, TypeOK
    <3> QED BY <2>1, <3>2 DEF Live
  <2> QED BY <2>2, <2>3, <2>4, RowsStep
<1> QED BY <1>2, <1>3

\* What a device has sent and waits for is newer than its own copy, also
\* after the user has edited the row again.
THEOREM SyncPushBeatsCopy == Spec => []PushBeatsCopy
<1>1. Init => OutOnlyWaiting /\ PushBeatsCopy
  BY NothingIn DEF Init, Idle, OutOnlyWaiting, PushBeatsCopy
<1>2. /\ TypeOK /\ ClockDominates /\ OutOnlyWaiting /\ PushBeatsCopy /\ [Next]_vars
      => (OutOnlyWaiting /\ PushBeatsCopy)'
  BY OutOnlyWaitingStep, PushBeatsCopyStep
<1> QED BY <1>1, <1>2, SyncTypeOK, SyncClockDominates, PTL DEF Spec

----------------------------------------------------------------------------
(* Deliveries.                                                             *)

FullPage(d) == Cardinality(OnPage(sess[d].page)) = PullPageSize

\* Owed rows while a session of d pulls: past the cursor before a page is
\* read, on the page or past it once it was, and none after the last page.
BeforePage(d) ==
    /\ sess[d].pages < MaxPages
    /\ sess[d].pages = 0 => sess[d].cursor = lastPull[d]
    /\ \A k \in owed[d] : TextLess(sess[d].cursor, server[k].ua)

OnOrPastPage(d, k) ==
    \/ sess[d].page[k] = server[k]
    \/ /\ FullPage(d)
       /\ \A i \in OnPage(sess[d].page) : TextLeq(sess[d].page[i].ua, server[k].ua)

WithPage(d) ==
    /\ sess[d].pages \in 1 .. MaxPages
    /\ \A k \in owed[d] : OnOrPastPage(d, k)

OwedBySession(d) ==
    /\ sess[d].pc \in {"pull", "apply"} => sess[d].mode # "push"
    /\ sess[d].pc = "pull" => BeforePage(d)
    /\ sess[d].pc = "apply" => WithPage(d)
    /\ sess[d].pc \in {"collect", "wait", "finish"} /\ sess[d].mode # "push" => owed[d] = {}

OwedIsStored == owed \in [Devices -> SUBSET Rows] /\ \A d \in Devices : owed[d] \subseteq OnPage(server)

DeliveryInv == OwedIsStored /\ OwedStaysAhead /\ \A d \in Devices : OwedBySession(d)

LEMMA DeliveryStarts == DeliveryInit => DeliveryInv
BY DEF DeliveryInit, Init, DeliveryInv, OwedIsStored, OwedStaysAhead, OwedBySession, Idle

\* The history adds nothing to what the system does.
LEMMA DeliveryIsSync == [DeliveryNext]_deliveryVars => [Next]_vars
<1>1. OtherStep => Next
  BY DEF OtherStep, OtherSessionStep, Next, SessionStep
<1>2. \A d \in Devices : PageArrives(d) => Next
  BY DEF PageArrives, Next, SessionStep
<1>3. \A s \in Slots : WorkerWrites(s) => Next
  BY DEF WorkerWrites, Next
<1> QED BY <1>1, <1>2, <1>3 DEF DeliveryNext, deliveryVars

\* A step that leaves d's session, its cursor, the store and what is owed to
\* it alone.
LEMMA DeliveryRest ==
    ASSUME NEW d \in Devices, OwedBySession(d), server' = server, owed'[d] = owed[d],
           sess'[d] = sess[d], lastPull'[d] = lastPull[d]
    PROVE  OwedBySession(d)'
BY DEF OwedBySession, BeforePage, WithPage, OnOrPastPage, FullPage

\* What a handler writes is a row.
LEMMA WrittenRows ==
    ASSUME TypeOK, NEW s \in Slots, Worker(s)
    PROVE  /\ \A k \in Rows : server[k] # NoRow => server'[k] # NoRow
           /\ \A k \in Written : server'[k] # NoRow
<1> DEFINE b == handler[s].batch
<1>1. b \in Batch /\ handler[s].todo \subseteq InBatch(b)
  BY DEF TypeOK, ServerTypeOK, HandlerRecord
<1>2. CASE server' = server
  BY <1>2 DEF Written
<1>3. CASE WriteBatch(s)
  <2>1. PICK S \in FirstOf(b, handler[s].todo) : server' = [k \in Rows |-> IF k \in S THEN b[k] ELSE server[k]]
    BY <1>3 DEF WriteBatch
  <2>2. S \subseteq InBatch(b)
    BY <1>1 DEF FirstOf
  <2>3. \A k \in S : b[k] # NoRow
    BY <1>1, <2>2, RowTypes, ServerAssumption
  <2> QED BY <2>1, <2>3 DEF Written
<1> QED BY <1>2, <1>3 DEF Worker, HandlerStep, Fetch, FailHandler

\* A write takes what was owed of its row back, and is owed to those that
\* are not reading.
LEMMA DeliveryWrite ==
    ASSUME TypeOK, DeliveryInv, NEW s \in Slots, WorkerWrites(s)
    PROVE  DeliveryInv'
<1>1. /\ sess' = sess /\ lastPull' = lastPull
      /\ owed' = [d \in Devices |-> (owed[d] \ Written) \cup {k \in Written : BecomesOwed(d, k)}]
  BY DEF WorkerWrites, Worker, deviceVars
<1>2. /\ \A k \in Rows : server[k] # NoRow => server'[k] # NoRow
      /\ \A k \in Written : server'[k] # NoRow
  BY WrittenRows DEF WorkerWrites
<1>3. Written \subseteq Rows /\ \A k \in Rows \ Written : server'[k] = server[k]
  BY DEF Written
<1>4. ASSUME NEW d \in Devices
      PROVE  /\ owed'[d] \subseteq Rows
             /\ \A k \in owed'[d] : \/ k \in owed[d] /\ server'[k] = server[k]
                                    \/ k \in Written /\ BecomesOwed(d, k)
  BY <1>1, <1>3 DEF DeliveryInv, OwedIsStored
<1>5. OwedIsStored'
  <2>1. owed' \in [Devices -> SUBSET Rows]
    BY <1>1, <1>4
  <2> QED BY <1>2, <1>4, <2>1 DEF OwedIsStored, OnPage, DeliveryInv
<1>6. OwedStaysAhead'
  BY <1>1, <1>4 DEF OwedStaysAhead, BecomesOwed, DeliveryInv
<1>7. ASSUME NEW d \in Devices
      PROVE  OwedBySession(d)'
  <2>1. OwedBySession(d)
    BY DEF DeliveryInv
  <2>2. CASE Reading(d)
    <3>1. \A k \in owed'[d] : k \in owed[d] /\ server'[k] = server[k]
      BY <1>4, <2>2 DEF BecomesOwed
    <3> QED BY <1>1, <2>1, <3>1 DEF OwedBySession, BeforePage, WithPage, OnOrPastPage, FullPage
  <2>3. CASE sess[d].pc = "idle" \/ sess[d].mode = "push"
    BY <1>1, <2>1, <2>3 DEF OwedBySession
  <2>4. CASE sess[d].pc = "pull" /\ sess[d].pages = 0 /\ sess[d].mode # "push"
    <3>1. \A k \in owed'[d] : TextLess(sess[d].cursor, server'[k].ua)
      BY <1>4, <2>1, <2>4 DEF OwedBySession, BeforePage, BecomesOwed
    <3> QED BY <1>1, <2>1, <2>4, <3>1 DEF OwedBySession, BeforePage
  <2> QED BY <2>2, <2>3, <2>4 DEF Reading
<1> QED BY <1>5, <1>6, <1>7 DEF DeliveryInv

\* A page settles what is on it, what its last row's time hides, and all
\* that is left after the last page.
LEMMA DeliveryPage ==
    ASSUME TypeOK, DeliveryInv, NEW d \in Devices, PageArrives(d)
    PROVE  DeliveryInv'
<1> DEFINE page == sess[d].page
<1>1. PICK c \in CursorAfterPage(d) :
          sess' = [sess EXCEPT ![d] =
              [sess[d] EXCEPT !.pc = AfterPage(d), !.cursor = c, !.page = NoPage,
                              !.pages = IF AfterPage(d) = "collect" THEN 0 ELSE @]]
  BY DEF PageArrives, PullApply
<1>2. /\ server' = server /\ lastPull' = lastPull /\ sess[d].pc = "apply"
      /\ owed' = [owed EXCEPT ![d] = @ \ Settled(d)]
  BY DEF PageArrives, PullApply, serverVars
<1>3. /\ sess[d].mode # "push" /\ WithPage(d) /\ owed[d] \subseteq OnPage(server)
      /\ owed \in [Devices -> SUBSET Rows] /\ owed'[d] = owed[d] \ Settled(d)
  BY <1>2 DEF DeliveryInv, OwedBySession, OwedIsStored
<1>4. /\ sess'[d].pc = AfterPage(d) /\ sess'[d].cursor = c /\ sess'[d].mode = sess[d].mode
      /\ AfterPage(d) # "collect" => sess'[d].pages = sess[d].pages
  BY <1>1 DEF TypeOK, Session
<1>5. sess[d].pages \in 1 .. MaxPages /\ MaxPages \in Nat
  BY <1>3, DesktopAssumption DEF WithPage
<1>6. ASSUME NEW k \in owed'[d]
      PROVE  /\ k \in Rows /\ server[k] # NoRow /\ page[k] # server[k]
             /\ server[k].ua \notin LastOf(page, OnPage(page))
             /\ ~ (FullPage(d) /\ sess[d].pages = MaxPages)
             /\ FullPage(d) /\ \A i \in OnPage(page) : TextLeq(page[i].ua, server[k].ua)
  BY <1>3, <1>6 DEF Settled, OnPage, WithPage, OnOrPastPage, FullPage
<1>7. OwedIsStored' /\ OwedStaysAhead'
  BY <1>2 DEF DeliveryInv, OwedIsStored, OwedStaysAhead
<1>8. OwedBySession(d)'
  <2>1. CASE AfterPage(d) = "pull"
    <3>1. sess[d].pages < MaxPages /\ c \in LastOf(page, OnPage(page))
      BY <1>5, <2>1 DEF AfterPage, CursorAfterPage
    <3>2. \A k \in owed'[d] : TextLess(c, server[k].ua)
      BY <1>6, <3>1 DEF LastOf, TextLeq
    <3> QED BY <1>2, <1>3, <1>4, <1>5, <2>1, <3>1, <3>2 DEF OwedBySession, BeforePage
  <2>2. CASE AfterPage(d) \in {"collect", "finish"}
    <3>1. owed'[d] = {}
      BY <1>5, <1>6, <2>2 DEF AfterPage, FullPage
    <3> QED BY <1>4, <2>2, <3>1 DEF OwedBySession
  <2> QED BY <2>1, <2>2 DEF AfterPage
<1>9. ASSUME NEW e \in Devices, e # d
      PROVE  OwedBySession(e)'
  <2>1. owed'[e] = owed[e] /\ sess'[e] = sess[e] /\ lastPull'[e] = lastPull[e]
    BY <1>1, <1>2, <1>3, <1>9 DEF TypeOK
  <2> QED BY <1>2, <1>9, <2>1, DeliveryRest DEF DeliveryInv
<1> QED BY <1>7, <1>8, <1>9 DEF DeliveryInv

\* A page is the oldest of what is past the cursor, all of it when it is
\* short.
LEMMA DeliveryRead ==
    ASSUME TypeOK, DeliveryInv, NEW d \in Devices, PullRead(d), owed' = owed
    PROVE  OwedBySession(d)'
<1>1. PICK S \in PullPages(sess[d].cursor) :
          sess' = [sess EXCEPT ![d].page = [k \in Rows |-> IF k \in S THEN server[k] ELSE NoRow],
                               ![d].pages = @ + 1,
                               ![d].stime = IsoText(now),
                               ![d].pc = "apply"]
  BY DEF PullRead
<1> DEFINE page == [k \in Rows |-> IF k \in S THEN server[k] ELSE NoRow]
<1>2. /\ server' = server /\ BeforePage(d) /\ sess[d].mode # "push"
      /\ owed[d] \subseteq OnPage(server) /\ owed[d] \subseteq Rows
  BY DEF PullRead, serverVars, DeliveryInv, OwedBySession, OwedIsStored
<1>3. S \subseteq OnPage(server)
  BY DEF PullPages, OnPage
<1>4. OnPage(page) = S /\ \A i \in S : page[i] = server[i]
  BY <1>3 DEF OnPage
<1>5. \A k \in owed[d] : \/ k \in S
                        \/ /\ Cardinality(S) = PullPageSize
                           /\ \A i \in S : TextLeq(server[i].ua, server[k].ua)
  <2> SUFFICES ASSUME NEW k \in owed[d], k \notin S
               PROVE  /\ Cardinality(S) = PullPageSize
                      /\ \A i \in S : TextLeq(server[i].ua, server[k].ua)
    OBVIOUS
  <2> DEFINE newer == {j \in Rows : server[j] # NoRow /\ TextLess(sess[d].cursor, server[j].ua)}
  <2>1. k \in newer
    BY <1>2 DEF BeforePage, OnPage
  <2>2. /\ Cardinality(S) = PullPageSize \/ S = newer
        /\ \A i \in S, j \in newer \ S : TextLeq(server[i].ua, server[j].ua)
    BY DEF PullPages
  <2> QED BY <2>1, <2>2
<1>6. /\ sess'[d].page = page /\ sess'[d].pc = "apply" /\ sess'[d].mode = sess[d].mode
      /\ sess'[d].pages = sess[d].pages + 1
  BY <1>1 DEF TypeOK, Session
<1>7. sess'[d].pages \in 1 .. MaxPages
  BY <1>2, <1>6, SessionTypes, DesktopAssumption DEF BeforePage
<1> HIDE DEF page
<1>8. \A k \in owed[d] : \/ page[k] = server[k]
                        \/ /\ Cardinality(OnPage(page)) = PullPageSize
                           /\ \A i \in OnPage(page) : TextLeq(page[i].ua, server[k].ua)
  BY <1>4, <1>5
<1> QED BY <1>2, <1>6, <1>7, <1>8 DEF OwedBySession, WithPage, OnOrPastPage, FullPage

\* A session starts at the pull cursor, and stores it anew only when nothing
\* is owed any more.
LEMMA DeliverySession ==
    ASSUME TypeOK, DeliveryInv, NEW d \in Devices, OtherSessionStep(d), owed' = owed
    PROVE  DeliveryInv'
<1>1. server' = server
  BY DEF OtherSessionStep, Start, Abort, GiveUp, Stop, PullRead, NothingToPush, PushCollect,
         PushRetry, PushAnswer, Finish, serverVars
<1>2. /\ \A e \in Devices \ {d} : sess'[e] = sess[e] /\ lastPull'[e] = lastPull[e]
      /\ lastPull'[d] # lastPull[d] => Finish(d)
  BY DEF OtherSessionStep, Start, Abort, GiveUp, Stop, PullRead, NothingToPush, PushCollect,
         PushRetry, PushAnswer, Finish, TypeOK
<1>3. /\ OwedBySession(d) /\ sess[d] \in Session /\ sess \in [Devices -> Session]
      /\ lastPull \in [Devices -> Text]
  BY DEF DeliveryInv, TypeOK
<1>4. \A k \in owed[d] : TextLess(lastPull'[d], server[k].ua)
  <2>1. CASE lastPull'[d] = lastPull[d]
    BY <2>1 DEF DeliveryInv, OwedStaysAhead
  <2>2. CASE lastPull'[d] # lastPull[d]
    <3>1. sess[d].pc = "finish" /\ sess[d].mode # "push"
      BY <1>2, <1>3, <2>2 DEF Finish
    <3> QED BY <1>3, <3>1 DEF OwedBySession
  <2> QED BY <2>1, <2>2
<1>5. OwedBySession(d)'
  <2>1. CASE Abort(d) \/ GiveUp(d) \/ Finish(d)
    <3>1. sess'[d] = Idle
      BY <1>3, <2>1 DEF Abort, GiveUp, Stop, Finish
    <3> QED BY <3>1 DEF Idle, OwedBySession
  <2>2. CASE Start(d)
    <3>1. PICK mode \in {"full", "pull", "push"} :
            sess' = [sess EXCEPT ![d] =
                [Idle EXCEPT !.mode = mode,
                             !.pc = IF mode = "push" THEN "collect" ELSE "pull",
                             !.cursor = IF mode = "push" THEN lastPush[d] ELSE lastPull[d]]]
      BY <2>2 DEF Start
    <3>2. /\ sess'[d].mode = mode /\ sess'[d].pages = 0
          /\ sess'[d].pc = IF mode = "push" THEN "collect" ELSE "pull"
          /\ sess'[d].cursor = IF mode = "push" THEN lastPush[d] ELSE lastPull[d]
      BY <1>3, <3>1 DEF Idle
    <3>3. lastPull' = lastPull /\ MaxPages \in Nat \ {0}
      BY <2>2, DesktopAssumption DEF Start
    <3> QED BY <1>1, <3>2, <3>3 DEF OwedBySession, BeforePage, DeliveryInv, OwedStaysAhead
  <2>3. CASE PullRead(d)
    BY <2>3, DeliveryRead
  <2>4. CASE NothingToPush(d) \/ PushCollect(d) \/ PushRetry(d) \/ PushAnswer(d)
    <3>1. /\ sess[d].pc \in {"collect", "wait"} /\ sess'[d].mode = sess[d].mode
          /\ sess'[d].pc \in {"collect", "wait", "finish"}
      <4>1. CASE NothingToPush(d)
        BY <1>3, <4>1 DEF NothingToPush, Session
      <4>2. CASE PushCollect(d)
        <5>1. PICK f \in Orders(d), s \in Slots :
              LET stamp(k) == Stamp(hlcLast[d], Wall(d), d, f[k])
                  batch == [k \in Rows |-> IF k \in Pending(d) /\ f[k] <= PushPageSize
                                           THEN [rows[d][k] EXCEPT !.hlc = stamp(k)]
                                           ELSE NoChange]
              IN sess' = [sess EXCEPT ![d].pc = "wait", ![d].pages = @ + 1,
                                      ![d].out = batch, ![d].slot = s, ![d].tries = 1]
          BY <4>2 DEF PushCollect
        <5> DEFINE stamp(k) == Stamp(hlcLast[d], Wall(d), d, f[k])
                   out == [k \in Rows |-> IF k \in Pending(d) /\ f[k] <= PushPageSize
                                          THEN [rows[d][k] EXCEPT !.hlc = stamp(k)]
                                          ELSE NoChange]
        <5>2. sess' = [sess EXCEPT ![d].pc = "wait", ![d].pages = @ + 1,
                                   ![d].out = out, ![d].slot = s, ![d].tries = 1]
          BY <5>1
        <5> HIDE DEF stamp, out
        <5>3. sess[d].pc = "collect"
          BY <4>2 DEF PushCollect
        <5> QED BY <1>3, <5>2, <5>3 DEF Session
      <4>3. CASE PushRetry(d)
        <5>1. PICK s \in Slots : sess' = [sess EXCEPT ![d].slot = s, ![d].tries = @ + 1]
          BY <4>3, Zenon DEF PushRetry
        <5>2. sess[d].pc = "wait"
          BY <4>3 DEF PushRetry
        <5> QED BY ONLY <1>3, <5>1, <5>2 DEF Session
      <4>4. CASE PushAnswer(d)
        BY <1>3, <4>4 DEF PushAnswer, Session
      <4> QED BY <2>4, <4>1, <4>2, <4>3, <4>4
    <3> QED BY <1>3, <3>1 DEF OwedBySession
  <2> QED BY <2>1, <2>2, <2>3, <2>4 DEF OtherSessionStep
<1>6. OwedIsStored' /\ OwedStaysAhead'
  BY <1>1, <1>2, <1>4 DEF DeliveryInv, OwedIsStored, OwedStaysAhead
<1>7. \A e \in Devices \ {d} : OwedBySession(e)'
  BY <1>1, <1>2, DeliveryRest DEF DeliveryInv
<1> QED BY <1>5, <1>6, <1>7 DEF DeliveryInv

LEMMA DeliveryStep ==
    ASSUME TypeOK, DeliveryInv, [DeliveryNext]_deliveryVars
    PROVE  DeliveryInv'
<1>1. ASSUME Tick \/ UserStep \/ UNCHANGED vars \/ \E s \in Slots : Drop(s), owed' = owed
      PROVE  DeliveryInv'
  <2>1. server' = server /\ sess' = sess /\ lastPull' = lastPull
    BY <1>1, UserPut DEF Put, Tick, Drop, vars, deviceVars, serverVars
  <2>2. \A d \in Devices : OwedBySession(d)'
    BY <1>1, <2>1, DeliveryRest DEF DeliveryInv
  <2> QED BY <1>1, <2>1, <2>2 DEF DeliveryInv, OwedIsStored, OwedStaysAhead
<1>2. CASE OtherStep
  BY <1>1, <1>2, DeliverySession DEF OtherStep
<1>3. CASE UNCHANGED deliveryVars
  BY <1>1, <1>3 DEF deliveryVars
<1> QED BY <1>2, <1>3, DeliveryPage, DeliveryWrite DEF DeliveryNext

\* A change that is owed to a desktop stays ahead of its pull cursor, for any
\* desktops, page sizes, page limits, clock skews and handlers.
THEOREM SyncOwedStaysAhead == DeliverySpec => []OwedStaysAhead
<1>1. DeliverySpec => []TypeOK
  <2>1. DeliveryInit => TypeOK
    BY InitType DEF DeliveryInit
  <2>2. TypeOK /\ [DeliveryNext]_deliveryVars => TypeOK'
    BY DeliveryIsSync, NextType
  <2> QED BY <2>1, <2>2, PTL DEF DeliverySpec
<1>2. TypeOK /\ DeliveryInv /\ [DeliveryNext]_deliveryVars => DeliveryInv'
  BY DeliveryStep
<1>3. DeliveryInv => OwedStaysAhead
  BY DEF DeliveryInv
<1> QED BY <1>1, <1>2, <1>3, DeliveryStarts, PTL DEF DeliverySpec
====
