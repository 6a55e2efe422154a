---- MODULE DataSync ----
(***************************************************************************)
(* Several desktops of one org, each with its local rows, and the org's    *)
(* rows on the Worker.  A sync session (sync_data) runs on a background    *)
(* thread: it pulls pages, pushes pages and stores the cursors, while the  *)
(* user goes on editing between any two of its steps.                      *)
(*                                                                         *)
(* A restriction: one session per device at a time.  The code lets Sync    *)
(* Now run beside the scheduler's job, and then clocks and cursors may go  *)
(* back: that is DeviceSessions, and what is said here is said of sessions *)
(* that do not overlap.  Every row stands for a row of a table of its own, *)
(* so a collect stamps all pending rows before it truncates them to a      *)
(* page.  Foreign keys, group names, credentials and the merge log are     *)
(* left out.                                                               *)
(***************************************************************************)
EXTENDS SyncServer

CONSTANTS Devices,      \* the machines of the org; their node ids
          Owner,        \* [Rows -> Devices]: who creates the row
          Skew,         \* [Devices -> Nat]: how far its clock is ahead
          PullPageSize, \* SYNC_PULL_PAGE_SIZE
          PushPageSize, \* SYNC_PUSH_PAGE_SIZE
          MaxPages,     \* SYNC_PULL_MAX_PAGES, of both loops
          Retries,      \* attempts of _sync_request_with_retry
          MaxTime,      \* bound: the clock stops there
          MaxEdits,     \* bound: writes by users
          MaxSessions,  \* bound: sessions started
          MayAbort      \* bound: whether sessions are cut short

ASSUME DesktopAssumption ==
    /\ Devices \subseteq Nat \ {0}
    /\ Owner \in [Rows -> Devices]
    /\ Skew \in [Devices -> Nat]
    /\ {PullPageSize, PushPageSize, MaxPages, Retries} \subseteq Nat \ {0}
    /\ {MaxTime, MaxEdits, MaxSessions} \subseteq Nat /\ MayAbort \in BOOLEAN

VARIABLES now,       \* UTC
          edits,     \* user writes so far
          starts,    \* sessions started so far
          rows,      \* rows[d]: the local tables
          hlcLast,   \* setting sync_hlc_last
          lastPull,  \* setting SETTING_SYNC_LAST_PULL
          lastPush,  \* setting SETTING_SYNC_LAST_PUSH
          sess       \* the running session of each device
deviceVars == <<rows, hlcLast, lastPull, lastPush, sess>>
vars == <<now, edits, starts, rows, hlcLast, lastPull, lastPush, sess, server, handler>>

NoPage == [k \in Rows |-> NoRow]
NoSlot == 0
Idle == [pc |-> "idle", mode |-> "full", cursor |-> Empty, pages |-> 0,
         stime |-> Empty, page |-> NoPage, out |-> NoBatch, slot |-> NoSlot, tries |-> 0]

ASSUME SlotAssumption == NoSlot \notin Slots

Wall(d) == now + Skew[d]
Live(d, k) == rows[d][k] # NoRow

Init ==
    /\ ServerInit
    /\ now = 1 /\ edits = 0 /\ starts = 0
    /\ rows = [d \in Devices |-> NoPage]
    /\ hlcLast = [d \in Devices |-> NoHlc]
    /\ lastPull = [d \in Devices |-> Empty]
    /\ lastPush = [d \in Devices |-> Empty]
    /\ sess = [d \in Devices |-> Idle]

----------------------------------------------------------------------------
(* Time and the user.                                                      *)

Tick ==
    /\ now < MaxTime
    /\ now' = now + 1
    /\ UNCHANGED <<edits, starts, deviceVars, serverVars>>

\* Every local writer stamps updated_at and leaves the hlc column alone.
Put(d, k, row) ==
    /\ edits < MaxEdits
    /\ edits' = edits + 1
    /\ rows' = [rows EXCEPT ![d][k] = [row EXCEPT !.ua = RowText(Wall(d))]]
    /\ UNCHANGED <<now, starts, hlcLast, lastPull, lastPush, sess, serverVars>>

Create(d, k) ==
    /\ ~ Live(d, k) /\ Owner[k] = d /\ server[k] = NoRow
    /\ \E v \in Values : Put(d, k, [ua |-> Empty, hlc |-> NoHlc, val |-> v, del |-> FALSE])

\* A save, of a form that was changed or not.
Edit(d, k) ==
    /\ Live(d, k) /\ ~ rows[d][k].del
    /\ \E v \in Values : Put(d, k, [rows[d][k] EXCEPT !.val = v])

SoftDelete(d, k) ==
    /\ Live(d, k) /\ ~ rows[d][k].del
    /\ Put(d, k, [rows[d][k] EXCEPT !.del = TRUE])

\* Undo of a delete, or adding a supplier of the same name again.
Restore(d, k) ==
    /\ Live(d, k) /\ rows[d][k].del
    /\ Put(d, k, [rows[d][k] EXCEPT !.del = FALSE])

UserStep == \E d \in Devices, k \in Rows :
                Create(d, k) \/ Edit(d, k) \/ SoftDelete(d, k) \/ Restore(d, k)

----------------------------------------------------------------------------
(* The session.                                                            *)

Start(d) ==
    /\ sess[d].pc = "idle"
    /\ starts < MaxSessions /\ starts' = starts + 1
    /\ \E mode \in {"full", "pull", "push"} :
          sess' = [sess EXCEPT ![d] =
              [Idle EXCEPT !.mode = mode,
                           !.pc = IF mode = "push" THEN "collect" ELSE "pull",
                           !.cursor = IF mode = "push" THEN lastPush[d] ELSE lastPull[d]]]
    /\ UNCHANGED <<now, edits, rows, hlcLast, lastPull, lastPush, serverVars>>

\* A request fails for good, or the app is closed: what the session has
\* stored so far stays, and the handler it waits for runs on.
Stop(d) ==
    /\ sess[d].pc # "idle"
    /\ sess' = [sess EXCEPT ![d] = Idle]
    /\ UNCHANGED <<now, edits, starts, rows, hlcLast, lastPull, lastPush, serverVars>>

Abort(d) == MayAbort /\ Stop(d)

\* GET /api/sync/pull: WHERE updated_at > since ORDER BY updated_at LIMIT.
PullPages(cursor) ==
    LET newer == {k \in Rows : server[k] # NoRow /\ TextLess(cursor, server[k].ua)}
    IN {S \in SUBSET newer :
          /\ \/ Cardinality(S) = PullPageSize
             \/ Cardinality(S) < PullPageSize /\ S = newer
          /\ \A i \in S, j \in newer \ S : TextLeq(server[i].ua, server[j].ua)}

PullRead(d) ==
    /\ sess[d].pc = "pull"
    /\ \E S \in PullPages(sess[d].cursor) :
          sess' = [sess EXCEPT ![d].page = [k \in Rows |-> IF k \in S THEN server[k] ELSE NoRow],
                               ![d].pages = @ + 1,
                               ![d].stime = IsoText(now),
                               ![d].pc = "apply"]
    /\ UNCHANGED <<now, edits, starts, rows, hlcLast, lastPull, lastPush, serverVars>>

\* What a local row is ordered by: parse_hlc(hlc) or legacy_hlc(updated_at).
LocalClock(row) ==
    IF row.hlc # NoHlc THEN row.hlc ELSE [wall |-> Epoch(row.ua), counter |-> 0, node |-> 0]

Skipped(local, remote) ==
    /\ local # NoRow
    /\ IF remote.hlc # NoHlc
       THEN HlcLeq(remote.hlc, LocalClock(local))
       ELSE Epoch(remote.ua) <= Epoch(local.ua)

\* The row the local table holds after _apply_remote_change. A tombstone of
\* an unknown row leaves nothing behind; an upsert leaves deleted_at alone;
\* an unclocked change leaves the hlc column alone.
Merge(local, remote) ==
    LET clock == IF remote.hlc # NoHlc \/ local = NoRow THEN remote.hlc ELSE local.hlc
    IN IF Skipped(local, remote) THEN local
       ELSE IF local = NoRow THEN (IF remote.del THEN NoRow ELSE remote)
       ELSE IF remote.del THEN [local EXCEPT !.del = TRUE, !.ua = remote.ua, !.hlc = clock]
       ELSE [local EXCEPT !.val = remote.val, !.ua = remote.ua, !.hlc = clock]

OnPage(page) == {k \in Rows : page[k] # NoRow}

\* Mutant of Noted: note_remote_hlc is not called.
NotedNone(last, page) == {last}

\* note_remote_hlc of every change of the page, skipped ones too: the
\* highest of the clocks seen.
Noted(last, page) ==
    {h \in {last} \cup {page[k].hlc : k \in OnPage(page)} :
        /\ HlcLeq(last, h)
        /\ \A k \in OnPage(page) : HlcLeq(page[k].hlc, h)}

\* changes[-1].updated_at of the rows K of a page in updated_at order.
LastOf(page, K) ==
    {x \in {page[k].ua : k \in K} : \A k \in K : TextLeq(page[k].ua, x)}

\* Mutant of AfterPage: a full page is taken for the last one.
AfterPageOnce(d) == IF sess[d].mode = "pull" THEN "finish" ELSE "collect"

\* The pull loop goes on after a full page, up to SYNC_PULL_MAX_PAGES; then
\* a full session pushes.
AfterPage(d) ==
    IF Cardinality(OnPage(sess[d].page)) = PullPageSize /\ sess[d].pages < MaxPages THEN "pull"
    ELSE IF sess[d].mode = "pull" THEN "finish" ELSE "collect"

CursorAfterPage(d) ==
    CASE AfterPage(d) = "pull"    -> LastOf(sess[d].page, OnPage(sess[d].page))
      [] AfterPage(d) = "finish"  -> {sess[d].cursor}
      [] AfterPage(d) = "collect" -> {lastPush[d]}

\* apply_remote_changes: one transaction per page.
PullApply(d) ==
    /\ sess[d].pc = "apply"
    /\ LET page == sess[d].page
       IN /\ rows' = [rows EXCEPT ![d] =
                [k \in Rows |-> IF k \in OnPage(page) THEN Merge(rows[d][k], page[k]) ELSE rows[d][k]]]
          /\ \E h \in Noted(hlcLast[d], page) : hlcLast' = [hlcLast EXCEPT ![d] = h]
          /\ \E c \in CursorAfterPage(d) :
                sess' = [sess EXCEPT ![d] =
                    [sess[d] EXCEPT !.pc = AfterPage(d), !.cursor = c, !.page = NoPage,
                                    !.pages = IF AfterPage(d) = "collect" THEN 0 ELSE @]]
    /\ UNCHANGED <<now, edits, starts, lastPull, lastPush, serverVars>>

\* Rows collect_local_changes picks up: those the user wrote, and those a
\* pull has just written.
Pending(d) == {k \in Rows : Live(d, k) /\ TextLess(sess[d].cursor, rows[d][k].ua)}

\* Their order on the wire: by updated_at, ties in any order.
Orders(d) ==
    LET P == Pending(d)
    IN {f \in [P -> 1 .. Cardinality(P)] :
          \A i, j \in P : /\ f[i] = f[j] => i = j
                          /\ f[i] < f[j] => TextLeq(rows[d][i].ua, rows[d][j].ua)}

\* Mutant of NothingToPush: the page limit does not end the push loop.
NothingToPushAtAll(d) ==
    /\ sess[d].pc = "collect" /\ Pending(d) = {}
    /\ sess' = [sess EXCEPT ![d].pc = "finish"]
    /\ UNCHANGED <<now, edits, starts, rows, hlcLast, lastPull, lastPush, serverVars>>

NothingToPush(d) ==
    /\ sess[d].pc = "collect"
    /\ Pending(d) = {} \/ sess[d].pages = MaxPages
    /\ sess' = [sess EXCEPT ![d].pc = "finish"]
    /\ UNCHANGED <<now, edits, starts, rows, hlcLast, lastPull, lastPush, serverVars>>

\* collect_local_changes and the first attempt of the request. Every pending
\* row is stamped, the first PushPageSize are sent, none of the stamps is
\* written to the hlc column.
PushCollect(d) ==
    /\ sess[d].pc = "collect"
    /\ Pending(d) # {} /\ sess[d].pages < MaxPages
    /\ \E f \in Orders(d), s \in Slots :
          LET stamp(k) == Stamp(hlcLast[d], Wall(d), d, f[k])
              out == [k \in Rows |-> IF k \in Pending(d) /\ f[k] <= PushPageSize
                                     THEN [rows[d][k] EXCEPT !.hlc = stamp(k)]
                                     ELSE NoChange]
          IN /\ Receive(s, out)
             /\ hlcLast' = [hlcLast EXCEPT ![d] =
                    Stamp(@, Wall(d), d, Cardinality(Pending(d)))]
             /\ sess' = [sess EXCEPT ![d].pc = "wait", ![d].pages = @ + 1,
                                     ![d].out = out, ![d].slot = s, ![d].tries = 1]
    /\ UNCHANGED <<now, edits, starts, rows, lastPull, lastPush, server>>

\* A timeout or a 5xx: the same body again. Its handler may still run, or have
\* stored the changes; if it is over the new one takes its slot.
PushRetry(d) ==
    /\ sess[d].pc = "wait" /\ sess[d].tries < Retries
    /\ \E s \in Slots :
          /\ \/ handler[s].st = "free"
             \/ s = sess[d].slot /\ handler[s].st \in {"done", "failed"}
          /\ handler' = [handler EXCEPT ![s] = Received(sess[d].out)]
          /\ sess' = [sess EXCEPT ![d].slot = s, ![d].tries = @ + 1]
    /\ UNCHANGED <<now, edits, starts, rows, hlcLast, lastPull, lastPush, server>>

\* The response: the cursor moves to the last row sent, whether it was
\* applied or not.
PushAnswer(d) ==
    /\ sess[d].pc = "wait" /\ handler[sess[d].slot].st = "done"
    /\ Release(sess[d].slot)
    /\ LET sent == InBatch(sess[d].out)
       IN \E last \in LastOf(sess[d].out, sent) :
          /\ lastPush' = [lastPush EXCEPT ![d] = last]
          /\ sess' = [sess EXCEPT ![d] =
                [sess[d] EXCEPT !.cursor = last, !.stime = IsoText(now), !.out = NoBatch,
                          !.slot = NoSlot, !.tries = 0,
                          !.pc = IF Cardinality(sent) = PushPageSize THEN "collect" ELSE "finish"]]
    /\ UNCHANGED <<now, edits, starts, rows, hlcLast, lastPull, server>>

\* The pull cursor of full and pull sessions becomes the Worker's clock at
\* the last response of the session, that of the push included.
Finish(d) ==
    /\ sess[d].pc = "finish"
    /\ lastPull' = [lastPull EXCEPT ![d] = IF sess[d].mode = "push" THEN @ ELSE sess[d].stime]
    /\ sess' = [sess EXCEPT ![d] = Idle]
    /\ UNCHANGED <<now, edits, starts, rows, hlcLast, lastPush, serverVars>>

\* The last attempt failed.
GiveUp(d) ==
    /\ sess[d].pc = "wait" /\ sess[d].tries = Retries
    /\ handler[sess[d].slot].st = "failed"
    /\ Stop(d)

----------------------------------------------------------------------------
(* The Worker.                                                             *)

Worker(s) == HandlerStep(s) /\ UNCHANGED <<now, edits, starts, deviceVars>>

\* Nobody reads the answer: the device has retried or given up.
Drop(s) ==
    /\ \A d \in Devices : sess[d].slot # s
    /\ Release(s)
    /\ UNCHANGED <<now, edits, starts, deviceVars, server>>

SessionStep(d) ==
    \/ PullRead(d) \/ PullApply(d)
    \/ NothingToPush(d) \/ PushCollect(d) \/ PushRetry(d) \/ PushAnswer(d)
    \/ Finish(d) \/ GiveUp(d)

Next ==
    \/ Tick \/ UserStep
    \/ \E d \in Devices : Start(d) \/ Abort(d) \/ SessionStep(d)
    \/ \E s \in Slots : Worker(s) \/ Drop(s)

Spec == Init /\ [][Next]_vars

\* The background thread keeps running, and a request is answered or times
\* out. Nothing obliges a user or the clock.
FairSpec ==
    /\ Spec
    /\ \A d \in Devices : WF_vars(SessionStep(d))
    /\ \A s \in Slots : WF_vars(Worker(s)) /\ WF_vars(Drop(s))

----------------------------------------------------------------------------
Session == [pc : {"idle", "pull", "apply", "collect", "wait", "finish"},
            mode : {"full", "pull", "push"}, cursor : Text, pages : Nat, stime : Text,
            page : [Rows -> SyncRow \cup {NoRow}], out : Batch,
            slot : Slots \cup {NoSlot}, tries : Nat]

TypeOK ==
    /\ ServerTypeOK
    /\ now \in Nat /\ edits \in Nat /\ starts \in Nat
    /\ rows \in [Devices -> [Rows -> SyncRow \cup {NoRow}]]
    /\ hlcLast \in [Devices -> Hlc]
    /\ lastPull \in [Devices -> Text] /\ lastPush \in [Devices -> Text]
    /\ sess \in [Devices -> Session]

\* The clock of a device is at or past every clock in its tables, so what it
\* stamps next beats every copy it has pulled.
ClockDominates ==
    \A d \in Devices, k \in Rows : Live(d, k) => HlcLeq(rows[d][k].hlc, hlcLast[d])

\* The changes that exist outside the local tables.
Changes(m, K) == {<<k, m[k]>> : k \in K}
Stored == Changes(server, OnPage(server))
Handled(s) == Changes(handler[s].batch, InBatch(handler[s].batch))
Sent(d) == Changes(sess[d].out, InBatch(sess[d].out))
Pulled(d) == Changes(sess[d].page, OnPage(sess[d].page))
AtWorker == UNION {Handled(s) : s \in Slots}
AtDevices == UNION {Sent(d) \cup Pulled(d) : d \in Devices}
OnWire == Stored \cup AtWorker \cup AtDevices

\* A clock names one write: two changes under one clock are the same change
\* of the same row, so "higher HLC wins" never has to break a tie.
StampsUnique ==
    \A x, y \in OnWire : x[2].hlc # NoHlc /\ x[2].hlc = y[2].hlc => x = y

\* What a device has sent and waits for beats the copy it still holds.
PushBeatsCopy ==
    \A d \in Devices : \A k \in InBatch(sess[d].out) :
        Live(d, k) /\ HlcLess(rows[d][k].hlc, sess[d].out[k].hlc)

\* A local row never goes back to a lower clock.
LocalMonotone ==
    [][\A d \in Devices, k \in Rows : Live(d, k) =>
        /\ rows'[d][k] # NoRow
        /\ HlcLeq(rows[d][k].hlc, rows'[d][k].hlc)]_vars

\* Every session ends, whatever the users and the other devices do.
SessionEnds == \A d \in Devices : sess[d].pc # "idle" ~> sess[d].pc = "idle"
====
