---- MODULE SyncRefs ----
(***************************************************************************)
(* Rows that refer to each other, on several desktops of one org: clients  *)
(* are in groups and tasks belong to clients.  Locally a row names another *)
(* by its number; on the wire by its global id, which the desktop that     *)
(* pulls looks up again.  Group and client names are unique on a desktop,  *)
(* and two desktops may give the same one.                                 *)
(*                                                                         *)
(* A session pulls pages and pushes what is newer than its cursor; a page  *)
(* is one transaction, which an exception rolls back.  The clocks of the   *)
(* desktops agree, and user writes and pushes take a second each, so a     *)
(* clock is a number and the Worker takes every push.  One of the tasks    *)
(* that come with a client stands for them all; lost answers, retries and  *)
(* overlapping pushes are DataSync's.                                      *)
(***************************************************************************)
EXTENDS Integers, FiniteSets, Sequences

CONSTANTS Desktops,
          GroupIds,  \* global ids of client_groups
          ClientIds, \* global ids of clients
          NoRef,     \* no link
          Labels,    \* names that users type
          PullLimit, \* SYNC_PULL_PAGE_SIZE
          MaxWrites, \* bound: writes by users; a backup is one
          MaxPushes  \* bound: pushes that the Worker took

TaskOf(c) == <<c>>
TaskIds == {TaskOf(c) : c \in ClientIds}
Gids == GroupIds \cup ClientIds \cup TaskIds

ASSUME RefsAssumption ==
    /\ PullLimit \in Nat \ {0} /\ MaxWrites \in Nat \ {0} /\ MaxPushes \in Nat
    /\ IsFiniteSet(GroupIds) /\ IsFiniteSet(ClientIds) /\ NoRef \notin Gids
    /\ GroupIds \cap ClientIds = {} /\ (GroupIds \cup ClientIds) \cap TaskIds = {}

VARIABLES clock,    \* the time
          pushes,   \* how many there were
          tables,   \* tables[d]: the local rows
          cloud,    \* sync_rows of the org
          pulledTo, \* SETTING_SYNC_LAST_PULL
          pushedTo, \* SETTING_SYNC_LAST_PUSH
          session,  \* the running session of each desktop
          listed,   \* groups an open dialog may list: live at some time
                    \* since the user last wrote
          armed,    \* what the undo of the last client command writes back
          update,   \* what an update_client has read or is given, to write it
          late      \* history: clients whose group was last written after it
                    \* was deleted, from a value read before
refVars == <<clock, pushes, tables, cloud, pulledTo, pushedTo, session, listed, armed, update, late>>
cursors == <<pulledTo, pushedTo>>
panel == <<armed, update>>

Unwritten == [name |-> <<>>, ref |-> NoRef, gone |-> FALSE, ua |-> 0, hlc |-> 0]
NoRows == [k \in Gids |-> Unwritten]
NoSession == [pc |-> "idle", since |-> 0, stime |-> 0]
NoUpdate == [client |-> NoRef, name |-> <<>>, ref |-> NoRef, undo |-> FALSE]

Exists(row) == row.ua # 0
IsLive(row) == Exists(row) /\ ~ row.gone
LiveGroups(T) == {g \in GroupIds : IsLive(T[g])}

\* Made before the first session: a client in a group.
Backup(g, c, label) ==
    [NoRows EXCEPT ![g] = [Unwritten EXCEPT !.name = <<label>>, !.ua = 1],
                   ![c] = [Unwritten EXCEPT !.name = <<label>>, !.ref = g, !.ua = 1],
                   ![TaskOf(c)] = [Unwritten EXCEPT !.ref = c, !.ua = 1]]

\* The desktops start empty, or each from the same backup.
RefsInit ==
    /\ \/ clock = 0 /\ tables = [d \in Desktops |-> NoRows]
       \/ \E g \in GroupIds, c \in ClientIds, label \in Labels :
             clock = 1 /\ tables = [d \in Desktops |-> Backup(g, c, label)]
    /\ pushes = 0 /\ cloud = NoRows
    /\ pulledTo = [d \in Desktops |-> 0] /\ pushedTo = [d \in Desktops |-> 0]
    /\ session = [d \in Desktops |-> NoSession]
    /\ listed = [d \in Desktops |-> {}]
    /\ armed = [d \in Desktops |-> {}] /\ update = [d \in Desktops |-> NoUpdate]
    /\ late = [d \in Desktops |-> {}]

----------------------------------------------------------------------------
(* The user.                                                               *)

SameTable(k) ==
    CASE k \in GroupIds -> GroupIds [] k \in ClientIds -> ClientIds [] k \in TaskIds -> {}

\* The UNIQUE constraint counts deleted rows.
Taken(T, k, name) == \E j \in SameTable(k) \ {k} : Exists(T[j]) /\ T[j].name = name

Unused(k) == ~ Exists(cloud[k]) /\ \A d \in Desktops : ~ Exists(tables[d][k])

UserWrites(d, T) ==
    /\ clock - pushes < MaxWrites /\ clock' = clock + 1
    /\ tables' = [tables EXCEPT ![d] = T]
    /\ listed' = [listed EXCEPT ![d] = LiveGroups(T)]
    /\ UNCHANGED <<pushes, cloud, cursors, session>>

\* The main thread is not inside an update_client.
Ready(d) == update[d] = NoUpdate

Row(name, ref) == [name |-> name, ref |-> ref, gone |-> FALSE, ua |-> clock + 1, hlc |-> 0]

AddGroup(d, g, label) ==
    /\ Ready(d) /\ Unused(g) /\ ~ Taken(tables[d], g, <<label>>)
    /\ UserWrites(d, [tables[d] EXCEPT ![g] = Row(<<label>>, NoRef)])
    /\ UNCHANGED <<panel, late>>

RenameGroup(d, g, label) ==
    /\ Ready(d) /\ IsLive(tables[d][g]) /\ ~ Taken(tables[d], g, <<label>>)
    /\ UserWrites(d, [tables[d] EXCEPT ![g].name = <<label>>, ![g].ua = clock + 1])
    /\ UNCHANGED <<panel, late>>

\* The clients of a group leave it, and keep their updated_at.
Leave(T, g) ==
    [k \in Gids |-> IF k \in ClientIds /\ T[k].ref = g THEN [T[k] EXCEPT !.ref = NoRef] ELSE T[k]]

DeleteGroup(d, g) ==
    /\ Ready(d) /\ IsLive(tables[d][g])
    /\ UserWrites(d, [Leave(tables[d], g) EXCEPT ![g].gone = TRUE, ![g].ua = clock + 1])
    /\ UNCHANGED <<panel, late>>

\* What the dialog offers; the group is not looked up again, or is found
\* though it is deleted.
Offers(d) == listed[d] \cup {NoRef}
SavedLate(d, saved, g) ==
    late' = [late EXCEPT ![d] =
        IF g \in LiveGroups(tables[d]) \cup {NoRef} THEN @ \ saved ELSE @ \cup saved]

\* A command of the client panel takes the place of the one before it.
Arms(d, before) == armed' = [armed EXCEPT ![d] = before] /\ UNCHANGED update

\* With its first task. The undo deletes the client.
AddClient(d, c, label, g) ==
    /\ Ready(d) /\ Unused(c) /\ ~ Taken(tables[d], c, <<label>>)
    /\ UserWrites(d, [tables[d] EXCEPT ![c] = Row(<<label>>, g), ![TaskOf(c)] = Row(<<>>, c)])
    /\ SavedLate(d, {c}, g) /\ Arms(d, {})

\* Also the "add" of a client that is there.
EditClient(d, c, label, g) ==
    /\ Ready(d) /\ IsLive(tables[d][c]) /\ ~ Taken(tables[d], c, <<label>>)
    /\ UserWrites(d, [tables[d] EXCEPT ![c].name = <<label>>, ![c].ref = g, ![c].ua = clock + 1])
    /\ SavedLate(d, {c}, g)
    /\ Arms(d, {[client |-> c, name |-> tables[d][c].name, ref |-> tables[d][c].ref]})

\* Its undo leaves the name as it is (an empty one).
AssignGroup(d, chosen, g) ==
    /\ Ready(d) /\ chosen # {} /\ \A c \in chosen : IsLive(tables[d][c])
    /\ UserWrites(d, [k \in Gids |->
            IF k \in chosen THEN [tables[d][k] EXCEPT !.ref = g, !.ua = clock + 1] ELSE tables[d][k]])
    /\ SavedLate(d, chosen, g)
    /\ Arms(d, {[client |-> c, name |-> <<>>, ref |-> tables[d][c].ref] : c \in chosen})

\* update_client reads the row, and then writes it whole. The general tab, the
\* undo of a status and the import keep the group they read.
SaveInfo(d, c) ==
    /\ Ready(d) /\ IsLive(tables[d][c]) /\ clock - pushes < MaxWrites
    /\ update' = [update EXCEPT ![d] =
            [client |-> c, name |-> tables[d][c].name, ref |-> tables[d][c].ref, undo |-> FALSE]]
    /\ UNCHANGED <<clock, pushes, tables, cloud, cursors, session, listed, armed, late>>

\* An undo writes the group of the snapshot, which is not looked up either.
UndoClient(d, old) ==
    /\ Ready(d) /\ IsLive(tables[d][old.client]) /\ clock - pushes < MaxWrites
    /\ update' = [update EXCEPT ![d] =
            [client |-> old.client, ref |-> old.ref, undo |-> TRUE,
             name |-> IF old.name = <<>> THEN tables[d][old.client].name ELSE old.name]]
    /\ UNCHANGED <<clock, pushes, tables, cloud, cursors, session, listed, armed, late>>

\* The write asks for the id alone: a row that a pull has deleted gets the
\* fields too. If the name is another's by now the command fails. An undo is
\* over with the last client of its command; if one is not there it stays.
WriteClient(d) ==
    /\ ~ Ready(d) /\ update' = [update EXCEPT ![d] = NoUpdate]
    /\ LET new == update[d]
           c == new.client
           done == new.undo /\ \A old \in armed[d] : IsLive(tables[d][old.client]) \/ old.client = c
       IN IF Taken(tables[d], c, new.name)
          THEN UNCHANGED <<clock, pushes, tables, cloud, cursors, session, listed, armed, late>>
          ELSE /\ UserWrites(d, [tables[d] EXCEPT ![c].name = new.name, ![c].ref = new.ref, ![c].ua = clock + 1])
               /\ SavedLate(d, {c}, new.ref)
               /\ armed' = [armed EXCEPT ![d] = IF done THEN {old \in @ : old.client # c} ELSE @]

TasksOf(d, c) == {t \in TaskIds : tables[d][t].ref = c}

\* soft_delete_clients_cascade; its undo brings rows back as they are, and is
\* ClientUndo's.
DeleteClient(d, c) ==
    /\ Ready(d) /\ IsLive(tables[d][c])
    /\ UserWrites(d, [k \in Gids |->
            IF k \in {c} \cup TasksOf(d, c) /\ IsLive(tables[d][k])
            THEN [tables[d][k] EXCEPT !.gone = TRUE, !.ua = clock + 1]
            ELSE tables[d][k]])
    /\ Arms(d, {}) /\ UNCHANGED late

LinkTask(d, t, c) ==
    /\ Ready(d) /\ IsLive(tables[d][t]) /\ tables[d][t].ref # c
    /\ c # NoRef => IsLive(tables[d][c])
    /\ UserWrites(d, [tables[d] EXCEPT ![t].ref = c, ![t].ua = clock + 1])
    /\ UNCHANGED <<panel, late>>

RefsUser(d) ==
    \/ \E g \in GroupIds : DeleteGroup(d, g) \/ \E l \in Labels : AddGroup(d, g, l) \/ RenameGroup(d, g, l)
    \/ \E c \in ClientIds, l \in Labels, g \in Offers(d) : AddClient(d, c, l, g) \/ EditClient(d, c, l, g)
    \/ \E chosen \in SUBSET ClientIds, g \in Offers(d) : AssignGroup(d, chosen, g)
    \/ \E c \in ClientIds : DeleteClient(d, c) \/ SaveInfo(d, c)
    \/ \E old \in armed[d] : UndoClient(d, old)
    \/ WriteClient(d)
    \/ \E t \in TaskIds, c \in ClientIds \cup {NoRef} : LinkTask(d, t, c)

----------------------------------------------------------------------------
(* A page of remote changes.                                               *)

\* Mutant of Rank: the changes of a page are not sorted by table.
RankNone(k) == 0

\* SYNC_PUSH_ORDER: deletes from the last table to the first, then upserts
\* from the first to the last.
Level(k) == CASE k \in GroupIds -> 1 [] k \in ClientIds -> 2 [] k \in TaskIds -> 3
Rank(k) == IF cloud[k].gone THEN 4 - Level(k) ELSE 3 + Level(k)

Before(i, j) ==
    \/ Rank(i) < Rank(j)
    \/ Rank(i) = Rank(j) /\ cloud[i].ua < cloud[j].ua
First(page) == CHOOSE i \in page : \A j \in page : ~ Before(j, i)

KnownAs(row) == IF row.hlc # 0 THEN row.hlc ELSE row.ua
Older(T, k) == Exists(T[k]) /\ cloud[k].hlc <= KnownAs(T[k])

\* Mutant of RemoteDelete: the clients stay in the group.
RemoteDeleteKeeps(T, k) ==
    IF Exists(T[k])
    THEN [T EXCEPT ![k].gone = TRUE, ![k].ua = cloud[k].ua, ![k].hlc = cloud[k].hlc]
    ELSE T

\* _apply_remote_delete
RemoteDelete(T, k) ==
    IF Exists(T[k])
    THEN [Leave(T, k) EXCEPT ![k].gone = TRUE, ![k].ua = cloud[k].ua, ![k].hlc = cloud[k].hlc]
    ELSE T

\* _group_id_for_global finds groups that are not deleted, _client_id_for_global
\* any client.
LocalRef(T, k) ==
    LET r == cloud[k].ref
        known == IF k \in ClientIds THEN LiveGroups(T) ELSE {c \in ClientIds : Exists(T[c])}
    IN IF k \notin GroupIds /\ r \in known THEN r ELSE NoRef

\* Mutant of UniqueName: the remote name is kept.
UniqueNameKept(T, name, g) == name

\* _unique_group_name, with the first 6 and the first 12 letters of the id.
UniqueName(T, name, g) ==
    LET shared(n) == \E h \in LiveGroups(T) \ {g} : T[h].name = n
        short == Append(name, <<"short", g>>)
    IN IF ~ shared(name) THEN name
       ELSE IF ~ shared(short) THEN short
       ELSE Append(name, <<"long", g>>)

\* The names an upsert tries: a group that is inserted has a second one.
NamesTried(T, k) ==
    IF k \notin GroupIds THEN <<cloud[k].name>>
    ELSE LET first == UniqueName(T, cloud[k].name, k)
         IN IF Exists(T[k]) THEN <<first>>
            ELSE <<first, UniqueName(T, Append(first, <<"star">>), k)>>

\* _apply_remote_upsert; deleted_at is left alone. It raises when no name
\* satisfies the constraint.
RemoteUpsert(work, k) ==
    LET T == work.table
        names == NamesTried(T, k)
        free == {i \in DOMAIN names : ~ Taken(T, k, names[i])}
        name == names[CHOOSE i \in free : \A j \in free : i <= j]
    IN IF free = {} THEN [work EXCEPT !.failed = k]
       ELSE [work EXCEPT !.table[k] =
                [name |-> name, ref |-> LocalRef(T, k), gone |-> T[k].gone,
                 ua |-> cloud[k].ua, hlc |-> cloud[k].hlc]]

ApplyChange(work, k) ==
    IF work.failed # NoRef \/ Older(work.table, k) THEN work
    ELSE IF cloud[k].gone THEN [work EXCEPT !.table = RemoteDelete(@, k)]
    ELSE RemoteUpsert(work, k)

\* apply_remote_changes: one after the other.
ApplyFirst(work) == LET k == First(work.left) IN [ApplyChange(work, k) EXCEPT !.left = @ \ {k}]
Applying(d, page) ==
    LET step[n \in 0..Cardinality(page)] ==
          IF n = 0 THEN [left |-> page, table |-> tables[d], failed |-> NoRef] ELSE ApplyFirst(step[n - 1])
    IN step
Applied(d, page) == Applying(d, page)[Cardinality(page)]

----------------------------------------------------------------------------
(* The session.                                                            *)

Since(d) == IF session[d].pc = "idle" THEN pulledTo[d] ELSE session[d].since

PullPagesOf(d) ==
    LET newer == {k \in Gids : cloud[k].ua > Since(d)}
    IN {page \in SUBSET newer :
          /\ \/ Cardinality(page) = PullLimit
             \/ Cardinality(page) < PullLimit /\ page = newer
          /\ \A i \in page, j \in newer \ page : cloud[i].ua <= cloud[j].ua}

LastTime(T, rows) == CHOOSE x \in {T[k].ua : k \in rows} : \A k \in rows : T[k].ua <= x

PullPage(d, page) ==
    /\ session[d].pc \in {"idle", "pull"} /\ page \in PullPagesOf(d)
    /\ LET work == Applied(d, page)
       IN /\ work.failed = NoRef
          /\ tables' = [tables EXCEPT ![d] = work.table]
          /\ listed' = [listed EXCEPT ![d] = @ \cup LiveGroups(work.table)]
    /\ session' = [session EXCEPT ![d] =
          IF Cardinality(page) = PullLimit
          THEN [pc |-> "pull", since |-> LastTime(cloud, page), stime |-> 0]
          ELSE [pc |-> "push", since |-> 0, stime |-> clock]]
    /\ UNCHANGED <<clock, pushes, cloud, cursors, panel, late>>

\* The exception ends the session; the cursor has not moved, and the next
\* session meets the same page.
PageFails(d, page) ==
    /\ session[d].pc \in {"idle", "pull"} /\ page \in PullPagesOf(d)
    /\ Applied(d, page).failed # NoRef
    /\ session' = [session EXCEPT ![d] = NoSession]
    /\ UNCHANGED <<clock, pushes, tables, cloud, cursors, listed, panel, late>>

PendingRows(d) == {k \in Gids : tables[d][k].ua > pushedTo[d]}

\* What is sent of a row: a tombstone has no columns, a group that is deleted
\* has no global id in the map.
Payload(T, k) ==
    IF T[k].gone THEN [Unwritten EXCEPT !.gone = TRUE, !.ua = T[k].ua, !.hlc = clock + 1]
    ELSE [T[k] EXCEPT !.hlc = clock + 1,
                      !.ref = IF k \in ClientIds /\ @ \notin LiveGroups(T) THEN NoRef ELSE @]

NothingPending(d) ==
    /\ session[d].pc = "push" /\ PendingRows(d) = {}
    /\ pulledTo' = [pulledTo EXCEPT ![d] = session[d].stime]
    /\ session' = [session EXCEPT ![d] = NoSession]
    /\ UNCHANGED <<clock, pushes, tables, cloud, pushedTo, listed, panel, late>>

\* The Worker was not reached: the session ends, and no cursor moves.
PushFails(d) ==
    /\ session[d].pc = "push" /\ PendingRows(d) # {}
    /\ session' = [session EXCEPT ![d] = NoSession]
    /\ UNCHANGED <<clock, pushes, tables, cloud, cursors, listed, panel, late>>

PushAll(d) ==
    /\ session[d].pc = "push" /\ PendingRows(d) # {}
    /\ pushes < MaxPushes /\ pushes' = pushes + 1 /\ clock' = clock + 1
    /\ cloud' = [k \in Gids |-> IF k \in PendingRows(d) THEN Payload(tables[d], k) ELSE cloud[k]]
    /\ pushedTo' = [pushedTo EXCEPT ![d] = LastTime(tables[d], PendingRows(d))]
    /\ pulledTo' = [pulledTo EXCEPT ![d] = clock + 1]
    /\ session' = [session EXCEPT ![d] = NoSession]
    /\ UNCHANGED <<tables, listed, panel, late>>

RefsSession(d) ==
    \/ \E page \in PullPagesOf(d) : PullPage(d, page) \/ PageFails(d, page)
    \/ NothingPending(d) \/ PushFails(d) \/ PushAll(d)

RefsNext == \E d \in Desktops : RefsUser(d) \/ RefsSession(d)

RefsSpec == RefsInit /\ [][RefsNext]_refVars

----------------------------------------------------------------------------
Texts == Seq(Labels \cup ({"short", "long"} \X GroupIds) \cup {<<"star">>})
RefRow == [name : Texts, ref : Gids \cup {NoRef}, gone : BOOLEAN, ua : Nat, hlc : Nat]
OldFields == [client : ClientIds, name : Texts, ref : GroupIds \cup {NoRef}]
NewFields == [client : ClientIds, name : Texts, ref : GroupIds \cup {NoRef}, undo : BOOLEAN] \cup {NoUpdate}
RefsTypeOK ==
    /\ clock - pushes \in 0..MaxWrites /\ pushes \in 0..MaxPushes
    /\ tables \in [Desktops -> [Gids -> RefRow]] /\ cloud \in [Gids -> RefRow]
    /\ {pulledTo, pushedTo} \subseteq [Desktops -> Nat]
    /\ session \in [Desktops -> [pc : {"idle", "pull", "push"}, since : Nat, stime : Nat]]
    /\ listed \in [Desktops -> SUBSET GroupIds]
    /\ armed \in [Desktops -> SUBSET OldFields] /\ update \in [Desktops -> NewFields]
    /\ late \in [Desktops -> SUBSET ClientIds]

\* A client is in a deleted group only if its group was last written by
\* somebody who had read it before the group was deleted: a dialog or an
\* update_client that a pull came between, or an undo. No delete, local or
\* pulled, and no pulled client leaves such a link itself.
DanglingNeedsStaleWrite ==
    \A d \in Desktops, c \in ClientIds :
        IsLive(tables[d][c]) /\ tables[d][c].ref # NoRef =>
            tables[d][c].ref \in LiveGroups(tables[d]) \/ c \in late[d]

\* What may have become of the link of a row of a page.
LinkKept(d, page, k, ref) ==
    LET r == cloud[k].ref
    IN \/ r = NoRef \/ ref = r
       \/ cloud[r].gone \/ tables[d][r].gone
       \/ cloud[r].ua <= Since(d) /\ ~ Exists(tables[d][r])
       \/ r \notin page /\ cloud[r].ua >= cloud[k].ua
PullsKeepLinks ==
    \A d \in Desktops : UNCHANGED clock /\ tables'[d] # tables[d] =>
        \A page \in PullPagesOf(d) : PullPage(d, page) =>
            \A k \in {j \in page : ~ cloud[j].gone /\ ~ Older(tables[d], j)} :
                LinkKept(d, page, k, tables'[d][k].ref)

\* A pulled row loses its link only if the row it refers to is deleted, lies
\* behind the pull cursor without having been pulled, or was written no
\* earlier than the row itself and is not on its page.
LinkLossNeedsCause == [][PullsKeepLinks]_refVars

\* Two live groups of one label never stop a pull: a page fails on a group
\* only if the label belongs to a group that is deleted on the desktop or by
\* the page, whether it had the label there or has it from the page.
GroupJamNeedsTombstone ==
    \A d \in Desktops : session[d].pc # "push" =>
        \A page \in PullPagesOf(d) :
            LET k == Applied(d, page).failed
            IN k \in GroupIds => \E h \in {g \in GroupIds \ {k} : Exists(tables[d][g])} :
                /\ tables[d][h].gone \/ (h \in page /\ cloud[h].gone)
                /\ \/ Head(tables[d][h].name) = Head(cloud[k].name)
                   \/ h \in page /\ ~ cloud[h].gone /\ Head(cloud[h].name) = Head(cloud[k].name)
====
