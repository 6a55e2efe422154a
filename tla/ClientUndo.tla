---- MODULE ClientUndo ----
(***************************************************************************)
(* The client commands of a desktop and their undo.  One command at most   *)
(* can be undone.  The main thread takes a snapshot, writes, and later     *)
(* writes back; the sync thread may apply a pulled change between any two  *)
(* of its transactions.                                                    *)
(*                                                                         *)
(* One text field stands for all that the database lets be NULL, one other *)
(* field for status and group, which the two batch commands change alike,  *)
(* and one row of another table for all that are deleted with their        *)
(* client.  Time is in seconds, because the stamp of a deletion is.        *)
(***************************************************************************)
EXTENDS Naturals

CONSTANTS Clients,   \* ids of rows
          Names, Contacts, Marks,
          NoRecord,
          MaxNow, MaxCommands, MaxOthers \* bounds: seconds, commands, changes by others

ASSUME UndoAssumption ==
    /\ {MaxNow, MaxCommands, MaxOthers} \subseteq Nat /\ MaxNow > 0
    /\ "null" \notin Contacts /\ "none" \notin Marks

VARIABLES now,
          client,   \* table clients
          child,    \* deleted_at of the row that belongs to the client, 0 if NULL
          doing,    \* the command or the undo the main thread is in
          pending,  \* UndoManager._pending
          commands, others
undoVars == <<now, client, child, doing, pending, commands, others>>

Record == [name : Names \cup (Names \X {"(replaced)"}), contact : Contacts \cup {"null"},
           group : Marks \cup {"none"}, del : 0..MaxNow]

ASSUME NoRecordAssumption == NoRecord \notin Record

\* was and kids are the snapshot; moved is history, the clients that others
\* have changed since.
NoCommand == [kind |-> "none", ids |-> {}, name |-> "none", existing |-> {},
              was |-> [c \in Clients |-> NoRecord], kids |-> [c \in Clients |-> 0],
              stamp |-> 0, moved |-> {}]
AtRest == [stage |-> "idle", cmd |-> NoCommand, left |-> {}, force |-> FALSE]

UndoInit ==
    /\ now = 1
    /\ client \in [Clients -> {NoRecord} \cup
            {r \in Record : r.name \in Names /\ r.group = "none" /\ r.del \in {0, 1}}]
    /\ \A c, d \in Clients : c # d /\ client[c] # NoRecord /\ client[d] # NoRecord =>
            client[c].name # client[d].name
    /\ child = [c \in Clients |-> 0]
    /\ doing = AtRest /\ pending = NoCommand
    /\ commands = 0 /\ others = 0

Live(c) == client[c] # NoRecord /\ client[c].del = 0

\* clients.name is UNIQUE, deleted rows included.
Holders(n) == {c \in Clients : client[c] # NoRecord /\ client[c].name = n}
Free(n, c) == Holders(n) \subseteq {c}

SecondPasses ==
    /\ now < MaxNow /\ now' = now + 1
    /\ UNCHANGED <<client, child, doing, pending, commands, others>>

----------------------------------------------------------------------------
(* UndoManager.execute: the snapshot, then the writes of the command.      *)

Open(kind, ids, name, existing) ==
    /\ doing.stage = "idle" /\ commands < MaxCommands /\ commands' = commands + 1
    /\ doing' = [AtRest EXCEPT
            !.stage = IF kind = "add" THEN "create" ELSE "write",
            !.cmd = [kind |-> kind, ids |-> ids, name |-> name, existing |-> existing,
                     was |-> client, kids |-> child, stamp |-> now, moved |-> {}]]
    /\ UNCHANGED <<now, client, child, pending, others>>

OpenAdd == \E n \in Names : Open("add", {}, n, {c \in Holders(n) : Live(c)})

\* The list may be older than the rows: some may be deleted by now.
OpenChosen ==
    \E ids \in SUBSET {c \in Clients : client[c] # NoRecord} \ {{}} :
        \/ \E c \in ids : ids = {c} /\ Open("edit", ids, "none", ids)
        \/ \E kind \in {"assign", "delete", "archive"} : Open(kind, ids, "none", {})

\* A command that raises is not armed; the one before it stays. An undo that
\* raises keeps its command.
Raised == doing' = AtRest /\ UNCHANGED pending

\* get_or_create_client
CreateClient ==
    /\ doing.stage = "create"
    /\ LET n == doing.cmd.name
           goes(c) == doing' = [doing EXCEPT !.stage = "write", !.cmd.ids = {c}]
       IN \/ \E c \in Holders(n) : Live(c) /\ goes(c) /\ UNCHANGED <<client, child, pending>>
          \/ \E c \in Holders(n) : ~ Live(c) /\ Raised /\ UNCHANGED <<client, child>>
          \/ \E c \in Clients :
                /\ Holders(n) = {} /\ client[c] = NoRecord /\ goes(c)
                /\ client' = [client EXCEPT ![c] =
                        [name |-> n, contact |-> "null", group |-> "none", del |-> 0]]
                /\ UNCHANGED <<child, pending>>
    /\ UNCHANGED <<now, commands, others>>

\* update_client, as the dialog calls it: no text is NULL.
WriteFields ==
    /\ doing.stage = "write" /\ doing.cmd.kind \in {"add", "edit"}
    /\ \E c \in doing.cmd.ids, n \in Names, t \in Contacts, g \in Marks \cup {"none"} :
          LET name == IF doing.cmd.kind = "add" THEN client[c].name ELSE n
          IN IF Live(c) /\ Free(name, c)
             THEN /\ client' = [client EXCEPT ![c] =
                            [name |-> name, contact |-> t, group |-> g, del |-> 0]]
                  /\ pending' = doing.cmd /\ doing' = AtRest
             ELSE Raised /\ UNCHANGED client
    /\ UNCHANGED <<now, child, commands, others>>

\* The live ones of the rows get a deleted_at.
Stamped(ids, stamp) ==
    client' = [c \in Clients |->
        IF c \in ids /\ Live(c) THEN [client[c] EXCEPT !.del = stamp] ELSE client[c]]

\* soft_delete_clients_cascade
Deleted(ids, stamp) ==
    /\ Stamped(ids, stamp)
    /\ child' = [c \in Clients |-> IF c \in ids /\ child[c] = 0 THEN stamp ELSE child[c]]

\* The batch commands are one statement or one transaction each.
WriteChosen ==
    /\ doing.stage = "write"
    /\ LET ids == doing.cmd.ids
       IN \/ /\ doing.cmd.kind = "assign" /\ UNCHANGED child
             /\ \E g \in Marks \cup {"none"} : client' = [c \in Clients |->
                    IF c \in ids /\ Live(c) THEN [client[c] EXCEPT !.group = g] ELSE client[c]]
          \/ doing.cmd.kind = "delete" /\ Deleted(ids, doing.cmd.stamp)
          \/ doing.cmd.kind = "archive" /\ Stamped(ids, now) /\ UNCHANGED child
    /\ pending' = doing.cmd /\ doing' = AtRest
    /\ UNCHANGED <<now, commands, others>>

----------------------------------------------------------------------------
(* UndoManager.undo.                                                       *)

\* The name of a deleted client is another's by now.
Conflict ==
    \E c \in pending.ids : pending.was[c] # NoRecord
        /\ \E d \in Holders(pending.was[c].name) : d # c /\ Live(d)

\* Where names are taken the user is asked, and allows or forgets it.
StartUndo ==
    /\ doing.stage = "idle" /\ pending.kind # "none"
    /\ doing' = [AtRest EXCEPT
            !.stage = "undo", !.force = pending.kind = "delete" /\ Conflict,
            !.left = {c \in pending.ids : pending.was[c] # NoRecord /\ pending.was[c].del = 0}]
    /\ UNCHANGED <<now, client, child, pending, commands, others>>

Undoing(kinds) == doing.stage = "undo" /\ pending.kind \in kinds
Undone == doing' = AtRest /\ pending' = NoCommand

\* update_client with the row of the snapshot: None keeps what is there,
\* except of the group.
UndoFields ==
    /\ Undoing({"edit", "add"})
    /\ \E c \in pending.ids, e \in pending.existing :
          LET old == pending.was[e]
          IN IF Live(c) /\ Free(old.name, c)
             THEN /\ client' = [client EXCEPT ![c] = [old EXCEPT
                            !.contact = IF @ = "null" THEN client[c].contact ELSE @]]
                  /\ Undone
             ELSE Raised /\ UNCHANGED client
    /\ UNCHANGED <<now, child, commands, others>>

\* delete_client, of one that the command created
UndoAdd ==
    /\ Undoing({"add"}) /\ pending.existing = {}
    /\ Deleted(pending.ids, now) /\ Undone
    /\ UNCHANGED <<now, commands, others>>

\* One update_client after the other; the first that finds no client ends it.
UndoOne ==
    /\ Undoing({"assign"})
    /\ \E c \in doing.left :
          IF Live(c)
          THEN /\ client' = [client EXCEPT ![c].group = pending.was[c].group]
               /\ doing' = [doing EXCEPT !.left = @ \ {c}] /\ UNCHANGED pending
          ELSE Raised /\ UNCHANGED client
    /\ UNCHANGED <<now, child, commands, others>>

UndoneAll ==
    /\ Undoing({"assign"}) /\ doing.left = {} /\ Undone
    /\ UNCHANGED <<now, client, child, commands, others>>

\* batch_restore_clients
UndoArchive ==
    /\ Undoing({"archive"}) /\ Undone
    /\ client' = [c \in Clients |->
            IF c \in pending.ids /\ client[c] # NoRecord THEN [client[c] EXCEPT !.del = 0] ELSE client[c]]
    /\ UNCHANGED <<now, child, commands, others>>

\* The first transaction of a delete's undo. Who holds a name of a deleted
\* client is renamed if the user allowed it, and the clients get their names.
UndoNames ==
    /\ Undoing({"delete"})
    /\ LET named == {c \in pending.ids : pending.was[c] # NoRecord}
           squats(d) == doing.force /\ Live(d)
                        /\ \E c \in named \ {d} : client[d].name = pending.was[c].name
           renamed == [c \in Clients |->
                IF c \in named THEN [client[c] EXCEPT !.name = pending.was[c].name]
                ELSE IF squats(c) THEN [client[c] EXCEPT !.name = <<@, "(replaced)">>]
                ELSE client[c]]
           unique == \A c, d \in Clients :
                c # d /\ renamed[c] # NoRecord /\ renamed[d] # NoRecord =>
                    renamed[c].name # renamed[d].name
       IN IF unique /\ (Conflict => doing.force)
          THEN /\ client' = renamed
               /\ doing' = [doing EXCEPT !.stage = "restore"] /\ UNCHANGED pending
          ELSE Raised /\ UNCHANGED client
    /\ UNCHANGED <<now, child, commands, others>>

\* Mutant of UndoRestore: whatever is deleted comes back.
UndoRestoreAll ==
    /\ doing.stage = "restore" /\ Undone
    /\ client' = [c \in Clients |->
            IF c \in pending.ids /\ client[c] # NoRecord THEN [client[c] EXCEPT !.del = 0] ELSE client[c]]
    /\ child' = [c \in Clients |-> IF c \in pending.ids THEN 0 ELSE child[c]]
    /\ UNCHANGED <<now, commands, others>>

\* The second: restore_clients_cascade, of what bears the stamp.
UndoRestore ==
    /\ doing.stage = "restore" /\ Undone
    /\ client' = [c \in Clients |->
            IF c \in pending.ids /\ client[c] # NoRecord /\ client[c].del = pending.stamp
            THEN [client[c] EXCEPT !.del = 0] ELSE client[c]]
    /\ child' = [c \in Clients |->
            IF c \in pending.ids /\ child[c] = pending.stamp THEN 0 ELSE child[c]]
    /\ UNCHANGED <<now, commands, others>>

----------------------------------------------------------------------------
(* What others do to the rows.                                             *)

Noted(cmd, c) == IF cmd.kind = "none" THEN cmd ELSE [cmd EXCEPT !.moved = @ \cup {c}]

ByOthers(c) ==
    /\ others < MaxOthers /\ others' = others + 1
    /\ doing' = [doing EXCEPT !.cmd = Noted(@, c)] /\ pending' = Noted(pending, c)
    /\ UNCHANGED <<now, commands>>

\* A pulled row; the time of a deletion is not among its columns.
PullClient(c) ==
    /\ \E r \in Record :
          /\ r.name \in Names /\ Free(r.name, c)
          /\ r.del = IF client[c] = NoRecord THEN 0 ELSE client[c].del
          /\ client' = [client EXCEPT ![c] = r]
    /\ client' # client /\ ByOthers(c) /\ UNCHANGED child

\* A pulled deletion brings the time of the desktop that deleted it.
PullDelete(c) ==
    /\ client[c] # NoRecord
    /\ \E stamp \in 1..MaxNow :
          \/ client' = [client EXCEPT ![c].del = stamp] /\ UNCHANGED child
          \/ child' = [child EXCEPT ![c] = stamp] /\ UNCHANGED client
    /\ ByOthers(c)

\* The user deletes a task of the client in another panel.
DeleteChild(c) ==
    /\ doing.stage = "idle" /\ client[c] # NoRecord /\ child[c] = 0
    /\ child' = [child EXCEPT ![c] = now] /\ ByOthers(c) /\ UNCHANGED client

UndoNext ==
    \/ SecondPasses
    \/ OpenAdd \/ OpenChosen \/ CreateClient \/ WriteFields \/ WriteChosen
    \/ StartUndo \/ UndoFields \/ UndoAdd \/ UndoOne \/ UndoneAll \/ UndoArchive
    \/ UndoNames \/ UndoRestore
    \/ \E c \in Clients : PullClient(c) \/ PullDelete(c) \/ DeleteChild(c)

UndoSpec == UndoInit /\ [][UndoNext]_undoVars

----------------------------------------------------------------------------
UndoTypeOK ==
    /\ now \in 1..MaxNow /\ commands \in 0..MaxCommands /\ others \in 0..MaxOthers
    /\ \A c \in Clients : client[c] = NoRecord \/ client[c] \in Record
    /\ child \in [Clients -> 0..MaxNow]
    /\ doing.stage \in {"idle", "create", "write", "undo", "restore"}
    /\ doing.left \subseteq Clients /\ doing.force \in BOOLEAN
    /\ \A cmd \in {doing.cmd, pending} :
          /\ cmd.kind \in {"none", "add", "edit", "assign", "delete", "archive"}
          /\ cmd.ids \cup cmd.existing \cup cmd.moved \subseteq Clients

\* What keeps an undo from bringing a client back to the snapshot although
\* nobody else changed it since: a text that was NULL stays; a new client
\* stays as a deleted one, or as a copy of the one that had its name when the
\* command looked; an archive that it was in before is undone too; and so is
\* a deletion of the same second.
Inexact(c) ==
    /\ c \in pending.ids
    /\ LET old == pending.was[c]
       IN \/ /\ pending.kind \in {"add", "edit"} /\ old # NoRecord /\ old.contact = "null"
             /\ client'[c] = [old EXCEPT !.contact = client[c].contact] /\ child'[c] = pending.kids[c]
          \/ /\ pending.kind = "add" /\ old = NoRecord
             /\ client'[c].del # 0 \/ pending.existing # {}
          \/ /\ pending.kind = "archive" /\ old.del # 0
             /\ client'[c] = [old EXCEPT !.del = 0] /\ child'[c] = pending.kids[c]
          \/ /\ pending.kind = "delete" /\ pending.stamp \in {old.del, pending.kids[c]}
             /\ client'[c] \in {old, [old EXCEPT !.del = 0]}

\* An undo leaves every client that nobody else has changed since the
\* snapshot as the snapshot has it, but for these cases; and it only fails
\* if somebody has changed one.
UndoIsExact == [][
    /\ pending.kind # "none" /\ pending' = NoCommand =>
          \A c \in Clients \ pending.moved :
             (client'[c] = pending.was[c] /\ child'[c] = pending.kids[c]) \/ Inexact(c)
    /\ doing.stage \in {"undo", "restore"} /\ doing'.stage = "idle" /\ pending' # NoCommand =>
          pending.moved # {}
    ]_undoVars
====
