---- MODULE ControlList ----
(***************************************************************************)
(* The control list: what the owner revokes, bans and marks used on the    *)
(* Worker, fetched by the threads of one desktop into text files, and a    *)
(* check every five minutes that ends the app when its machine is banned   *)
(* or its license revoked.                                                 *)
(*                                                                         *)
(* The Worker reads the lists one by one, the desktop replaces three files *)
(* and merges used.txt code by code.  The check at the start of the app is *)
(* the first turn of the loop.  A file that is replaced is written in one  *)
(* step; used.txt, which is read to be written, is truncated first, as it  *)
(* is.  A file may fail to be read or written, a bounded number of times.  *)
(* The cap of 5000 entries, the advertised update and the version, which   *)
(* the desktop does not read, are left out, and so are bans and revoked    *)
(* licenses of others, which are in the files and change nothing.          *)
(***************************************************************************)
EXTENDS Integers, Sequences

CONSTANTS Codes,       \* what can be on a list
          Mine,        \* this machine and its license
          Others,      \* threads of activations, Sync Now and the start
          Loop,        \* the thread of the periodic check
          MaxEvents,   \* bound: changes on the Worker and file errors
          MaxErrands   \* bound: what the others are given to do

ASSUME ControlAssumption ==
    /\ Mine \in Codes /\ Loop \notin Others
    /\ MaxEvents \in Nat /\ MaxErrands \in Nat

\* controlHandler reads in this order and _apply_control_list writes in it.
Sections == <<"revoked", "banned", "used", "passcodes">>
Lists == {Sections[i] : i \in 1..4}
Readers == Others \cup {Loop}

VARIABLES published,  \* the tables of the Worker
          local,      \* the files of the desktop
          reader,
          running,
          burned,     \* history: codes written to used.txt
          lost,       \* history: those that may have been lost again
          kind,       \* what is saved as the license: a key or a passcode
          events, errands
listVars == <<published, local, reader, running, burned, lost, kind, events, errands>>

Empty == [s \in Lists |-> {}]
Waiting == [pc |-> "wait", at |-> 1, got |-> Empty, todo |-> {}, seen |-> {}, clean |-> TRUE]

ListInit ==
    /\ published = Empty /\ local = Empty
    /\ reader = [t \in Readers |-> Waiting]
    /\ running = TRUE
    /\ burned = {} /\ lost = {}
    /\ kind \in {"key", "passcode"}
    /\ events = 0 /\ errands = 0

----------------------------------------------------------------------------
(* The owner, claims and the purge.                                        *)

Event == events < MaxEvents /\ events' = events + 1

\* The codes of a list that matter here.
Concern(s) == IF s = "used" THEN Codes ELSE {Mine}

Publish(s, c) ==
    /\ Event
    /\ c \in Concern(s) \ published[s]
    /\ published' = [published EXCEPT ![s] = @ \cup {c}]
    /\ UNCHANGED <<local, reader, running, burned, lost, errands, kind>>

\* Un-revoke, un-ban, and the purge of used codes.
Withdraw(s, c) ==
    /\ Event
    /\ s # "passcodes" /\ c \in published[s]
    /\ published' = [published EXCEPT ![s] = @ \ {c}]
    /\ UNCHANGED <<local, reader, running, burned, lost, errands, kind>>

----------------------------------------------------------------------------
(* A fetch.                                                                *)

To(t, pc) == reader' = [reader EXCEPT ![t].pc = pc]

Errand(t) ==
    IF t = Loop THEN UNCHANGED errands
    ELSE errands < MaxErrands /\ errands' = errands + 1

StartFetch(t) ==
    /\ running /\ reader[t].pc = "wait"
    /\ Errand(t)
    /\ reader' = [reader EXCEPT ![t] = [Waiting EXCEPT !.pc = "read"]]
    /\ UNCHANGED <<published, local, running, burned, lost, events, kind>>

\* An activation: its claim has burned the code on the Worker, now it is
\* marked here.
StartMark(t, c) ==
    /\ running /\ t # Loop /\ reader[t].pc = "wait"
    /\ Errand(t) /\ Event
    /\ published' = [published EXCEPT !["used"] = @ \cup {c}]
    /\ reader' = [reader EXCEPT ![t] = [Waiting EXCEPT !.pc = "merge", !.at = 5, !.todo = {c}]]
    /\ UNCHANGED <<local, running, burned, lost, kind>>

\* One await of controlHandler.
ReadList(t) ==
    /\ reader[t].pc = "read"
    /\ LET i == reader[t].at
           s == Sections[i]
       IN reader' = [reader EXCEPT ![t].got[s] = published[s],
                        ![t].at = IF i = 4 THEN 1 ELSE i + 1,
                        ![t].pc = IF i = 4 THEN "arrive" ELSE "read"]
    /\ UNCHANGED <<published, local, running, burned, lost, events, errands, kind>>

Arrive(t) ==
    /\ reader[t].pc = "arrive" /\ To(t, "apply")
    /\ UNCHANGED <<published, local, running, burned, lost, events, errands, kind>>

\* What the thread does when its fetch is over.
Over(t) == [Waiting EXCEPT !.pc = IF t = Loop THEN "check" ELSE "wait"]

\* No answer, or one that is refused: the files stay, the check goes on.
FetchFails(t) ==
    /\ reader[t].pc = "arrive"
    /\ reader' = [reader EXCEPT ![t] = Over(t)]
    /\ UNCHANGED <<published, local, running, burned, lost, events, errands, kind>>

\* What follows the section at i.
After(t, i) ==
    IF i < 4 THEN [reader[t] EXCEPT !.pc = "apply", !.at = i + 1] ELSE Over(t)

\* Mutant of ReplaceList: bans are only added.
ReplaceMerge(t) ==
    /\ reader[t].pc = "apply" /\ Sections[reader[t].at] # "used"
    /\ LET s == Sections[reader[t].at] IN local' = [local EXCEPT ![s] = @ \cup reader[t].got[s]]
    /\ reader' = [reader EXCEPT ![t] = After(t, reader[t].at)]
    /\ UNCHANGED <<published, running, burned, lost, events, errands, kind>>

\* _replace_control_file
ReplaceList(t) ==
    /\ reader[t].pc = "apply" /\ Sections[reader[t].at] # "used"
    /\ LET s == Sections[reader[t].at] IN local' = [local EXCEPT ![s] = reader[t].got[s]]
    /\ reader' = [reader EXCEPT ![t] = After(t, reader[t].at)]
    /\ UNCHANGED <<published, running, burned, lost, events, errands, kind>>

\* The file is not read or not written, at worst it is left empty, and the
\* exception ends the fetch; that of passcodes, and a file that cannot be
\* deleted, are passed over.
ReplaceFails(t) ==
    /\ reader[t].pc = "apply" /\ Sections[reader[t].at] # "used"
    /\ Event
    /\ LET s == Sections[reader[t].at]
           got == reader[t].got[s]
           written == got # {} /\ (s = "passcodes" \/ local[s] # got)
       IN /\ \/ UNCHANGED local
             \/ written /\ local' = [local EXCEPT ![s] = {}]
          /\ \/ s # "passcodes" /\ reader' = [reader EXCEPT ![t] = Over(t)]
             \/ /\ s = "passcodes" \/ got = {}
                /\ reader' = [reader EXCEPT ![t] = After(t, reader[t].at)]
    /\ UNCHANGED <<published, running, burned, lost, errands, kind>>

----------------------------------------------------------------------------
(* mark_used: read, truncate, write, for each code.                        *)

\* Mutant of StartMerge: the burned codes are replaced like the other lists.
StartReplace(t) ==
    /\ reader[t].pc = "apply" /\ Sections[reader[t].at] = "used"
    /\ local' = [local EXCEPT !["used"] = reader[t].got["used"]]
    /\ reader' = [reader EXCEPT ![t] = After(t, reader[t].at)]
    /\ UNCHANGED <<published, running, burned, lost, events, errands, kind>>

StartMerge(t) ==
    /\ reader[t].pc = "apply" /\ Sections[reader[t].at] = "used"
    /\ reader' = [reader EXCEPT ![t].pc = "merge", ![t].todo = reader[t].got["used"],
                                     ![t].got["used"] = {}]
    /\ UNCHANGED <<published, local, running, burned, lost, events, errands, kind>>

Marking(t) == reader[t].pc \in {"truncate", "fill"}

ReadUsed(t) ==
    /\ reader[t].pc = "merge" /\ reader[t].todo # {}
    /\ reader' = [u \in Readers |->
            IF u = t THEN [reader[t] EXCEPT !.pc = "truncate", !.seen = local["used"],
                                            !.clean = \A v \in Readers : ~ Marking(v)]
            ELSE IF Marking(u) THEN [reader[u] EXCEPT !.clean = FALSE] ELSE reader[u]]
    /\ UNCHANGED <<published, local, running, burned, lost, events, errands, kind>>

\* used_nonces answers with the empty set, and goes on to overwrite the file.
ReadFails(t) ==
    /\ reader[t].pc = "merge" /\ reader[t].todo # {}
    /\ Event
    /\ reader' = [u \in Readers |->
            IF u = t THEN [reader[t] EXCEPT !.pc = "truncate", !.seen = {}, !.clean = FALSE]
            ELSE IF Marking(u) THEN [reader[u] EXCEPT !.clean = FALSE] ELSE reader[u]]
    /\ UNCHANGED <<published, local, running, burned, lost, errands, kind>>

TruncateUsed(t) ==
    /\ reader[t].pc = "truncate" /\ To(t, "fill")
    /\ local' = [local EXCEPT !["used"] = {}]
    /\ UNCHANGED <<published, running, burned, lost, events, errands, kind>>

WriteUsed(t) ==
    /\ reader[t].pc = "fill"
    /\ \E c \in reader[t].todo :
        /\ local' = [local EXCEPT !["used"] = reader[t].seen \cup {c}]
        /\ burned' = burned \cup {c}
        /\ lost' = IF reader[t].clean THEN lost \ {c} ELSE burned'
        /\ reader' = [reader EXCEPT ![t].pc = "merge", ![t].todo = @ \ {c}, ![t].seen = {}]
    /\ UNCHANGED <<published, running, events, errands, kind>>

\* mark_used passes over a file that cannot be opened, and over one that is
\* truncated and not, or not all, written; the next code is marked.
WriteFails(t) ==
    /\ Marking(t) /\ Event
    /\ \E c \in reader[t].todo :
        /\ IF reader[t].pc = "truncate" THEN UNCHANGED <<local, lost>>
           ELSE /\ \E kept \in SUBSET (reader[t].seen \cup {c}) :
                        local' = [local EXCEPT !["used"] = kept]
                /\ lost' = burned
        /\ reader' = [reader EXCEPT ![t].pc = "merge", ![t].todo = @ \ {c}, ![t].seen = {}]
    /\ UNCHANGED <<published, running, burned, errands, kind>>

MergeDone(t) ==
    /\ reader[t].pc = "merge" /\ reader[t].todo = {}
    /\ reader' = [reader EXCEPT ![t] = After(t, reader[t].at)]
    /\ UNCHANGED <<published, local, running, burned, lost, events, errands, kind>>

----------------------------------------------------------------------------
(* The check of the loop, and the life of the app.                         *)

\* verify_key_text: a key is looked up by its nonce, a passcode by its text;
\* the nonce of a passcode is not.
Blocking == {"banned", IF kind = "key" THEN "revoked" ELSE "passcodes"}
Blocks(lists) == \E s \in Blocking : Mine \in lists[s]

\* The app ends: all its threads do.
Cut == lost' = IF \E t \in Readers : reader[t].pc = "fill" THEN burned ELSE lost
Dies == running' = FALSE /\ reader' = [t \in Readers |-> Waiting] /\ Cut

\* Mutant of Check: bans end the app, revocations do not.
CheckBans ==
    /\ reader[Loop].pc = "check"
    /\ IF Mine \in local["banned"] THEN Dies
       ELSE reader' = [reader EXCEPT ![Loop] = Waiting] /\ UNCHANGED <<running, lost>>
    /\ UNCHANGED <<published, local, burned, events, errands, kind>>

Check ==
    /\ reader[Loop].pc = "check"
    /\ IF Blocks(local) THEN Dies
       ELSE reader' = [reader EXCEPT ![Loop] = Waiting] /\ UNCHANGED <<running, lost>>
    /\ UNCHANGED <<published, local, burned, events, errands, kind>>

\* A list that cannot be read is an empty one.
CheckMisses ==
    /\ reader[Loop].pc = "check"
    /\ Event
    /\ reader' = [reader EXCEPT ![Loop] = Waiting]
    /\ UNCHANGED <<published, local, running, burned, lost, errands, kind>>

Quit ==
    /\ running /\ errands < MaxErrands /\ errands' = errands + 1 /\ Dies
    /\ UNCHANGED <<published, local, burned, events, kind>>

StartApp ==
    /\ ~ running /\ running' = TRUE
    /\ UNCHANGED <<published, local, reader, burned, lost, events, errands, kind>>

FetchStep(t) ==
    \/ StartFetch(t) \/ ReadList(t)
    \/ ReplaceList(t) \/ StartMerge(t)
    \/ ReadUsed(t) \/ TruncateUsed(t) \/ WriteUsed(t) \/ MergeDone(t)

ListNext ==
    \/ \E s \in Lists, c \in Codes : Publish(s, c) \/ Withdraw(s, c)
    \/ \E t \in Readers : FetchStep(t) \/ Arrive(t) \/ FetchFails(t)
    \/ \E t \in Readers : ReplaceFails(t) \/ ReadFails(t) \/ WriteFails(t)
    \/ \E t \in Others, c \in Codes : StartMark(t, c)
    \/ Check \/ CheckMisses \/ Quit \/ StartApp

ListSpec == ListInit /\ [][ListNext]_listVars

\* The loop goes round, and now and then the Worker can be reached.
ListFair == WF_listVars(FetchStep(Loop)) /\ SF_listVars(Arrive(Loop)) /\ WF_listVars(Check)

ListFairSpec == ListSpec /\ ListFair

----------------------------------------------------------------------------
ListTypeOK ==
    /\ published \in [Lists -> SUBSET Codes] /\ local \in [Lists -> SUBSET Codes]
    /\ reader \in [Readers ->
            [pc : {"wait", "read", "arrive", "apply", "merge", "truncate", "fill", "check"}, at : 1..5,
             got : [Lists -> SUBSET Codes], todo : SUBSET Codes, seen : SUBSET Codes, clean : BOOLEAN]]
    /\ \A t \in Readers : reader[t].pc = "apply" => reader[t].at \in DOMAIN Sections
    /\ running \in BOOLEAN /\ burned \subseteq Codes /\ lost \subseteq Codes
    /\ kind \in {"key", "passcode"}
    /\ events \in Nat /\ errands \in Nat

Quiet == \A t \in Readers : ~ Marking(t)

\* A burned code stays in used.txt, whatever lists are merged into it, unless
\* two threads rewrote the file at the same time, one rewrote it without
\* having been able to read it, or it was truncated and then not written.
BurnedStays == Quiet => burned \ lost \subseteq local["used"]

\* The owner's block of what this machine has, its key or its passcode, ends
\* the app, or is taken back: no failed fetch, no older list of another
\* thread, no list read in pieces and no file error now and then keeps it
\* running.
BlockEnforced == (running /\ Blocks(published)) ~> (~ running \/ ~ Blocks(published))

\* When the owner has stopped and the app keeps running, its lists come to be
\* those of the Worker, whichever thread wrote them last, and codes that two
\* threads or a file error lost are back in used.txt.
ListsSettle ==
    <>[]running => <>[](/\ \A s \in Lists \ {"used"} : local[s] = published[s]
                        /\ Quiet => published["used"] \subseteq local["used"])
====
