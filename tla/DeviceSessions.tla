---- MODULE DeviceSessions ----
(***************************************************************************)
(* Two sync sessions of one desktop: the scheduler's job and Sync Now,     *)
(* which does not look at the scheduler's busy flag.  They share the       *)
(* setting sync_hlc_last, which hlc_now and note_remote_hlc read in one    *)
(* transaction and write in another, and the push cursor.                  *)
(*                                                                         *)
(* The module follows one row.  Its states are numbered by its edits,      *)
(* which lie a second apart, and a cursor is the number of edits up to its *)
(* time.  Pulls bring rows of other devices; a page of a push has room for *)
(* all that is pending; the Worker takes requests one at a time.  Pages,   *)
(* what a pull does to the row itself and handlers that overlap are the    *)
(* subject of DataSync.                                                    *)
(***************************************************************************)
EXTENDS HybridClock, Integers

CONSTANTS Node,      \* node_id()
          Walls,     \* what time.time() may return
          Remote,    \* clocks of other devices
          MaxEdits,  \* bound: edits of the row
          MaxBegun,  \* bound: sessions
          MaxCounter \* bound: the clock is not read past it

ASSUME DeviceAssumption ==
    /\ Node \in Nat /\ Walls \subseteq Nat /\ Remote \subseteq Hlc
    /\ {MaxEdits, MaxBegun, MaxCounter} \subseteq Nat

VARIABLES edited,     \* the row, by the number of its edits
          lastHlc,    \* setting sync_hlc_last
          pushCursor, \* setting SETTING_SYNC_LAST_PUSH
          stamped,    \* every clock the row was given, and its state then
          sent,       \* those that went out, and may arrive late or again
          cloudRow,   \* the row on the Worker
          twin,       \* the two sessions
          begun,      \* sessions begun
          overtaken   \* history: one of the cases that PassedIsStored excepts
deviceVars == <<edited, lastHlc, pushCursor, stamped, sent, cloudRow, twin, begun, overtaken>>

Callers == {"scheduler", "button"}
Modes(c) == IF c = "button" THEN {"full"} ELSE {"pull", "push"}

\* took: the state of the row that was read; upTo: the edits before the last row
\* of the page; mine: whether the row is on the page, and has its clock hlc; read
\* and next: what hlc_now or note_remote_hlc has read and is about to store.
NoTwin == [pc |-> "idle", mode |-> "full", since |-> 0, took |-> 0, upTo |-> 0, mine |-> "no",
           hlc |-> NoHlc, read |-> NoHlc, next |-> NoHlc]

Unsent == [hlc |-> NoHlc, at |-> 0]

DeviceInit ==
    /\ edited = 0 /\ lastHlc = NoHlc /\ pushCursor = 0
    /\ stamped = {} /\ sent = {} /\ cloudRow = Unsent
    /\ twin = [c \in Callers |-> NoTwin]
    /\ begun = 0 /\ overtaken = FALSE

\* The user saves the row.
EditRow ==
    /\ edited < MaxEdits
    /\ edited' = edited + 1
    /\ UNCHANGED <<lastHlc, pushCursor, stamped, sent, cloudRow, twin, begun, overtaken>>

Goto(c, pc) == twin' = [twin EXCEPT ![c] = [@ EXCEPT !.pc = pc, !.read = NoHlc, !.next = NoHlc]]
EndTwin(c) == twin' = [twin EXCEPT ![c] = NoTwin]

BeginSync(c) ==
    /\ twin[c].pc = "idle"
    /\ begun < MaxBegun /\ begun' = begun + 1
    /\ \E mode \in Modes(c) :
          twin' = [twin EXCEPT ![c] =
              [NoTwin EXCEPT !.mode = mode, !.pc = IF mode = "push" THEN "push" ELSE "pull"]]
    /\ UNCHANGED <<edited, lastHlc, pushCursor, stamped, sent, cloudRow, overtaken>>

\* db.get_setting(sync_hlc_last): NoHlc if it fails.
Reads == {lastHlc, NoHlc}

\* db.set_setting(sync_hlc_last), whatever has been stored since the read.
Store(c) ==
    /\ lastHlc' = twin[c].next
    /\ overtaken' = (overtaken \/ twin[c].read # lastHlc)

\* note_remote_hlc reads the clock before the page has written anything ...
Hear(c) ==
    /\ twin[c].pc = "pull"
    /\ \E h \in Remote, r \in Reads :
          twin' = [twin EXCEPT ![c].pc = "note", ![c].read = r, ![c].next = h]
    /\ UNCHANGED <<edited, lastHlc, pushCursor, stamped, sent, cloudRow, begun, overtaken>>

\* ... and raises it by what it has read.
NoteHeard(c) ==
    /\ twin[c].pc = "note"
    /\ \/ HlcLess(twin[c].read, twin[c].next) /\ Store(c)
       \/ UNCHANGED <<lastHlc, overtaken>>   \* not higher, or the write fails
    /\ Goto(c, "pull")
    /\ UNCHANGED <<edited, pushCursor, stamped, sent, cloudRow, begun>>

\* The last page: a pull ends, a full session goes on to push.
PullDone(c) ==
    /\ twin[c].pc = "pull"
    /\ IF twin[c].mode = "pull" THEN EndTwin(c) ELSE Goto(c, "push")
    /\ UNCHANGED <<edited, lastHlc, pushCursor, stamped, sent, cloudRow, begun, overtaken>>

ReadCursor(c) ==
    /\ twin[c].pc = "push"
    /\ twin' = [twin EXCEPT ![c].pc = "collect", ![c].since = pushCursor]
    /\ UNCHANGED <<edited, lastHlc, pushCursor, stamped, sent, cloudRow, begun, overtaken>>

\* The table of the row is read ...
CollectRow(c) ==
    /\ twin[c].pc = "collect"
    /\ twin' = [twin EXCEPT ![c].pc = "rest", ![c].took = edited,
                            ![c].mine = IF edited > twin[c].since THEN "yes" ELSE "no"]
    /\ UNCHANGED <<edited, lastHlc, pushCursor, stamped, sent, cloudRow, begun, overtaken>>

\* ... and the tables after it, each by a statement of its own. The last row of
\* the page may have been saved after edits of the row that came since. Other
\* rows may be pending alone, or nothing.
CollectRest(c) ==
    /\ twin[c].pc = "rest"
    /\ \/ \E n \in twin[c].took .. edited :
             /\ twin' = [twin EXCEPT ![c].pc = "clock", ![c].upTo = n]
             /\ overtaken' = (overtaken \/ n # twin[c].took)
       \/ twin[c].mine = "no" /\ EndTwin(c) /\ UNCHANGED overtaken
    /\ UNCHANGED <<edited, lastHlc, pushCursor, stamped, sent, cloudRow, begun>>

\* hlc_now of the next row of the page: the time, then the last clock ...
ReadClock(c) ==
    /\ twin[c].pc = "clock"
    /\ lastHlc.counter < MaxCounter
    /\ \E w \in Walls, r \in Reads :
          twin' = [twin EXCEPT ![c].pc = "save", ![c].read = r, ![c].next = Stamp(r, w, Node, 1)]
    /\ UNCHANGED <<edited, lastHlc, pushCursor, stamped, sent, cloudRow, begun, overtaken>>

\* ... and the new one, which the row keeps if it cannot be stored. Another
\* row is stamped:
SaveOther(c) ==
    /\ twin[c].pc = "save"
    /\ Store(c) \/ UNCHANGED <<lastHlc, overtaken>>
    /\ Goto(c, "clock")
    /\ UNCHANGED <<edited, pushCursor, stamped, sent, cloudRow, begun>>

\* or the row itself, maybe after the other session has stamped a newer state.
SaveMine(c) ==
    /\ twin[c].pc = "save" /\ twin[c].mine = "yes"
    /\ lastHlc' \in {lastHlc, twin[c].next}
    /\ overtaken' = (\/ overtaken \/ twin[c].read # lastHlc \/ lastHlc' # twin[c].next
                   \/ \E s \in stamped : s.at > twin[c].took)
    /\ stamped' = stamped \cup {[hlc |-> twin[c].next, at |-> twin[c].took]}
    /\ twin' = [twin EXCEPT ![c] = [@ EXCEPT !.pc = "clock", !.mine = "stamped", !.hlc = twin[c].next,
                                             !.read = NoHlc, !.next = NoHlc]]
    /\ UNCHANGED <<edited, pushCursor, sent, cloudRow, begun>>

Request(c) == [hlc |-> twin[c].hlc, at |-> twin[c].took]

\* POST /api/sync/push, with the row or with other rows only.
SendPage(c) ==
    /\ twin[c].pc = "clock" /\ twin[c].mine # "yes"
    /\ sent' = IF twin[c].mine = "stamped" THEN sent \cup {Request(c)} ELSE sent
    /\ Goto(c, "sent")
    /\ UNCHANGED <<edited, lastHlc, pushCursor, stamped, cloudRow, begun, overtaken>>

\* A request reaches the Worker: late, again, or after the session gave up.
Arrive(r) ==
    /\ r \in sent
    /\ HlcLess(cloudRow.hlc, r.hlc)
    /\ cloudRow' = r
    /\ UNCHANGED <<edited, lastHlc, pushCursor, stamped, sent, twin, begun, overtaken>>

\* Mutant of Answered: the cursor is the time of the row as it is now.
AnsweredNow(c) ==
    /\ twin[c].pc = "sent"
    /\ twin[c].mine = "stamped" => HlcLeq(twin[c].hlc, cloudRow.hlc)
    /\ pushCursor' = edited
    /\ EndTwin(c)
    /\ UNCHANGED <<edited, lastHlc, stamped, sent, cloudRow, begun, overtaken>>

\* The answer, once the Worker has dealt with the request: the cursor moves to
\* the last row of the page, whatever the other session has stored meanwhile.
Answered(c) ==
    /\ twin[c].pc = "sent"
    /\ twin[c].mine = "stamped" => HlcLeq(twin[c].hlc, cloudRow.hlc)
    /\ pushCursor' = twin[c].upTo
    /\ EndTwin(c)
    /\ UNCHANGED <<edited, lastHlc, stamped, sent, cloudRow, begun, overtaken>>

\* A request fails for good, a write raises, or the app ends.
StopTwin(c) ==
    /\ twin[c].pc # "idle"
    /\ EndTwin(c)
    /\ UNCHANGED <<edited, lastHlc, pushCursor, stamped, sent, cloudRow, begun, overtaken>>

TwinStep(c) ==
    \/ BeginSync(c) \/ Hear(c) \/ NoteHeard(c) \/ PullDone(c)
    \/ ReadCursor(c) \/ CollectRow(c) \/ CollectRest(c) \/ ReadClock(c)
    \/ SaveOther(c) \/ SaveMine(c) \/ SendPage(c) \/ Answered(c) \/ StopTwin(c)

DeviceNext == EditRow \/ (\E c \in Callers : TwinStep(c)) \/ (\E r \in sent : Arrive(r))

DeviceSpec == DeviceInit /\ [][DeviceNext]_deviceVars

----------------------------------------------------------------------------
RowState == [hlc : Hlc, at : 0 .. MaxEdits]

Twin == [pc : {"idle", "pull", "note", "push", "collect", "rest", "clock", "save", "sent"},
         mode : {"full", "pull", "push"}, since : 0 .. MaxEdits, took : 0 .. MaxEdits,
         upTo : 0 .. MaxEdits, mine : {"no", "yes", "stamped"}, hlc : Hlc, read : Hlc, next : Hlc]

DeviceTypeOK ==
    /\ edited \in 0 .. MaxEdits /\ pushCursor \in 0 .. MaxEdits /\ begun \in 0 .. MaxBegun
    /\ lastHlc \in Hlc /\ overtaken \in BOOLEAN
    /\ stamped \subseteq RowState /\ sent \subseteq RowState /\ cloudRow \in RowState
    /\ twin \in [Callers -> Twin]

\* Every edit that the push cursor has passed is on the Worker, however the two
\* sessions of a desktop overlap, retry or stop, unless one saved a clock made
\* from a value that was not the stored one (the other had stored a new one, or
\* reading failed), could not save the row's clock, stamped an older state of
\* the row after the other had stamped a newer one, or collected another row
\* that was saved after an edit it had not seen.
PassedIsStored == ~ overtaken => pushCursor <= cloudRow.at
====
