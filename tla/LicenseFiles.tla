---- MODULE LicenseFiles ----
(***************************************************************************)
(* The files that say a desktop is licensed: license.key with its seal and *)
(* its shadow copy, and the time of the last online check with its seal.   *)
(* Threads write and read them without a lock: the check every five        *)
(* minutes, the check at the start, activations and Sync Now.              *)
(*                                                                         *)
(* Nobody edits a file by hand here, every license is a valid one and the  *)
(* last check is less than a day old, so that every complaint of a check   *)
(* comes from the order of reads and writes.  Revoked and banned codes are *)
(* ControlList's.  A text is the number of the write that brought it.      *)
(***************************************************************************)
EXTENDS Integers, Sequences

CONSTANTS Checkers,  \* threads
          MaxDuties, \* bound: what the threads are given to do
          MaxStops   \* bound: ends of the app, and deletions of license.key

ASSUME LicenseFilesAssumption == MaxDuties \in Nat /\ MaxStops \in Nat

VARIABLES files,
          thread,
          texts,     \* texts written so far
          newest,    \* history: the text of the latest activation
          torn,      \* history: groups whose files may disagree
          duties,    \* given so far
          stops
fileVars == <<files, thread, texts, newest, torn, duties, stops>>

Missing == -1
Blank == 0         \* write_text truncates before it writes

LicenseGroup == {"key", "seal", "shadow"}
RecordGroup == {"time", "timeSeal"}
Groups == {LicenseGroup, RecordGroup}
GroupOf(f) == IF f \in LicenseGroup THEN LicenseGroup ELSE RecordGroup

Resting == [duty |-> "none", pc |-> "rest", todo |-> <<>>, half |-> FALSE, text |-> Blank,
            raw |-> Blank, clean |-> TRUE, disturbed |-> FALSE, excused |-> FALSE,
            verdict |-> "none"]

FilesInit ==
    /\ files = [f \in LicenseGroup \cup RecordGroup |-> 1]
    /\ thread = [t \in Checkers |-> Resting]
    /\ texts = 1 /\ newest = 1
    /\ torn = {}
    /\ duties = 0 /\ stops = 0

----------------------------------------------------------------------------
(* Writing a group of files, one after the other.                          *)

\* Mutant of SaveOrder: the seal is forgotten.
SaveUnsealed == <<"key", "shadow">>

\* Mutant of SaveOrder: the shadow copy is forgotten.
SaveUnshadowed == <<"key", "seal">>

SaveOrder == <<"key", "seal", "shadow">>
RecordOrder == <<"time", "timeSeal">>

WritesIn(t, g) == thread[t].todo # <<>> /\ GroupOf(Head(thread[t].todo)) = g
SomeoneWrites(g) == \E t \in Checkers : WritesIn(t, g)

\* t starts to write: it and the threads that write the group are not alone.
Start(t, duty, todo, text) ==
    LET g == GroupOf(Head(todo))
    IN thread' = [u \in Checkers |->
        IF u = t THEN [thread[t] EXCEPT !.duty = duty, !.pc = "write", !.todo = todo, !.text = text,
                                        !.verdict = "none", !.clean = ~ SomeoneWrites(g)]
        ELSE IF WritesIn(u, g) THEN [thread[u] EXCEPT !.clean = FALSE] ELSE thread[u]]

\* What a thread does after its writes.
Following(a) ==
    IF GroupOf(Head(a.todo)) = RecordGroup
    THEN [Resting EXCEPT !.duty = a.duty, !.pc = IF a.duty = "check" THEN "find" ELSE "claim"]
    ELSE IF a.duty = "activate" THEN Resting
    ELSE IF Head(a.todo) = "key" THEN [Resting EXCEPT !.duty = "check", !.pc = "find"]
    ELSE [Resting EXCEPT !.verdict = "licensed"]

Reading(a) == a.pc \in {"seal", "time", "timeSeal", "shadow"}

\* After the step t's record is next; others that read the group know less.
Moved(t, f, next) ==
    thread' = [u \in Checkers |->
        IF u = t THEN next
        ELSE IF Reading(thread[u]) /\ f \in LicenseGroup
             THEN [thread[u] EXCEPT !.disturbed = TRUE, !.excused = TRUE]
        ELSE IF thread[u].pc = "timeSeal" THEN [thread[u] EXCEPT !.excused = TRUE]
        ELSE thread[u]]

Truncate(t) ==
    /\ thread[t].pc = "write" /\ ~ thread[t].half
    /\ LET f == Head(thread[t].todo)
       IN /\ files' = [files EXCEPT ![f] = Blank]
          /\ Moved(t, f, [thread[t] EXCEPT !.half = TRUE])
    /\ UNCHANGED <<texts, newest, torn, duties, stops>>

\* The end of a thread's writes. What a check writes, a license.key that was
\* missing or the shadow copy, is as good as what it was read from.
Settled(a) ==
    LET g == GroupOf(Head(a.todo))
    IN IF ~ a.clean \/ a.disturbed THEN torn \cup {g}
       ELSE IF a.duty = "check" /\ g = LicenseGroup THEN torn
       ELSE torn \ {g}

Rest(a) == IF Len(a.todo) > 1 THEN [a EXCEPT !.half = FALSE, !.todo = Tail(@)] ELSE Following(a)

Fill(t) ==
    /\ thread[t].half
    /\ LET f == Head(thread[t].todo)
       IN /\ files' = [files EXCEPT ![f] = thread[t].text]
          /\ newest' = IF f = "key" /\ thread[t].duty = "activate" THEN thread[t].text ELSE newest
          /\ torn' = IF Len(thread[t].todo) = 1 THEN Settled(thread[t]) ELSE torn
          /\ Moved(t, f, Rest(thread[t]))
    /\ UNCHANGED <<texts, duties, stops>>

\* A seal or a shadow copy that cannot be written is passed over; without
\* the key or the time the others are not written either.
WriteFails(t) ==
    /\ thread[t].pc = "write" /\ ~ thread[t].half
    /\ LET a == thread[t]
           f == Head(a.todo)
       IN /\ torn' = IF f \in {"key", "time"} THEN torn ELSE torn \cup {GroupOf(f)}
          /\ thread' = [thread EXCEPT ![t] =
                IF f = "time" THEN Following(a)
                ELSE IF f # "key" THEN Rest([a EXCEPT !.clean = FALSE])
                ELSE IF a.duty = "check" THEN [Resting EXCEPT !.verdict = "not found"]
                ELSE Resting]
    /\ UNCHANGED <<files, texts, newest, duties, stops>>

----------------------------------------------------------------------------
(* What a thread is given to do: fetch_revocations, then a check or a save. *)

\* The fetch succeeds and ends with _record_online_sync.
Begin(t, duty) ==
    /\ thread[t].pc = "rest"
    /\ duties < MaxDuties /\ duties' = duties + 1
    /\ texts' = texts + 1 /\ Start(t, duty, RecordOrder, texts')
    /\ UNCHANGED <<files, newest, torn, stops>>

\* It fails: a check goes on, an activation is over.
BeginOffline(t) ==
    /\ thread[t].pc = "rest"
    /\ duties < MaxDuties /\ duties' = duties + 1
    /\ thread' = [thread EXCEPT ![t] = [Resting EXCEPT !.duty = "check", !.pc = "find"]]
    /\ UNCHANGED <<files, texts, newest, torn, stops>>

\* save_license_file, if the Worker accepts the claim.
SaveLicense(t) ==
    /\ thread[t].pc = "claim"
    /\ texts' = texts + 1 /\ Start(t, "activate", SaveOrder, texts')
    /\ UNCHANGED <<files, newest, torn, duties, stops>>

ClaimRefused(t) ==
    /\ thread[t].pc = "claim"
    /\ thread' = [thread EXCEPT ![t] = Resting]
    /\ UNCHANGED <<files, texts, newest, torn, duties, stops>>

----------------------------------------------------------------------------
(* verify_license.                                                         *)

To(t, pc) == thread' = [thread EXCEPT ![t].pc = pc]
Says(t, verdict) ==
    thread' = [thread EXCEPT ![t] = [Resting EXCEPT !.verdict = verdict, !.excused = thread[t].excused]]

\* find_license_file, with _self_heal_license.
FindKey(t) ==
    /\ thread[t].pc = "find"
    /\ IF files["key"] # Missing THEN To(t, "key")
       ELSE IF files["shadow"] # Missing THEN Start(t, "check", <<"key">>, files["shadow"])
       ELSE Says(t, "not found")
    /\ UNCHANGED <<files, texts, newest, torn, duties, stops>>

ReadKey(t) ==
    /\ thread[t].pc = "key"
    /\ IF files["key"] = Missing THEN Says(t, "unreadable")
       ELSE LET unsure == SomeoneWrites(LicenseGroup)
            IN thread' = [thread EXCEPT ![t].pc = "seal", ![t].raw = files["key"],
                            ![t].disturbed = unsure,
                            ![t].excused = unsure \/ LicenseGroup \in torn]
    /\ UNCHANGED <<files, texts, newest, torn, duties, stops>>

CheckSeal(t) ==
    /\ thread[t].pc = "seal"
    /\ IF files["seal"] \notin {Missing, thread[t].raw} \/ files["seal"] = Blank
       THEN Says(t, "modified") ELSE To(t, "time")
    /\ UNCHANGED <<files, texts, newest, torn, duties, stops>>

\* is_daily_sync_stale
ReadTime(t) ==
    /\ thread[t].pc = "time"
    /\ thread' = [thread EXCEPT ![t].pc = "timeSeal", ![t].text = files["time"],
                    ![t].excused = SomeoneWrites(RecordGroup) \/ RecordGroup \in torn]
    /\ UNCHANGED <<files, texts, newest, torn, duties, stops>>

CheckTime(t) ==
    /\ thread[t].pc = "timeSeal"
    /\ IF thread[t].text = Blank \/ files["timeSeal"] # thread[t].text
       THEN Says(t, "stale") ELSE To(t, "shadow")
    /\ UNCHANGED <<files, texts, newest, torn, duties, stops>>

\* The license holds; the shadow copy is made the same.
CopyShadow(t) ==
    /\ thread[t].pc = "shadow"
    /\ IF files["shadow"] = thread[t].raw THEN Says(t, "licensed")
       ELSE Start(t, "check", <<"shadow">>, thread[t].raw)
    /\ UNCHANGED <<files, texts, newest, torn, duties, stops>>

----------------------------------------------------------------------------
(* The app ends: closed, crashed, or shut by a check that failed. A tool   *)
(* for cleaning disks deletes license.key.                                 *)

Interrupted(g) == \E t \in Checkers : WritesIn(t, g) /\ (thread[t].half \/ Head(thread[t].todo) \notin {"key", "time"})

Stop ==
    /\ stops < MaxStops /\ stops' = stops + 1
    /\ torn' = torn \cup {g \in Groups : Interrupted(g)}
    /\ thread' = [t \in Checkers |-> Resting]
    /\ UNCHANGED <<files, texts, newest, duties>>

Clean ==
    /\ stops < MaxStops /\ stops' = stops + 1
    /\ files["key"] # Missing /\ files' = [files EXCEPT !["key"] = Missing]
    /\ UNCHANGED <<thread, texts, newest, torn, duties>>

FilesStep(t) ==
    \/ Begin(t, "check") \/ Begin(t, "activate")
    \/ BeginOffline(t) \/ SaveLicense(t) \/ ClaimRefused(t)
    \/ Truncate(t) \/ Fill(t) \/ WriteFails(t)
    \/ FindKey(t) \/ ReadKey(t) \/ CheckSeal(t) \/ ReadTime(t) \/ CheckTime(t) \/ CopyShadow(t)

FilesNext == Stop \/ Clean \/ \E t \in Checkers : FilesStep(t)

FilesSpec == FilesInit /\ [][FilesNext]_fileVars

----------------------------------------------------------------------------
FilesTypeOK ==
    /\ files \in [LicenseGroup \cup RecordGroup -> Nat \cup {Missing}]
    /\ thread \in [Checkers ->
            [duty : {"none", "check", "activate"},
             pc : {"rest", "claim", "write", "find", "key", "seal", "time", "timeSeal", "shadow"},
             todo : Seq(LicenseGroup \cup RecordGroup), half : BOOLEAN,
             text : Nat, raw : Nat, clean : BOOLEAN, disturbed : BOOLEAN,
             excused : BOOLEAN,
             verdict : {"none", "licensed", "modified", "stale", "not found", "unreadable"}]]
    /\ texts \in Nat /\ newest \in Nat /\ torn \subseteq Groups
    /\ duties \in Nat /\ stops \in Nat

\* When nobody writes them the three files of the license are those of the
\* latest activation, unless writes overlapped, failed or were cut off.
CopiesAgree ==
    SomeoneWrites(LicenseGroup) \/ LicenseGroup \in torn
        \/ /\ files["key"] \in {Missing, newest}
           /\ files["seal"] = newest /\ files["shadow"] = newest

\* A check calls the license modified, or the online check overdue, only if
\* it read while somebody wrote, or what it read had been torn.
ComplaintNeedsCause ==
    \A t \in Checkers : thread[t].verdict \in {"modified", "stale"} => thread[t].excused
====
