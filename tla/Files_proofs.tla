---- MODULE Files_proofs ----
(***************************************************************************)
(* The files of the desktop: the database file that is swapped for another *)
(* one, the files of its license, and the rows of clients that a command   *)
(* changes and its undo puts back.                                         *)
(*                                                                         *)
(* The swap is proved for any number of passes and whichever pass begins   *)
(* to rename aside or to overwrite.  Its inductive invariant says what the *)
(* files hold at each point of a pass: the staged copy is whole until it   *)
(* has been moved or written, and while it is being moved the user's data  *)
(* are in the file or aside.                                               *)
(*                                                                         *)
(* The license files are proved for any threads, duties and stops.  Their  *)
(* invariant says which writes a thread has before it, and that a group of *)
(* files which no two threads write at once agrees up to the writes that   *)
(* the one thread in it still has to do.                                   *)
(*                                                                         *)
(* The undo is proved for any clients, commands and changes by others.     *)
(* Its invariant says, of each client that nobody else has changed since   *)
(* the snapshot, what a command that is open has left of it and which ones *)
(* an undo under way has put back already.                                 *)
(***************************************************************************)
EXTENDS DatabaseSwap, LicenseFiles, ClientUndo, SequenceTheorems, FiniteSetTheorems,
        WellFoundedInduction, TLAPS

----------------------------------------------------------------------------
(* The swap of the database file.                                          *)

Moving == {"move", "aside", "swap in", "overwrite", "write", "unstage", "next"}

StagedWhole ==
    /\ disk.staged \in {"none", "new"}
    /\ swap.pc \in Moving => disk.staged = "new"

Places ==
    /\ Stands("aside") => disk.dest # "none"
    /\ Stands("clear aside") => disk.dest = "new"
    /\ Stands("write") => risked
    /\ swap.pc \in {"unstage", "done"} => risked \/ disk.dest = "new"
    /\ Stands("down") => disk.aside = "none"

\* Without the staged copy, which a failed swap deletes.
DataKept ==
    \/ risked \/ leftover \cap Whole # {}
    \/ disk.dest \in Whole
    \/ disk.dest = "none" /\ disk.aside \in Whole
    \/ disk.dest = "blank" /\ disk.aside \in Whole /\ Stands("none")

SwapInv == SwapTypeOK /\ StagedWhole /\ Places /\ DataKept
LEMMA SwapInvInit == SwapInit => SwapInv
<1> SUFFICES ASSUME SwapInit PROVE SwapInv
  OBVIOUS
<1>1. swap.pc = "none" /\ swap \in [pc : {"none"}, pass : 0..(Tries - 1)]
  BY SwapAssumption DEF SwapInit, NoSwap
<1>2. disk \in [{"dest", "staged", "aside"} -> Contents]
  BY DEF SwapInit, Contents, Whole
<1>3. SwapTypeOK
  BY <1>1, <1>2 DEF SwapInit, SwapTypeOK
<1>4. QED
  BY <1>1, <1>3 DEF SwapInit, SwapInv, StagedWhole, Places, DataKept, Stands, Moving, Whole

\* The step that ends a pass: the next one begins, or the staged copy goes.
LEMMA OnePassOn ==
  ASSUME NEW T \in Nat, NEW n \in 0..(T - 1), n + 1 < T
  PROVE  n + 1 \in 0..(T - 1)
OBVIOUS

LEMMA NextPassKeeps ==
  ASSUME SwapInv, swap.pc \in {"move", "aside", "swap in", "overwrite", "next"}, NextPass,
         leftover' = leftover, risked' = risked, swaps' = swaps
  PROVE  SwapInv'
<1>1. CASE swap.pass + 1 < Tries
  <2>1. swap.pass + 1 \in 0..(Tries - 1)
    <3>1. swap.pass \in 0..(Tries - 1)
      BY DEF SwapInv, SwapTypeOK
    <3>2. Tries \in Nat
      BY SwapAssumption
    <3>3. QED
      BY <1>1, <3>1, <3>2, OnePassOn
  <2>2. swap' = [pc |-> "move", pass |-> swap.pass + 1] /\ disk' = disk
    BY <1>1 DEF NextPass
  <2>3. swap'.pc = "move" /\ swap' \in [pc : {"move"}, pass : 0..(Tries - 1)]
    BY <2>1, <2>2
  <2>4. SwapTypeOK'
    BY <2>2, <2>3 DEF SwapInv, SwapTypeOK
  <2>5. QED
    BY <2>2, <2>3, <2>4 DEF SwapInv, StagedWhole, Places, DataKept, Stands, Moving, Whole
<1>2. CASE ~ (swap.pass + 1 < Tries)
  BY <1>2, SwapAssumption
     DEF NextPass, SwapInv, SwapTypeOK, StagedWhole, Places, DataKept, Stands, Moving, Whole, Contents
<1>3. QED
  BY <1>1, <1>2

LEMMA SwapInvNext ==
  ASSUME SwapInv, [SwapNext]_swapVars
  PROVE  SwapInv'
<1>a. BeginSwap => SwapTypeOK' /\ swap'.pc = "move"
  <2> SUFFICES ASSUME BeginSwap PROVE SwapTypeOK' /\ swap'.pc = "move"
    OBVIOUS
  <2>1. swap'.pc = "move" /\ swap' \in [pc : {"move"}, pass : 0..(Tries - 1)]
    BY SwapAssumption DEF BeginSwap
  <2>2. disk' \in [{"dest", "staged", "aside"} -> Contents]
    BY DEF SwapInv, SwapTypeOK, BeginSwap, Contents, Whole
  <2>3. leftover' \subseteq Contents /\ risked' \in BOOLEAN /\ swaps' \in Nat
    <3>1. risked' \in BOOLEAN
      BY Zenon DEF BeginSwap
    <3>2. leftover \subseteq Contents /\ swaps \in Nat
      BY DEF SwapInv, SwapTypeOK
    <3>3. leftover' = leftover /\ swaps' = swaps + 1
      BY DEF BeginSwap
    <3>4. QED
      BY <3>1, <3>2, <3>3
  <2>4. QED
    BY <2>1, <2>2, <2>3 DEF SwapTypeOK
<1>b. EndApp => SwapTypeOK' /\ swap'.pc = "down"
  <2> SUFFICES ASSUME EndApp PROVE SwapTypeOK' /\ swap'.pc = "down"
    OBVIOUS
  <2>1. swap'.pc = "down" /\ swap' \in [pc : {"down"}, pass : 0..(Tries - 1)]
    BY SwapAssumption DEF EndApp, NoSwap
  <2>2. disk' \in [{"dest", "staged", "aside"} -> Contents]
    BY DEF SwapInv, SwapTypeOK, EndApp, Contents, Whole
  <2>3. leftover' \subseteq Contents /\ risked' \in BOOLEAN /\ swaps' \in Nat
    <3>1. disk.aside \in Contents
      BY DEF SwapInv, SwapTypeOK
    <3>2. QED
      BY <3>1 DEF SwapInv, SwapTypeOK, EndApp
  <2>4. QED
    BY <2>1, <2>2, <2>3 DEF SwapTypeOK
<1>c. OpenDatabase => SwapTypeOK' /\ swap'.pc = "none"
  <2> SUFFICES ASSUME OpenDatabase PROVE SwapTypeOK' /\ swap'.pc = "none"
    OBVIOUS
  <2>1. swap'.pc = "none" /\ swap' \in [pc : {"none"}, pass : 0..(Tries - 1)]
    BY SwapAssumption DEF OpenDatabase, NoSwap
  <2>2. disk' \in [{"dest", "staged", "aside"} -> Contents]
    BY DEF SwapInv, SwapTypeOK, OpenDatabase, Contents, Whole
  <2>3. leftover' \subseteq Contents /\ risked' \in BOOLEAN /\ swaps' \in Nat
    BY DEF SwapInv, SwapTypeOK, OpenDatabase, Contents, Whole
  <2>4. QED
    BY <2>1, <2>2, <2>3 DEF SwapTypeOK
<1> USE SwapAssumption
    DEF SwapInv, SwapTypeOK, StagedWhole, Places, DataKept, Stands, Moving, Whole, Contents, GoOn, Renamed
<1>1. CASE BeginSwap
  <2>1. swap'.pc = "move" /\ SwapTypeOK'
    BY <1>1, <1>a
  <2>2. QED
    BY <1>1, <2>1 DEF BeginSwap
<1>2. CASE Move
  BY <1>2 DEF Move
<1>3. CASE MoveFails
  BY <1>3 DEF MoveFails
<1>4. CASE MoveDenied
  <2>1. CASE NextPass
    BY <1>4, <2>1, NextPassKeeps DEF MoveDenied
  <2>2. CASE ~ NextPass
    BY <1>4, <2>2 DEF MoveDenied
  <2>3. QED
    BY <2>1, <2>2
<1>5. CASE RenameAside
  BY <1>5 DEF RenameAside
<1>6. CASE SwapIn
  BY <1>6 DEF SwapIn
<1>7. CASE ClearAside
  BY <1>7 DEF ClearAside
<1>8. CASE AsideDenied
  <2>1. CASE NextPass
    BY <1>8, <2>1, NextPassKeeps DEF AsideDenied
  <2>2. CASE ~ NextPass
    BY <1>8, <2>2 DEF AsideDenied, AfterAside
  <2>3. QED
    BY <2>1, <2>2
<1>9. CASE TruncateFile
  <2>1. CASE NextPass /\ UNCHANGED risked
    BY <1>9, <2>1, NextPassKeeps DEF TruncateFile
  <2>2. CASE ~ (NextPass /\ UNCHANGED risked)
    BY <1>9, <2>2, ZenonT(60) DEF TruncateFile
  <2>3. QED
    BY <2>1, <2>2
<1>10. CASE Write
  BY <1>10, ZenonT(60) DEF Write, WriteShort
<1>11. CASE Unstage
  BY <1>11, ZenonT(60) DEF Unstage
<1>12. CASE OverwriteFailed
  BY <1>12, NextPassKeeps DEF OverwriteFailed
<1>13. CASE EndApp
  <2>1. swap'.pc = "down" /\ SwapTypeOK'
    BY <1>13, <1>b
  <2>2. QED
    BY <1>13, <2>1 DEF EndApp
<1>14. CASE OpenDatabase
  <2>1. swap'.pc = "none" /\ SwapTypeOK'
    BY <1>14, <1>c
  <2>2. QED
    BY <1>14, <2>1 DEF OpenDatabase
<1>15. CASE UNCHANGED swapVars
  BY <1>15 DEF swapVars
<1>16. QED
  BY <1>1, <1>2, <1>3, <1>4, <1>5, <1>6, <1>7, <1>8, <1>9, <1>10, <1>11, <1>12, <1>13, <1>14, <1>15
     DEF SwapNext

\* The inductive invariant.
THEOREM SwapInvariant == SwapSpec => []SwapInv
<1>1. SwapInit => SwapInv
  BY SwapInvInit
<1>2. SwapInv /\ [SwapNext]_swapVars => SwapInv'
  BY SwapInvNext
<1>3. QED
  BY <1>1, <1>2, PTL DEF SwapSpec

\* Type correctness of replace_sqlite_db for every number of attempts.
THEOREM SwapTypes == SwapSpec => []SwapTypeOK
<1>1. SwapInv => SwapTypeOK
  BY DEF SwapInv
<1>2. QED
  BY <1>1, SwapInvariant, PTL

\* Wherever a move is denied and the app ends, a whole copy of the user's data
\* is in some file, and a replace_sqlite_db that returns has put the staged copy
\* in place: both unless the database file was truncated to be overwritten and
\* not filled since, or a swap was begun over the blank database that was
\* opened while the old file was still set aside.
THEOREM SwapIsSafe == SwapSpec => []SwapSafe
<1>1. SwapInv => DataSomewhere
  BY DEF SwapInv, SwapTypeOK, DataKept, DataSomewhere
<1>2. SwapInv => SwappedIsNew
  BY DEF SwapInv, Places, SwappedIsNew, Stands
<1>3. QED
  BY <1>1, <1>2, SwapInvariant, PTL DEF SwapSafe

----------------------------------------------------------------------------
(* The license files.                                                      *)

\* What a thread may have left to write.
KeySealShadow == SaveOrder
SealShadow == <<"seal", "shadow">>
ShadowOnly == <<"shadow">>
KeyOnly == <<"key">>
TimeAndSeal == RecordOrder
TimeSealOnly == <<"timeSeal">>

OfLicense(t) == thread[t].todo \in {KeySealShadow, SealShadow, ShadowOnly, KeyOnly}
OfRecord(t) == thread[t].todo \in {TimeAndSeal, TimeSealOnly}

Shapes ==
    \A t \in Checkers : LET a == thread[t] IN
        /\ a.half => a.pc = "write"
        /\ a.pc # "write" => a.todo = <<>>
        /\ a.pc # "rest" => a.verdict = "none"
        /\ a.pc = "write" =>
            \/ OfRecord(t) /\ a.duty \in {"check", "activate"} /\ a.text # Blank
            \/ OfLicense(t) /\ a.todo # KeyOnly /\ a.duty = "activate" /\ a.text # Blank
            \/ a.todo \in {KeyOnly, ShadowOnly} /\ a.duty = "check"

\* Only license.key is ever deleted, and no activation writes nothing.
Present ==
    /\ \A f \in DOMAIN files : files[f] = Missing => f = "key"
    /\ newest > 0 /\ texts > 0

\* A thread whose writes count as clean has its group for itself.
Alone ==
    \A t \in Checkers : thread[t].clean => \A u \in Checkers \ {t} :
        ~ (OfLicense(t) /\ OfLicense(u)) /\ ~ (OfRecord(t) /\ OfRecord(u))

\* The threads that have begun to change the group.
IntoLicense(t) ==
    OfLicense(t) /\ (thread[t].half \/ (thread[t].duty = "activate" /\ thread[t].todo # KeySealShadow))
IntoRecord(t) == OfRecord(t) /\ (thread[t].half \/ thread[t].todo = TimeSealOnly)

Agree ==
    files["key"] \in {Missing, newest} /\ files["seal"] = newest /\ files["shadow"] = newest

LicenseAgrees == LicenseGroup \in torn \/ (\E t \in Checkers : IntoLicense(t)) \/ Agree
RecordAgrees ==
    \/ RecordGroup \in torn \/ \E t \in Checkers : IntoRecord(t)
    \/ files["time"] # Blank /\ files["timeSeal"] = files["time"]

\* What a clean writer has written so far, and what it will write.
CleanWrites ==
    \A t \in Checkers : LET a == thread[t] IN a.clean =>
        /\ a.duty = "activate" /\ a.todo \in {SealShadow, ShadowOnly} =>
            newest = a.text /\ files["key"] \in {Missing, a.text}
        /\ a.duty = "activate" /\ a.todo = ShadowOnly => files["seal"] = a.text
        /\ a.todo = TimeSealOnly => files["time"] = a.text
        /\ a.duty = "check" /\ OfLicense(t) /\ ~ a.disturbed /\ LicenseGroup \notin torn =>
            /\ a.text = newest /\ files["seal"] = newest
            /\ a.todo = KeyOnly => files["shadow"] = newest
            /\ a.todo = ShadowOnly => files["key"] \in {Missing, newest}

\* What an undisturbed reader has read.
ReadsAgree ==
    \A t \in Checkers : LET a == thread[t] IN Reading(a) /\ ~ a.disturbed /\ LicenseGroup \notin torn =>
            a.raw = newest /\ \A u \in Checkers : ~ IntoLicense(u)

ExcusedRead ==
    \A t \in Checkers : LET a == thread[t] IN ~ a.excused =>
        /\ a.pc = "seal" => a.raw # Blank /\ files["seal"] = a.raw
        /\ a.pc = "timeSeal" => a.text # Blank /\ files["timeSeal"] = a.text

FilesInv ==
    /\ FilesTypeOK /\ Shapes /\ Present /\ Alone
    /\ LicenseAgrees /\ RecordAgrees /\ CleanWrites
    /\ ReadsAgree /\ ExcusedRead /\ ComplaintNeedsCause

----------------------------------------------------------------------------
FileNames == {"key", "seal", "shadow", "time", "timeSeal"}

CheckerStates ==
    [duty : {"none", "check", "activate"},
     pc : {"rest", "claim", "write", "find", "key", "seal", "time", "timeSeal", "shadow"},
     todo : Seq(FileNames), half : BOOLEAN,
     text : Nat, raw : Nat, clean : BOOLEAN, disturbed : BOOLEAN, excused : BOOLEAN,
     verdict : {"none", "licensed", "modified", "stale", "not found", "unreadable"}]

LEMMA FileTypes ==
    /\ FilesTypeOK <=>
        /\ files \in [FileNames -> Nat \cup {Missing}] /\ thread \in [Checkers -> CheckerStates]
        /\ texts \in Nat /\ newest \in Nat /\ torn \subseteq Groups
        /\ duties \in Nat /\ stops \in Nat
    /\ FilesTypeOK' <=>
        /\ files' \in [FileNames -> Nat \cup {Missing}] /\ thread' \in [Checkers -> CheckerStates]
        /\ texts' \in Nat /\ newest' \in Nat /\ torn' \subseteq Groups
        /\ duties' \in Nat /\ stops' \in Nat
<1>1. LicenseGroup \cup RecordGroup = FileNames
  BY DEF LicenseGroup, RecordGroup, FileNames
<1> QED BY <1>1 DEF FilesTypeOK, CheckerStates

LEMMA GroupsAre ==
    /\ LicenseGroup # RecordGroup /\ LicenseGroup \in Groups /\ RecordGroup \in Groups
    /\ \A f \in {"key", "seal", "shadow"} : f \in FileNames /\ f \in LicenseGroup /\ GroupOf(f) = LicenseGroup
    /\ \A f \in {"time", "timeSeal"} : f \in FileNames /\ f \notin LicenseGroup /\ GroupOf(f) = RecordGroup
<1>1. "key" \in LicenseGroup /\ "key" \notin RecordGroup
  BY DEF LicenseGroup, RecordGroup
<1>2. LicenseGroup # RecordGroup
  BY <1>1
<1> QED BY <1>2 DEF LicenseGroup, RecordGroup, Groups, GroupOf, FileNames

\* The lists of files that are left to write, one by one.
LEMMA Lists ==
    /\ Head(KeySealShadow) = "key" /\ Tail(KeySealShadow) = SealShadow /\ Len(KeySealShadow) = 3
    /\ Head(SealShadow) = "seal" /\ Tail(SealShadow) = ShadowOnly /\ Len(SealShadow) = 2
    /\ Head(ShadowOnly) = "shadow" /\ Len(ShadowOnly) = 1
    /\ Head(KeyOnly) = "key" /\ Len(KeyOnly) = 1
    /\ Head(TimeAndSeal) = "time" /\ Tail(TimeAndSeal) = TimeSealOnly /\ Len(TimeAndSeal) = 2
    /\ Head(TimeSealOnly) = "timeSeal" /\ Len(TimeSealOnly) = 1
    /\ Len(<<>>) = 0 /\ <<>> \in Seq(FileNames)
    /\ {KeySealShadow, SealShadow, ShadowOnly, KeyOnly, TimeAndSeal, TimeSealOnly} \subseteq Seq(FileNames)
BY DEF KeySealShadow, SealShadow, ShadowOnly, KeyOnly, TimeAndSeal, TimeSealOnly, SaveOrder, RecordOrder,
       FileNames

LEMMA ListsDiffer ==
    /\ \A s \in {KeySealShadow, SealShadow, ShadowOnly, KeyOnly, TimeAndSeal, TimeSealOnly} : s # <<>>
    /\ ShadowOnly # KeyOnly /\ ShadowOnly # SealShadow /\ KeyOnly # SealShadow
    /\ \A s \in {KeySealShadow, SealShadow, ShadowOnly, KeyOnly} :
          s # TimeAndSeal /\ s # TimeSealOnly /\ GroupOf(Head(s)) = LicenseGroup
    /\ \A s \in {SealShadow, ShadowOnly, KeyOnly} : s # KeySealShadow
    /\ TimeAndSeal # TimeSealOnly
    /\ \A s \in {TimeAndSeal, TimeSealOnly} : GroupOf(Head(s)) = RecordGroup
BY Lists, GroupsAre

\* Who writes a group.
LEMMA WritersAre ==
    ASSUME Shapes
    PROVE  /\ \A t \in Checkers : /\ WritesIn(t, LicenseGroup) <=> OfLicense(t)
                                  /\ WritesIn(t, RecordGroup) <=> OfRecord(t)
                                  /\ ~ (OfLicense(t) /\ OfRecord(t))
           /\ SomeoneWrites(LicenseGroup) <=> \E t \in Checkers : OfLicense(t)
           /\ SomeoneWrites(RecordGroup) <=> \E t \in Checkers : OfRecord(t)
<1>1. \A t \in Checkers : thread[t].todo = <<>> \/ OfLicense(t) \/ OfRecord(t)
  BY DEF Shapes, OfLicense
<1>2. \A t \in Checkers : /\ WritesIn(t, LicenseGroup) <=> OfLicense(t)
                          /\ WritesIn(t, RecordGroup) <=> OfRecord(t)
                          /\ ~ (OfLicense(t) /\ OfRecord(t))
  <2> TAKE t \in Checkers
  <2>1. CASE thread[t].todo = <<>>
    BY <2>1, ListsDiffer DEF WritesIn, OfLicense, OfRecord
  <2>2. CASE OfLicense(t)
    <3>1. thread[t].todo # <<>> /\ GroupOf(Head(thread[t].todo)) = LicenseGroup /\ ~ OfRecord(t)
      BY <2>2, ListsDiffer DEF OfLicense, OfRecord
    <3> QED BY <2>2, <3>1, GroupsAre DEF WritesIn
  <2>3. CASE OfRecord(t)
    <3>1. thread[t].todo # <<>> /\ GroupOf(Head(thread[t].todo)) = RecordGroup /\ ~ OfLicense(t)
      BY <2>3, ListsDiffer DEF OfLicense, OfRecord
    <3> QED BY <2>3, <3>1, GroupsAre DEF WritesIn
  <2> QED BY <1>1, <2>1, <2>2, <2>3
<1> QED BY <1>2 DEF SomeoneWrites

LEMMA RestingIs ==
    /\ Resting \in CheckerStates /\ Resting.duty = "none" /\ Resting.pc = "rest" /\ Resting.todo = <<>>
    /\ ~ Resting.half /\ Resting.verdict = "none"
<1>1. <<>> \in Seq(FileNames)
  BY Lists
<1> QED BY <1>1 DEF Resting, CheckerStates, Blank

LEMMA FilesStart == FilesInit => FilesInv
<1> SUFFICES ASSUME FilesInit PROVE FilesInv
  OBVIOUS
<1>1. \A t \in Checkers : thread[t] = Resting
  BY DEF FilesInit
<1>2. \A f \in FileNames : files[f] = 1
  BY DEF FilesInit, FileNames, LicenseGroup, RecordGroup
<1>3. FilesTypeOK
  <2>1. files \in [FileNames -> Nat \cup {Missing}]
    BY DEF FilesInit, FileNames, LicenseGroup, RecordGroup
  <2>2. thread \in [Checkers -> CheckerStates]
    BY RestingIs DEF FilesInit
  <2> QED BY <2>1, <2>2, FileTypes DEF FilesInit
<1>4. \A t \in Checkers : ~ OfLicense(t) /\ ~ OfRecord(t)
  BY <1>1, RestingIs, ListsDiffer DEF OfLicense, OfRecord
<1>5. Shapes /\ Alone
  BY <1>1, <1>4, RestingIs DEF Shapes, Alone
<1>6. Present
  BY <1>2, <1>3, FileTypes DEF Present, FilesInit, Missing
<1>7. LicenseAgrees /\ RecordAgrees
  BY <1>2 DEF LicenseAgrees, RecordAgrees, Agree, FilesInit, FileNames, Blank
<1>8. CleanWrites
  BY <1>1, <1>4, RestingIs DEF CleanWrites, OfLicense, OfRecord
<1>9. ReadsAgree /\ ExcusedRead /\ ComplaintNeedsCause
  BY <1>1, RestingIs DEF ReadsAgree, ExcusedRead, ComplaintNeedsCause, Reading
<1> QED BY <1>3, <1>5, <1>6, <1>7, <1>8, <1>9 DEF FilesInv

----------------------------------------------------------------------------
\* A step of a thread that neither writes nor begins to.
LEMMA CheckerStep ==
    ASSUME FilesInv, NEW t \in Checkers, NEW q \in CheckerStates, thread' = [thread EXCEPT ![t] = q],
           thread[t].todo = <<>>, q.todo = <<>>, q.pc # "write", ~ q.half,
           UNCHANGED <<files, newest, torn>>,
           texts' \in Nat, texts' > 0, duties' \in Nat, stops' \in Nat,
           Reading(q) /\ ~ q.disturbed /\ LicenseGroup \notin torn =>
                q.raw = newest /\ \A u \in Checkers : ~ IntoLicense(u),
           ~ q.excused /\ q.pc = "seal" => q.raw # Blank /\ files["seal"] = q.raw,
           ~ q.excused /\ q.pc = "timeSeal" => q.text # Blank /\ files["timeSeal"] = q.text,
           q.pc # "rest" => q.verdict = "none",
           q.verdict \in {"modified", "stale"} => q.excused
    PROVE  FilesInv'
<1> USE DEF FilesInv
<1>1. \A u \in Checkers : IF u = t THEN thread'[u] = q ELSE thread'[u] = thread[u]
  BY FileTypes
<1>2. \A u \in Checkers : /\ OfLicense(u)' <=> OfLicense(u)
                          /\ OfRecord(u)' <=> OfRecord(u)
                          /\ OfLicense(u) \/ OfRecord(u) => u # t
  BY <1>1, ListsDiffer DEF OfLicense, OfRecord
<1>3. \A u \in Checkers : (IntoLicense(u)' <=> IntoLicense(u)) /\ (IntoRecord(u)' <=> IntoRecord(u))
  BY <1>1, <1>2 DEF IntoLicense, IntoRecord
<1>4. FilesTypeOK'
  BY FileTypes
<1>5. Shapes'
  BY <1>1, <1>2 DEF Shapes
<1>6. Alone' /\ Present'
  BY <1>1, <1>2 DEF Alone, Present
<1>7. LicenseAgrees' /\ RecordAgrees'
  BY <1>3 DEF LicenseAgrees, RecordAgrees, Agree
<1>8. CleanWrites'
  BY <1>1, <1>2, ListsDiffer DEF CleanWrites, OfLicense
<1>9. ReadsAgree'
  BY <1>1, <1>3 DEF ReadsAgree, Reading
<1>10. ExcusedRead' /\ ComplaintNeedsCause'
  BY <1>1 DEF ExcusedRead, ComplaintNeedsCause
<1> QED BY <1>4, <1>5, <1>6, <1>7, <1>8, <1>9, <1>10

\* What Start makes of the threads.
LEMMA StartIs ==
    ASSUME FilesInv, NEW t \in Checkers, NEW duty \in {"check", "activate"}, NEW text \in Nat,
           NEW todo \in {TimeAndSeal, KeySealShadow, KeyOnly, ShadowOnly},
           Start(t, duty, todo, text), thread[t].todo = <<>>
    PROVE  /\ thread' \in [Checkers -> CheckerStates]
           /\ thread'[t].duty = duty /\ thread'[t].pc = "write" /\ thread'[t].todo = todo
           /\ thread'[t].text = text /\ thread'[t].verdict = "none" /\ ~ thread'[t].half
           /\ thread'[t].disturbed = thread[t].disturbed
           /\ thread'[t].clean => ~ SomeoneWrites(GroupOf(Head(todo)))
           /\ \A u \in Checkers \ {t} :
                /\ thread'[u].duty = thread[u].duty /\ thread'[u].pc = thread[u].pc
                /\ thread'[u].todo = thread[u].todo /\ thread'[u].half = thread[u].half
                /\ thread'[u].text = thread[u].text /\ thread'[u].raw = thread[u].raw
                /\ thread'[u].disturbed = thread[u].disturbed
                /\ thread'[u].excused = thread[u].excused
                /\ thread'[u].verdict = thread[u].verdict
                /\ thread'[u].clean => thread[u].clean /\ ~ WritesIn(u, GroupOf(Head(todo)))
<1> USE DEF FilesInv
<1> DEFINE g == GroupOf(Head(todo))
           alone == ~ SomeoneWrites(g)
           q == [thread[t] EXCEPT !.duty = duty, !.pc = "write", !.todo = todo, !.text = text,
                                  !.verdict = "none", !.clean = alone]
           stale(u) == [thread[u] EXCEPT !.clean = FALSE]
<1>1. thread' = [u \in Checkers |-> IF u = t THEN q ELSE IF WritesIn(u, g) THEN stale(u) ELSE thread[u]]
  BY DEF Start
<1>2. \A u \in Checkers : thread[u] \in CheckerStates
  BY FileTypes
<1>3. todo \in Seq(FileNames) /\ ~ thread[t].half
  BY Lists, ListsDiffer DEF Shapes, OfLicense, OfRecord
<1>4. alone \in BOOLEAN
  BY DEF SomeoneWrites
<1>5. ASSUME NEW b \in BOOLEAN
      PROVE  LET r == [thread[t] EXCEPT !.duty = duty, !.pc = "write", !.todo = todo, !.text = text,
                                        !.verdict = "none", !.clean = b]
             IN  /\ r \in CheckerStates /\ r.duty = duty /\ r.pc = "write" /\ r.todo = todo
                 /\ r.text = text /\ r.verdict = "none" /\ r.half = thread[t].half
                 /\ r.disturbed = thread[t].disturbed /\ r.clean = b
  BY <1>2, <1>3 DEF CheckerStates
<1>6. /\ q \in CheckerStates /\ q.duty = duty /\ q.pc = "write" /\ q.todo = todo
      /\ q.text = text /\ q.verdict = "none" /\ q.half = thread[t].half
      /\ q.disturbed = thread[t].disturbed /\ q.clean = alone
  <2> HIDE DEF alone
  <2> QED BY <1>4, <1>5
<1>7. \A u \in Checkers :
        /\ stale(u) \in CheckerStates
        /\ stale(u).duty = thread[u].duty /\ stale(u).pc = thread[u].pc
        /\ stale(u).todo = thread[u].todo /\ stale(u).half = thread[u].half
        /\ stale(u).text = thread[u].text /\ stale(u).raw = thread[u].raw
        /\ stale(u).disturbed = thread[u].disturbed /\ stale(u).excused = thread[u].excused
        /\ stale(u).verdict = thread[u].verdict /\ ~ stale(u).clean
  BY <1>2 DEF CheckerStates
<1> HIDE DEF q, stale
<1>8. thread' \in [Checkers -> CheckerStates]
  BY <1>1, <1>2, <1>6, <1>7
<1>9. \A u \in Checkers : IF u = t THEN thread'[u] = q
                          ELSE thread'[u] = IF WritesIn(u, g) THEN stale(u) ELSE thread[u]
  BY <1>1
<1>10. \A u \in Checkers \ {t} :
        /\ thread'[u].duty = thread[u].duty /\ thread'[u].pc = thread[u].pc
        /\ thread'[u].todo = thread[u].todo /\ thread'[u].half = thread[u].half
        /\ thread'[u].text = thread[u].text /\ thread'[u].raw = thread[u].raw
        /\ thread'[u].disturbed = thread[u].disturbed
        /\ thread'[u].excused = thread[u].excused
        /\ thread'[u].verdict = thread[u].verdict
        /\ thread'[u].clean => thread[u].clean /\ ~ WritesIn(u, g)
  <2> HIDE DEF g
  <2> QED BY <1>7, <1>9
<1> QED BY <1>3, <1>6, <1>8, <1>9, <1>10

\* A thread that begins to write.
LEMMA StartKeeps ==
    ASSUME FilesInv, NEW t \in Checkers, NEW duty \in {"check", "activate"}, NEW text \in Nat,
           NEW todo \in {TimeAndSeal, KeySealShadow, KeyOnly, ShadowOnly},
           Start(t, duty, todo, text), thread[t].todo = <<>>,
           UNCHANGED <<files, newest, torn>>,
           texts' \in Nat, texts' > 0, duties' \in Nat, stops' \in Nat,
           todo \in {TimeAndSeal, KeySealShadow} => text # Blank,
           todo = KeySealShadow => duty = "activate",
           todo \in {KeyOnly, ShadowOnly} => duty = "check",
           todo \in {KeyOnly, ShadowOnly} /\ ~ thread[t].disturbed /\ LicenseGroup \notin torn
                /\ (\A u \in Checkers : ~ OfLicense(u)) => text = newest
    PROVE  FilesInv'
<1> USE DEF FilesInv
<1> DEFINE g == GroupOf(Head(todo))
<1>1. /\ thread' \in [Checkers -> CheckerStates]
      /\ thread'[t].duty = duty /\ thread'[t].pc = "write" /\ thread'[t].todo = todo
      /\ thread'[t].text = text /\ thread'[t].verdict = "none" /\ ~ thread'[t].half
      /\ thread'[t].disturbed = thread[t].disturbed
      /\ thread'[t].clean => ~ SomeoneWrites(g)
  BY StartIs
<1>2. \A u \in Checkers \ {t} :
        /\ thread'[u].duty = thread[u].duty /\ thread'[u].pc = thread[u].pc
        /\ thread'[u].todo = thread[u].todo /\ thread'[u].half = thread[u].half
        /\ thread'[u].text = thread[u].text /\ thread'[u].raw = thread[u].raw
        /\ thread'[u].disturbed = thread[u].disturbed
        /\ thread'[u].excused = thread[u].excused
        /\ thread'[u].verdict = thread[u].verdict
        /\ thread'[u].clean => thread[u].clean /\ ~ WritesIn(u, g)
  BY StartIs
<1>3. /\ g = LicenseGroup <=> todo \in {KeySealShadow, KeyOnly, ShadowOnly}
      /\ g = RecordGroup <=> todo = TimeAndSeal
      /\ g \in {LicenseGroup, RecordGroup}
      /\ todo # SealShadow /\ todo # TimeSealOnly
  BY ListsDiffer, GroupsAre
<1> HIDE DEF g
<1>4. \A u \in Checkers \ {t} : (OfLicense(u)' <=> OfLicense(u)) /\ (OfRecord(u)' <=> OfRecord(u))
                                /\ (IntoLicense(u)' <=> IntoLicense(u))
                                /\ (IntoRecord(u)' <=> IntoRecord(u))
  BY <1>2 DEF OfLicense, OfRecord, IntoLicense, IntoRecord
<1>5. /\ ~ OfLicense(t) /\ ~ OfRecord(t)
      /\ OfLicense(t)' <=> g = LicenseGroup
      /\ OfRecord(t)' <=> g = RecordGroup
  BY <1>1, <1>3, ListsDiffer DEF OfLicense, OfRecord
<1>6. ~ IntoLicense(t)' /\ ~ IntoRecord(t)' /\ ~ IntoLicense(t) /\ ~ IntoRecord(t)
  BY <1>1, <1>3, <1>5, ListsDiffer DEF IntoLicense, IntoRecord, OfLicense
<1>8. FilesTypeOK'
  BY <1>1, FileTypes
<1>9. Shapes'
  BY <1>1, <1>2, <1>4, <1>5, <1>3 DEF Shapes
<1>10. /\ thread'[t].clean => /\ g = LicenseGroup => \A u \in Checkers : ~ OfLicense(u)
                              /\ g = RecordGroup => \A u \in Checkers : ~ OfRecord(u)
       /\ \A u \in Checkers \ {t} : thread'[u].clean => /\ g = LicenseGroup => ~ OfLicense(u)
                                                        /\ g = RecordGroup => ~ OfRecord(u)
  BY <1>1, <1>2, WritersAre
<1>11. Alone'
  BY <1>2, <1>4, <1>5, <1>10 DEF Alone
<1>12. Present'
  BY DEF Present
<1>13. LicenseAgrees' /\ RecordAgrees'
  BY <1>4, <1>6 DEF LicenseAgrees, RecordAgrees, Agree
<1>14. CleanWrites'
  <2>1. ASSUME thread'[t].clean, todo \in {KeyOnly, ShadowOnly}, ~ thread[t].disturbed,
               LicenseGroup \notin torn
        PROVE  text = newest /\ Agree
    BY <1>3, <1>10, <2>1 DEF LicenseAgrees, IntoLicense
  <2> QED
    BY <1>1, <1>2, <1>3, <1>4, <1>5, <2>1, ListsDiffer DEF CleanWrites, Agree
<1>15. ReadsAgree'
  BY <1>1, <1>2, <1>4, <1>6 DEF ReadsAgree, Reading
<1>16. ExcusedRead' /\ ComplaintNeedsCause'
  BY <1>1, <1>2 DEF ExcusedRead, ComplaintNeedsCause
<1> QED BY <1>8, <1>9, <1>11, <1>12, <1>13, <1>14, <1>15, <1>16

\* What a write to f makes of the threads.
LEMMA MovedIs ==
    ASSUME FilesTypeOK, NEW t \in Checkers, NEW f \in FileNames, NEW q \in CheckerStates, Moved(t, f, q)
    PROVE  /\ thread' \in [Checkers -> CheckerStates] /\ thread'[t] = q
           /\ \A u \in Checkers \ {t} :
                /\ thread'[u].duty = thread[u].duty /\ thread'[u].pc = thread[u].pc
                /\ thread'[u].todo = thread[u].todo /\ thread'[u].half = thread[u].half
                /\ thread'[u].text = thread[u].text /\ thread'[u].raw = thread[u].raw
                /\ thread'[u].clean = thread[u].clean /\ thread'[u].verdict = thread[u].verdict
                /\ thread[u].disturbed => thread'[u].disturbed
                /\ thread[u].excused => thread'[u].excused
                /\ f \in LicenseGroup /\ Reading(thread[u]) => thread'[u].disturbed /\ thread'[u].excused
                /\ thread[u].pc = "timeSeal" => thread'[u].excused
<1> DEFINE wary(u) == [thread[u] EXCEPT !.disturbed = TRUE, !.excused = TRUE]
           spared(u) == [thread[u] EXCEPT !.excused = TRUE]
<1>1. thread' = [u \in Checkers |->
        IF u = t THEN q
        ELSE IF Reading(thread[u]) /\ f \in LicenseGroup THEN wary(u)
        ELSE IF thread[u].pc = "timeSeal" THEN spared(u)
        ELSE thread[u]]
  BY DEF Moved
<1>2. \A u \in Checkers : thread[u] \in CheckerStates
  BY FileTypes
<1> DEFINE Like(w, u) ==
        /\ w \in CheckerStates
        /\ w.duty = thread[u].duty /\ w.pc = thread[u].pc
        /\ w.todo = thread[u].todo /\ w.half = thread[u].half
        /\ w.text = thread[u].text /\ w.raw = thread[u].raw
        /\ w.clean = thread[u].clean /\ w.verdict = thread[u].verdict
        /\ thread[u].disturbed => w.disturbed
        /\ thread[u].excused => w.excused
<1>3. \A u \in Checkers : Like(wary(u), u) /\ Like(spared(u), u) /\ Like(thread[u], u)
  <2>1. \A u \in Checkers : Like(wary(u), u)
    BY <1>2 DEF CheckerStates
  <2>2. \A u \in Checkers : Like(spared(u), u)
    BY <1>2 DEF CheckerStates
  <2>3. \A u \in Checkers : Like(thread[u], u)
    BY <1>2
  <2> QED BY <2>1, <2>2, <2>3
<1>4. \A u \in Checkers : wary(u).disturbed /\ wary(u).excused /\ spared(u).excused
  BY <1>2 DEF CheckerStates
<1> HIDE DEF wary, spared
<1>5. thread' \in [Checkers -> CheckerStates]
  BY <1>1, <1>2, <1>3
<1>6. \A u \in Checkers : IF u = t THEN thread'[u] = q
        ELSE thread'[u] = IF Reading(thread[u]) /\ f \in LicenseGroup THEN wary(u)
                          ELSE IF thread[u].pc = "timeSeal" THEN spared(u) ELSE thread[u]
  BY <1>1
<1>7. ASSUME NEW u \in Checkers \ {t}
      PROVE  /\ thread'[u] \in {wary(u), spared(u), thread[u]}
             /\ f \in LicenseGroup /\ Reading(thread[u]) => thread'[u].disturbed /\ thread'[u].excused
             /\ thread[u].pc = "timeSeal" => thread'[u].excused
  BY <1>4, <1>6
<1>8. \A u \in Checkers \ {t} : Like(thread'[u], u)
  <2> HIDE DEF Like
  <2> QED BY <1>3, <1>7
<1> QED BY <1>5, <1>6, <1>7, <1>8

\* What such a write leaves to the other threads.
LEMMA OthersKeep ==
    ASSUME FilesTypeOK, NEW t \in Checkers, NEW f \in FileNames, NEW q \in CheckerStates, Moved(t, f, q)
    PROVE  \A u \in Checkers \ {t} :
            /\ OfLicense(u)' <=> OfLicense(u)
            /\ OfRecord(u)' <=> OfRecord(u)
            /\ IntoLicense(u)' <=> IntoLicense(u)
            /\ IntoRecord(u)' <=> IntoRecord(u)
            /\ Reading(thread'[u]) <=> Reading(thread[u])
<1> SUFFICES ASSUME NEW u \in Checkers \ {t}
             PROVE  /\ OfLicense(u)' <=> OfLicense(u)
                    /\ OfRecord(u)' <=> OfRecord(u)
                    /\ IntoLicense(u)' <=> IntoLicense(u)
                    /\ IntoRecord(u)' <=> IntoRecord(u)
                    /\ Reading(thread'[u]) <=> Reading(thread[u])
  OBVIOUS
<1>1. /\ thread'[u].duty = thread[u].duty /\ thread'[u].pc = thread[u].pc
      /\ thread'[u].todo = thread[u].todo /\ thread'[u].half = thread[u].half
  BY MovedIs
<1> QED BY <1>1 DEF OfLicense, OfRecord, IntoLicense, IntoRecord, Reading

\* What the readers know after a write to f, and what has been said.
LEMMA ReadersKeep ==
    ASSUME FilesInv, NEW t \in Checkers, NEW f \in FileNames, NEW q \in CheckerStates, Moved(t, f, q),
           ~ Reading(q), q.verdict \notin {"modified", "stale"},
           \A g \in FileNames \ {f} : files'[g] = files[g],
           f \notin LicenseGroup => /\ newest' = newest /\ ~ IntoLicense(t)'
                                    /\ LicenseGroup \notin torn' => LicenseGroup \notin torn
    PROVE  ReadsAgree' /\ ExcusedRead' /\ ComplaintNeedsCause'
<1> USE DEF FilesInv
<1>1. \A u \in Checkers \ {t} :
        /\ thread'[u].pc = thread[u].pc
        /\ thread'[u].text = thread[u].text /\ thread'[u].raw = thread[u].raw
        /\ thread'[u].verdict = thread[u].verdict
        /\ thread[u].disturbed => thread'[u].disturbed
        /\ thread[u].excused => thread'[u].excused
        /\ f \in LicenseGroup /\ Reading(thread[u]) => thread'[u].disturbed /\ thread'[u].excused
        /\ thread[u].pc = "timeSeal" => thread'[u].excused
  BY MovedIs
<1>2. thread'[t] = q
  BY MovedIs
<1>3. \A u \in Checkers \ {t} : /\ IntoLicense(u)' <=> IntoLicense(u)
                                /\ Reading(thread'[u]) <=> Reading(thread[u])
  BY OthersKeep
<1>4. ReadsAgree'
  BY <1>1, <1>2, <1>3 DEF ReadsAgree
<1>5. ExcusedRead'
  <2>1. "seal" \in FileNames /\ "seal" \in LicenseGroup
    BY GroupsAre
  <2>2. \A u \in Checkers \ {t} : thread[u].pc = "seal" => Reading(thread[u])
    BY DEF Reading
  <2>3. q.pc \notin {"seal", "timeSeal"}
    BY DEF Reading
  <2> QED BY <1>1, <1>2, <2>1, <2>2, <2>3 DEF ExcusedRead
<1>6. ComplaintNeedsCause'
  BY <1>1, <1>2 DEF ComplaintNeedsCause
<1> QED BY <1>4, <1>5, <1>6

LEMMA HeadsAre ==
    /\ \A s \in {KeySealShadow, SealShadow, ShadowOnly, KeyOnly} :
          Head(s) \in FileNames /\ Head(s) \in LicenseGroup
    /\ \A s \in {TimeAndSeal, TimeSealOnly} : Head(s) \in FileNames /\ Head(s) \notin LicenseGroup
BY Lists, GroupsAre

\* A thread that is to write has something left to write.
LEMMA WriterIs ==
    ASSUME FilesInv, NEW t \in Checkers, thread[t].pc = "write"
    PROVE  /\ thread[t] \in CheckerStates /\ Head(thread[t].todo) \in FileNames
           /\ OfLicense(t) <=> Head(thread[t].todo) \in LicenseGroup
           /\ OfRecord(t) <=> Head(thread[t].todo) \notin LicenseGroup
           /\ ~ Reading(thread[t]) /\ thread[t].verdict = "none"
<1> USE DEF FilesInv
<1>1. thread[t].verdict = "none" /\ (OfLicense(t) \/ OfRecord(t))
  BY DEF Shapes, OfLicense
<1>2. thread[t] \in CheckerStates
  BY FileTypes
<1> QED BY <1>1, <1>2, HeadsAre DEF OfLicense, OfRecord, Reading

LEMMA TruncateKeeps ==
    ASSUME FilesInv, NEW t \in Checkers, Truncate(t)
    PROVE  FilesInv'
<1> USE DEF FilesInv
<1> DEFINE f == Head(thread[t].todo)
           q == [thread[t] EXCEPT !.half = TRUE]
<1>1. /\ thread[t].pc = "write" /\ ~ thread[t].half
      /\ files' = [files EXCEPT ![f] = Blank] /\ Moved(t, f, q)
      /\ UNCHANGED <<texts, newest, torn, duties, stops>>
  BY DEF Truncate
<1>2. /\ thread[t] \in CheckerStates /\ f \in FileNames
      /\ OfLicense(t) <=> f \in LicenseGroup
      /\ OfRecord(t) <=> f \notin LicenseGroup
      /\ thread[t].verdict = "none"
  BY <1>1, WriterIs
<1>3. /\ q \in CheckerStates /\ q.duty = thread[t].duty /\ q.pc = "write" /\ q.todo = thread[t].todo
      /\ q.half /\ q.text = thread[t].text /\ q.clean = thread[t].clean
      /\ q.disturbed = thread[t].disturbed /\ q.verdict = thread[t].verdict
  BY <1>1, <1>2 DEF CheckerStates
<1>4. files' \in [FileNames -> Nat \cup {Missing}] /\ files'[f] = Blank
      /\ \A g \in FileNames \ {f} : files'[g] = files[g]
  BY <1>1, <1>2, FileTypes DEF Blank
<1>5. \A s \in {KeySealShadow, SealShadow, ShadowOnly, KeyOnly, TimeAndSeal, TimeSealOnly} :
        thread[t].todo = s => f = Head(s)
  OBVIOUS
<1> HIDE DEF f, q
<1>6. /\ thread' \in [Checkers -> CheckerStates] /\ thread'[t] = q
      /\ \A u \in Checkers \ {t} :
            /\ thread'[u].duty = thread[u].duty /\ thread'[u].pc = thread[u].pc
            /\ thread'[u].todo = thread[u].todo /\ thread'[u].half = thread[u].half
            /\ thread'[u].text = thread[u].text /\ thread'[u].clean = thread[u].clean
            /\ thread'[u].verdict = thread[u].verdict
            /\ thread[u].disturbed => thread'[u].disturbed
  BY <1>1, <1>2, <1>3, MovedIs
<1>7. \A u \in Checkers \ {t} :
        /\ OfLicense(u)' <=> OfLicense(u)
        /\ OfRecord(u)' <=> OfRecord(u)
        /\ IntoLicense(u)' <=> IntoLicense(u)
        /\ IntoRecord(u)' <=> IntoRecord(u)
  BY <1>1, <1>2, <1>3, OthersKeep
<1>8. /\ OfLicense(t)' <=> OfLicense(t)
      /\ OfRecord(t)' <=> OfRecord(t)
      /\ IntoLicense(t)' <=> OfLicense(t)
      /\ IntoRecord(t)' <=> OfRecord(t)
  BY <1>3, <1>6 DEF OfLicense, OfRecord, IntoLicense, IntoRecord
<1>9. FilesTypeOK'
  BY <1>1, <1>4, <1>6, FileTypes
<1>10. Shapes'
  BY <1>1, <1>2, <1>3, <1>6, <1>7, <1>8 DEF Shapes
<1>11. Present'
  BY <1>1, <1>4, FileTypes DEF Present, Missing, Blank
<1>12. Alone'
  BY <1>3, <1>6, <1>7, <1>8 DEF Alone
<1>13. LicenseAgrees' /\ RecordAgrees'
  <2>1. CASE f \in LicenseGroup
    BY <1>1, <1>2, <1>4, <1>7, <1>8, <2>1, GroupsAre DEF LicenseAgrees, RecordAgrees, IntoRecord
  <2>2. CASE f \notin LicenseGroup
    BY <1>1, <1>2, <1>4, <1>7, <1>8, <2>2, GroupsAre DEF LicenseAgrees, RecordAgrees, Agree, IntoLicense
  <2> QED BY <2>1, <2>2
<1>14. CleanWrites'
  <2>1. ASSUME NEW u \in Checkers \ {t}, thread[u].clean
        PROVE  /\ f \in LicenseGroup => ~ OfLicense(u)
               /\ f \notin LicenseGroup => ~ OfRecord(u)
    BY <1>2, <2>1 DEF Alone
  <2> DEFINE P(u) ==
        thread[u].clean =>
        /\ thread[u].duty = "activate" /\ thread[u].todo \in {SealShadow, ShadowOnly} =>
            newest = thread[u].text /\ files["key"] \in {Missing, thread[u].text}
        /\ thread[u].duty = "activate" /\ thread[u].todo = ShadowOnly => files["seal"] = thread[u].text
        /\ thread[u].todo = TimeSealOnly => files["time"] = thread[u].text
        /\ thread[u].duty = "check" /\ OfLicense(u) /\ ~ thread[u].disturbed /\ LicenseGroup \notin torn =>
            /\ thread[u].text = newest /\ files["seal"] = newest
            /\ thread[u].todo = KeyOnly => files["shadow"] = newest
            /\ thread[u].todo = ShadowOnly => files["key"] \in {Missing, newest}
  <2>2. ASSUME NEW u \in Checkers \ {t} PROVE P(u)'
    <3>1. CASE f \in LicenseGroup
      <4>1. thread[u].clean => ~ OfLicense(u) /\ files'["time"] = files["time"]
        BY <1>4, <2>1, <3>1, GroupsAre
      <4> QED BY <1>6, <1>7, <4>1 DEF CleanWrites, OfLicense
    <3>2. CASE f \notin LicenseGroup
      <4>1. thread[u].clean => ~ OfRecord(u)
        BY <2>1, <3>2
      <4>2. files'["key"] = files["key"] /\ files'["seal"] = files["seal"] /\ files'["shadow"] = files["shadow"]
        BY <1>4, <3>2, GroupsAre
      <4> QED BY <1>1, <1>6, <1>7, <4>1, <4>2 DEF CleanWrites, OfRecord
    <3> QED BY <3>1, <3>2
  <2>3. P(t)'
    <3>1. thread[t].todo \in {SealShadow, ShadowOnly} => files'["key"] = files["key"]
      BY <1>4, <1>5, Lists, GroupsAre
    <3>2. thread[t].todo \in {ShadowOnly, KeyOnly} => files'["seal"] = files["seal"]
      BY <1>4, <1>5, Lists, GroupsAre
    <3>3. thread[t].todo = TimeSealOnly => files'["time"] = files["time"]
      BY <1>4, <1>5, Lists, GroupsAre
    <3>4. thread[t].todo = KeyOnly => files'["shadow"] = files["shadow"]
      BY <1>4, <1>5, Lists, GroupsAre
    <3>5. thread[t].duty = "check" /\ OfLicense(t) => thread[t].todo \in {ShadowOnly, KeyOnly}
      BY <1>1, ListsDiffer DEF Shapes, OfLicense, OfRecord
    <3>6. P(t)
      BY Zenon DEF CleanWrites
    <3>7. newest' = newest /\ torn' = torn /\ (OfLicense(t)' <=> OfLicense(t))
      BY <1>1, <1>8
    <3>8. /\ thread'[t].duty = thread[t].duty /\ thread'[t].todo = thread[t].todo
          /\ thread'[t].text = thread[t].text /\ thread'[t].clean = thread[t].clean
          /\ thread'[t].disturbed = thread[t].disturbed
      BY <1>3, <1>6
    <3> SUFFICES ASSUME thread[t].clean PROVE P(t)'
      BY <3>8
    <3>9. /\ thread[t].duty = "activate" /\ thread[t].todo \in {SealShadow, ShadowOnly} =>
              newest = thread[t].text /\ files'["key"] \in {Missing, thread[t].text}
          /\ thread[t].duty = "activate" /\ thread[t].todo = ShadowOnly => files'["seal"] = thread[t].text
          /\ thread[t].todo = TimeSealOnly => files'["time"] = thread[t].text
      BY ONLY <3>1, <3>2, <3>3, <3>6, thread[t].clean
    <3>10. thread[t].duty = "check" /\ OfLicense(t) /\ ~ thread[t].disturbed /\ LicenseGroup \notin torn =>
            /\ thread[t].text = newest /\ files'["seal"] = newest
            /\ thread[t].todo = KeyOnly => files'["shadow"] = newest
            /\ thread[t].todo = ShadowOnly => files'["key"] \in {Missing, newest}
      BY ONLY <3>1, <3>2, <3>4, <3>5, <3>6, thread[t].clean
    <3> QED BY ONLY <3>7, <3>8, <3>9, <3>10
  <2> QED BY <2>2, <2>3 DEF CleanWrites
<1>15. ReadsAgree' /\ ExcusedRead' /\ ComplaintNeedsCause'
  <2>1. ~ Reading(q)
    BY <1>3 DEF Reading
  <2>2. q.verdict \notin {"modified", "stale"}
    BY <1>2, <1>3
  <2> QED BY <1>1, <1>2, <1>3, <1>4, <1>8, <2>1, <2>2, ReadersKeep
<1> QED BY <1>9, <1>10, <1>11, <1>12, <1>13, <1>14, <1>15

\* A write after which the thread has more to write.
LEMMA FillGoesOn ==
    ASSUME FilesInv, NEW t \in Checkers, Fill(t),
           thread[t].todo \in {KeySealShadow, SealShadow, TimeAndSeal}
    PROVE  FilesInv'
<1> USE DEF FilesInv
<1> DEFINE f == Head(thread[t].todo)
           more == Tail(thread[t].todo)
           q == [thread[t] EXCEPT !.half = FALSE, !.todo = more]
<1>1. thread[t].half /\ thread[t].pc = "write"
  BY DEF Fill, Shapes
<1>2. /\ thread[t] \in CheckerStates /\ f \in FileNames
      /\ OfLicense(t) <=> f \in LicenseGroup
      /\ OfRecord(t) <=> f \notin LicenseGroup
      /\ thread[t].verdict = "none"
  BY <1>1, WriterIs
<1>3. thread[t].todo # TimeAndSeal => thread[t].duty = "activate"
  BY <1>1, ListsDiffer DEF Shapes, OfLicense, OfRecord
<1>4. thread[t].text # Blank /\ thread[t].text \in Nat
  BY <1>1, <1>2, <1>3, ListsDiffer DEF Shapes, CheckerStates
<1>5. /\ files' = [files EXCEPT ![f] = thread[t].text] /\ Moved(t, f, q)
      /\ newest' = IF thread[t].todo = KeySealShadow THEN thread[t].text ELSE newest
      /\ UNCHANGED <<texts, torn, duties, stops>>
  BY <1>3, Lists, ListsDiffer DEF Fill, Rest
<1>6. /\ more \in {SealShadow, ShadowOnly, TimeSealOnly} /\ more \in Seq(FileNames)
      /\ thread[t].todo = KeySealShadow <=> more = SealShadow
      /\ thread[t].todo = SealShadow <=> more = ShadowOnly
      /\ thread[t].todo = TimeAndSeal <=> more = TimeSealOnly
      /\ f = IF more = SealShadow THEN "key" ELSE IF more = ShadowOnly THEN "seal" ELSE "time"
  BY Lists, ListsDiffer
<1> HIDE DEF f, more
<1>7. /\ q \in CheckerStates /\ q.duty = thread[t].duty /\ q.pc = "write" /\ q.todo = more
      /\ ~ q.half /\ q.text = thread[t].text /\ q.clean = thread[t].clean /\ q.verdict = "none"
  BY <1>1, <1>2, <1>6 DEF CheckerStates
<1> HIDE DEF q
<1>8. files' \in [FileNames -> Nat \cup {Missing}] /\ files'[f] = thread[t].text
      /\ \A g \in FileNames \ {f} : files'[g] = files[g]
  BY <1>2, <1>4, <1>5, FileTypes
<1>9. /\ thread' \in [Checkers -> CheckerStates] /\ thread'[t] = q
      /\ \A u \in Checkers \ {t} :
            /\ thread'[u].duty = thread[u].duty /\ thread'[u].pc = thread[u].pc
            /\ thread'[u].todo = thread[u].todo /\ thread'[u].half = thread[u].half
            /\ thread'[u].text = thread[u].text /\ thread'[u].clean = thread[u].clean
            /\ thread'[u].verdict = thread[u].verdict
            /\ thread[u].disturbed => thread'[u].disturbed
  BY <1>2, <1>5, <1>7, MovedIs
<1>10. \A u \in Checkers \ {t} :
        /\ OfLicense(u)' <=> OfLicense(u)
        /\ OfRecord(u)' <=> OfRecord(u)
        /\ IntoLicense(u)' <=> IntoLicense(u)
        /\ IntoRecord(u)' <=> IntoRecord(u)
  BY <1>2, <1>5, <1>7, OthersKeep
<1>11. /\ OfLicense(t)' <=> OfLicense(t)
       /\ OfRecord(t)' <=> OfRecord(t)
       /\ IntoLicense(t)' <=> OfLicense(t)
       /\ IntoRecord(t)' <=> OfRecord(t)
  BY <1>3, <1>6, <1>7, <1>9, ListsDiffer DEF OfLicense, OfRecord, IntoLicense, IntoRecord
<1>12. FilesTypeOK'
  BY <1>4, <1>5, <1>8, <1>9, FileTypes
<1>13. Shapes'
  <2>1. \/ OfRecord(t)' /\ q.duty \in {"check", "activate"} /\ q.text # Blank
        \/ OfLicense(t)' /\ q.todo # KeyOnly /\ q.duty = "activate" /\ q.text # Blank
    BY <1>1, <1>3, <1>4, <1>6, <1>7, <1>11, ListsDiffer DEF Shapes, OfLicense, OfRecord
  <2> QED BY <1>7, <1>9, <1>10, <2>1 DEF Shapes
<1>14. Present'
  BY <1>4, <1>5, <1>8, FileTypes DEF Present, Missing, Blank
<1>15. Alone'
  BY <1>7, <1>9, <1>10, <1>11 DEF Alone
<1>16. LicenseAgrees' /\ RecordAgrees'
  <2>1. CASE f \in LicenseGroup
    BY <1>2, <1>5, <1>8, <1>10, <1>11, <2>1, GroupsAre DEF LicenseAgrees, RecordAgrees, IntoRecord
  <2>2. CASE f \notin LicenseGroup
    <3>1. newest' = newest
      BY <1>5, <1>6, <2>2, GroupsAre
    <3> QED BY <1>2, <1>5, <1>8, <1>10, <1>11, <2>2, <3>1, GroupsAre
            DEF LicenseAgrees, RecordAgrees, Agree, IntoLicense
  <2> QED BY <2>1, <2>2
<1>17. CleanWrites'
  <2> DEFINE P(u) ==
        thread[u].clean =>
        /\ thread[u].duty = "activate" /\ thread[u].todo \in {SealShadow, ShadowOnly} =>
            newest = thread[u].text /\ files["key"] \in {Missing, thread[u].text}
        /\ thread[u].duty = "activate" /\ thread[u].todo = ShadowOnly => files["seal"] = thread[u].text
        /\ thread[u].todo = TimeSealOnly => files["time"] = thread[u].text
        /\ thread[u].duty = "check" /\ OfLicense(u) /\ ~ thread[u].disturbed /\ LicenseGroup \notin torn =>
            /\ thread[u].text = newest /\ files["seal"] = newest
            /\ thread[u].todo = KeyOnly => files["shadow"] = newest
            /\ thread[u].todo = ShadowOnly => files["key"] \in {Missing, newest}
  <2>1. ASSUME NEW u \in Checkers \ {t}, thread[u].clean
        PROVE  /\ f \in LicenseGroup => ~ OfLicense(u)
               /\ f \notin LicenseGroup => ~ OfRecord(u)
    BY <1>2, <2>1 DEF Alone
  <2>2. ASSUME NEW u \in Checkers \ {t} PROVE P(u)'
    <3>1. CASE f \in LicenseGroup
      <4>1. thread[u].clean => ~ OfLicense(u) /\ files'["time"] = files["time"]
        BY <1>8, <2>1, <3>1, GroupsAre
      <4> QED BY <1>9, <1>10, <4>1 DEF CleanWrites, OfLicense
    <3>2. CASE f \notin LicenseGroup
      <4>1. thread[u].clean => ~ OfRecord(u)
        BY <2>1, <3>2
      <4>2. /\ files'["key"] = files["key"] /\ files'["seal"] = files["seal"]
            /\ files'["shadow"] = files["shadow"] /\ newest' = newest
        BY <1>5, <1>6, <1>8, <3>2, GroupsAre
      <4> QED BY <1>5, <1>9, <1>10, <4>1, <4>2 DEF CleanWrites, OfRecord
    <3> QED BY <3>1, <3>2
  <2>3. P(t)'
    <3>1. thread[t].duty = "check" => ~ OfLicense(t)
      BY <1>3, ListsDiffer DEF OfLicense
    <3>2. thread[t].clean /\ more = ShadowOnly => newest = thread[t].text
                                                  /\ files["key"] \in {Missing, thread[t].text}
      BY <1>3, <1>6, ListsDiffer DEF CleanWrites
    <3>3. /\ more = SealShadow => newest' = thread[t].text /\ files'["key"] = thread[t].text
          /\ more = ShadowOnly => /\ newest' = newest /\ files'["key"] = files["key"]
                                  /\ files'["seal"] = thread[t].text
          /\ more = TimeSealOnly => files'["time"] = thread[t].text
      BY <1>5, <1>6, <1>8, ListsDiffer, GroupsAre
    <3> QED BY <1>6, <1>7, <1>9, <1>11, <3>1, <3>2, <3>3, ListsDiffer
  <2> QED BY <2>2, <2>3 DEF CleanWrites
<1>18. ReadsAgree' /\ ExcusedRead' /\ ComplaintNeedsCause'
  <2>1. ~ Reading(q) /\ q.verdict \notin {"modified", "stale"}
    BY <1>7 DEF Reading
  <2>2. f \notin LicenseGroup => newest' = newest /\ ~ IntoLicense(t)'
    BY <1>2, <1>5, <1>6, <1>11, GroupsAre
  <2> QED BY <1>2, <1>5, <1>7, <1>8, <2>1, <2>2, ReadersKeep
<1> QED BY <1>12, <1>13, <1>14, <1>15, <1>16, <1>17, <1>18

\* What a thread does next is neither to write nor to read a seal.
LEMMA FollowingIs ==
    ASSUME FilesInv, NEW t \in Checkers, thread[t].pc = "write", NEW a \in CheckerStates,
           a.duty = thread[t].duty, a.todo = thread[t].todo
    PROVE  LET q == Following(a)
           IN  /\ q \in CheckerStates /\ q.todo = <<>> /\ ~ q.half /\ q.pc # "write"
               /\ ~ Reading(q) /\ q.verdict \notin {"modified", "stale"}
               /\ q.pc # "rest" => q.verdict = "none"
<1> USE DEF FilesInv
<1>1. \A d \in {"check", "activate"} : \A p \in {"find", "claim"} :
        LET q == [Resting EXCEPT !.duty = d, !.pc = p]
        IN  q \in CheckerStates /\ q.todo = <<>> /\ ~ q.half /\ q.pc = p /\ q.verdict = "none"
  BY RestingIs DEF CheckerStates
<1>2. LET q == [Resting EXCEPT !.verdict = "licensed"]
      IN  q \in CheckerStates /\ q.todo = <<>> /\ ~ q.half /\ q.pc = "rest" /\ q.verdict = "licensed"
  BY RestingIs DEF CheckerStates
<1>3. a.duty \in {"check", "activate"}
  BY DEF Shapes
<1>4. \/ Following(a) = [Resting EXCEPT !.duty = a.duty, !.pc = IF a.duty = "check" THEN "find" ELSE "claim"]
      \/ Following(a) = Resting
      \/ Following(a) = [Resting EXCEPT !.duty = "check", !.pc = "find"]
      \/ Following(a) = [Resting EXCEPT !.verdict = "licensed"]
  BY DEF Following
<1>5. \/ \E d \in {"check", "activate"}, p \in {"find", "claim"} :
            Following(a) = [Resting EXCEPT !.duty = d, !.pc = p]
      \/ Following(a) = Resting
      \/ Following(a) = [Resting EXCEPT !.verdict = "licensed"]
  <2> DEFINE p == IF a.duty = "check" THEN "find" ELSE "claim"
  <2>1. p \in {"find", "claim"}
    OBVIOUS
  <2> HIDE DEF p
  <2> QED BY <1>3, <1>4, <2>1 DEF p
<1> DEFINE Over(q) == /\ q \in CheckerStates /\ q.todo = <<>> /\ ~ q.half
                      /\ q.pc \in {"rest", "find", "claim"} /\ q.verdict \in {"none", "licensed"}
                      /\ q.pc # "rest" => q.verdict = "none"
<1>6. Over(Following(a))
  <2>1. CASE \E d \in {"check", "activate"}, p \in {"find", "claim"} :
                Following(a) = [Resting EXCEPT !.duty = d, !.pc = p]
    <3> PICK d \in {"check", "activate"}, p \in {"find", "claim"} :
                Following(a) = [Resting EXCEPT !.duty = d, !.pc = p]
      BY <2>1
    <3> DEFINE r == [Resting EXCEPT !.duty = d, !.pc = p]
    <3>1. Over(r) /\ Following(a) = r
      BY <1>1
    <3> HIDE DEF r
    <3> QED BY <3>1
  <2>2. CASE Following(a) = Resting
    BY <2>2, RestingIs
  <2>3. CASE Following(a) = [Resting EXCEPT !.verdict = "licensed"]
    BY <1>2, <2>3
  <2> QED BY <1>5, <2>1, <2>2, <2>3
<1> QED BY <1>6 DEF Reading

\* The last write of a thread.
LEMMA FillEnds ==
    ASSUME FilesInv, NEW t \in Checkers, Fill(t), thread[t].todo \in {ShadowOnly, KeyOnly, TimeSealOnly}
    PROVE  FilesInv'
<1> USE DEF FilesInv
<1> DEFINE a == thread[t]
           f == Head(a.todo)
           q == Following(a)
<1>1. a.half /\ a.pc = "write"
  BY DEF Fill, Shapes
<1>2. /\ a \in CheckerStates /\ f \in FileNames
      /\ OfLicense(t) <=> f \in LicenseGroup
      /\ OfRecord(t) <=> f \notin LicenseGroup
  BY <1>1, WriterIs
<1>3. /\ a.todo = KeyOnly => a.duty = "check"
      /\ a.todo = ShadowOnly => a.duty \in {"check", "activate"}
      /\ a.todo = TimeSealOnly => a.text # Blank
      /\ a.text \in Nat
  BY <1>1, <1>2, ListsDiffer DEF Shapes, OfLicense, OfRecord, CheckerStates
<1>4. /\ f = IF a.todo = ShadowOnly THEN "shadow" ELSE IF a.todo = KeyOnly THEN "key" ELSE "timeSeal"
      /\ Len(a.todo) = 1 /\ f # "time" /\ f # "seal"
      /\ f \in LicenseGroup <=> a.todo \in {ShadowOnly, KeyOnly}
      /\ GroupOf(f) = IF f \in LicenseGroup THEN LicenseGroup ELSE RecordGroup
  BY Lists, ListsDiffer, GroupsAre
<1>5. /\ files' = [files EXCEPT ![f] = a.text] /\ Moved(t, f, q)
      /\ newest' = newest /\ torn' = Settled(a)
      /\ UNCHANGED <<texts, duties, stops>>
  BY <1>3, <1>4, ListsDiffer DEF Fill, Rest
<1>6. /\ f \in LicenseGroup => torn' = IF ~ a.clean \/ a.disturbed THEN torn \cup {LicenseGroup}
                                       ELSE IF a.duty = "check" THEN torn ELSE torn \ {LicenseGroup}
      /\ f \notin LicenseGroup => torn' \in {torn \cup {RecordGroup}, torn \ {RecordGroup}}
      /\ f \notin LicenseGroup /\ ~ a.clean => RecordGroup \in torn'
  BY <1>4, <1>5, GroupsAre DEF Settled
<1>7. /\ q \in CheckerStates /\ q.todo = <<>> /\ ~ q.half /\ q.pc # "write"
      /\ ~ Reading(q) /\ q.verdict \notin {"modified", "stale"}
      /\ q.pc # "rest" => q.verdict = "none"
  BY <1>1, <1>2, FollowingIs
<1> HIDE DEF f, q
<1>8. files' \in [FileNames -> Nat \cup {Missing}] /\ files'[f] = a.text
      /\ \A g \in FileNames \ {f} : files'[g] = files[g]
  BY <1>2, <1>3, <1>5, FileTypes
<1>9. /\ thread' \in [Checkers -> CheckerStates] /\ thread'[t] = q
      /\ \A u \in Checkers \ {t} :
            /\ thread'[u].duty = thread[u].duty /\ thread'[u].pc = thread[u].pc
            /\ thread'[u].todo = thread[u].todo /\ thread'[u].half = thread[u].half
            /\ thread'[u].text = thread[u].text /\ thread'[u].clean = thread[u].clean
            /\ thread'[u].verdict = thread[u].verdict
            /\ thread[u].disturbed => thread'[u].disturbed
  BY <1>2, <1>5, <1>7, MovedIs
<1>10. \A u \in Checkers \ {t} :
        /\ OfLicense(u)' <=> OfLicense(u)
        /\ OfRecord(u)' <=> OfRecord(u)
        /\ IntoLicense(u)' <=> IntoLicense(u)
        /\ IntoRecord(u)' <=> IntoRecord(u)
  BY <1>2, <1>5, <1>7, OthersKeep
<1>11. ~ OfLicense(t)' /\ ~ OfRecord(t)' /\ ~ IntoLicense(t)' /\ ~ IntoRecord(t)'
  BY <1>7, <1>9, ListsDiffer DEF OfLicense, OfRecord, IntoLicense, IntoRecord
<1>12. FilesTypeOK'
  <2>1. torn' \subseteq Groups
    BY <1>6, FileTypes, GroupsAre
  <2> QED BY <1>5, <1>8, <1>9, <2>1, FileTypes
<1>13. Shapes'
  BY <1>7, <1>9, <1>10 DEF Shapes
<1>14. Present'
  BY <1>3, <1>5, <1>8, FileTypes DEF Present, Missing
<1>15. Alone'
  BY <1>9, <1>10, <1>11 DEF Alone
<1>16. LicenseAgrees'
  <2>1. CASE f \in LicenseGroup
    <3>1. CASE ~ a.clean \/ a.disturbed
      BY <1>6, <2>1, <3>1 DEF LicenseAgrees
    <3>2. CASE a.clean /\ ~ a.disturbed /\ (a.duty = "activate" \/ LicenseGroup \notin torn)
      <4>1. CASE a.todo = KeyOnly
        <5>1. a.text = newest /\ files["seal"] = newest /\ files["shadow"] = newest
          BY <1>2, <1>3, <2>1, <3>2, <4>1 DEF CleanWrites
        <5> QED BY <1>4, <1>5, <1>8, <4>1, <5>1, ListsDiffer, GroupsAre DEF LicenseAgrees, Agree
      <4>2. CASE a.todo = ShadowOnly
        <5>1. a.text = newest /\ files["seal"] = newest /\ files["key"] \in {Missing, newest}
          BY <1>2, <1>3, <2>1, <3>2, <4>2 DEF CleanWrites
        <5> QED BY <1>4, <1>5, <1>8, <4>2, <5>1, ListsDiffer, GroupsAre DEF LicenseAgrees, Agree
      <4> QED BY <1>4, <2>1, <4>1, <4>2
    <3>3. CASE a.clean /\ ~ a.disturbed /\ a.duty = "check" /\ LicenseGroup \in torn
      BY <1>6, <2>1, <3>3 DEF LicenseAgrees
    <3> QED BY <1>3, <1>4, <2>1, <3>1, <3>2, <3>3
  <2>2. CASE f \notin LicenseGroup
    <3>1. ~ IntoLicense(t) /\ (LicenseGroup \in torn' <=> LicenseGroup \in torn)
      BY <1>2, <1>6, <2>2, GroupsAre DEF IntoLicense
    <3> QED BY <1>5, <1>8, <1>10, <1>11, <2>2, <3>1, GroupsAre DEF LicenseAgrees, Agree
  <2> QED BY <2>1, <2>2
<1>17. RecordAgrees'
  <2>1. CASE f \in LicenseGroup
    <3>1. ~ IntoRecord(t) /\ (RecordGroup \in torn' <=> RecordGroup \in torn)
      BY <1>2, <1>6, <2>1, GroupsAre DEF IntoRecord
    <3> QED BY <1>5, <1>8, <1>10, <1>11, <2>1, <3>1, GroupsAre DEF RecordAgrees
  <2>2. CASE f \notin LicenseGroup
    <3>1. a.todo = TimeSealOnly /\ f = "timeSeal"
      BY <1>4, <2>2, ListsDiffer
    <3>2. a.clean => files["time"] = a.text
      BY <3>1 DEF CleanWrites
    <3> QED BY <1>3, <1>6, <1>8, <2>2, <3>1, <3>2, GroupsAre DEF RecordAgrees
  <2> QED BY <2>1, <2>2
<1>18. CleanWrites'
  <2> DEFINE P(u) ==
        thread[u].clean =>
        /\ thread[u].duty = "activate" /\ thread[u].todo \in {SealShadow, ShadowOnly} =>
            newest = thread[u].text /\ files["key"] \in {Missing, thread[u].text}
        /\ thread[u].duty = "activate" /\ thread[u].todo = ShadowOnly => files["seal"] = thread[u].text
        /\ thread[u].todo = TimeSealOnly => files["time"] = thread[u].text
        /\ thread[u].duty = "check" /\ OfLicense(u) /\ ~ thread[u].disturbed /\ LicenseGroup \notin torn =>
            /\ thread[u].text = newest /\ files["seal"] = newest
            /\ thread[u].todo = KeyOnly => files["shadow"] = newest
            /\ thread[u].todo = ShadowOnly => files["key"] \in {Missing, newest}
  <2>1. ASSUME NEW u \in Checkers \ {t}, thread[u].clean
        PROVE  /\ f \in LicenseGroup => ~ OfLicense(u)
               /\ f \notin LicenseGroup => ~ OfRecord(u)
    BY <1>2, <2>1 DEF Alone
  <2>2. ASSUME NEW u \in Checkers \ {t} PROVE P(u)'
    <3>1. CASE f \in LicenseGroup
      <4>1. thread[u].clean => ~ OfLicense(u) /\ files'["time"] = files["time"]
        BY <1>8, <2>1, <3>1, GroupsAre
      <4> QED BY <1>9, <1>10, <4>1 DEF CleanWrites, OfLicense
    <3>2. CASE f \notin LicenseGroup
      <4>1. thread[u].clean => ~ OfRecord(u)
        BY <2>1, <3>2
      <4>2. /\ files'["key"] = files["key"] /\ files'["seal"] = files["seal"]
            /\ files'["shadow"] = files["shadow"]
            /\ LicenseGroup \in torn' <=> LicenseGroup \in torn
        BY <1>6, <1>8, <3>2, GroupsAre
      <4> QED BY <1>5, <1>9, <1>10, <4>1, <4>2 DEF CleanWrites, OfRecord
    <3> QED BY <3>1, <3>2
  <2>3. P(t)'
    BY <1>7, <1>9, <1>11, ListsDiffer
  <2> QED BY <2>2, <2>3 DEF CleanWrites
<1>19. ReadsAgree' /\ ExcusedRead' /\ ComplaintNeedsCause'
  <2>1. f \notin LicenseGroup /\ LicenseGroup \notin torn' => LicenseGroup \notin torn
    BY <1>6, GroupsAre
  <2> QED BY <1>2, <1>5, <1>7, <1>8, <1>11, <2>1, ReadersKeep
<1> QED BY <1>12, <1>13, <1>14, <1>15, <1>16, <1>17, <1>18, <1>19

LEMMA RestIs ==
    ASSUME NEW a \in CheckerStates
    PROVE  /\ a.todo = SealShadow => Rest(a) = [a EXCEPT !.half = FALSE, !.todo = Tail(a.todo)]
           /\ a.todo \in {ShadowOnly, TimeSealOnly} => Rest(a) = Following(a)
<1>1. ASSUME a.todo = SealShadow PROVE Rest(a) = [a EXCEPT !.half = FALSE, !.todo = Tail(a.todo)]
  <2>1. Len(a.todo) > 1
    BY <1>1, Lists
  <2> QED BY <2>1 DEF Rest, CheckerStates
<1>2. ASSUME a.todo \in {ShadowOnly, TimeSealOnly} PROVE Rest(a) = Following(a)
  <2>1. Len(a.todo) = 1
    BY <1>2, Lists
  <2>2. ~ (Len(a.todo) > 1)
    BY <2>1
  <2> QED BY <2>2, Zenon DEF Rest
<1> QED BY <1>1, <1>2

\* A write that fails.
LEMMA WriteFailsKeeps ==
    ASSUME FilesInv, NEW t \in Checkers, WriteFails(t)
    PROVE  FilesInv'
<1> USE DEF FilesInv
<1> DEFINE a == thread[t]
           f == Head(a.todo)
<1>1. a.pc = "write" /\ ~ a.half /\ UNCHANGED <<files, texts, newest, duties, stops>>
  BY DEF WriteFails
<1>2. /\ a \in CheckerStates /\ a.verdict = "none"
      /\ OfLicense(t) <=> f \in LicenseGroup
      /\ OfRecord(t) <=> f \notin LicenseGroup
  BY <1>1, WriterIs
<1>3. /\ a.todo \in {KeySealShadow, SealShadow, ShadowOnly, KeyOnly, TimeAndSeal, TimeSealOnly}
      /\ a.todo = KeyOnly => a.duty = "check"
      /\ a.todo = SealShadow => a.duty = "activate" /\ a.text # Blank
  BY <1>1, ListsDiffer DEF Shapes, OfLicense, OfRecord
<1>4. /\ f = IF a.todo \in {KeySealShadow, KeyOnly} THEN "key"
             ELSE IF a.todo = SealShadow THEN "seal" ELSE IF a.todo = ShadowOnly THEN "shadow"
             ELSE IF a.todo = TimeAndSeal THEN "time" ELSE "timeSeal"
      /\ GroupOf(f) = IF f \in LicenseGroup THEN LicenseGroup ELSE RecordGroup
  BY <1>3, Lists, ListsDiffer, GroupsAre
<1>5. torn' = IF f \in {"key", "time"} THEN torn ELSE torn \cup {GroupOf(f)}
  BY DEF WriteFails
<1> DEFINE b == [a EXCEPT !.clean = FALSE]
           c == [b EXCEPT !.half = FALSE, !.todo = Tail(a.todo)]
<1>6. /\ b \in CheckerStates /\ b.duty = a.duty /\ b.todo = a.todo
      /\ a.todo = SealShadow => /\ c \in CheckerStates /\ c.duty = a.duty /\ c.todo = ShadowOnly
                                /\ c.pc = "write" /\ ~ c.half /\ c.text = a.text /\ ~ c.clean
                                /\ c.verdict = "none"
  <2>1. b \in CheckerStates /\ b.duty = a.duty /\ b.todo = a.todo /\ b.pc = a.pc /\ b.text = a.text
        /\ ~ b.clean /\ b.verdict = a.verdict
    BY <1>2 DEF CheckerStates
  <2>2. a.todo = SealShadow => Tail(a.todo) = ShadowOnly /\ ShadowOnly \in Seq(FileNames)
    BY Lists
  <2> HIDE DEF b
  <2> QED BY <1>1, <1>2, <2>1, <2>2 DEF CheckerStates
<1>7. PICK q : /\ thread' = [thread EXCEPT ![t] = q]
               /\ \/ q = Following(a) \/ q = Following(b) \/ q = Resting
                  \/ q = [Resting EXCEPT !.verdict = "not found"]
                  \/ q = c /\ a.todo = SealShadow
  <2>1. a.todo = SealShadow => Rest(b) = c
    BY <1>6, RestIs
  <2>2. a.todo \in {ShadowOnly, TimeSealOnly} => Rest(b) = Following(b)
    BY <1>6, RestIs
  <2>3. thread' = [thread EXCEPT ![t] =
                IF f = "time" THEN Following(a)
                ELSE IF f # "key" THEN Rest(b)
                ELSE IF a.duty = "check" THEN [Resting EXCEPT !.verdict = "not found"]
                ELSE Resting]
    BY DEF WriteFails
  <2>4. f \notin {"time", "key"} => a.todo \in {SealShadow, ShadowOnly, TimeSealOnly}
    BY <1>3, <1>4
  <2> HIDE DEF a, f, b, c
  <2> QED BY <2>1, <2>2, <2>3, <2>4
<1>8. /\ q \in CheckerStates /\ ~ q.half /\ ~ Reading(q) /\ q.verdict \notin {"modified", "stale"}
      /\ q.pc # "rest" => q.verdict = "none"
      /\ \/ q.todo = <<>> /\ q.pc # "write"
         \/ a.todo = SealShadow /\ q = c
  <2>1. LET r == [Resting EXCEPT !.verdict = "not found"]
        IN  r \in CheckerStates /\ ~ r.half /\ r.pc = "rest" /\ r.todo = <<>> /\ r.verdict = "not found"
    BY RestingIs DEF CheckerStates
  <2>2. CASE q = [Resting EXCEPT !.verdict = "not found"]
    BY <2>1, <2>2 DEF Reading
  <2>3. CASE q = Resting
    BY <2>3, RestingIs DEF Reading
  <2>4. CASE q = Following(a) \/ q = Following(b)
    BY <1>1, <1>2, <1>6, <2>4, FollowingIs
  <2>5. CASE q = c /\ a.todo = SealShadow
    BY <1>6, <2>5 DEF Reading
  <2> QED BY <1>7, <2>2, <2>3, <2>4, <2>5
<1> HIDE DEF b, c, f
<1>9. \A u \in Checkers : IF u = t THEN thread'[u] = q ELSE thread'[u] = thread[u]
  BY <1>7, FileTypes
<1>10. \A u \in Checkers \ {t} :
        /\ OfLicense(u)' <=> OfLicense(u)
        /\ OfRecord(u)' <=> OfRecord(u)
        /\ IntoLicense(u)' <=> IntoLicense(u)
        /\ IntoRecord(u)' <=> IntoRecord(u)
  BY <1>9 DEF OfLicense, OfRecord, IntoLicense, IntoRecord
<1>11. /\ OfLicense(t)' => f = "seal" /\ q.duty = "activate" /\ q.todo = ShadowOnly /\ ~ q.clean
                           /\ q.text # Blank /\ q.pc = "write" /\ q.verdict = "none" /\ OfLicense(t)
       /\ ~ OfRecord(t)'
       /\ q.pc = "write" => OfLicense(t)' /\ q.todo = ShadowOnly
       /\ q.pc # "write" => q.todo = <<>>
  BY <1>3, <1>4, <1>6, <1>8, <1>9, ListsDiffer DEF OfLicense, OfRecord
<1>12. /\ IntoLicense(t) => f \in {"seal", "shadow"}
       /\ IntoRecord(t) => f = "timeSeal"
  BY <1>1, <1>3, <1>4, ListsDiffer DEF IntoLicense, IntoRecord, OfLicense, OfRecord
<1>13. /\ f \in {"seal", "shadow"} => torn' = torn \cup {LicenseGroup}
       /\ f = "timeSeal" => torn' = torn \cup {RecordGroup}
       /\ f \in {"key", "time"} => torn' = torn
       /\ f \in {"key", "seal", "shadow", "time", "timeSeal"}
  BY <1>4, <1>5, GroupsAre
<1>14. FilesTypeOK'
  <2>1. thread' \in [Checkers -> CheckerStates]
    BY <1>7, <1>8, FileTypes
  <2>2. torn' \subseteq Groups
    BY <1>13, GroupsAre, FileTypes
  <2> QED BY <1>1, <2>1, <2>2, FileTypes
<1>15. Shapes'
  BY <1>8, <1>9, <1>10, <1>11, ListsDiffer DEF Shapes
<1>16. Present' /\ Alone'
  BY <1>1, <1>9, <1>10, <1>11 DEF Present, Alone
<1>17. LicenseAgrees' /\ RecordAgrees'
  BY <1>1, <1>10, <1>12, <1>13 DEF LicenseAgrees, RecordAgrees, Agree
<1>18. CleanWrites'
  <2>2. q.clean => q.todo = <<>>
    BY <1>11
  <2> QED BY <1>1, <1>9, <1>10, <1>11, <1>13, <2>2, ListsDiffer DEF CleanWrites
<1>19. ReadsAgree'
  <2>1. LicenseGroup \notin torn' => LicenseGroup \notin torn /\ ~ IntoLicense(t)'
    BY <1>11, <1>13 DEF IntoLicense
  <2> QED BY <1>1, <1>8, <1>9, <1>10, <2>1 DEF ReadsAgree
<1>20. ExcusedRead' /\ ComplaintNeedsCause'
  BY <1>1, <1>8, <1>9 DEF ExcusedRead, ComplaintNeedsCause, Reading
<1> QED BY <1>14, <1>15, <1>16, <1>17, <1>18, <1>19, <1>20

----------------------------------------------------------------------------
\* The records that To and Says make.
LEMMA ToIs ==
    ASSUME FilesTypeOK, NEW t \in Checkers, NEW pc \in {"key", "time", "shadow"}, To(t, pc)
    PROVE  \E q \in CheckerStates :
            /\ thread' = [thread EXCEPT ![t] = q]
            /\ q.pc = pc /\ q.duty = thread[t].duty /\ q.todo = thread[t].todo /\ q.half = thread[t].half
            /\ q.raw = thread[t].raw /\ q.disturbed = thread[t].disturbed
            /\ q.excused = thread[t].excused /\ q.verdict = thread[t].verdict
<1> DEFINE q == [thread[t] EXCEPT !.pc = pc]
<1>1. thread[t] \in CheckerStates
  BY FileTypes
<1>2. /\ q \in CheckerStates
      /\ q.pc = pc /\ q.duty = thread[t].duty /\ q.todo = thread[t].todo /\ q.half = thread[t].half
      /\ q.raw = thread[t].raw /\ q.disturbed = thread[t].disturbed
      /\ q.excused = thread[t].excused /\ q.verdict = thread[t].verdict
  BY <1>1 DEF CheckerStates
<1>3. thread' = [thread EXCEPT ![t] = q]
  BY FileTypes DEF To, CheckerStates
<1> HIDE DEF q
<1> QED BY <1>2, <1>3

LEMMA SaysIs ==
    ASSUME FilesTypeOK, NEW t \in Checkers,
           NEW verdict \in {"licensed", "modified", "stale", "not found", "unreadable"}, Says(t, verdict)
    PROVE  \E q \in CheckerStates :
            /\ thread' = [thread EXCEPT ![t] = q]
            /\ q.pc = "rest" /\ q.todo = <<>> /\ ~ q.half
            /\ q.excused = thread[t].excused /\ q.verdict = verdict
<1> DEFINE q == [Resting EXCEPT !.verdict = verdict, !.excused = thread[t].excused]
<1>1. thread[t] \in CheckerStates
  BY FileTypes
<1>2. thread[t].excused \in BOOLEAN
  BY <1>1 DEF CheckerStates
<1>3. /\ q \in CheckerStates /\ q.pc = "rest" /\ q.todo = <<>> /\ ~ q.half
      /\ q.excused = thread[t].excused /\ q.verdict = verdict
  BY <1>2, RestingIs DEF CheckerStates
<1>4. thread' = [thread EXCEPT ![t] = q]
  BY DEF Says
<1> HIDE DEF q
<1> QED BY <1>3, <1>4

LEMMA FilesSteps == FilesInv /\ [FilesNext]_fileVars => FilesInv'
<1> SUFFICES ASSUME FilesInv, [FilesNext]_fileVars PROVE FilesInv'
  OBVIOUS
<1> USE DEF FilesInv
<1>a. texts \in Nat /\ texts > 0 /\ duties \in Nat /\ stops \in Nat
  BY FileTypes DEF Present
<1>b. \A t \in Checkers : thread[t] \in CheckerStates
  BY FileTypes
<1>c. \A t \in Checkers : thread[t].pc # "write" => thread[t].todo = <<>> /\ ~ thread[t].half
  BY DEF Shapes
<1>d. /\ ~ SomeoneWrites(LicenseGroup) => \A u \in Checkers : ~ OfLicense(u) /\ ~ IntoLicense(u)
      /\ ~ SomeoneWrites(RecordGroup) => \A u \in Checkers : ~ IntoRecord(u)
  BY WritersAre DEF IntoLicense, IntoRecord
<1>e. files \in [FileNames -> Nat \cup {Missing}] /\ \A f \in FileNames : files[f] = Missing => f = "key"
  BY FileTypes DEF Present
<1>1. ASSUME NEW t \in Checkers, NEW d \in {"check", "activate"}, Begin(t, d) PROVE FilesInv'
  <2>1. /\ thread[t].pc = "rest" /\ duties' = duties + 1 /\ texts' = texts + 1
        /\ Start(t, d, TimeAndSeal, texts') /\ UNCHANGED <<files, newest, torn, stops>>
    BY <1>1 DEF Begin, TimeAndSeal
  <2>2. texts' \in Nat /\ texts' > 0 /\ texts' # Blank /\ duties' \in Nat /\ stops' \in Nat
    BY <1>a, <2>1 DEF Blank
  <2>3. thread[t].todo = <<>>
    BY <1>c, <2>1
  <2> DEFINE text == texts'
  <2>4. Start(t, d, TimeAndSeal, text) /\ text \in Nat /\ text # Blank
    BY <2>1, <2>2
  <2> HIDE DEF text
  <2> QED BY <2>1, <2>2, <2>3, <2>4, ListsDiffer, StartKeeps
<1>2. ASSUME NEW t \in Checkers, SaveLicense(t) PROVE FilesInv'
  <2>1. /\ thread[t].pc = "claim" /\ texts' = texts + 1
        /\ Start(t, "activate", KeySealShadow, texts') /\ UNCHANGED <<files, newest, torn, duties, stops>>
    BY <1>2 DEF SaveLicense, KeySealShadow
  <2>2. texts' \in Nat /\ texts' > 0 /\ texts' # Blank /\ duties' \in Nat /\ stops' \in Nat
    BY <1>a, <2>1 DEF Blank
  <2>3. thread[t].todo = <<>>
    BY <1>c, <2>1
  <2> DEFINE text == texts'
  <2>4. Start(t, "activate", KeySealShadow, text) /\ text \in Nat /\ text # Blank
    BY <2>1, <2>2
  <2> HIDE DEF text
  <2> QED BY <2>1, <2>2, <2>3, <2>4, ListsDiffer, StartKeeps
<1>3. ASSUME NEW t \in Checkers, BeginOffline(t) \/ ClaimRefused(t) PROVE FilesInv'
  <2> DEFINE r == [Resting EXCEPT !.duty = "check", !.pc = "find"]
  <2>1. r \in CheckerStates /\ r.todo = <<>> /\ r.pc = "find" /\ ~ r.half /\ r.verdict = "none"
    BY RestingIs DEF CheckerStates
  <2>2. /\ thread' = [thread EXCEPT ![t] = r] \/ thread' = [thread EXCEPT ![t] = Resting]
        /\ thread[t].pc \in {"rest", "claim"} /\ duties' \in Nat
        /\ UNCHANGED <<files, texts, newest, torn, stops>>
    BY <1>3, <1>a DEF BeginOffline, ClaimRefused
  <2> HIDE DEF r
  <2>3. PICK q \in {r, Resting} : thread' = [thread EXCEPT ![t] = q]
    BY <2>2
  <2>4. q \in CheckerStates /\ q.todo = <<>> /\ ~ q.half /\ q.pc \in {"rest", "find"} /\ q.verdict = "none"
    BY <2>1, RestingIs
  <2>5. ~ Reading(q)
    BY <2>4 DEF Reading
  <2> QED BY <1>a, <1>c, <2>2, <2>3, <2>4, <2>5, CheckerStep
<1>4. ASSUME NEW t \in Checkers, FindKey(t) PROVE FilesInv'
  <2>1. thread[t].pc = "find" /\ UNCHANGED <<files, texts, newest, torn, duties, stops>>
        /\ thread[t].todo = <<>> /\ ~ thread[t].half
    BY <1>4, <1>c DEF FindKey
  <2>2. CASE To(t, "key")
    <3> PICK q \in CheckerStates :
            /\ thread' = [thread EXCEPT ![t] = q]
            /\ q.pc = "key" /\ q.todo = thread[t].todo /\ q.half = thread[t].half
            /\ q.excused = thread[t].excused /\ q.verdict = thread[t].verdict
      BY <2>2, ToIs
    <3>1. ~ Reading(q)
      BY DEF Reading
    <3>2. q.verdict = "none"
      BY <2>1 DEF Shapes
    <3> QED BY <1>a, <2>1, <3>1, <3>2, CheckerStep
  <2>3. CASE Says(t, "not found")
    <3> PICK q \in CheckerStates :
            /\ thread' = [thread EXCEPT ![t] = q]
            /\ q.pc = "rest" /\ q.todo = <<>> /\ ~ q.half /\ q.verdict = "not found"
      BY <2>3, SaysIs
    <3>1. ~ Reading(q)
      BY DEF Reading
    <3> QED BY <1>a, <2>1, <3>1, CheckerStep
  <2>4. CASE Start(t, "check", <<"key">>, files["shadow"]) /\ files["shadow"] # Missing
    <3>1. Start(t, "check", KeyOnly, files["shadow"]) /\ files["shadow"] \in Nat
      BY <1>e, <2>4, GroupsAre DEF KeyOnly
    <3>2. LicenseGroup \notin torn /\ (\A u \in Checkers : ~ OfLicense(u)) => files["shadow"] = newest
      BY DEF LicenseAgrees, IntoLicense, Agree
    <3> QED BY <1>a, <2>1, <3>1, <3>2, ListsDiffer, StartKeeps
  <2> QED BY <1>4, <2>2, <2>3, <2>4 DEF FindKey
<1>5. ASSUME NEW t \in Checkers, ReadKey(t) PROVE FilesInv'
  <2>1. thread[t].pc = "key" /\ UNCHANGED <<files, texts, newest, torn, duties, stops>>
        /\ thread[t].todo = <<>> /\ ~ thread[t].half
    BY <1>5, <1>c DEF ReadKey
  <2>2. CASE Says(t, "unreadable")
    <3> PICK q \in CheckerStates :
            /\ thread' = [thread EXCEPT ![t] = q]
            /\ q.pc = "rest" /\ q.todo = <<>> /\ ~ q.half /\ q.verdict = "unreadable"
      BY <2>2, SaysIs
    <3>1. ~ Reading(q)
      BY DEF Reading
    <3> QED BY <1>a, <2>1, <3>1, CheckerStep
  <2>3. CASE files["key"] # Missing
    <3> DEFINE unsure == SomeoneWrites(LicenseGroup)
               excuse == unsure \/ LicenseGroup \in torn
    <3>1. thread' = [thread EXCEPT ![t].pc = "seal", ![t].raw = files["key"],
                            ![t].disturbed = unsure, ![t].excused = excuse]
      BY <1>5, <2>3 DEF ReadKey
    <3>2. unsure \in BOOLEAN /\ excuse \in BOOLEAN /\ files["key"] \in Nat
      BY <1>e, <2>3, GroupsAre DEF SomeoneWrites
    <3>3. ~ unsure /\ LicenseGroup \notin torn =>
            /\ files["key"] = newest /\ files["seal"] = newest /\ newest # Blank
            /\ \A u \in Checkers : ~ IntoLicense(u)
      BY <1>d, <2>3 DEF LicenseAgrees, Agree, Present, Blank
    <3> HIDE DEF unsure, excuse
    <3> DEFINE q == [thread[t] EXCEPT !.pc = "seal", !.raw = files["key"],
                                      !.disturbed = unsure, !.excused = excuse]
    <3>4. q \in CheckerStates /\ q.pc = "seal" /\ q.raw = files["key"] /\ q.todo = thread[t].todo
          /\ q.half = thread[t].half /\ q.disturbed = unsure /\ q.excused = excuse
          /\ q.verdict = thread[t].verdict
      BY <1>b, <3>2 DEF CheckerStates
    <3>5. thread' = [thread EXCEPT ![t] = q]
      BY <3>1, FileTypes DEF CheckerStates
    <3> HIDE DEF q
    <3>6. thread[t].verdict = "none"
      BY <2>1 DEF Shapes
    <3>7. ~ q.disturbed /\ LicenseGroup \notin torn => q.raw = newest /\ \A u \in Checkers : ~ IntoLicense(u)
      BY <3>3, <3>4
    <3>8. ~ q.excused => q.raw # Blank /\ files["seal"] = q.raw
      BY <3>3, <3>4 DEF excuse
    <3> QED BY <1>a, <2>1, <3>4, <3>5, <3>6, <3>7, <3>8, CheckerStep
  <2> QED BY <1>5, <2>2, <2>3 DEF ReadKey
<1>6. ASSUME NEW t \in Checkers, CheckSeal(t) PROVE FilesInv'
  <2>1. thread[t].pc = "seal" /\ UNCHANGED <<files, texts, newest, torn, duties, stops>>
        /\ thread[t].todo = <<>> /\ ~ thread[t].half /\ thread[t].verdict = "none"
    BY <1>6, <1>c DEF CheckSeal, Shapes
  <2>2. CASE Says(t, "modified") /\ (files["seal"] \notin {Missing, thread[t].raw} \/ files["seal"] = Blank)
    <3> PICK q \in CheckerStates :
            /\ thread' = [thread EXCEPT ![t] = q]
            /\ q.pc = "rest" /\ q.todo = <<>> /\ ~ q.half /\ q.excused = thread[t].excused
      BY <2>2, SaysIs
    <3>1. ~ Reading(q)
      BY DEF Reading
    <3>2. q.excused
      BY <2>1, <2>2 DEF ExcusedRead
    <3> QED BY <1>a, <2>1, <3>1, <3>2, CheckerStep
  <2>3. CASE To(t, "time")
    <3> PICK q \in CheckerStates :
            /\ thread' = [thread EXCEPT ![t] = q]
            /\ q.pc = "time" /\ q.todo = thread[t].todo /\ q.half = thread[t].half
            /\ q.raw = thread[t].raw /\ q.disturbed = thread[t].disturbed /\ q.verdict = thread[t].verdict
      BY <2>3, ToIs
    <3>1. ~ q.disturbed /\ LicenseGroup \notin torn => q.raw = newest /\ \A u \in Checkers : ~ IntoLicense(u)
      BY <2>1 DEF ReadsAgree, Reading
    <3> QED BY <1>a, <2>1, <3>1, CheckerStep
  <2> QED BY <1>6, <2>2, <2>3 DEF CheckSeal
<1>7. ASSUME NEW t \in Checkers, ReadTime(t) PROVE FilesInv'
  <2>1. thread[t].pc = "time" /\ UNCHANGED <<files, texts, newest, torn, duties, stops>>
        /\ thread[t].todo = <<>> /\ ~ thread[t].half /\ thread[t].verdict = "none"
    BY <1>7, <1>c DEF ReadTime, Shapes
  <2> DEFINE excuse == SomeoneWrites(RecordGroup) \/ RecordGroup \in torn
  <2>2. thread' = [thread EXCEPT ![t].pc = "timeSeal", ![t].text = files["time"], ![t].excused = excuse]
    BY <1>7 DEF ReadTime
  <2>3. excuse \in BOOLEAN /\ files["time"] \in Nat
    BY <1>e, GroupsAre
  <2>4. ~ excuse => files["time"] # Blank /\ files["timeSeal"] = files["time"]
    BY <1>d DEF RecordAgrees
  <2> HIDE DEF excuse
  <2> DEFINE q == [thread[t] EXCEPT !.pc = "timeSeal", !.text = files["time"], !.excused = excuse]
  <2>5. q \in CheckerStates /\ q.pc = "timeSeal" /\ q.text = files["time"] /\ q.todo = thread[t].todo
        /\ q.half = thread[t].half /\ q.raw = thread[t].raw /\ q.disturbed = thread[t].disturbed
        /\ q.excused = excuse /\ q.verdict = thread[t].verdict
    BY <1>b, <2>3 DEF CheckerStates
  <2>6. thread' = [thread EXCEPT ![t] = q]
    BY <2>2, FileTypes DEF CheckerStates
  <2> HIDE DEF q
  <2>7. ~ q.disturbed /\ LicenseGroup \notin torn => q.raw = newest /\ \A u \in Checkers : ~ IntoLicense(u)
    BY <2>1, <2>5 DEF ReadsAgree, Reading
  <2>8. ~ q.excused => q.text # Blank /\ files["timeSeal"] = q.text
    BY <2>4, <2>5
  <2> QED BY <1>a, <2>1, <2>5, <2>6, <2>7, <2>8, CheckerStep
<1>8. ASSUME NEW t \in Checkers, CheckTime(t) PROVE FilesInv'
  <2>1. thread[t].pc = "timeSeal" /\ UNCHANGED <<files, texts, newest, torn, duties, stops>>
        /\ thread[t].todo = <<>> /\ ~ thread[t].half /\ thread[t].verdict = "none"
    BY <1>8, <1>c DEF CheckTime, Shapes
  <2>2. CASE Says(t, "stale") /\ (thread[t].text = Blank \/ files["timeSeal"] # thread[t].text)
    <3> PICK q \in CheckerStates :
            /\ thread' = [thread EXCEPT ![t] = q]
            /\ q.pc = "rest" /\ q.todo = <<>> /\ ~ q.half /\ q.excused = thread[t].excused
      BY <2>2, SaysIs
    <3>1. ~ Reading(q)
      BY DEF Reading
    <3>2. q.excused
      BY <2>1, <2>2 DEF ExcusedRead
    <3> QED BY <1>a, <2>1, <3>1, <3>2, CheckerStep
  <2>3. CASE To(t, "shadow")
    <3> PICK q \in CheckerStates :
            /\ thread' = [thread EXCEPT ![t] = q]
            /\ q.pc = "shadow" /\ q.todo = thread[t].todo /\ q.half = thread[t].half
            /\ q.raw = thread[t].raw /\ q.disturbed = thread[t].disturbed /\ q.verdict = thread[t].verdict
      BY <2>3, ToIs
    <3>1. ~ q.disturbed /\ LicenseGroup \notin torn => q.raw = newest /\ \A u \in Checkers : ~ IntoLicense(u)
      BY <2>1 DEF ReadsAgree, Reading
    <3> QED BY <1>a, <2>1, <3>1, CheckerStep
  <2> QED BY <1>8, <2>2, <2>3 DEF CheckTime
<1>9. ASSUME NEW t \in Checkers, CopyShadow(t) PROVE FilesInv'
  <2>1. thread[t].pc = "shadow" /\ UNCHANGED <<files, texts, newest, torn, duties, stops>>
        /\ thread[t].todo = <<>> /\ ~ thread[t].half /\ thread[t].verdict = "none"
    BY <1>9, <1>c DEF CopyShadow, Shapes
  <2>2. CASE Says(t, "licensed")
    <3> PICK q \in CheckerStates :
            /\ thread' = [thread EXCEPT ![t] = q]
            /\ q.pc = "rest" /\ q.todo = <<>> /\ ~ q.half /\ q.verdict = "licensed"
      BY <2>2, SaysIs
    <3>1. ~ Reading(q)
      BY DEF Reading
    <3> QED BY <1>a, <2>1, <3>1, CheckerStep
  <2>3. CASE Start(t, "check", <<"shadow">>, thread[t].raw)
    <3>1. Start(t, "check", ShadowOnly, thread[t].raw) /\ thread[t].raw \in Nat
      BY <1>b, <2>3 DEF ShadowOnly, CheckerStates
    <3>2. ~ thread[t].disturbed /\ LicenseGroup \notin torn => thread[t].raw = newest
      BY <2>1 DEF ReadsAgree, Reading
    <3> QED BY <1>a, <2>1, <3>1, <3>2, ListsDiffer, StartKeeps
  <2> QED BY <1>9, <2>2, <2>3 DEF CopyShadow
<1>10. CASE Stop
  <2>1. /\ stops' = stops + 1 /\ thread' = [t \in Checkers |-> Resting]
        /\ torn' = torn \cup {g \in Groups : Interrupted(g)}
        /\ UNCHANGED <<files, texts, newest, duties>>
    BY <1>10 DEF Stop
  <2>2. \A t \in Checkers : thread'[t] = Resting
    BY <2>1
  <2>3. \A t \in Checkers : ~ OfLicense(t)' /\ ~ OfRecord(t)'
    BY <2>2, RestingIs, ListsDiffer DEF OfLicense, OfRecord
  <2>4. /\ (\E t \in Checkers : IntoLicense(t)) => LicenseGroup \in torn'
        /\ (\E t \in Checkers : IntoRecord(t)) => RecordGroup \in torn'
    <3>1. ASSUME NEW t \in Checkers, IntoLicense(t) PROVE Interrupted(LicenseGroup)
      <4>1. thread[t].half \/ thread[t].todo \in {SealShadow, ShadowOnly}
        BY <1>c, <3>1, ListsDiffer DEF IntoLicense, OfLicense, OfRecord, Shapes
      <4>2. thread[t].half \/ Head(thread[t].todo) \notin {"key", "time"}
        BY <4>1, Lists
      <4>3. WritesIn(t, LicenseGroup)
        BY <3>1, WritersAre DEF IntoLicense
      <4> QED BY <4>2, <4>3 DEF Interrupted
    <3>2. ASSUME NEW t \in Checkers, IntoRecord(t) PROVE Interrupted(RecordGroup)
      <4>1. thread[t].half \/ thread[t].todo = TimeSealOnly
        BY <3>2 DEF IntoRecord
      <4>2. thread[t].half \/ Head(thread[t].todo) \notin {"key", "time"}
        BY <4>1, Lists
      <4>3. WritesIn(t, RecordGroup)
        BY <3>2, WritersAre DEF IntoRecord
      <4> QED BY <4>2, <4>3 DEF Interrupted
    <3> QED BY <2>1, <3>1, <3>2, GroupsAre
  <2>5. FilesTypeOK'
    <3>1. thread' \in [Checkers -> CheckerStates] /\ torn' \subseteq Groups /\ stops' \in Nat
      BY <2>1, <1>a, RestingIs, FileTypes
    <3> QED BY <2>1, <3>1, FileTypes
  <2>6. Shapes' /\ Alone' /\ Present'
    BY <2>1, <2>2, <2>3, RestingIs DEF Shapes, Alone, Present
  <2>7. LicenseAgrees' /\ RecordAgrees'
    BY <2>1, <2>4 DEF LicenseAgrees, RecordAgrees, Agree
  <2>8. CleanWrites'
    BY <2>2, <2>3, RestingIs, ListsDiffer DEF CleanWrites
  <2>9. ReadsAgree' /\ ExcusedRead' /\ ComplaintNeedsCause'
    BY <2>2, RestingIs DEF ReadsAgree, ExcusedRead, ComplaintNeedsCause, Reading
  <2> QED BY <2>5, <2>6, <2>7, <2>8, <2>9
<1>11. CASE Clean
  <2>1. stops' = stops + 1 /\ files' = [files EXCEPT !["key"] = Missing]
        /\ UNCHANGED <<thread, texts, newest, torn, duties>>
    BY <1>11 DEF Clean
  <2>2. /\ files' \in [FileNames -> Nat \cup {Missing}] /\ files'["key"] = Missing
        /\ \A f \in FileNames \ {"key"} : files'[f] = files[f]
        /\ {"key", "seal", "shadow", "time", "timeSeal"} \subseteq FileNames
    BY <1>e, <2>1, GroupsAre
  <2>3. FilesTypeOK'
    BY <1>a, <2>1, <2>2, FileTypes
  <2>4. Shapes' /\ Alone' /\ Present'
    BY <1>e, <2>1, <2>2 DEF Shapes, Alone, Present, OfLicense, OfRecord
  <2>5. LicenseAgrees' /\ RecordAgrees'
    BY <2>1, <2>2 DEF LicenseAgrees, RecordAgrees, Agree, IntoLicense, IntoRecord, OfLicense, OfRecord
  <2>6. CleanWrites'
    BY <2>1, <2>2 DEF CleanWrites, OfLicense
  <2>7. ReadsAgree' /\ ExcusedRead' /\ ComplaintNeedsCause'
    BY <2>1, <2>2 DEF ReadsAgree, ExcusedRead, ComplaintNeedsCause, IntoLicense, OfLicense
  <2> QED BY <2>3, <2>4, <2>5, <2>6, <2>7
<1>12. CASE UNCHANGED fileVars
  BY <1>12, ZenonT(60) DEF fileVars, FilesTypeOK, Shapes, Alone, Present, LicenseAgrees, RecordAgrees, Agree, CleanWrites,
               ReadsAgree, ExcusedRead, ComplaintNeedsCause, IntoLicense, IntoRecord, OfLicense, OfRecord
<1>13. ASSUME NEW t \in Checkers, Fill(t) PROVE FilesInv'
  <2>1. thread[t].pc = "write"
    BY <1>13 DEF Fill, Shapes
  <2>2. thread[t].todo \in {KeySealShadow, SealShadow, TimeAndSeal}
        \/ thread[t].todo \in {ShadowOnly, KeyOnly, TimeSealOnly}
    BY <2>1 DEF Shapes, OfLicense, OfRecord
  <2> QED BY <1>13, <2>2, FillGoesOn, FillEnds
<1> QED
  BY <1>1, <1>2, <1>3, <1>4, <1>5, <1>6, <1>7, <1>8, <1>9, <1>10, <1>11, <1>12, <1>13,
     TruncateKeeps, WriteFailsKeeps
  DEF FilesNext, FilesStep

LEMMA FilesInvariance == FilesSpec => []FilesInv
BY FilesStart, FilesSteps, PTL DEF FilesSpec

\* The files and the threads that read and write them are well-typed.
THEOREM FilesTypeCorrect == FilesSpec => []FilesTypeOK
<1>1. FilesInv => FilesTypeOK
  BY DEF FilesInv
<1> QED BY <1>1, FilesInvariance, PTL

\* However many threads activate and check without a lock, the license, its
\* seal and its shadow copy are those of the latest activation when nobody
\* writes them, unless writes overlapped, failed or were cut off.
THEOREM FilesCopiesAgree == FilesSpec => []CopiesAgree
<1>1. FilesInv => CopiesAgree
  BY WritersAre DEF FilesInv, CopiesAgree, LicenseAgrees, IntoLicense, Agree
<1> QED BY <1>1, FilesInvariance, PTL

\* A check complains of a license that nobody touched only if its reads met
\* the writes of another thread, or torn files.
THEOREM FilesComplaintNeedsCause == FilesSpec => []ComplaintNeedsCause
<1>1. FilesInv => ComplaintNeedsCause
  BY DEF FilesInv
<1> QED BY <1>1, FilesInvariance, PTL

----------------------------------------------------------------------------
(* The undo of client commands: what each command leaves of a client that  *)
(* nobody else changes, from its snapshot until it is undone.  A command   *)
(* that fails after it has created its client is the subtle case: the one  *)
(* before it stays, and has not noted the new row, but the new one fails   *)
(* only if others changed that row meanwhile.                              *)

AllNames == Names \cup (Names \X {"(replaced)"})
RowsOfClients == Record \cup {NoRecord}
Kinds == {"none", "add", "edit", "assign", "delete", "archive"}
Commands == [kind : Kinds, ids : SUBSET Clients, name : Names \cup {"none"}, existing : SUBSET Clients,
             was : [Clients -> RowsOfClients], kids : [Clients -> 0..MaxNow], stamp : 0..MaxNow,
             moved : SUBSET Clients]
Doings == [stage : {"idle", "create", "write", "undo", "restore"}, cmd : Commands,
           left : SUBSET Clients, force : BOOLEAN]

UndoTypes ==
    /\ now \in 1..MaxNow /\ commands \in 0..MaxCommands /\ others \in 0..MaxOthers
    /\ client \in [Clients -> RowsOfClients] /\ child \in [Clients -> 0..MaxNow]
    /\ doing \in Doings /\ pending \in Commands

\* No two rows have one name.
NamesApart(f) ==
    \A c, d \in Clients : c # d /\ f[c] # NoRecord /\ f[d] # NoRecord => f[c].name # f[d].name

\* A name that an undo has made up is older than the snapshot.
MadeUpBefore(was, f) ==
    \A c \in Clients : f[c] # NoRecord /\ f[c].name \notin Names =>
        was[c] # NoRecord /\ was[c].name = f[c].name

\* What a command is aimed at.
Aimed(cmd, f) ==
    /\ NamesApart(cmd.was) /\ cmd.stamp # 0
    /\ \A c \in cmd.ids : f[c] # NoRecord /\ (cmd.kind # "add" => cmd.was[c] # NoRecord)
    /\ \A c \in cmd.existing : cmd.was[c] # NoRecord
    /\ cmd.kind = "edit" => cmd.existing = cmd.ids /\ \E c \in Clients : cmd.ids = {c}

\* The client of an "add": one that had the name, or a new one.
Origin(cmd, c) ==
    \/ cmd.was[c] = NoRecord /\ cmd.existing \subseteq cmd.moved
    \/ cmd.was[c] # NoRecord /\ cmd.existing = {c}
Added(cmd) == \E c \in Clients : cmd.ids = {c} /\ (c \notin cmd.moved => Origin(cmd, c))

Alive(row) == row # NoRecord /\ row.del = 0
NamedLive(f, n) == {c \in Clients : f[c] # NoRecord /\ f[c].name = n /\ f[c].del = 0}

\* A command until it has written.
Opened ==
    LET cmd == doing.cmd
    IN /\ doing.stage = "create" => cmd.kind = "add" /\ cmd.ids = {} /\ cmd.name \in Names
                                    /\ cmd.existing = NamedLive(cmd.was, cmd.name)
       /\ doing.stage = "write" => cmd.kind # "none" /\ (cmd.kind = "add" => Added(cmd))
       /\ doing.stage \in {"create", "write"} =>
            /\ Aimed(cmd, client) /\ MadeUpBefore(cmd.was, client)
            /\ \A c \in Clients \ cmd.moved :
                  /\ child[c] = cmd.kids[c]
                  /\ IF cmd.kind = "add" /\ c \in cmd.ids THEN Alive(client[c]) ELSE client[c] = cmd.was[c]

\* What a command leaves of a client that nobody else changes.
Remains(cmd, c, row, kid) ==
    LET old == cmd.was[c]
    IN IF c \notin cmd.ids THEN row = old /\ kid = cmd.kids[c]
       ELSE /\ kid = IF cmd.kind = "delete" /\ cmd.kids[c] = 0 THEN cmd.stamp ELSE cmd.kids[c]
            /\ cmd.kind \in {"add", "edit"} => Alive(row)
            /\ cmd.kind \in {"assign", "archive", "delete"} /\ old.del # 0 => row = old
            /\ cmd.kind = "assign" /\ old.del = 0 => row = [old EXCEPT !.group = row.group]
            /\ cmd.kind = "archive" /\ old.del = 0 => row = [old EXCEPT !.del = row.del]
            /\ cmd.kind = "delete" /\ old.del = 0 => row = [old EXCEPT !.del = cmd.stamp]

\* Written by the command that is open; the pending one has not noted it.
Freshly(c) == doing.stage = "write" /\ doing.cmd.kind = "add" /\ c \in doing.cmd.ids \ doing.cmd.moved

\* The command that can be undone.
Armed ==
    /\ pending.kind = "none" => pending = NoCommand
    /\ pending.kind # "none" =>
        /\ Aimed(pending, client)
        /\ doing.stage # "restore" => MadeUpBefore(pending.was, client)
        /\ pending.kind = "add" => Added(pending)
        /\ \A c \in Clients \ pending.moved : Freshly(c) \/ Remains(pending, c, client[c], child[c])
        /\ doing.stage \in {"create", "write"} => doing.cmd.moved \subseteq pending.moved

\* An undo on its way.
Revising ==
    /\ doing.stage \in {"undo", "restore"} => pending.kind # "none"
    /\ doing.stage = "restore" => pending.kind = "delete"
    /\ doing.stage = "undo" =>
        /\ doing.left \subseteq {c \in pending.ids : pending.was[c] # NoRecord /\ pending.was[c].del = 0}
        /\ pending.kind = "assign" => \A c \in pending.ids \ (doing.left \cup pending.moved) :
                client[c] = pending.was[c]

UndoInv == UndoTypes /\ NamesApart(client) /\ Opened /\ Armed /\ Revising

\* What a row is made of.
LEMMA RecordIs ==
    /\ \A r \in Record : /\ r.name \in AllNames /\ r.contact \in Contacts \cup {"null"}
                         /\ r.group \in Marks \cup {"none"} /\ r.del \in 0..MaxNow /\ r # NoRecord
    /\ \A n \in AllNames, t \in Contacts \cup {"null"}, g \in Marks \cup {"none"}, d \in 0..MaxNow :
            [name |-> n, contact |-> t, group |-> g, del |-> d] \in Record
BY NoRecordAssumption DEF Record, AllNames

LEMMA RowSame ==
    ASSUME NEW a \in Record, NEW b \in Record,
           a.name = b.name, a.contact = b.contact, a.group = b.group, a.del = b.del
    PROVE  a = b
BY DEF Record

\* A row with one field changed.
LEMMA RowChanged ==
    ASSUME NEW r \in Record
    PROVE  /\ \A n \in AllNames : LET q == [r EXCEPT !.name = n]
                IN q \in Record /\ q.name = n /\ q.contact = r.contact /\ q.group = r.group /\ q.del = r.del
           /\ \A t \in Contacts \cup {"null"} : LET q == [r EXCEPT !.contact = t]
                IN q \in Record /\ q.name = r.name /\ q.contact = t /\ q.group = r.group /\ q.del = r.del
           /\ \A g \in Marks \cup {"none"} : LET q == [r EXCEPT !.group = g]
                IN q \in Record /\ q.name = r.name /\ q.contact = r.contact /\ q.group = g /\ q.del = r.del
           /\ \A d \in 0..MaxNow : LET q == [r EXCEPT !.del = d]
                IN q \in Record /\ q.name = r.name /\ q.contact = r.contact /\ q.group = r.group /\ q.del = d
BY DEF Record, AllNames

\* A field that is set again, or to what it was.
LEMMA RowRestored ==
    ASSUME NEW r \in Record
    PROVE  /\ [r EXCEPT !.name = r.name] = r /\ [r EXCEPT !.contact = r.contact] = r
           /\ [r EXCEPT !.group = r.group] = r
           /\ \A g \in Marks \cup {"none"} : [[r EXCEPT !.group = g] EXCEPT !.group = r.group] = r
           /\ \A d \in 0..MaxNow : [[r EXCEPT !.del = d] EXCEPT !.del = r.del] = r
<1>1. /\ r.name \in AllNames /\ r.contact \in Contacts \cup {"null"}
      /\ r.group \in Marks \cup {"none"} /\ r.del \in 0..MaxNow
  BY RecordIs
<1>2. [r EXCEPT !.name = r.name] = r
  <2> DEFINE q == [r EXCEPT !.name = r.name]
  <2>1. q \in Record /\ q.name = r.name /\ q.contact = r.contact /\ q.group = r.group /\ q.del = r.del
    BY <1>1, RowChanged
  <2> HIDE DEF q
  <2>2. q = r
    BY <2>1, RowSame
  <2> QED BY <2>2 DEF q
<1>3. [r EXCEPT !.contact = r.contact] = r
  <2> DEFINE q == [r EXCEPT !.contact = r.contact]
  <2>1. q \in Record /\ q.name = r.name /\ q.contact = r.contact /\ q.group = r.group /\ q.del = r.del
    BY <1>1, RowChanged
  <2> HIDE DEF q
  <2>2. q = r
    BY <2>1, RowSame
  <2> QED BY <2>2 DEF q
<1>6. [r EXCEPT !.group = r.group] = r
  <2> DEFINE q == [r EXCEPT !.group = r.group]
  <2>1. q \in Record /\ q.name = r.name /\ q.contact = r.contact /\ q.group = r.group /\ q.del = r.del
    BY <1>1, RowChanged
  <2> HIDE DEF q
  <2>2. q = r
    BY <2>1, RowSame
  <2> QED BY <2>2 DEF q
<1>4. ASSUME NEW g \in Marks \cup {"none"}
      PROVE  [[r EXCEPT !.group = g] EXCEPT !.group = r.group] = r
  <2> DEFINE q == [r EXCEPT !.group = g]
             p == [q EXCEPT !.group = r.group]
  <2>1. q \in Record /\ q.name = r.name /\ q.contact = r.contact /\ q.del = r.del
    BY RowChanged
  <2> HIDE DEF q
  <2>2. p \in Record /\ p.name = r.name /\ p.contact = r.contact /\ p.group = r.group /\ p.del = r.del
    BY <1>1, <2>1, RowChanged
  <2> HIDE DEF p
  <2>3. p = r
    BY <2>2, RowSame
  <2> QED BY <2>3 DEF p, q
<1>5. ASSUME NEW d \in 0..MaxNow
      PROVE  [[r EXCEPT !.del = d] EXCEPT !.del = r.del] = r
  <2> DEFINE q == [r EXCEPT !.del = d]
             p == [q EXCEPT !.del = r.del]
  <2>1. q \in Record /\ q.name = r.name /\ q.contact = r.contact /\ q.group = r.group
    BY RowChanged
  <2> HIDE DEF q
  <2>2. p \in Record /\ p.name = r.name /\ p.contact = r.contact /\ p.group = r.group /\ p.del = r.del
    BY <1>1, <2>1, RowChanged
  <2> HIDE DEF p
  <2>3. p = r
    BY <2>2, RowSame
  <2> QED BY <2>3 DEF p, q
<1> QED BY <1>2, <1>3, <1>4, <1>5, <1>6

\* What a command is made of.
LEMMA CommandIs ==
    ASSUME NEW cmd \in Commands
    PROVE  /\ cmd.kind \in Kinds /\ cmd.ids \subseteq Clients /\ cmd.name \in Names \cup {"none"}
           /\ cmd.existing \subseteq Clients /\ cmd.was \in [Clients -> RowsOfClients]
           /\ cmd.kids \in [Clients -> 0..MaxNow] /\ cmd.stamp \in 0..MaxNow /\ cmd.moved \subseteq Clients
           /\ \A c \in Clients : cmd.was[c] \in RowsOfClients /\ cmd.kids[c] \in 0..MaxNow
BY DEF Commands

\* Nothing to undo, and nothing done.
LEMMA RestOf ==
    /\ NoCommand \in Commands /\ NoCommand.kind = "none"
    /\ AtRest \in Doings /\ AtRest.stage = "idle" /\ AtRest.cmd = NoCommand /\ AtRest.left = {}
<1>1. NoCommand \in Commands /\ NoCommand.kind = "none"
  BY UndoAssumption DEF NoCommand, Commands, Kinds, RowsOfClients
<1> QED BY <1>1 DEF AtRest, Doings

\* A change by others is noted in each of the commands.
LEMMA NotedIs ==
    ASSUME NEW cmd \in Commands, NEW c \in Clients
    PROVE  /\ Noted(cmd, c) \in Commands
           /\ cmd.kind = "none" => Noted(cmd, c) = cmd
           /\ cmd.kind # "none" => Noted(cmd, c).moved = cmd.moved \cup {c}
           /\ Noted(cmd, c).kind = cmd.kind /\ Noted(cmd, c).ids = cmd.ids /\ Noted(cmd, c).name = cmd.name
           /\ Noted(cmd, c).existing = cmd.existing /\ Noted(cmd, c).was = cmd.was
           /\ Noted(cmd, c).kids = cmd.kids /\ Noted(cmd, c).stamp = cmd.stamp
BY DEF Noted, Commands

\* One row gets a name that no other has.
LEMMA NamesPut ==
    ASSUME NEW f, NEW g, NEW c \in Clients, NamesApart(f),
           \A d \in Clients \ {c} : g[d] = f[d] /\ (f[d] # NoRecord => f[d].name # g[c].name)
    PROVE  NamesApart(g)
BY DEF NamesApart

\* The clients that a command found stay, and others that change are noted.
LEMMA AimedStays ==
    ASSUME NEW cmd \in Commands, NEW b \in Commands, NEW f, NEW g, Aimed(cmd, f),
           b.kind = cmd.kind, b.ids = cmd.ids, b.existing = cmd.existing, b.was = cmd.was,
           b.stamp = cmd.stamp,
           \A c \in Clients : f[c] # NoRecord => g[c] # NoRecord
    PROVE  Aimed(b, g)
BY CommandIs DEF Aimed

LEMMA AddedStays ==
    ASSUME NEW cmd \in Commands, NEW b \in Commands, Added(cmd),
           b.ids = cmd.ids, b.existing = cmd.existing, b.was = cmd.was, cmd.moved \subseteq b.moved
    PROVE  Added(b)
BY DEF Added, Origin

LEMMA RemainsSame ==
    ASSUME NEW cmd \in Commands, NEW b \in Commands, NEW c \in Clients, NEW row, NEW kid,
           Remains(cmd, c, row, kid),
           b.kind = cmd.kind, b.ids = cmd.ids, b.was = cmd.was, b.kids = cmd.kids, b.stamp = cmd.stamp
    PROVE  Remains(b, c, row, kid)
BY DEF Remains

LEMMA UndoTypesAre ==
    ASSUME UndoTypes
    PROVE  /\ doing.stage \in {"idle", "create", "write", "undo", "restore"} /\ doing.cmd \in Commands
           /\ doing.left \in SUBSET Clients /\ pending \in Commands
           /\ \A c \in Clients : client[c] \in RowsOfClients /\ child[c] \in 0..MaxNow
           /\ now \in 1..MaxNow /\ now \in 0..MaxNow /\ now # 0
BY UndoAssumption DEF UndoTypes, Doings

LEMMA UndoStarts == UndoInit => UndoInv
<1> SUFFICES ASSUME UndoInit PROVE UndoInv
  OBVIOUS
<1>1. client \in [Clients -> RowsOfClients]
  BY DEF UndoInit, RowsOfClients
<1>2. UndoTypes
  BY <1>1, UndoAssumption, RestOf DEF UndoInit, UndoTypes
<1>3. NamesApart(client)
  BY DEF UndoInit, NamesApart
<1>4. Opened /\ Armed /\ Revising
  BY RestOf DEF UndoInit, Opened, Armed, Revising
<1> QED BY <1>2, <1>3, <1>4 DEF UndoInv

\* The snapshot is taken.
LEMMA OpenStep ==
    ASSUME UndoInv, NEW kind \in Kinds \ {"none"}, NEW ids \in SUBSET Clients,
           NEW name \in Names \cup {"none"}, NEW existing \in SUBSET Clients,
           Open(kind, ids, name, existing),
           \A c \in ids \cup existing : client[c] # NoRecord,
           kind = "edit" => existing = ids /\ \E c \in Clients : ids = {c},
           kind = "add" => ids = {} /\ name \in Names /\ existing = NamedLive(client, name)
    PROVE  UndoInv'
<1> DEFINE cmd == [kind |-> kind, ids |-> ids, name |-> name, existing |-> existing,
                   was |-> client, kids |-> child, stamp |-> now, moved |-> {}]
<1>1. /\ doing.stage = "idle" /\ commands' \in 0..MaxCommands
      /\ UNCHANGED <<now, client, child, pending, others>>
  BY UndoAssumption DEF UndoInv, UndoTypes, Open
<1>2. doing' = [AtRest EXCEPT !.stage = IF kind = "add" THEN "create" ELSE "write", !.cmd = cmd]
  BY DEF Open
<1>3. /\ cmd \in Commands /\ cmd.kind = kind /\ cmd.ids = ids /\ cmd.name = name /\ cmd.existing = existing
      /\ cmd.was = client /\ cmd.kids = child /\ cmd.stamp = now /\ cmd.moved = {}
  BY UndoTypesAre DEF UndoInv, UndoTypes, Commands
<1> HIDE DEF cmd
<1>4. /\ doing' \in Doings /\ doing'.cmd = cmd
      /\ doing'.stage = IF kind = "add" THEN "create" ELSE "write"
  BY <1>2, <1>3 DEF AtRest, Doings
<1>5. UndoTypes' /\ NamesApart(client)'
  BY <1>1, <1>4 DEF UndoInv, UndoTypes
<1>6. Aimed(cmd, client)
  BY <1>3, UndoTypesAre DEF Aimed, UndoInv
<1>7. MadeUpBefore(cmd.was, client)
  BY <1>3 DEF MadeUpBefore
<1>8. Opened'
  BY <1>1, <1>3, <1>4, <1>6, <1>7 DEF Opened
<1>9. Armed' /\ Revising'
  BY <1>1, <1>3, <1>4 DEF UndoInv, Armed, Revising, Freshly
<1> QED BY <1>5, <1>8, <1>9 DEF UndoInv

\* A command or an undo that raises leaves the rows.
LEMMA RaisedStep ==
    ASSUME UndoInv, Raised, UNCHANGED <<now, client, child, commands, others>>, doing.stage # "restore",
           \A c \in Clients \ pending.moved : ~ Freshly(c)
    PROVE  UndoInv'
<1>1. doing' = AtRest /\ pending' = pending
  BY DEF Raised
<1>2. UndoTypes' /\ NamesApart(client)'
  BY <1>1, RestOf DEF UndoInv, UndoTypes
<1>3. Opened' /\ Revising'
  BY <1>1, RestOf DEF Opened, Revising
<1>4. Armed'
  BY <1>1, RestOf DEF UndoInv, Armed
<1> QED BY <1>2, <1>3, <1>4 DEF UndoInv

\* Nothing is left to be undone.
LEMMA UndoneStep ==
    ASSUME UndoInv, Undone, UNCHANGED <<now, commands, others>>,
           client' \in [Clients -> RowsOfClients], child' \in [Clients -> 0..MaxNow], NamesApart(client)'
    PROVE  UndoInv'
<1>1. doing' = AtRest /\ pending' = NoCommand
  BY DEF Undone
<1>2. UndoTypes'
  BY <1>1, RestOf DEF UndoInv, UndoTypes
<1>3. Opened' /\ Revising' /\ Armed'
  BY <1>1, RestOf DEF Opened, Revising, Armed
<1> QED BY <1>2, <1>3 DEF UndoInv

\* The command has written, and can be undone.
LEMMA ArmedStep ==
    ASSUME UndoInv, doing.stage = "write", doing' = AtRest, pending' = doing.cmd,
           UNCHANGED <<now, commands, others>>,
           client' \in [Clients -> RowsOfClients], child' \in [Clients -> 0..MaxNow], NamesApart(client)',
           \A c \in Clients : client[c] # NoRecord => client'[c] # NoRecord,
           MadeUpBefore(doing.cmd.was, client'),
           \A c \in Clients \ doing.cmd.moved : Remains(doing.cmd, c, client'[c], child'[c])
    PROVE  UndoInv'
<1>1. UndoTypes'
  BY RestOf, UndoTypesAre DEF UndoInv, UndoTypes
<1>2. Opened' /\ Revising'
  BY RestOf DEF Opened, Revising
<1>3. doing.cmd.kind # "none" /\ Aimed(doing.cmd, client) /\ (doing.cmd.kind = "add" => Added(doing.cmd))
  BY DEF UndoInv, Opened
<1>4. Aimed(doing.cmd, client')
  BY <1>3, UndoTypesAre, AimedStays DEF UndoInv
<1>5. Armed'
  BY <1>3, <1>4, RestOf DEF Armed
<1> QED BY <1>1, <1>2, <1>5 DEF UndoInv

\* Others change one client, and both commands note it.
LEMMA OthersStep ==
    ASSUME UndoInv, NEW c \in Clients, ByOthers(c),
           client' \in [Clients -> RowsOfClients], child' \in [Clients -> 0..MaxNow], NamesApart(client)',
           \A d \in Clients \ {c} : client'[d] = client[d] /\ child'[d] = child[d],
           client[c] # NoRecord => client'[c] # NoRecord,
           client'[c] # NoRecord =>
                client'[c].name \in Names \/ (client[c] # NoRecord /\ client'[c].name = client[c].name)
    PROVE  UndoInv'
<1>1. /\ others' \in 0..MaxOthers /\ now' = now /\ commands' = commands
      /\ doing' = [doing EXCEPT !.cmd = Noted(@, c)] /\ pending' = Noted(pending, c)
  BY UndoAssumption DEF ByOthers, UndoInv, UndoTypes
<1>2. doing.cmd \in Commands /\ pending \in Commands /\ doing \in Doings
  BY UndoTypesAre DEF UndoInv, UndoTypes
<1>3. /\ doing' \in Doings /\ doing'.cmd = Noted(doing.cmd, c) /\ doing'.stage = doing.stage
      /\ doing'.left = doing.left
  BY <1>1, <1>2, NotedIs DEF Doings
<1>4. /\ doing'.cmd.kind = doing.cmd.kind /\ doing'.cmd.ids = doing.cmd.ids
      /\ doing'.cmd.name = doing.cmd.name /\ doing'.cmd.existing = doing.cmd.existing
      /\ doing'.cmd.was = doing.cmd.was /\ doing'.cmd.kids = doing.cmd.kids
      /\ doing'.cmd.stamp = doing.cmd.stamp /\ doing'.cmd \in Commands
      /\ doing.cmd.kind # "none" => doing'.cmd.moved = doing.cmd.moved \cup {c}
  BY <1>2, <1>3, NotedIs
<1>5. /\ pending'.kind = pending.kind /\ pending'.ids = pending.ids
      /\ pending'.existing = pending.existing /\ pending'.was = pending.was
      /\ pending'.kids = pending.kids /\ pending'.stamp = pending.stamp /\ pending' \in Commands
      /\ pending.kind # "none" => pending'.moved = pending.moved \cup {c}
      /\ pending.kind = "none" => pending' = pending
  BY <1>1, <1>2, NotedIs
<1>6. UndoTypes'
  BY <1>1, <1>3, <1>5 DEF UndoInv, UndoTypes
<1>7. \A d \in Clients : client[d] # NoRecord => client'[d] # NoRecord
  OBVIOUS
<1>8. \A was : MadeUpBefore(was, client) => MadeUpBefore(was, client')
  BY DEF MadeUpBefore
<1>9. Opened'
  <2> DEFINE cmd == doing.cmd
  <2>1. ASSUME doing.stage = "create"
        PROVE  cmd.kind = "add" /\ cmd.ids = {} /\ cmd.name \in Names
               /\ cmd.existing = NamedLive(cmd.was, cmd.name)
    BY <2>1 DEF UndoInv, Opened
  <2>2. ASSUME doing.stage = "write" PROVE cmd.kind # "none" /\ (cmd.kind = "add" => Added(cmd)')
    BY <2>2, <1>2, <1>4, AddedStays DEF UndoInv, Opened
  <2>3. ASSUME doing.stage \in {"create", "write"}
        PROVE  /\ Aimed(cmd, client)' /\ MadeUpBefore(cmd.was, client)'
               /\ \A d \in Clients \ doing'.cmd.moved :
                    /\ child'[d] = cmd.kids[d]
                    /\ IF cmd.kind = "add" /\ d \in cmd.ids THEN Alive(client'[d])
                       ELSE client'[d] = cmd.was[d]
    <3>1. Aimed(cmd, client) /\ MadeUpBefore(cmd.was, client) /\ cmd.kind # "none"
      BY <2>1, <2>2, <2>3 DEF UndoInv, Opened
    <3>2. Aimed(doing'.cmd, client')
      BY <3>1, <1>2, <1>4, <1>7, AimedStays
    <3>3. MadeUpBefore(cmd.was, client)'
      BY <3>1, <1>4, <1>8
    <3>4. \A d \in Clients \ doing'.cmd.moved : d # c /\ d \notin cmd.moved
      BY <3>1, <1>4
    <3> QED BY <2>3, <3>2, <3>3, <3>4 DEF UndoInv, Opened
  <2> QED BY <1>3, <1>4, <2>1, <2>2, <2>3 DEF Opened
<1>10. Armed'
  <2>1. CASE pending.kind = "none"
    BY <1>5, <2>1 DEF UndoInv, Armed
  <2>2. CASE pending.kind # "none"
    <3>1. Aimed(pending, client)'
      BY <1>2, <1>5, <1>7, <2>2, AimedStays DEF UndoInv, Armed
    <3>2. doing.stage # "restore" => MadeUpBefore(pending.was, client)'
      BY <1>5, <1>8, <2>2 DEF UndoInv, Armed
    <3>3. pending.kind = "add" => Added(pending)'
      BY <1>2, <1>5, <2>2, AddedStays DEF UndoInv, Armed
    <3>4. doing.stage \in {"create", "write"} => doing'.cmd.moved \subseteq pending'.moved
      BY <1>4, <1>5, <2>2 DEF UndoInv, Armed, Opened
    <3>5. ASSUME NEW d \in Clients \ pending'.moved
          PROVE  Freshly(d)' \/ Remains(pending, d, client[d], child[d])'
      <4>1. d # c /\ d \notin pending.moved /\ client'[d] = client[d] /\ child'[d] = child[d]
        BY <1>5, <2>2, <3>5
      <4>2. CASE Freshly(d)
        BY <1>3, <1>4, <4>1, <4>2 DEF Freshly
      <4>3. CASE Remains(pending, d, client[d], child[d])
        BY <1>2, <1>5, <4>1, <4>3, RemainsSame
      <4> QED BY <2>2, <4>1, <4>2, <4>3 DEF UndoInv, Armed
    <3> QED BY <1>3, <1>5, <2>2, <3>1, <3>2, <3>3, <3>4, <3>5 DEF Armed
  <2> QED BY <2>1, <2>2
<1>11. Revising'
  <2>1. doing.stage = "undo" /\ pending.kind = "assign" =>
            \A d \in pending.ids \ (doing.left \cup pending'.moved) : client'[d] = pending.was[d]
    BY <1>2, <1>5, CommandIs DEF UndoInv, Revising
  <2> QED BY <1>3, <1>5, <2>1 DEF UndoInv, Revising
<1> QED BY <1>6, <1>9, <1>10, <1>11 DEF UndoInv

LEMMA OpensStep == UndoInv /\ (OpenAdd \/ OpenChosen) => UndoInv'
<1> SUFFICES ASSUME UndoInv, OpenAdd \/ OpenChosen PROVE UndoInv'
  OBVIOUS
<1>1. CASE OpenAdd
  <2>1. PICK n \in Names : Open("add", {}, n, {c \in Holders(n) : Live(c)})
    BY <1>1 DEF OpenAdd
  <2>2. {c \in Holders(n) : Live(c)} = NamedLive(client, n)
    BY DEF Holders, Live, NamedLive
  <2>3. \A c \in NamedLive(client, n) : c \in Clients /\ client[c] # NoRecord
    BY DEF NamedLive
  <2> QED BY <2>1, <2>2, <2>3, OpenStep DEF Kinds
<1>2. CASE OpenChosen
  <2>1. PICK ids \in SUBSET {c \in Clients : client[c] # NoRecord} \ {{}} :
            \/ \E c \in ids : ids = {c} /\ Open("edit", ids, "none", ids)
            \/ \E kind \in {"assign", "delete", "archive"} : Open(kind, ids, "none", {})
    BY <1>2 DEF OpenChosen
  <2>2. ids \in SUBSET Clients /\ \A c \in ids : client[c] # NoRecord
    OBVIOUS
  <2>3. CASE \E c \in ids : ids = {c} /\ Open("edit", ids, "none", ids)
    BY <2>2, <2>3, OpenStep DEF Kinds
  <2>4. ASSUME NEW kind \in {"assign", "delete", "archive"}, Open(kind, ids, "none", {}) PROVE UndoInv'
    BY <2>2, <2>4, OpenStep DEF Kinds
  <2> QED BY <2>1, <2>3, <2>4
<1> QED BY <1>1, <1>2

\* The command knows its client: one that has the name, or a new one.
LEMMA CreateStep == UndoInv /\ CreateClient => UndoInv'
<1> SUFFICES ASSUME UndoInv, CreateClient PROVE UndoInv'
  OBVIOUS
<1> DEFINE cmd == doing.cmd
           n == doing.cmd.name
           Passes(c) == doing' = [doing EXCEPT !.stage = "write", !.cmd.ids = {c}]
<1>1. doing.stage = "create" /\ UNCHANGED <<now, commands, others>>
  BY DEF CreateClient
<1>2. /\ doing \in Doings /\ cmd \in Commands /\ pending \in Commands
      /\ cmd.kind = "add" /\ cmd.ids = {} /\ n \in Names /\ cmd.existing = NamedLive(cmd.was, n)
      /\ Aimed(cmd, client) /\ MadeUpBefore(cmd.was, client)
      /\ \A d \in Clients \ cmd.moved : child[d] = cmd.kids[d] /\ client[d] = cmd.was[d]
  BY <1>1, UndoTypesAre DEF UndoInv, UndoTypes, Opened
<1>3. ASSUME NEW c \in Clients, Passes(c), UNCHANGED <<child, pending>>,
             client' \in [Clients -> RowsOfClients], NamesApart(client)',
             \A d \in Clients \ {c} : client'[d] = client[d],
             client'[c] # NoRecord, c \notin cmd.moved => Alive(client'[c]) /\ Origin(cmd, c),
             client'[c].name \in Names \/ client'[c] = client[c],
             client[c] # NoRecord => client'[c] = client[c]
      PROVE  UndoInv'
  <2>1. /\ doing' \in Doings /\ doing'.stage = "write" /\ doing'.cmd \in Commands
        /\ doing'.cmd.kind = "add" /\ doing'.cmd.ids = {c} /\ doing'.cmd.existing = cmd.existing
        /\ doing'.cmd.was = cmd.was /\ doing'.cmd.kids = cmd.kids /\ doing'.cmd.stamp = cmd.stamp
        /\ doing'.cmd.moved = cmd.moved
    BY <1>2, <1>3 DEF Doings, Commands
  <2>2. UndoTypes'
    BY <1>1, <1>3, <2>1 DEF UndoInv, UndoTypes
  <2>3. \A was : MadeUpBefore(was, client) => MadeUpBefore(was, client')
    BY <1>3 DEF MadeUpBefore
  <2>4. Aimed(doing'.cmd, client')
    BY <1>2, <1>3, <2>1 DEF Aimed
  <2>5. Added(doing'.cmd)
    BY <1>3, <2>1 DEF Added, Origin
  <2>6. Opened'
    BY <1>2, <1>3, <2>1, <2>3, <2>4, <2>5 DEF Opened
  <2>7. Armed'
    <3>1. CASE pending.kind = "none"
      BY <1>3, <3>1 DEF UndoInv, Armed
    <3>2. CASE pending.kind # "none"
      <4>1. Aimed(pending, client') /\ MadeUpBefore(pending.was, client')
        BY <1>1, <1>2, <1>3, <2>3, <3>2, AimedStays DEF UndoInv, Armed
      <4>2. ASSUME NEW d \in Clients \ pending.moved
            PROVE  Freshly(d)' \/ Remains(pending, d, client'[d], child'[d])
        <5>1. CASE d = c
          BY <1>1, <2>1, <3>2, <4>2, <5>1 DEF UndoInv, Armed, Freshly
        <5>2. CASE d # c
          BY <1>1, <1>3, <3>2, <4>2, <5>2 DEF UndoInv, Armed, Freshly
        <5> QED BY <5>1, <5>2
      <4> QED BY <1>1, <1>3, <2>1, <3>2, <4>1, <4>2 DEF UndoInv, Armed
    <3> QED BY <3>1, <3>2
  <2>8. Revising'
    BY <2>1 DEF Revising
  <2> QED BY <1>3, <2>2, <2>6, <2>7, <2>8 DEF UndoInv
<1>4. CASE \E c \in Holders(n) : Live(c) /\ Passes(c) /\ UNCHANGED <<client, child, pending>>
  <2>1. PICK c \in Holders(n) : Live(c) /\ Passes(c) /\ UNCHANGED <<client, child, pending>>
    BY <1>4
  <2>2. c \in Clients /\ client[c] # NoRecord /\ client[c].name = n /\ client[c].del = 0
    BY <2>1 DEF Holders, Live
  <2>3. ASSUME c \notin cmd.moved PROVE Origin(cmd, c)
    <3>1. client[c] = cmd.was[c] /\ c \in cmd.existing
      BY <1>2, <2>2, <2>3 DEF NamedLive
    <3>2. cmd.existing = {c}
      BY <1>2, <3>1, <2>2 DEF NamedLive, Aimed, NamesApart
    <3> QED BY <2>2, <3>1, <3>2 DEF Origin
  <2> QED BY <1>3, <2>1, <2>2, <2>3 DEF Alive, UndoInv, UndoTypes
<1>5. CASE \E c \in Holders(n) : ~ Live(c) /\ Raised /\ UNCHANGED <<client, child>>
  BY <1>1, <1>5, RaisedStep DEF Freshly
<1>6. ASSUME NEW c \in Clients, Holders(n) = {}, client[c] = NoRecord, Passes(c),
             client' = [client EXCEPT ![c] = [name |-> n, contact |-> "null", group |-> "none", del |-> 0]],
             UNCHANGED <<child, pending>>
      PROVE  UndoInv'
  <2> DEFINE row == [name |-> n, contact |-> "null", group |-> "none", del |-> 0]
  <2>1. row \in Record /\ row # NoRecord /\ row.name = n /\ row.del = 0
    BY <1>2, UndoAssumption, NoRecordAssumption DEF Record
  <2> HIDE DEF row
  <2>2. /\ client' \in [Clients -> RowsOfClients] /\ client'[c] = row
        /\ \A d \in Clients \ {c} : client'[d] = client[d]
    BY <1>6, <2>1 DEF UndoInv, UndoTypes, RowsOfClients, row
  <2>3. \A d \in Clients : client[d] # NoRecord => client[d].name # n
    BY <1>6 DEF Holders
  <2>4. NamesApart(client)'
    BY <2>1, <2>2, <2>3, NamesPut DEF UndoInv
  <2>5. ASSUME c \notin cmd.moved PROVE Origin(cmd, c)
    BY <1>2, <1>6, <2>3, <2>5 DEF NamedLive, Origin
  <2> QED BY <1>2, <1>3, <1>6, <2>1, <2>2, <2>4, <2>5 DEF Alive
<1> QED BY <1>4, <1>5, <1>6 DEF CreateClient

LEMMA WriteFieldsStep == UndoInv /\ WriteFields => UndoInv'
<1> SUFFICES ASSUME UndoInv, WriteFields PROVE UndoInv'
  OBVIOUS
<1> DEFINE cmd == doing.cmd
<1>1. /\ doing.stage = "write" /\ cmd.kind \in {"add", "edit"}
      /\ UNCHANGED <<now, child, commands, others>>
  BY DEF WriteFields
<1>2. PICK c \in cmd.ids, n \in Names, t \in Contacts, g \in Marks \cup {"none"} :
          LET name == IF cmd.kind = "add" THEN client[c].name ELSE n
          IN IF Live(c) /\ Free(name, c)
             THEN /\ client' = [client EXCEPT ![c] = [name |-> name, contact |-> t, group |-> g, del |-> 0]]
                  /\ pending' = cmd /\ doing' = AtRest
             ELSE Raised /\ UNCHANGED client
  BY DEF WriteFields
<1> DEFINE name == IF cmd.kind = "add" THEN client[c].name ELSE n
           row == [name |-> name, contact |-> t, group |-> g, del |-> 0]
<1>3. /\ cmd \in Commands /\ cmd.ids = {c} /\ c \in Clients /\ Aimed(cmd, client) /\ client[c] # NoRecord
      /\ client[c] \in Record /\ MadeUpBefore(cmd.was, client)
      /\ \A d \in Clients \ cmd.moved : child[d] = cmd.kids[d]
                /\ IF cmd.kind = "add" /\ d = c THEN Alive(client[d]) ELSE client[d] = cmd.was[d]
  <2>1. cmd \in Commands /\ Aimed(cmd, client) /\ (cmd.kind = "add" => Added(cmd))
    BY <1>1, UndoTypesAre DEF UndoInv, Opened
  <2>2. cmd.ids = {c} /\ c \in Clients
    BY <1>1, <2>1 DEF Added, Aimed
  <2> QED BY <1>1, <2>1, <2>2, UndoTypesAre DEF UndoInv, Opened, Aimed, RowsOfClients
<1>4. CASE Live(c) /\ Free(name, c)
  <2>1. client' = [client EXCEPT ![c] = row] /\ pending' = cmd /\ doing' = AtRest
    BY <1>2, <1>4
  <2>2. row \in Record /\ row # NoRecord /\ row.del = 0 /\ row.name = name
    BY <1>3, RecordIs, UndoAssumption DEF AllNames
  <2> HIDE DEF row
  <2>3. /\ client' \in [Clients -> RowsOfClients] /\ client'[c] = row
        /\ \A d \in Clients \ {c} : client'[d] = client[d]
    BY <1>3, <2>1, <2>2 DEF UndoInv, UndoTypes, RowsOfClients
  <2>4. \A d \in Clients \ {c} : client[d] # NoRecord => client[d].name # name
    BY <1>4 DEF Free, Holders
  <2>5. NamesApart(client)'
    BY <1>3, <2>2, <2>3, <2>4, NamesPut DEF UndoInv
  <2>6. MadeUpBefore(cmd.was, client')
    BY <1>3, <2>2, <2>3 DEF MadeUpBefore
  <2>7. \A d \in Clients \ cmd.moved : Remains(cmd, d, client'[d], child'[d])
    BY <1>1, <1>3, <2>2, <2>3 DEF Remains, Alive
  <2> QED BY <1>1, <2>1, <2>2, <2>3, <2>5, <2>6, <2>7, ArmedStep DEF UndoInv, UndoTypes
<1>5. CASE ~ (Live(c) /\ Free(name, c))
  <2>1. Raised /\ UNCHANGED client
    BY <1>2, <1>5
  <2>2. ASSUME NEW d \in Clients, Freshly(d) PROVE FALSE
    <3>1. cmd.kind = "add" /\ d = c /\ c \notin cmd.moved
      BY <1>3, <2>2 DEF Freshly
    <3>2. Live(c) /\ name = client[c].name
      BY <1>3, <3>1 DEF Live, Alive
    <3>3. Free(name, c)
      BY <1>3, <3>2 DEF UndoInv, NamesApart, Free, Holders
    <3> QED BY <1>5, <3>2, <3>3
  <2> QED BY <1>1, <2>1, <2>2, RaisedStep
<1> QED BY <1>4, <1>5

\* RowsOfClients that keep their names.
LEMMA NamesKept ==
    ASSUME UndoTypes, client' = [c \in Clients |-> client'[c]],
           \A c \in Clients :
                \/ client'[c] = client[c]
                \/ /\ client[c] \in Record
                   /\ \/ \E g \in Marks \cup {"none"} : client'[c] = [client[c] EXCEPT !.group = g]
                      \/ \E d \in 0..MaxNow : client'[c] = [client[c] EXCEPT !.del = d]
    PROVE  /\ client' \in [Clients -> RowsOfClients]
           /\ \A c \in Clients : (client'[c] # NoRecord <=> client[c] # NoRecord) /\ client'[c].name = client[c].name
           /\ NamesApart(client) => NamesApart(client')
           /\ \A was : MadeUpBefore(was, client) => MadeUpBefore(was, client')
<1>1. ASSUME NEW c \in Clients
      PROVE  client'[c] \in RowsOfClients /\ (client'[c] # NoRecord <=> client[c] # NoRecord)
             /\ client'[c].name = client[c].name
  <2>1. CASE client'[c] = client[c]
    BY <2>1, UndoTypesAre
  <2>2. ASSUME client[c] \in Record, NEW g \in Marks \cup {"none"}, client'[c] = [client[c] EXCEPT !.group = g]
        PROVE  client'[c] \in Record /\ client'[c].name = client[c].name
    BY <2>2, RowChanged
  <2>3. ASSUME client[c] \in Record, NEW d \in 0..MaxNow, client'[c] = [client[c] EXCEPT !.del = d]
        PROVE  client'[c] \in Record /\ client'[c].name = client[c].name
    BY <2>3, RowChanged
  <2> QED BY <2>1, <2>2, <2>3, RecordIs DEF RowsOfClients
<1>2. client' \in [Clients -> RowsOfClients]
  BY <1>1
<1> QED BY <1>1, <1>2 DEF NamesApart, MadeUpBefore

LEMMA LiveIs ==
    ASSUME UndoTypes, NEW c \in Clients, Live(c)
    PROVE  client[c] \in Record /\ client[c].del = 0 /\ client[c] # NoRecord
BY UndoTypesAre DEF Live, RowsOfClients

LEMMA StampedIs ==
    ASSUME UndoTypes, NEW ids, NEW stamp \in 0..MaxNow, Stamped(ids, stamp)
    PROVE  /\ client' \in [Clients -> RowsOfClients]
           /\ \A c \in Clients : (client'[c] # NoRecord <=> client[c] # NoRecord) /\ client'[c].name = client[c].name
           /\ NamesApart(client) => NamesApart(client')
           /\ \A was : MadeUpBefore(was, client) => MadeUpBefore(was, client')
           /\ \A c \in Clients : client'[c] =
                IF c \in ids /\ Live(c) THEN [client[c] EXCEPT !.del = stamp] ELSE client[c]
<1>1. /\ client' = [c \in Clients |-> client'[c]]
      /\ \A c \in Clients : client'[c] =
                IF c \in ids /\ Live(c) THEN [client[c] EXCEPT !.del = stamp] ELSE client[c]
  BY DEF Stamped
<1> QED BY <1>1, NamesKept, LiveIs

LEMMA WriteChosenStep == UndoInv /\ WriteChosen => UndoInv'
<1> SUFFICES ASSUME UndoInv, WriteChosen PROVE UndoInv'
  OBVIOUS
<1> DEFINE cmd == doing.cmd
           ids == doing.cmd.ids
<1>1. /\ doing.stage = "write" /\ pending' = cmd /\ doing' = AtRest
      /\ UNCHANGED <<now, commands, others>>
  BY DEF WriteChosen
<1>2. /\ cmd \in Commands /\ Aimed(cmd, client) /\ MadeUpBefore(cmd.was, client)
      /\ cmd.stamp \in 0..MaxNow /\ now \in 0..MaxNow /\ UndoTypes /\ NamesApart(client)
      /\ cmd.kind # "add" => \A c \in Clients \ cmd.moved : child[c] = cmd.kids[c] /\ client[c] = cmd.was[c]
  BY <1>1, UndoTypesAre, CommandIs DEF UndoInv, Opened
<1>3. \A c \in ids : cmd.kind # "add" => cmd.was[c] # NoRecord
  BY <1>2 DEF Aimed
<1>4. ASSUME cmd.kind = "assign", UNCHANGED child, NEW g \in Marks \cup {"none"},
             client' = [c \in Clients |->
                    IF c \in ids /\ Live(c) THEN [client[c] EXCEPT !.group = g] ELSE client[c]]
      PROVE  UndoInv'
  <2>1. /\ client' = [c \in Clients |-> client'[c]]
        /\ \A c \in Clients : client'[c] =
                IF c \in ids /\ Live(c) THEN [client[c] EXCEPT !.group = g] ELSE client[c]
    BY <1>4
  <2>2. /\ client' \in [Clients -> RowsOfClients] /\ NamesApart(client') /\ MadeUpBefore(cmd.was, client')
        /\ \A c \in Clients : client[c] # NoRecord => client'[c] # NoRecord
    BY <1>2, <2>1, NamesKept, LiveIs
  <2>3. ASSUME NEW c \in Clients \ cmd.moved PROVE Remains(cmd, c, client'[c], child'[c])
    <3>1. client[c] = cmd.was[c] /\ child'[c] = cmd.kids[c]
      BY <1>2, <1>4
    <3>2. CASE c \notin ids
      BY <2>1, <3>1, <3>2 DEF Remains
    <3>3. CASE c \in ids /\ cmd.was[c].del # 0
      BY <1>4, <2>1, <3>1, <3>3 DEF Remains, Live
    <3>4. CASE c \in ids /\ cmd.was[c].del = 0
      <4>1. client[c] \in Record /\ client'[c] = [client[c] EXCEPT !.group = g]
        BY <1>3, <1>4, <2>1, <3>1, <3>4, LiveIs, <1>2 DEF Live
      <4>2. client'[c].group = g
        BY <4>1, RowChanged
      <4> QED BY <1>4, <3>1, <3>4, <4>1, <4>2 DEF Remains
    <3> QED BY <3>2, <3>3, <3>4
  <2> QED BY <1>1, <1>2, <1>4, <2>2, <2>3, ArmedStep DEF UndoTypes
<1>5. ASSUME cmd.kind = "delete", Deleted(ids, cmd.stamp) PROVE UndoInv'
  <2>1. /\ client' \in [Clients -> RowsOfClients] /\ NamesApart(client') /\ MadeUpBefore(cmd.was, client')
        /\ \A c \in Clients : client[c] # NoRecord => client'[c] # NoRecord
        /\ \A c \in Clients : client'[c] =
                IF c \in ids /\ Live(c) THEN [client[c] EXCEPT !.del = cmd.stamp] ELSE client[c]
    BY <1>2, <1>5, StampedIs DEF Deleted
  <2>2. /\ child' \in [Clients -> 0..MaxNow]
        /\ \A c \in Clients : child'[c] = IF c \in ids /\ child[c] = 0 THEN cmd.stamp ELSE child[c]
    BY <1>2, <1>5, UndoTypesAre DEF Deleted
  <2>3. ASSUME NEW c \in Clients \ cmd.moved PROVE Remains(cmd, c, client'[c], child'[c])
    <3>1. client[c] = cmd.was[c] /\ child[c] = cmd.kids[c]
      BY <1>2, <1>5
    <3> QED BY <1>3, <1>5, <2>1, <2>2, <3>1 DEF Remains, Live
  <2> QED BY <1>1, <1>2, <2>1, <2>2, <2>3, ArmedStep
<1>6. ASSUME cmd.kind = "archive", Stamped(ids, now), UNCHANGED child PROVE UndoInv'
  <2>1. /\ client' \in [Clients -> RowsOfClients] /\ NamesApart(client') /\ MadeUpBefore(cmd.was, client')
        /\ \A c \in Clients : client[c] # NoRecord => client'[c] # NoRecord
        /\ \A c \in Clients : client'[c] =
                IF c \in ids /\ Live(c) THEN [client[c] EXCEPT !.del = now] ELSE client[c]
    BY <1>2, <1>6, StampedIs
  <2>2. ASSUME NEW c \in Clients \ cmd.moved PROVE Remains(cmd, c, client'[c], child'[c])
    <3>1. client[c] = cmd.was[c] /\ child'[c] = cmd.kids[c]
      BY <1>2, <1>6
    <3>2. CASE c \in ids /\ Live(c)
      <4>1. client'[c] = [client[c] EXCEPT !.del = now] /\ client[c] \in Record
        BY <1>2, <2>1, <3>2, LiveIs
      <4>2. client'[c].del = now
        BY <1>2, <4>1, RowChanged
      <4> QED BY <1>6, <3>1, <3>2, <4>1, <4>2 DEF Remains, Live
    <3>3. CASE ~ (c \in ids /\ Live(c))
      BY <1>3, <1>6, <2>1, <3>1, <3>3 DEF Remains, Live
    <3> QED BY <3>2, <3>3
  <2> QED BY <1>1, <1>2, <1>6, <2>1, <2>2, ArmedStep DEF UndoTypes
<1> QED BY <1>4, <1>5, <1>6 DEF WriteChosen

LEMMA StartUndoStep == UndoInv /\ StartUndo => UndoInv'
<1> SUFFICES ASSUME UndoInv, StartUndo PROVE UndoInv'
  OBVIOUS
<1> DEFINE live == {c \in pending.ids : pending.was[c] # NoRecord /\ pending.was[c].del = 0}
           asks == pending.kind = "delete" /\ Conflict
<1>1. /\ doing.stage = "idle" /\ pending.kind # "none"
      /\ doing' = [AtRest EXCEPT !.stage = "undo", !.force = asks, !.left = live]
      /\ UNCHANGED <<now, client, child, pending, commands, others>>
  BY DEF StartUndo
<1>2. live \subseteq Clients /\ asks \in BOOLEAN /\ pending \in Commands
  BY UndoTypesAre, CommandIs DEF UndoInv
<1> HIDE DEF live, asks
<1>3. doing' \in Doings /\ doing'.stage = "undo" /\ doing'.left = live
  BY <1>1, <1>2, RestOf DEF AtRest, Doings
<1>4. UndoTypes' /\ NamesApart(client)' /\ Opened'
  BY <1>1, <1>3 DEF UndoInv, UndoTypes, Opened
<1>5. Armed' /\ \A c \in Clients \ pending.moved : Remains(pending, c, client[c], child[c])
  BY <1>1, <1>3 DEF UndoInv, Armed, Freshly
<1>6. ASSUME pending.kind = "assign", NEW c \in pending.ids \ (live \cup pending.moved)
      PROVE  client[c] = pending.was[c]
  <2>1. pending.was[c] # NoRecord /\ c \in Clients
    BY <1>1, <1>2, <1>6, CommandIs DEF UndoInv, Armed, Aimed
  <2>2. pending.was[c].del # 0
    BY <1>6, <2>1 DEF live
  <2> QED BY <1>5, <1>6, <2>1, <2>2 DEF Remains
<1>7. Revising'
  BY <1>1, <1>3, <1>6 DEF Revising, live
<1> QED BY <1>4, <1>5, <1>7 DEF UndoInv

\* What an undo finds.
LEMMA UndoFinds ==
    ASSUME UndoInv, doing.stage \in {"undo", "restore"}
    PROVE  /\ pending.kind # "none" /\ pending \in Commands /\ Aimed(pending, client)
           /\ pending.kind = "add" => Added(pending)
           /\ doing.stage = "undo" => MadeUpBefore(pending.was, client)
           /\ \A c \in Clients \ pending.moved : Remains(pending, c, client[c], child[c])
           /\ \A c \in Clients : pending.was[c] # NoRecord => pending.was[c] \in Record
           /\ \A c \in Clients : client[c] # NoRecord => client[c] \in Record
           /\ pending.ids \subseteq Clients /\ pending.existing \subseteq Clients
           /\ \A c \in pending.ids : ~ Freshly(c)
<1>1. pending.kind # "none" /\ pending \in Commands
  BY UndoTypesAre DEF UndoInv, Revising
<1> QED BY <1>1, UndoTypesAre, CommandIs DEF UndoInv, Armed, Freshly, RowsOfClients

\* What UndoIsExact says of one step.
Exact ==
    /\ pending.kind # "none" /\ pending' = NoCommand =>
          \A c \in Clients \ pending.moved :
             (client'[c] = pending.was[c] /\ child'[c] = pending.kids[c]) \/ Inexact(c)
    /\ doing.stage \in {"undo", "restore"} /\ doing'.stage = "idle" /\ pending' # NoCommand =>
          pending.moved # {}

\* An undo that fails was disturbed.
LEMMA ExactIfDisturbed ==
    ASSUME UndoInv, doing.stage \in {"undo", "restore"}, Raised, pending.moved # {}
    PROVE  Exact
BY UndoFinds, RestOf DEF Raised, Exact

LEMMA UndoFieldsStep == UndoInv /\ UndoFields => UndoInv' /\ Exact
<1> SUFFICES ASSUME UndoInv, UndoFields PROVE UndoInv' /\ Exact
  OBVIOUS
<1>1. /\ doing.stage = "undo" /\ pending.kind \in {"edit", "add"}
      /\ UNCHANGED <<now, child, commands, others>>
  BY DEF UndoFields, Undoing
<1>2. PICK c \in pending.ids, e \in pending.existing :
          LET old == pending.was[e]
          IN IF Live(c) /\ Free(old.name, c)
             THEN /\ client' = [client EXCEPT ![c] = [old EXCEPT
                            !.contact = IF @ = "null" THEN client[c].contact ELSE @]]
                  /\ Undone
             ELSE Raised /\ UNCHANGED client
  BY DEF UndoFields
<1> DEFINE old == pending.was[e]
           text == IF old.contact = "null" THEN client[c].contact ELSE old.contact
           row == [old EXCEPT !.contact = text]
<1>3. /\ pending \in Commands /\ pending.ids = {c} /\ c \in Clients /\ e \in Clients
      /\ old \in Record /\ client[c] \in Record /\ Aimed(pending, client)
      /\ pending.kind = "edit" => e = c
      /\ pending.kind = "add" => Added(pending)
      /\ \A d \in Clients \ pending.moved : Remains(pending, d, client[d], child[d])
  <2>1. pending.ids = {c} /\ c \in Clients /\ e \in Clients
    BY <1>1, UndoFinds DEF Added, Aimed
  <2>2. pending.was[e] # NoRecord /\ client[c] # NoRecord /\ (pending.kind = "edit" => e = c)
    BY <1>1, <2>1, UndoFinds DEF Aimed
  <2> QED BY <1>1, <2>1, <2>2, UndoFinds
<1>4. CASE Live(c) /\ Free(old.name, c)
  <2>1. client' = [client EXCEPT ![c] = row] /\ Undone
    BY <1>2, <1>4
  <2>2. text \in Contacts \cup {"null"}
    BY <1>3, RecordIs
  <2>3. row \in Record /\ row.name = old.name
    BY <1>3, <2>2, RowChanged
  <2>4. old.contact # "null" => row = old
    BY <1>3, RowRestored
  <2>5. /\ client' \in [Clients -> RowsOfClients] /\ client'[c] = row
        /\ \A d \in Clients \ {c} : client'[d] = client[d]
    BY <1>3, <2>1, <2>3 DEF UndoInv, UndoTypes, RowsOfClients
  <2>6. \A d \in Clients \ {c} : client[d] # NoRecord => client[d].name # old.name
    BY <1>4 DEF Free, Holders
  <2>7. NamesApart(client)'
    <3>1. \A d \in Clients \ {c} : client'[d] = client[d] /\ (client[d] # NoRecord => client[d].name # client'[c].name)
      BY <2>3, <2>5, <2>6
    <3> QED BY ONLY <1>3, <3>1, UndoInv, NamesPut DEF UndoInv
  <2>8. UndoInv'
    BY <1>1, <2>1, <2>5, <2>7, UndoneStep DEF UndoInv, UndoTypes
  <2>9. ASSUME NEW d \in Clients \ pending.moved
        PROVE  (client'[d] = pending.was[d] /\ child'[d] = pending.kids[d]) \/ Inexact(d)
    <3>1. CASE d # c
      BY <1>1, <1>3, <2>5, <2>9, <3>1 DEF Remains
    <3>2. CASE d = c /\ pending.was[c] = NoRecord
      <4>1. pending.kind = "add"
        BY <1>1, <1>3, <3>2, NoRecordAssumption
      <4> QED BY <1>2, <1>3, <3>2, <4>1 DEF Inexact
    <3>3. CASE d = c /\ pending.was[c] # NoRecord
      <4>1. e = c /\ child'[c] = pending.kids[c]
        BY <1>1, <1>3, <2>9, <3>3 DEF Added, Origin, Remains
      <4>2. CASE old.contact = "null"
        BY <1>1, <1>3, <2>5, <3>3, <4>1, <4>2 DEF Inexact
      <4> QED BY <2>4, <2>5, <3>3, <4>1, <4>2
    <3> QED BY <3>1, <3>2, <3>3
  <2> QED BY <2>1, <2>8, <2>9 DEF Exact, Undone
<1>5. CASE ~ (Live(c) /\ Free(old.name, c))
  <2>1. Raised /\ UNCHANGED client
    BY <1>2, <1>5
  <2>2. UndoInv'
    BY <1>1, <2>1, RaisedStep DEF Freshly
  <2>3. ASSUME pending.moved = {} PROVE FALSE
    <3>1. Live(c) /\ e = c
      BY <1>1, <1>2, <1>3, <2>3 DEF Added, Origin, Remains, Alive, Live
    <3>2. \A d \in Clients \ {c} : client[d] = pending.was[d]
      BY <1>3, <2>3 DEF Remains
    <3>3. Free(old.name, c)
      BY <1>3, <3>1, <3>2, NoRecordAssumption DEF Free, Holders, Aimed, NamesApart
    <3> QED BY <1>5, <3>1, <3>3
  <2> QED BY <1>1, <2>1, <2>2, <2>3, ExactIfDisturbed
<1> QED BY <1>4, <1>5

LEMMA UndoAddStep == UndoInv /\ UndoAdd => UndoInv' /\ Exact
<1> SUFFICES ASSUME UndoInv, UndoAdd PROVE UndoInv' /\ Exact
  OBVIOUS
<1>1. /\ doing.stage = "undo" /\ pending.kind = "add" /\ pending.existing = {}
      /\ Deleted(pending.ids, now) /\ Undone /\ UNCHANGED <<now, commands, others>>
  BY DEF UndoAdd, Undoing
<1>2. now \in 0..MaxNow /\ now # 0 /\ UndoTypes /\ NamesApart(client)
  BY UndoTypesAre DEF UndoInv
<1>3. /\ client' \in [Clients -> RowsOfClients] /\ NamesApart(client')
      /\ \A c \in Clients : client'[c] =
                IF c \in pending.ids /\ Live(c) THEN [client[c] EXCEPT !.del = now] ELSE client[c]
  BY <1>1, <1>2, StampedIs DEF Deleted
<1>4. /\ child' \in [Clients -> 0..MaxNow]
      /\ \A c \in Clients : child'[c] = IF c \in pending.ids /\ child[c] = 0 THEN now ELSE child[c]
  BY <1>1, <1>2, UndoTypesAre DEF Deleted
<1>5. UndoInv'
  BY <1>1, <1>3, <1>4, UndoneStep
<1>6. ASSUME NEW c \in Clients \ pending.moved
      PROVE  (client'[c] = pending.was[c] /\ child'[c] = pending.kids[c]) \/ Inexact(c)
  <2>1. Added(pending) /\ Remains(pending, c, client[c], child[c])
    BY <1>1, <1>6, UndoFinds
  <2>2. CASE c \notin pending.ids
    BY <1>3, <1>4, <2>1, <2>2 DEF Remains
  <2>3. CASE c \in pending.ids
    <3>1. pending.was[c] = NoRecord
      BY <1>1, <1>6, <2>1, <2>3 DEF Added, Origin
    <3>2. Live(c)
      BY <1>1, <2>1, <2>3 DEF Remains, Alive, Live
    <3>3. client'[c] = [client[c] EXCEPT !.del = now] /\ client[c] \in Record
      BY <1>2, <1>3, <2>3, <3>2, LiveIs
    <3>4. client'[c].del = now
      BY <1>2, <3>3, RowChanged
    <3> QED BY <1>1, <1>2, <2>3, <3>1, <3>4 DEF Inexact
  <2> QED BY <2>2, <2>3
<1> QED BY <1>1, <1>5, <1>6 DEF Exact, Undone

LEMMA UndoOneStep == UndoInv /\ UndoOne => UndoInv' /\ Exact
<1> SUFFICES ASSUME UndoInv, UndoOne PROVE UndoInv' /\ Exact
  OBVIOUS
<1>1. doing.stage = "undo" /\ pending.kind = "assign" /\ UNCHANGED <<now, child, commands, others>>
  BY DEF UndoOne, Undoing
<1>2. PICK c \in doing.left :
          IF Live(c)
          THEN /\ client' = [client EXCEPT ![c].group = pending.was[c].group]
               /\ doing' = [doing EXCEPT !.left = @ \ {c}] /\ UNCHANGED pending
          ELSE Raised /\ UNCHANGED client
  BY DEF UndoOne
<1>3. /\ c \in pending.ids /\ c \in Clients /\ pending.was[c] \in Record /\ pending.was[c].del = 0
      /\ pending.was[c] # NoRecord /\ doing.left \subseteq pending.ids /\ doing.left \subseteq Clients
      /\ \A d \in pending.ids \ (doing.left \cup pending.moved) : client[d] = pending.was[d]
  BY <1>1, UndoFinds DEF UndoInv, Revising
<1>4. CASE Live(c)
  <2> DEFINE row == [client[c] EXCEPT !.group = pending.was[c].group]
  <2>1. client' = [client EXCEPT ![c] = row] /\ doing' = [doing EXCEPT !.left = @ \ {c}] /\ pending' = pending
    BY <1>2, <1>4
  <2>2. client[c] \in Record /\ pending.was[c].group \in Marks \cup {"none"} /\ UndoTypes
    BY <1>3, <1>4, LiveIs, RecordIs DEF UndoInv
  <2>3. row \in Record /\ row.name = client[c].name /\ row # NoRecord
    <3>1. row \in Record /\ row.name = client[c].name
      BY <2>2, RowChanged
    <3> QED BY <3>1, RecordIs
  <2>4. c \notin pending.moved => row = pending.was[c]
    <3>1. CASE c \notin pending.moved
      <4> DEFINE g == client[c].group
      <4>1. client[c] = [pending.was[c] EXCEPT !.group = g]
        BY <1>1, <1>3, <3>1, UndoFinds DEF Remains
      <4>2. g \in Marks \cup {"none"}
        BY <2>2, RecordIs
      <4> HIDE DEF g
      <4> QED BY <1>3, <4>1, <4>2, RowRestored
    <3> QED BY <3>1
  <2> HIDE DEF row
  <2>5. /\ client' \in [Clients -> RowsOfClients] /\ client'[c] = row
        /\ \A d \in Clients \ {c} : client'[d] = client[d]
    BY <1>3, <2>1, <2>2, <2>3 DEF UndoTypes, RowsOfClients
  <2>6. /\ doing' \in Doings /\ doing'.stage = "undo" /\ doing'.left = doing.left \ {c}
        /\ doing'.cmd = doing.cmd
    BY <1>1, <2>1, <2>2 DEF UndoTypes, Doings
  <2>7. UndoTypes' /\ NamesApart(client)'
    <3>1. UndoTypes'
      BY <1>1, <2>1, <2>2, <2>5, <2>6 DEF UndoTypes
    <3>2. \A d \in Clients : (client'[d] # NoRecord <=> client[d] # NoRecord) /\ client'[d].name = client[d].name
      BY <2>2, <2>3, <2>5, RecordIs
    <3>3. NamesApart(client')
      BY <3>2 DEF NamesApart, UndoInv
    <3> QED BY <3>1, <3>3
  <2>8. Opened'
    BY <2>6 DEF Opened
  <2>9. Armed'
    <3>1. Aimed(pending, client') /\ MadeUpBefore(pending.was, client')
      <4>1. Aimed(pending, client')
        BY <1>1, <2>3, <2>5, UndoFinds, AimedStays
      <4>2. MadeUpBefore(pending.was, client)
        BY <1>1, UndoFinds
      <4>3. MadeUpBefore(pending.was, client')
        BY <2>2, <2>3, <2>5, <4>2, RecordIs DEF MadeUpBefore
      <4> QED BY <4>1, <4>3
    <3>2. ASSUME NEW d \in Clients \ pending.moved PROVE Remains(pending, d, client'[d], child'[d])
      <4>1. Remains(pending, d, client[d], child[d])
        BY <1>1, <3>2, UndoFinds
      <4>2. CASE d # c
        BY <1>1, <2>5, <3>2, <4>1, <4>2
      <4>3. CASE d = c
        <5>1. client'[c] = pending.was[c] /\ pending.was[c] = [pending.was[c] EXCEPT !.group = client'[c].group]
          <6>1. client'[c] = pending.was[c]
            BY <2>4, <2>5, <3>2, <4>3
          <6> QED BY <1>3, <6>1, RowRestored
        <5> QED BY <1>1, <1>3, <4>1, <4>3, <5>1 DEF Remains
      <4> QED BY <4>2, <4>3
    <3> QED BY <1>1, <2>1, <2>6, <3>1, <3>2, UndoFinds DEF Armed
  <2>10. Revising'
    <3>1. \A d \in pending.ids \ (doing'.left \cup pending.moved) : client'[d] = pending.was[d]
      BY <1>3, <2>4, <2>5, <2>6, UndoFinds, <1>1
    <3> QED BY <1>1, <2>1, <2>6, <3>1 DEF Revising, UndoInv
  <2>11. Exact
    BY <1>1, <2>1, <2>6, UndoFinds, RestOf DEF Exact
  <2> QED BY <2>7, <2>8, <2>9, <2>10, <2>11 DEF UndoInv
<1>5. CASE ~ Live(c)
  <2>1. Raised /\ UNCHANGED client
    BY <1>2, <1>5
  <2>2. pending.moved # {}
    <3>1. SUFFICES ASSUME pending.moved = {} PROVE FALSE
      OBVIOUS
    <3>2. client[c] = [pending.was[c] EXCEPT !.group = client[c].group]
      BY <1>1, <1>3, <3>1, UndoFinds DEF Remains
    <3>3. client[c] # NoRecord
      BY <1>1, <1>3, UndoFinds DEF Aimed
    <3>4. client[c].del = 0
      <4> DEFINE g == client[c].group
      <4>1. client[c] = [pending.was[c] EXCEPT !.group = g]
        BY <3>2
      <4>2. g \in Marks \cup {"none"}
        BY <1>1, <1>3, <3>3, UndoFinds, RecordIs
      <4> HIDE DEF g
      <4>3. [pending.was[c] EXCEPT !.group = g].del = 0
        BY <1>3, <4>2, RowChanged
      <4> QED BY <4>1, <4>3
    <3> QED BY <1>5, <3>3, <3>4 DEF Live
  <2> QED BY <1>1, <2>1, <2>2, RaisedStep, ExactIfDisturbed DEF Freshly
<1> QED BY <1>4, <1>5

LEMMA UndoneAllStep == UndoInv /\ UndoneAll => UndoInv' /\ Exact
<1> SUFFICES ASSUME UndoInv, UndoneAll PROVE UndoInv' /\ Exact
  OBVIOUS
<1>1. /\ doing.stage = "undo" /\ pending.kind = "assign" /\ doing.left = {} /\ Undone
      /\ UNCHANGED <<now, client, child, commands, others>>
  BY DEF UndoneAll, Undoing
<1>2. UndoInv'
  BY <1>1, UndoneStep DEF UndoInv, UndoTypes
<1>3. ASSUME NEW c \in Clients \ pending.moved
      PROVE  client'[c] = pending.was[c] /\ child'[c] = pending.kids[c]
  BY <1>1, <1>3, UndoFinds DEF UndoInv, Revising, Remains
<1> QED BY <1>1, <1>2, <1>3 DEF Exact, Undone

LEMMA UndoArchiveStep == UndoInv /\ UndoArchive => UndoInv' /\ Exact
<1> SUFFICES ASSUME UndoInv, UndoArchive PROVE UndoInv' /\ Exact
  OBVIOUS
<1>1. /\ doing.stage = "undo" /\ pending.kind = "archive" /\ Undone
      /\ UNCHANGED <<now, child, commands, others>>
      /\ client' = [c \in Clients |-> client'[c]]
      /\ \A c \in Clients : client'[c] =
            IF c \in pending.ids /\ client[c] # NoRecord THEN [client[c] EXCEPT !.del = 0] ELSE client[c]
  BY DEF UndoArchive, Undoing
<1>2. UndoTypes /\ NamesApart(client) /\ 0 \in 0..MaxNow
  BY UndoAssumption DEF UndoInv
<1>3. client' \in [Clients -> RowsOfClients] /\ NamesApart(client')
  BY <1>1, <1>2, NamesKept, UndoFinds
<1>4. UndoInv'
  BY <1>1, <1>2, <1>3, UndoneStep DEF UndoTypes
<1>5. ASSUME NEW c \in Clients \ pending.moved
      PROVE  (client'[c] = pending.was[c] /\ child'[c] = pending.kids[c]) \/ Inexact(c)
  <2>1. Remains(pending, c, client[c], child[c])
    BY <1>1, <1>5, UndoFinds
  <2>2. CASE c \notin pending.ids
    BY <1>1, <2>1, <2>2 DEF Remains
  <2>3. CASE c \in pending.ids
    <3>1. /\ client[c] # NoRecord /\ pending.was[c] \in Record /\ client[c] \in Record
          /\ client'[c] = [client[c] EXCEPT !.del = 0] /\ child'[c] = pending.kids[c]
      BY <1>1, <2>1, <2>3, UndoFinds DEF Aimed, Remains
    <3>2. CASE pending.was[c].del # 0
      BY <1>1, <2>1, <2>3, <3>1, <3>2 DEF Remains, Inexact
    <3>3. CASE pending.was[c].del = 0
      <4> DEFINE d == client[c].del
      <4>1. client[c] = [pending.was[c] EXCEPT !.del = d]
        BY <1>1, <2>1, <2>3, <3>3 DEF Remains
      <4>2. d \in 0..MaxNow
        BY <3>1, RecordIs
      <4> HIDE DEF d
      <4>3. client'[c] = [[pending.was[c] EXCEPT !.del = d] EXCEPT !.del = pending.was[c].del]
        BY <3>1, <3>3, <4>1
      <4>4. client'[c] = pending.was[c]
        BY <3>1, <4>2, <4>3, RowRestored
      <4> QED BY <3>1, <4>4
    <3> QED BY <3>2, <3>3
  <2> QED BY <2>2, <2>3
<1> QED BY <1>1, <1>4, <1>5 DEF Exact, Undone

LEMMA UndoRestoreStep == UndoInv /\ UndoRestore => UndoInv' /\ Exact
<1> SUFFICES ASSUME UndoInv, UndoRestore PROVE UndoInv' /\ Exact
  OBVIOUS
<1>1. /\ doing.stage = "restore" /\ Undone /\ UNCHANGED <<now, commands, others>>
      /\ client' = [c \in Clients |-> client'[c]] /\ child' = [c \in Clients |-> child'[c]]
      /\ \A c \in Clients :
            /\ client'[c] = IF c \in pending.ids /\ client[c] # NoRecord /\ client[c].del = pending.stamp
                            THEN [client[c] EXCEPT !.del = 0] ELSE client[c]
            /\ child'[c] = IF c \in pending.ids /\ child[c] = pending.stamp THEN 0 ELSE child[c]
  BY DEF UndoRestore
<1>2. UndoTypes /\ NamesApart(client) /\ 0 \in 0..MaxNow /\ pending.kind = "delete"
  BY <1>1, UndoAssumption DEF UndoInv, Revising
<1>3. client' \in [Clients -> RowsOfClients] /\ NamesApart(client')
  BY <1>1, <1>2, NamesKept, UndoFinds
<1>4. child' \in [Clients -> 0..MaxNow]
  BY <1>1, <1>2, UndoTypesAre
<1>5. UndoInv'
  BY <1>1, <1>3, <1>4, UndoneStep
<1>6. ASSUME NEW c \in Clients \ pending.moved
      PROVE  (client'[c] = pending.was[c] /\ child'[c] = pending.kids[c]) \/ Inexact(c)
  <2>1. Remains(pending, c, client[c], child[c])
    BY <1>1, <1>6, UndoFinds
  <2>2. CASE c \notin pending.ids
    BY <1>1, <2>1, <2>2 DEF Remains
  <2>3. CASE c \in pending.ids
    <3>1. /\ client[c] # NoRecord /\ pending.was[c] \in Record /\ pending.was[c] # NoRecord
          /\ pending.stamp # 0 /\ pending.stamp \in 0..MaxNow /\ pending.kids[c] \in 0..MaxNow
      BY <1>1, <1>2, <2>3, UndoFinds, CommandIs DEF Aimed
    <3>2. child'[c] = IF pending.kids[c] = pending.stamp THEN 0 ELSE pending.kids[c]
      BY <1>1, <1>2, <2>1, <2>3, <3>1 DEF Remains
    <3>3. CASE pending.was[c].del = 0
      <4>1. client[c] = [pending.was[c] EXCEPT !.del = pending.stamp]
        BY <1>2, <2>1, <2>3, <3>3 DEF Remains
      <4>2. client[c].del = pending.stamp
        BY <3>1, <4>1, RowChanged
      <4>3. client'[c] = [[pending.was[c] EXCEPT !.del = pending.stamp] EXCEPT !.del = pending.was[c].del]
        BY <1>1, <2>3, <3>1, <3>3, <4>1, <4>2
      <4>4. client'[c] = pending.was[c]
        BY <3>1, <4>3, RowRestored
      <4> QED BY <1>2, <2>3, <3>2, <4>4 DEF Inexact
    <3>4. CASE pending.was[c].del # 0
      <4>1. client[c] = pending.was[c]
        BY <1>2, <2>1, <2>3, <3>4 DEF Remains
      <4>2. client'[c] = IF pending.was[c].del = pending.stamp THEN [pending.was[c] EXCEPT !.del = 0]
                         ELSE pending.was[c]
        BY <1>1, <2>3, <3>1, <4>1
      <4> QED BY <1>2, <2>3, <3>2, <4>2 DEF Inexact
    <3> QED BY <3>3, <3>4
  <2> QED BY <2>2, <2>3
<1> QED BY <1>1, <1>5, <1>6 DEF Exact, Undone

LEMMA UndoNamesStep == UndoInv /\ UndoNames => UndoInv' /\ Exact
<1> SUFFICES ASSUME UndoInv, UndoNames PROVE UndoInv' /\ Exact
  OBVIOUS
<1> DEFINE named == {c \in pending.ids : pending.was[c] # NoRecord}
           squats(d) == doing.force /\ Live(d)
                        /\ \E c \in named \ {d} : client[d].name = pending.was[c].name
           renamed == [c \in Clients |->
                IF c \in named THEN [client[c] EXCEPT !.name = pending.was[c].name]
                ELSE IF squats(c) THEN [client[c] EXCEPT !.name = <<@, "(replaced)">>]
                ELSE client[c]]
           unique == \A c, d \in Clients :
                c # d /\ renamed[c] # NoRecord /\ renamed[d] # NoRecord => renamed[c].name # renamed[d].name
<1>1. /\ doing.stage = "undo" /\ pending.kind = "delete" /\ UNCHANGED <<now, child, commands, others>>
      /\ IF unique /\ (Conflict => doing.force)
         THEN /\ client' = renamed
              /\ doing' = [doing EXCEPT !.stage = "restore"] /\ UNCHANGED pending
         ELSE Raised /\ UNCHANGED client
  BY DEF UndoNames, Undoing
<1>2. /\ pending \in Commands /\ Aimed(pending, client) /\ NamesApart(pending.was)
      /\ MadeUpBefore(pending.was, client) /\ pending.ids \subseteq Clients /\ UndoTypes
      /\ \A c \in Clients \ pending.moved : Remains(pending, c, client[c], child[c])
      /\ \A c \in Clients : pending.was[c] # NoRecord => pending.was[c] \in Record
      /\ \A c \in Clients : client[c] # NoRecord => client[c] \in Record
  BY <1>1, UndoFinds DEF UndoInv, Aimed
<1>3. \A c \in pending.ids : c \in named /\ client[c] \in Record /\ pending.was[c] \in Record
  BY <1>1, <1>2 DEF Aimed
<1>4. ASSUME NEW d \in Clients, NEW c \in named, d # c, client[d] # NoRecord,
             client[d].name = pending.was[c].name
      PROVE  d \in pending.moved /\ client[d].name \in Names
  <2>1. c \in Clients /\ pending.was[c] # NoRecord
    BY <1>2
  <2>2. pending.was[d] # NoRecord => pending.was[d].name # client[d].name
    BY <1>2, <1>4, <2>1 DEF NamesApart
  <2>3. client[d].name \in Names
    BY <1>2, <1>4, <2>2 DEF MadeUpBefore
  <2>4. ASSUME d \notin pending.moved PROVE FALSE
    <3>1. Remains(pending, d, client[d], child[d])
      BY <1>2, <2>4
    <3>2. CASE d \notin pending.ids
      BY <1>4, <2>2, <3>1, <3>2 DEF Remains
    <3>3. CASE d \in pending.ids
      <4>1. pending.was[d] \in Record /\ pending.was[d] # NoRecord /\ pending.stamp \in 0..MaxNow
        BY <1>2, <1>3, <3>3, RecordIs, CommandIs
      <4>2. client[d] = pending.was[d] \/ client[d] = [pending.was[d] EXCEPT !.del = pending.stamp]
        BY <1>1, <3>1, <3>3 DEF Remains
      <4>3. [pending.was[d] EXCEPT !.del = pending.stamp].name = pending.was[d].name
        BY <4>1, RowChanged
      <4> QED BY <2>2, <4>1, <4>2, <4>3
    <3> QED BY <3>2, <3>3
  <2> QED BY <2>3, <2>4
<1>5. ASSUME NEW d \in pending.ids \ pending.moved
      PROVE  [client[d] EXCEPT !.name = pending.was[d].name] = client[d]
  <2>1. /\ pending.was[d] \in Record /\ client[d] \in Record /\ pending.stamp \in 0..MaxNow /\ d \in Clients
        /\ Remains(pending, d, client[d], child[d])
    BY <1>2, <1>3, <1>5, CommandIs
  <2>2. client[d] = pending.was[d] \/ client[d] = [pending.was[d] EXCEPT !.del = pending.stamp]
    BY <1>1, <2>1 DEF Remains
  <2>3. [pending.was[d] EXCEPT !.del = pending.stamp].name = pending.was[d].name
    BY <2>1, RowChanged
  <2> QED BY <2>1, <2>2, <2>3, RowRestored
<1>6. \A d \in Clients \ pending.moved : renamed[d] = client[d]
  <2> SUFFICES ASSUME NEW d \in Clients \ pending.moved PROVE renamed[d] = client[d]
    OBVIOUS
  <2>1. ~ squats(d)
    BY <1>4 DEF Live
  <2> QED BY <1>5, <2>1
<1>7. ASSUME NEW d \in Clients
      PROVE  renamed[d] \in RowsOfClients /\ (client[d] # NoRecord => renamed[d] # NoRecord)
  <2>1. CASE d \in named
    <3>1. client[d] \in Record /\ pending.was[d].name \in AllNames
      BY <1>3, <2>1, RecordIs
    <3>2. [client[d] EXCEPT !.name = pending.was[d].name] \in Record
      BY <3>1, RowChanged
    <3> QED BY <2>1, <3>2, RecordIs DEF RowsOfClients
  <2>2. CASE d \notin named /\ squats(d)
    <3>1. client[d] \in Record /\ client[d].name \in Names
      BY <1>2, <1>4, <2>2 DEF Live
    <3>2. <<client[d].name, "(replaced)">> \in AllNames
      BY <3>1 DEF AllNames
    <3>3. [client[d] EXCEPT !.name = <<client[d].name, "(replaced)">>] \in Record
      BY <3>1, <3>2, RowChanged
    <3>4. renamed[d] = [client[d] EXCEPT !.name = <<client[d].name, "(replaced)">>]
      BY <2>2
    <3> QED BY <3>3, <3>4, RecordIs DEF RowsOfClients
  <2>3. CASE d \notin named /\ ~ squats(d)
    BY <1>2, <2>3, UndoTypesAre
  <2> QED BY <2>1, <2>2, <2>3
<1>8. renamed \in [Clients -> RowsOfClients]
  BY <1>7
<1> HIDE DEF renamed
<1>9. CASE unique /\ (Conflict => doing.force)
  <2>1. client' = renamed /\ doing' = [doing EXCEPT !.stage = "restore"] /\ pending' = pending
    BY <1>1, <1>9
  <2>2. /\ doing' \in Doings /\ doing'.stage = "restore" /\ doing'.cmd = doing.cmd
    BY <1>2, <2>1 DEF UndoTypes, Doings
  <2>3. UndoTypes'
    BY <1>1, <1>2, <1>8, <2>1, <2>2 DEF UndoTypes
  <2>4. NamesApart(client)'
    BY <1>9, <2>1 DEF NamesApart
  <2>5. Opened' /\ Revising'
    BY <1>1, <2>1, <2>2 DEF Opened, Revising
  <2>6. Aimed(pending, client')
    BY <1>2, <1>7, <2>1, AimedStays
  <2>7. \A d \in Clients \ pending.moved : Remains(pending, d, client'[d], child'[d])
    BY <1>1, <1>2, <1>6, <2>1
  <2>8. Armed'
    BY <1>1, <2>1, <2>2, <2>6, <2>7 DEF Armed
  <2>9. Exact
    BY <1>1, <2>1, <2>2, RestOf DEF Exact
  <2> QED BY <2>3, <2>4, <2>5, <2>8, <2>9 DEF UndoInv
<1>10. CASE ~ (unique /\ (Conflict => doing.force))
  <2>1. Raised /\ UNCHANGED client
    BY <1>1, <1>10
  <2>2. ASSUME pending.moved = {} PROVE FALSE
    <3>1. unique
      <4>1. \A d \in Clients : renamed[d] = client[d]
        BY <1>6, <2>2
      <4> QED BY <4>1 DEF UndoInv, NamesApart
    <3>2. ~ Conflict
      <4>1. ASSUME NEW c \in pending.ids, NEW d \in Holders(pending.was[c].name), d # c PROVE FALSE
        <5>1. d \in Clients /\ client[d] # NoRecord /\ client[d].name = pending.was[c].name
          BY DEF Holders
        <5>2. c \in named
          BY <1>3
        <5>3. d \in pending.moved
          BY <1>4, <4>1, <5>1, <5>2
        <5> QED BY <2>2, <5>3
      <4> QED BY <4>1 DEF Conflict
    <3> QED BY <1>10, <3>1, <3>2
  <2> QED BY <1>1, <2>1, <2>2, RaisedStep, ExactIfDisturbed DEF Freshly
<1> QED BY <1>9, <1>10

LEMMA PullClientStep == ASSUME UndoInv, NEW c \in Clients, PullClient(c) PROVE UndoInv'
<1>1. PICK r \in Record :
          /\ r.name \in Names /\ Free(r.name, c)
          /\ client' = [client EXCEPT ![c] = r]
  BY DEF PullClient
<1>2. ByOthers(c) /\ UNCHANGED child
  BY DEF PullClient
<1>3. /\ client' \in [Clients -> RowsOfClients] /\ client'[c] = r /\ r # NoRecord
      /\ \A d \in Clients \ {c} : client'[d] = client[d]
  BY <1>1, RecordIs DEF UndoInv, UndoTypes, RowsOfClients
<1>4. \A d \in Clients \ {c} : client[d] # NoRecord => client[d].name # r.name
  BY <1>1 DEF Free, Holders
<1>5. NamesApart(client)'
  BY <1>3, <1>4, NamesPut DEF UndoInv
<1> QED BY <1>1, <1>2, <1>3, <1>5, OthersStep DEF UndoInv, UndoTypes

LEMMA PullDeleteStep == ASSUME UndoInv, NEW c \in Clients, PullDelete(c) PROVE UndoInv'
<1>1. PICK stamp \in 1..MaxNow :
          \/ client' = [client EXCEPT ![c].del = stamp] /\ UNCHANGED child
          \/ child' = [child EXCEPT ![c] = stamp] /\ UNCHANGED client
  BY DEF PullDelete
<1>2. ByOthers(c) /\ client[c] \in Record /\ client[c] # NoRecord /\ stamp \in 0..MaxNow
  BY UndoTypesAre, UndoAssumption DEF PullDelete, UndoInv, RowsOfClients
<1>3. CASE client' = [client EXCEPT ![c].del = stamp] /\ UNCHANGED child
  <2> DEFINE row == [client[c] EXCEPT !.del = stamp]
  <2>1. row \in Record /\ row.name = client[c].name /\ row # NoRecord
    BY <1>2, RowChanged, RecordIs
  <2>2. client' = [client EXCEPT ![c] = row]
    BY <1>3
  <2> HIDE DEF row
  <2>3. /\ client' \in [Clients -> RowsOfClients] /\ client'[c] = row
        /\ \A d \in Clients \ {c} : client'[d] = client[d]
    BY <2>1, <2>2 DEF UndoInv, UndoTypes, RowsOfClients
  <2>4. NamesApart(client)'
    BY <1>2, <2>1, <2>3 DEF UndoInv, NamesApart
  <2> QED BY <1>2, <1>3, <2>1, <2>3, <2>4, OthersStep DEF UndoInv, UndoTypes
<1>4. CASE child' = [child EXCEPT ![c] = stamp] /\ UNCHANGED client
  <2>1. child' \in [Clients -> 0..MaxNow] /\ \A d \in Clients \ {c} : child'[d] = child[d]
    BY <1>2, <1>4 DEF UndoInv, UndoTypes
  <2> QED BY <1>2, <1>4, <2>1, OthersStep DEF UndoInv, UndoTypes
<1> QED BY <1>1, <1>3, <1>4

LEMMA DeleteChildStep == ASSUME UndoInv, NEW c \in Clients, DeleteChild(c) PROVE UndoInv'
<1>1. ByOthers(c) /\ child' = [child EXCEPT ![c] = now] /\ UNCHANGED client
  BY DEF DeleteChild
<1>2. child' \in [Clients -> 0..MaxNow] /\ \A d \in Clients \ {c} : child'[d] = child[d]
  BY <1>1, UndoTypesAre DEF UndoInv, UndoTypes
<1> QED BY <1>1, <1>2, OthersStep DEF UndoInv, UndoTypes

\* The steps that neither end nor begin to end an undo.
LEMMA ExactElsewhere ==
    ASSUME UndoInv,
           \/ UNCHANGED <<doing, pending>>
           \/ doing.stage \notin {"undo", "restore"} /\ pending' # NoCommand
           \/ doing'.stage = doing.stage /\ pending' # NoCommand
    PROVE  Exact
<1>1. pending.kind # "none" => pending # NoCommand
  BY RestOf
<1>2. \A s : s \in {"undo", "restore"} => s # "idle"
  OBVIOUS
<1> QED BY <1>1, <1>2, RestOf DEF Exact

LEMMA UndoSteps == UndoInv /\ [UndoNext]_undoVars => UndoInv' /\ Exact
<1> SUFFICES ASSUME UndoInv, [UndoNext]_undoVars PROVE UndoInv' /\ Exact
  OBVIOUS
<1>1. CASE SecondPasses
  <2>1. now' \in 1..MaxNow /\ UNCHANGED <<client, child, doing, pending, commands, others>>
    BY <1>1, UndoAssumption DEF SecondPasses, UndoInv, UndoTypes
  <2>2. UndoInv'
    BY <2>1 DEF UndoInv, UndoTypes, Opened, Armed, Revising, Freshly
  <2> QED BY <2>1, <2>2, ExactElsewhere
<1>2. CASE UNCHANGED undoVars
  <2>1. UNCHANGED <<now, client, child, doing, pending, commands, others>>
    BY <1>2 DEF undoVars
  <2>2. UndoInv'
    BY <2>1 DEF UndoInv, UndoTypes, Opened, Armed, Revising, Freshly
  <2> QED BY <2>1, <2>2, ExactElsewhere
<1>3. CASE OpenAdd \/ OpenChosen
  <2>1. doing.stage = "idle" /\ pending' = pending
    BY <1>3 DEF OpenAdd, OpenChosen, Open
  <2> QED BY <1>3, <2>1, OpensStep, RestOf DEF Exact
<1>4. CASE CreateClient
  <2>1. doing.stage = "create" /\ pending' = pending
    BY <1>4 DEF CreateClient, Raised
  <2> QED BY <1>4, <2>1, CreateStep, RestOf DEF Exact
<1>5. CASE WriteFields \/ WriteChosen
  <2>1. doing.stage = "write" /\ (pending' = pending \/ pending' = doing.cmd)
    BY <1>5 DEF WriteFields, WriteChosen, Raised
  <2>2. doing.cmd.kind # "none"
    BY <2>1 DEF UndoInv, Opened
  <2> QED BY <1>5, <2>1, <2>2, WriteFieldsStep, WriteChosenStep, RestOf DEF Exact
<1>6. CASE StartUndo
  <2>1. doing.stage = "idle" /\ pending' = pending
    BY <1>6 DEF StartUndo
  <2> QED BY <1>6, <2>1, StartUndoStep, RestOf DEF Exact
<1>7. CASE \E c \in Clients : PullClient(c) \/ PullDelete(c) \/ DeleteChild(c)
  <2>1. PICK c \in Clients : PullClient(c) \/ PullDelete(c) \/ DeleteChild(c)
    BY <1>7
  <2>2. doing' = [doing EXCEPT !.cmd = Noted(@, c)] /\ pending' = Noted(pending, c)
    BY <2>1 DEF PullClient, PullDelete, DeleteChild, ByOthers
  <2>3. doing'.stage = doing.stage /\ (pending.kind # "none" => pending'.kind = pending.kind)
    BY <2>2, UndoTypesAre, NotedIs DEF UndoInv, UndoTypes, Doings
  <2>4. Exact
    BY <2>3, RestOf DEF Exact
  <2> QED BY <2>1, <2>4, PullClientStep, PullDeleteStep, DeleteChildStep
<1> QED BY <1>1, <1>2, <1>3, <1>4, <1>5, <1>6, <1>7, UndoFieldsStep, UndoAddStep, UndoOneStep,
           UndoneAllStep, UndoArchiveStep, UndoNamesStep, UndoRestoreStep DEF UndoNext

LEMMA UndoInvariance == UndoSpec => []UndoInv
BY UndoStarts, UndoSteps, PTL DEF UndoSpec

\* The rows and the commands are well-typed; above all, no name is made up twice.
THEOREM UndoTypeCorrect == UndoSpec => []UndoTypeOK
<1>1. UndoInv => UndoTypeOK
  <2> SUFFICES ASSUME UndoInv PROVE UndoTypeOK
    OBVIOUS
  <2>1. doing.cmd \in Commands /\ pending \in Commands /\ doing \in Doings
    BY UndoTypesAre DEF UndoInv, UndoTypes
  <2>2. \A cmd \in Commands : cmd.kind \in {"none", "add", "edit", "assign", "delete", "archive"}
            /\ cmd.ids \cup cmd.existing \cup cmd.moved \subseteq Clients
    BY CommandIs DEF Kinds
  <2>3. doing.left \subseteq Clients /\ doing.force \in BOOLEAN
    BY <2>1 DEF Doings
  <2> QED BY <2>1, <2>2, <2>3, UndoTypesAre DEF UndoInv, UndoTypes, UndoTypeOK, RowsOfClients
<1> QED BY <1>1, UndoInvariance, PTL

\* For any number of clients, commands and changes by others: an undo brings a
\* client that nobody else has changed back to the snapshot, up to the cases
\* listed in Inexact, and fails only if somebody has changed one.
THEOREM UndoExact == UndoSpec => UndoIsExact
<1>1. UndoInv /\ [UndoNext]_undoVars => [Exact]_undoVars
  BY UndoSteps
<1>2. UndoSpec => [][Exact]_undoVars
  BY <1>1, UndoInvariance, PTL DEF UndoSpec
<1> QED BY <1>2 DEF UndoIsExact, Exact
====
