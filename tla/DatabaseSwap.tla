---- MODULE DatabaseSwap ----
(***************************************************************************)
(* Replacing the database file by a staged one, when the app starts with a *)
(* plaintext file (migrate_plaintext_to_cipher) or a backup is restored:   *)
(* moves are tried again while something has the file open, then the old   *)
(* file is renamed aside, at last its bytes are overwritten.               *)
(*                                                                         *)
(* What is swapped in holds the same data as the file or, at a restore,    *)
(* what the user wants instead; the app may end between any two steps.     *)
(* Sidecars, the workspace files of a backup and its safety copy are left  *)
(* out.  One pass of the loop stands for several.                          *)
(***************************************************************************)
EXTENDS Integers

CONSTANTS Tries,         \* attempts: 25
          AsideFrom,     \* the first pass that renames aside: 3
          OverwriteFrom, \* the first that overwrites: 8
          MaxSwaps       \* bound: swaps begun

ASSUME SwapAssumption ==
    {Tries, AsideFrom, OverwriteFrom, MaxSwaps} \subseteq Nat /\ Tries > 0

VARIABLES disk,    \* what is in the database file, in staged and in aside
          leftover,\* what earlier processes left aside
          swap,    \* pass, and how far the pass is
          risked,  \* history: the database file was truncated and not filled since,
                   \* or a swap began after one that had failed with it aside
          swaps
swapVars == <<disk, leftover, swap, risked, swaps>>

Whole == {"old", "new"}
Contents == Whole \cup {"none", "empty", "torn", "blank"}
NoSwap == [pc |-> "none", pass |-> 0]

SwapInit ==
    /\ disk = [dest |-> "old", staged |-> "none", aside |-> "none"]
    /\ leftover = {}
    /\ swap = NoSwap
    /\ risked = FALSE /\ swaps = 0

Stands(pc) == swap.pc = pc
GoOn(pc) == swap' = [swap EXCEPT !.pc = pc]

\* os.replace
Renamed(f, g) == [disk EXCEPT ![g] = disk[f], ![f] = "none"]

\* Mutant of NextPass: after the last pass the loop just ends.
NextPassQuietly ==
    IF swap.pass + 1 < Tries
    THEN swap' = [pc |-> "move", pass |-> swap.pass + 1] /\ UNCHANGED disk
    ELSE swap' = [swap EXCEPT !.pc = "done"] /\ disk' = [disk EXCEPT !.staged = "none"]

\* The next pass, or the error is raised: the caller deletes what it staged.
NextPass ==
    IF swap.pass + 1 < Tries
    THEN swap' = [pc |-> "move", pass |-> swap.pass + 1] /\ UNCHANGED disk
    ELSE swap' = [swap EXCEPT !.pc = "raised"] /\ disk' = [disk EXCEPT !.staged = "none"]

----------------------------------------------------------------------------
\* The file is there and plaintext; what replaces it is staged and verified.
BeginSwap ==
    /\ swap.pc \in {"none", "done"} /\ swaps < MaxSwaps /\ swaps' = swaps + 1
    /\ disk.dest \in Whole \cup {"blank"}
    /\ disk' = [disk EXCEPT !.staged = "new"]
    /\ swap' = [pc |-> "move", pass |-> 0]
    /\ risked' = (risked \/ (disk.dest = "blank" /\ disk.aside # "none"))
    /\ UNCHANGED leftover

\* replace_sqlite_db: the direct move.
Move ==
    /\ Stands("move")
    /\ disk.staged # "none" /\ disk' = Renamed("staged", "dest") /\ GoOn("done")
    /\ risked' = FALSE
    /\ UNCHANGED <<leftover, swaps>>

\* An error that is no lock, the missing file too.
MoveFails ==
    /\ Stands("move") /\ GoOn("raised")
    /\ disk' = [disk EXCEPT !.staged = "none"]
    /\ UNCHANGED <<leftover, risked, swaps>>

MoveDenied ==
    /\ Stands("move") /\ disk.staged # "none"
    /\ IF swap.pass >= AsideFrom /\ disk.dest # "none" THEN GoOn("aside") /\ UNCHANGED disk
       ELSE IF swap.pass >= OverwriteFrom THEN GoOn("overwrite") /\ UNCHANGED disk
       ELSE NextPass
    /\ UNCHANGED <<leftover, risked, swaps>>

\* What follows a rename aside that did not work.
AfterAside ==
    IF swap.pass >= OverwriteFrom THEN GoOn("overwrite") /\ UNCHANGED disk ELSE NextPass

\* Mutant of RenameAside: the old file is deleted to make room.
DeleteOld ==
    /\ Stands("aside") /\ disk' = [disk EXCEPT !.dest = "none"] /\ GoOn("swap in")
    /\ UNCHANGED <<leftover, risked, swaps>>

RenameAside ==
    /\ Stands("aside") /\ disk' = Renamed("dest", "aside") /\ GoOn("swap in")
    /\ UNCHANGED <<leftover, risked, swaps>>

SwapIn ==
    /\ Stands("swap in") /\ disk' = Renamed("staged", "dest") /\ GoOn("clear aside")
    /\ risked' = FALSE
    /\ UNCHANGED <<leftover, swaps>>

\* The file aside is deleted, if that can be done.
ClearAside ==
    /\ Stands("clear aside") /\ GoOn("done")
    /\ disk' \in {disk, [disk EXCEPT !.aside = "none"]}
    /\ UNCHANGED <<leftover, risked, swaps>>

\* Either rename was denied; the first is not undone.
AsideDenied ==
    /\ swap.pc \in {"aside", "swap in"} /\ AfterAside
    /\ UNCHANGED <<leftover, risked, swaps>>

\* _try_overwrite_bytes: opened and truncated, or not.
TruncateFile ==
    /\ Stands("overwrite")
    /\ \/ disk' = [disk EXCEPT !.dest = "empty"] /\ GoOn("write") /\ risked' = TRUE
       \/ NextPass /\ UNCHANGED risked
    /\ UNCHANGED <<leftover, swaps>>

\* Some of the bytes are written, or none.
WriteShort(pc) == disk' \in {[disk EXCEPT !.dest = "torn"], disk} /\ GoOn(pc)

\* All bytes are written; or not, which only an error tells.
Write ==
    /\ Stands("write")
    /\ \/ disk' = [disk EXCEPT !.dest = "new"] /\ GoOn("unstage") /\ risked' = FALSE
       \/ WriteShort("unstage") /\ UNCHANGED risked
       \/ WriteShort("next") /\ UNCHANGED risked
    /\ UNCHANGED <<leftover, swaps>>

Unstage ==
    /\ Stands("unstage")
    /\ \/ disk' = [disk EXCEPT !.staged = "none"] /\ GoOn("done")
       \/ GoOn("next") /\ UNCHANGED disk
    /\ UNCHANGED <<leftover, risked, swaps>>

OverwriteFailed ==
    /\ Stands("next") /\ NextPass
    /\ UNCHANGED <<leftover, risked, swaps>>

----------------------------------------------------------------------------
\* The app ends anywhere; the next one has another number, so that it does
\* not find what this one left aside.
EndApp ==
    /\ ~ Stands("down") /\ swap' = [NoSwap EXCEPT !.pc = "down"]
    /\ leftover' = leftover \cup ({disk.aside} \ {"none"})
    /\ disk' = [disk EXCEPT !.aside = "none"]
    /\ UNCHANGED <<risked, swaps>>

\* A database that is missing or empty is made anew; a torn one cannot be
\* opened.
OpenDatabase ==
    /\ swap.pc \in {"down", "raised"} /\ disk.dest # "torn"
    /\ disk' = [disk EXCEPT !.dest = IF @ \in {"none", "empty"} THEN "blank" ELSE @]
    /\ swap' = NoSwap
    /\ UNCHANGED <<leftover, risked, swaps>>

SwapNext ==
    \/ BeginSwap \/ Move \/ MoveFails \/ MoveDenied
    \/ RenameAside \/ SwapIn \/ ClearAside \/ AsideDenied
    \/ TruncateFile \/ Write \/ Unstage \/ OverwriteFailed
    \/ EndApp \/ OpenDatabase

SwapSpec == SwapInit /\ [][SwapNext]_swapVars

----------------------------------------------------------------------------
SwapTypeOK ==
    /\ disk \in [{"dest", "staged", "aside"} -> Contents] /\ leftover \subseteq Contents
    /\ swap \in [pass : 0..(Tries - 1),
                 pc : {"none", "move", "aside", "swap in", "clear aside", "overwrite", "write",
                       "unstage", "next", "done", "raised", "down"}]
    /\ risked \in BOOLEAN /\ swaps \in Nat

\* The user's data are whole in some file, wherever moves are denied and the
\* app ends, unless the bytes were overwritten and the write was cut short, or
\* a swap that left the file aside was tried again on the blank database that
\* had been opened in its place.
DataSomewhere == risked \/ leftover \cap Whole # {} \/ \E f \in DOMAIN disk : disk[f] \in Whole

\* A swap that came back without an error has swapped, by any of its ways,
\* with the same exceptions.
SwappedIsNew == Stands("done") => risked \/ disk.dest = "new"

\* No data are lost, and what is reported done is done.
SwapSafe == DataSomewhere /\ SwappedIsNew

\* "Raises on failure with the original file untouched."
OriginalUntouched == Stands("raised") => disk.dest \in {"old", "new"}
====
