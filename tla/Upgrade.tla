---- MODULE Upgrade ----
(***************************************************************************)
(* The upgrade of a database when the app starts: numbered migrations, a   *)
(* record of those that ran, and the app ending between any two statements.*)
(*                                                                         *)
(* The driver opens a transaction before it changes rows, not before it    *)
(* changes tables: a CREATE or ALTER with no transaction open stays when   *)
(* the app ends, what follows it does not.  Only migration 1 opens one     *)
(* itself.  A migration commits in its own scope, and is recorded in       *)
(* another.                                                                *)
(*                                                                         *)
(* Modelled are the migrations that move rows (1, 4, 6), make the search   *)
(* index again (2, 10) or fill a new column (18; 11 and 17 are like it).   *)
(* The others add what is missing, one statement each, or change one       *)
(* column of rows in one transaction; defaults are seeded at every start.  *)
(***************************************************************************)
EXTENDS Integers, Sequences

CONSTANTS Relics,  \* rows an older build has left, in each table that is moved
          MaxEnds  \* bound: ends of the app

ASSUME UpgradeAssumption == Relics # {} /\ MaxEnds \in Nat

VARIABLES stored,  \* the file: what is committed
          work,  \* what the connection sees
          tx,    \* it has a transaction open
          start, \* how far the start is in Order, and the statements left there
          cut,   \* history: the places where the app ended
          ends
upgradeVars == <<stored, work, tx, start, cut, ends>>

\* Migrations in their order; 0 stands for SCHEMA_SQL, which is run each time.
Order == <<1, 0, 2, 4, 6, 10, 18>>
SyncTables == {"first", "second"}  \* of migration 18, in its order

Gone == [there |-> FALSE, new |-> FALSE, rows |-> {}]
Made == [there |-> TRUE, new |-> TRUE, rows |-> {}]
Legacy == [there |-> TRUE, new |-> FALSE, rows |-> Relics]

Off == [pc |-> "off", place |-> 0, left |-> <<>>]

\* An older build may have ended after it had renamed the list of renewals,
\* and have made an empty one since. A table of migration 18 may have the
\* column that tells when a row was changed; no row has a global id.
OlderFiles ==
    {f \in [recorded : {{}},
            list : {Legacy, Made, Gone}, aside : {Legacy, Gone},  \* renewal_items, .._old
            prices : {Legacy}, spare : {Gone},                    \* pricing_matrix, .._new
            vault : {Relics}, moved : {[s \in Relics |-> 0]},
            index : {"none", "stale", "fresh"}, triggers : BOOLEAN, ids : BOOLEAN,
            columns : SUBSET SyncTables, stamped : SUBSET SyncTables,
            filled : SUBSET SyncTables, named : {{}}] :
        /\ f.aside = Legacy <=> f.list # Legacy
        /\ f.index = "none" => ~ f.triggers
        /\ f.stamped = f.columns}

UpgradeInit ==
    /\ stored \in OlderFiles
    /\ work = stored /\ tx = FALSE
    /\ start = Off
    /\ cut = {} /\ ends = 0

----------------------------------------------------------------------------
(* The statements.                                                         *)

Commits == <<"commit", "all">>
When(condition, statements) == IF condition THEN statements ELSE <<>>

\* ADD COLUMN where it is missing, the stamps of old rows after it, ids.
Columns(t, f) ==
    When(t \notin f.columns, <<<<"alter", t>>, <<"stamp", t>>>>)
        \o When(t \in f.filled \ f.named, <<<<"name", t>>>>)

MoveVaultTwice == \* mutant: the vault is emptied in a transaction of its own
    <<<<"copy", "vault">>, Commits, <<"empty", "vault">>, Commits>>

\* vault_entries become credentials of clients and of the office.
MoveVault == <<<<"copy", "vault">>, <<"empty", "vault">>, Commits>>

\* renewal_items is made anew, and filled with the rows that were set aside.
RenewList == <<<<"shelve", "list">>, <<"make", "list">>, <<"copy", "list">>, <<"drop", "aside">>>>
Renewals(f) ==
    <<<<"begin", "all">>>> \o When(f.aside.there, <<<<"recover", "list">>>>)
        \o When(f.aside.there \/ (f.list.there /\ ~ f.list.new), RenewList)
        \o <<<<"ensure", "index">>, Commits>>

\* What migration v does to the file f: what it reads first decides.
Statements(v, f) ==
    CASE v = 0 -> <<<<"make", "triggers">>>>
      [] v = 1 -> Renewals(f)
      [] v = 2 -> <<<<"drop", "triggers">>>> \o When(~ f.ids, <<<<"fill", "ids">>>>)
                  \o <<<<"make", "triggers">>, <<"fill", "index">>, Commits>>
      [] v = 4 -> When(f.vault # {}, MoveVault)
      [] v = 6 -> When(~ f.prices.new,
                       <<<<"make", "spare">>, <<"copy", "prices">>, <<"drop", "prices">>,
                         <<"rename", "spare">>, Commits>>)
      [] v = 10 -> <<<<"drop", "triggers">>, <<"empty", "index">>, <<"fill", "index">>,
                     <<"make", "triggers">>, Commits>>
      [] v = 18 -> Columns("first", f) \o Columns("second", f) \o <<Commits>>

\* INSERT, UPDATE and DELETE; the others change tables and triggers.
ChangesRows(s) ==
    s[1] \in {"copy", "empty", "fill", "stamp", "name", "record"}

Effect(s, f) ==
    CASE s = <<"recover", "list">> -> [f EXCEPT !.list = f.aside, !.aside = Gone]
      [] s = <<"shelve", "list">> -> [f EXCEPT !.aside = f.list, !.list = Gone]
      [] s = <<"make", "list">> -> [f EXCEPT !.list = Made]
      [] s = <<"copy", "list">> -> [f EXCEPT !.list.rows = f.aside.rows]
      [] s = <<"drop", "aside">> -> [f EXCEPT !.aside = Gone]
      [] s = <<"ensure", "index">> ->
            [f EXCEPT !.triggers = TRUE, !.index = IF @ = "none" THEN "fresh" ELSE @]
      [] s = <<"drop", "triggers">> -> [f EXCEPT !.triggers = FALSE]
      [] s = <<"make", "triggers">> -> [f EXCEPT !.triggers = TRUE]
      [] s = <<"fill", "ids">> -> [f EXCEPT !.ids = TRUE]
      [] s = <<"copy", "vault">> ->
            [f EXCEPT !.moved = [r \in Relics |-> IF r \in f.vault THEN @[r] + 1 ELSE @[r]]]
      [] s = <<"empty", "vault">> -> [f EXCEPT !.vault = {}]
      [] s = <<"make", "spare">> -> [f EXCEPT !.spare = Made]
      [] s = <<"copy", "prices">> -> [f EXCEPT !.spare.rows = f.prices.rows]
      [] s = <<"drop", "prices">> -> [f EXCEPT !.prices = Gone]
      [] s = <<"rename", "spare">> -> [f EXCEPT !.prices = f.spare, !.spare = Gone]
      [] s = <<"empty", "index">> -> [f EXCEPT !.index = "stale"]
      [] s = <<"fill", "index">> -> [f EXCEPT !.index = "fresh"]
      [] s[1] = "alter" -> [f EXCEPT !.columns = @ \cup {s[2]}]
      [] s[1] = "stamp" -> [f EXCEPT !.stamped = @ \cup {s[2]}]
      [] s[1] = "name" -> [f EXCEPT !.named = @ \cup {s[2]}]
      [] s[1] = "record" -> [f EXCEPT !.recorded = @ \cup {s[2]}]

----------------------------------------------------------------------------
(* A start.                                                                *)

StartUpgrade ==
    /\ start.pc = "off"
    /\ start' = [Off EXCEPT !.pc = "runs"]
    /\ UNCHANGED <<stored, work, tx, cut, ends>>

MigrationRecordedFirst(v) == \* mutant: recorded before it is done
    IF v \in work.recorded THEN <<>>
    ELSE When(v # 0, <<<<"record", v>>, Commits>>) \o Statements(v, work)

\* upgrade(db), then _record: of a migration that is not yet recorded.
Migration(v) ==
    IF v \in work.recorded THEN <<>>
    ELSE Statements(v, work) \o When(v # 0, <<<<"record", v>>, Commits>>)

NextMigration ==
    /\ start.pc = "runs" /\ start.left = <<>>
    /\ IF start.place = Len(Order) THEN start' = [start EXCEPT !.pc = "ready"]
       ELSE start' = [start EXCEPT !.place = @ + 1, !.left = Migration(Order[start.place + 1])]
    /\ UNCHANGED <<stored, work, tx, cut, ends>>

Statement == Head(start.left)
Executed == start' = [start EXCEPT !.left = Tail(@)] /\ UNCHANGED <<cut, ends>>

BeginWork ==
    /\ start.left # <<>> /\ Statement = <<"begin", "all">>
    /\ tx' = TRUE /\ UNCHANGED <<stored, work>> /\ Executed

Commit ==
    /\ start.left # <<>> /\ Statement = Commits
    /\ stored' = work /\ tx' = FALSE /\ UNCHANGED work /\ Executed

ChangeRows ==
    /\ start.left # <<>> /\ ChangesRows(Statement)
    /\ work' = Effect(Statement, work) /\ tx' = TRUE /\ UNCHANGED stored /\ Executed

\* CREATE TABLE of a table that is there raises.
Refused == Statement = <<"make", "spare">> /\ work.spare.there

ChangeTables ==
    /\ start.left # <<>> /\ ~ ChangesRows(Statement)
    /\ Statement \notin {<<"begin", "all">>, Commits} /\ ~ Refused
    /\ work' = Effect(Statement, work)
    /\ stored' = IF tx THEN stored ELSE work'
    /\ UNCHANGED tx /\ Executed

\* Both scopes roll back, and the error reaches who made the Database.
Fail ==
    /\ start.left # <<>> /\ Refused
    /\ work' = stored /\ tx' = FALSE
    /\ start' = [start EXCEPT !.pc = "failed", !.left = <<>>]
    /\ UNCHANGED <<stored, cut, ends>>

\* The app is closed, or is cut off; its transaction is rolled back.
EndStart ==
    /\ start.pc # "off"
    /\ ends < MaxEnds /\ ends' = ends + 1
    /\ cut' = IF start.left = <<>> THEN cut ELSE cut \cup {Order[start.place]}
    /\ work' = stored /\ tx' = FALSE
    /\ start' = Off
    /\ UNCHANGED stored

UpgradeNext ==
    StartUpgrade \/ NextMigration \/ BeginWork \/ Commit \/ ChangeRows \/ ChangeTables \/ Fail \/ EndStart

UpgradeSpec == UpgradeInit /\ [][UpgradeNext]_upgradeVars

----------------------------------------------------------------------------
(* Properties.                                                             *)

UpgradeTypeOK ==
    /\ stored.recorded \subseteq {1, 2, 4, 6, 10, 18} /\ work.recorded \subseteq {1, 2, 4, 6, 10, 18}
    /\ stored.moved \in [Relics -> 0..1] /\ tx \in BOOLEAN /\ (~ tx => work = stored)
    /\ start.pc \in {"off", "runs", "ready", "failed"} /\ start.place \in 0..Len(Order)
    /\ cut \subseteq {0, 1, 2, 4, 6, 10, 18} /\ ends \in 0..MaxEnds

\* However often the app ends during its start, a row that is moved from one
\* table to another is at each moment in one of them on disk, and only once.
KeptOnce ==
    /\ \A s \in Relics : stored.moved[s] = IF s \in stored.vault THEN 0 ELSE 1
    /\ Relics \in {stored.list.rows, stored.aside.rows}
    /\ stored.prices.rows = Relics

\* The next start finishes what was cut off: of all places where the app may
\* end, only the making of the second price table keeps the app from ever
\* starting again, and only the filling of a new column is left undone.
HealedUnlessCut ==
    /\ start.pc = "failed" => 6 \in cut
    /\ start.pc = "ready" =>
        /\ stored = work /\ stored.recorded = {1, 2, 4, 6, 10, 18}
        /\ stored.list.new /\ ~ stored.aside.there /\ stored.vault = {}
        /\ stored.prices.new /\ ~ stored.spare.there
        /\ stored.index = "fresh" /\ stored.triggers /\ stored.ids
        /\ stored.filled \subseteq stored.named
        /\ stored.filled \subseteq stored.stamped \/ 18 \in cut
====
