# SkyAdmin Pro: a TLA+ verification project

SkyAdmin Pro is an office program for accountants: a desktop application (Python, SQLite) and a
Cloudflare Worker (TypeScript, D1) that issues licenses and keeps the cloud copy of an
organisation's rows.  This directory holds TLA+ models of the parts whose correctness depends on
the order in which things happen, the TLC configurations that check them on small instances, and
proofs, checked by TLAPS, of the most important properties for all values of the constants.

`PROJECT.json` is the index: components, runs, the source lines behind every definition (`map`),
the hazards of the code with the properties aimed at them, findings, and theorems.

Paths below are relative to the repository; `data_sync/` is `skyadmin_pro/services/data_sync/`,
`verify/` is `skyadmin_pro/services/license/verify/`, `worker/` is `skyadmin-worker/src/`.

## 1. The system

```
 desktop (one per machine)                                Worker (one per installation)
 ------------------------------------------               --------------------------------------
 UI thread: saves, timers, focus, Sync Now                 POST /api/sync/push    GET /api/sync/pull
   | dirty flag, timers            (AutoSync)                 sync_rows in D1       (SyncServer)
   v
 worker threads: sync_data   ---- pull, push ---->         POST /api/sync/register
   local tables, hlc, cursors      (DataSync)                 sync_devices          (Registration)
 activation: license.key, used.txt -- claim ----->         POST /api/generate, /api/claim,
   key, seal, shadow copy          (LicenseFiles)          /api/purge-licenses, bans, revocations
   revoked.txt, used.txt, ... <--- control list --------   GET /api/control      (ControlList)
 database: handles, bundles        (ConnectionPool)
   file replaced by a restore      (DatabaseSwap), upgraded at a start (Upgrade), backed up (AutoBackup)
 results of background work        (AsyncUi), undo of client commands (ClientUndo)
```

### Inventory

| Component | State | Operations | What is hard | What makes it correct |
|---|---|---|---|---|
| Hybrid logical clock (`services/sync_hlc`, `worker/sync_push/hlc.ts`) | `sync_hlc_last` of each desktop | stamp (`hlc_now`), note a remote clock, compare | equal milliseconds, clocks set back or ahead, two implementations | total order; stamps strictly increase; a stamp names one write |
| Push handler (`worker/routes/sync/push.ts`, `worker/sync_push/*`) | `sync_rows` | read stored rows, partition, write in D1 batches, answer | handlers interleave at awaits; a batch fails after others were written; the same body arrives again | higher clock wins; what was acknowledged is stored or beaten |
| Pull handler (`worker/routes/sync/pull.ts`) | reads `sync_rows` | page by `updated_at` | local and UTC text formats compared as strings | a missing row is returned sooner or later |
| Sync session (`data_sync/chunk_*.py`) | local rows, push and pull cursor, the session | pull pages, merge, collect, push pages, retry, finish | the user writes between any two steps; timeouts, lost answers, crashes between the answer and the cursor | clocks dominate the tables; a change is not beaten by the copy it was made on; a change owed to a desktop stays ahead of its pull cursor; sessions end |
| Automatic sync (`data_sync/scheduler.py`, `dirty.py`, `auto_job.py`, `interval.py`) | `_dirty`, `_suppress_depth`, two timers, `_busy` | commit hook, debounce, interval, focus, settings, job, Sync Now | two threads and the main loop share flags; a dropped job; failure after the flag was cleared | flags agree with the sessions; a save is pushed; the pull timer survives |
| Licenses and claims (`worker/routes/generate*.ts`, `claim/*`, revocation and ban routes) | `issued_licenses`, `used_nonces`, `revoked_*`, `bans` | generate, claim, ban, revoke, un-revoke, mark used | four awaits in a claim; two claims of one code; an answer that gets lost | one use per code; a re-signed key is burned |
| Purge (`worker/routes/purge/*`) | `archived_licenses` and the above | select, archive, delete, prune burns | long-running, in batches, interleaved with claims | nothing is lost; a running license keeps its row |
| Activation (`ui/activation.py`, `verify/chunk_1, 4, 12.py`) | `license.key`, `used.txt` | check locally, claim, save, mark used | closed or timed out at any step; repairs | local burns are the Worker's burns |
| Sync registration (`worker/routes/sync/register.ts`, `data_sync/chunk_0, 1.py`) | `sync_devices`, `sync_device.json` | exchange a license for a token, rotate | lost answers; burned nonces | an active license gets its token |
| Seats and token authorization (`worker/sync_auth.ts`, `sku_max_devices.ts`) | `sync_devices`, orgs | authorize, expire, count seats | counted before an await, inserted after | no more devices than seats |
| Control list (`worker/routes/control.ts`, `verify/chunk_3..6.py`) | `revoked.txt`, `banned.txt`, `used.txt`, ... | serve, fetch, replace, merge, check every five minutes | the lists are read one by one; several threads fetch at once and rewrite `used.txt`; the app ends in between | a block ends the app; a burned code stays |
| Saved license (`verify/chunk_1, 9, 10.py`, `license/online`) | `license.key`, seal, shadow copy, record of the daily check | save, check, heal, record | crash between two writes; a check reads while another thread saves | the copies agree; no false complaint |
| Foreign keys and group names in sync (`data_sync/fk_*.py`, `gid_maps.py`, `chunk_5_write.py`) | local numbers and global ids | look up, rename, leave a deleted group | a row before its parent; unique names; a dialog that lists what a pull deleted | links survive; two names do not stop a pull |
| Connection pool (`db/core`) | handles, epoch, bundles, restore lock | check out, pin, close all, lock | threads past a check when the lock comes; a handle closed under a bundle | no handle leaks or is shared; bundles are atomic |
| Replacing the file (`db/replace_db.py`) | database, staged and aside copies | move, rename aside, overwrite, retry | refusals and the end of the app between renames | a whole copy always exists |
| Schema and migrations (`db/migrations`) | tables, `schema_migrations` | migrate, record | the driver commits a CREATE at once and rows later | a row is moved once; the next start finishes |
| Automatic backup (`services/auto_backup`) | timers, archives, the last run | check, back up, prune | timers that set timers; names and clocks | the newest is kept; a due backup is made |
| Workers and the main loop (`ui/async_ui.py`) | queue, `_ACTIVE`, pumps | start, deliver, pump, cancel | a pump goes with its widget while others work | results have a pump |
| Undo (`services/client_commands`, `undo_manager.py`) | one command, its snapshot | do, undo | pulls between snapshot, command and undo; stamps of one second | undo restores what nobody else changed |
| Client, task, tax and office records; vault; cipher; files; reports; assistant; views; owner pages; signing; packaging | database and files | sequential code, rendering, cryptography | little that depends on order | not modelled (section 8) |

Every component is listed in `PROJECT.json` with its sources and status.

## 2. Modules

| Module | Extends | Models |
|---|---|---|
| `HybridClock` | | the order of clocks and the stamp |
| `TextTime` | | the two textual time formats and their string order |
| `LwwStore` | `HybridClock` | **abstract**: the last-writer-wins store of `docs/CRDT_DESIGN.md` |
| `SyncServer` | `HybridClock`, `TextTime` | `sync_rows` and the push handlers |
| `SyncPush`, `MCSyncPush` | `SyncServer` | the push endpoint alone, refining `LwwStore` |
| `DataSync`, `MCDataSync` | `SyncServer` | desktops, sessions, users and the Worker together |
| `PullDelivery`, `MCPullDelivery` | `DataSync` | what the Worker owes each desktop: history over `DataSync` |
| `DeviceSessions` | `HybridClock` | two sessions of one desktop that share its clock and push cursor |
| `DataSyncClaims` | `DataSync` | sentences of the design document that the code contradicts |
| `SyncRefs` | | groups, clients and tasks that refer to each other on several desktops |
| `SyncSeats` | | registrations, the seats of an org, tokens |
| `Licensing`, `MCLicensing` | | codes, claims, owner requests, purge, activation |
| `Registration`, `MCRegistration` | `Licensing` | tokens on top of licenses |
| `LicenseFiles` | | key, seal, shadow copy, record of the daily check |
| `ControlList` | | the owner's lists, their fetches, `used.txt`, the check that ends the app |
| `AutoSync` | | flags, timers, jobs of automatic sync |
| `AsyncUi` | | workers, the queue and the pumps |
| `AutoBackup` | | timers, runs and pruning of backups |
| `ConnectionPool` | | handles, epochs, bundles, the restore lock |
| `DatabaseSwap` | | the passes of `replace_sqlite_db` |
| `Upgrade` | | the migrations at a start, cut off anywhere |
| `ClientUndo` | | client commands and their undo |
| `MCDesktop` | `AutoSync`, `ControlList`, `AsyncUi`, `AutoBackup`, `Upgrade` | five parts checked by one run |
| `MCParts` | `MCSyncPush`, `SyncSeats`, `LicenseFiles`, `ConnectionPool`, `DatabaseSwap`, `SyncRefs`, `ClientUndo`, `DeviceSessions` | eight parts checked by one run |
| `*_proofs` | the modules they are about | theorems and proofs |

`SyncServer` is shared: `SyncPush` lets any of a set of batches arrive, `DataSync` composes the
same handlers with the desktops that really build the batches.  `Registration` runs all of
`Licensing`'s steps next to its own.

`MCDesktop` and `MCParts` check parts that share no state in one run: the part is chosen at the
start, only that part moves, and the others rest in one fixed initial state.  Combining their
interleavings would show nothing and cost a product of state spaces.  `SyncRefs` takes part twice, with different bounds (`refs`,
`links`).  In `MCParts` the sets of
different parts have the same members (`m1`, `m2` are machines, threads, groups and names; `x`, `y` are
requests, checkers, desktops and clients), so that one set of permutations serves all of them.

Mutants (`...Once`, `...None`, `...Twice` and so on, each marked in a comment) are deliberately
wrong versions of a definition.  They are not part of any specification; `PROJECT.json` says which
property finds which mutant, which is the evidence that a property is able to fail.

## 3. How the models correspond to the code

**HybridClock.**  A clock is `[wall, counter, node]`.  Nodes are numbers with the order of the ids;
`NoHlc` is the missing or unreadable clock.  `Stamp(last, wall, node, i)` is the i-th `hlc_now` in a
row.  The textual form is left out: both implementations compare the parsed tuple.

**TextTime.**  A text is `[day, iso, sec]`: rows carry `YYYY-MM-DD HH:MM:SS` in local time, the
Worker answers with ISO texts in UTC, and both sides compare strings, so within a day `' ' < 'T'`
decides before the time of day does.  The pull cursor is such an ISO text compared with row texts.

**SyncServer.**  `server[k]` is the stored row of record `k` (table and global id).  `handler[s]` is
one running handler: `Receive` (request arrives), `Fetch` (read, then partition in the same turn),
`WriteBatch` (one atomic `db.batch` of unguarded upserts), `FailHandler` (5xx; what was written
stays), `Release`.  Between two of these any other handler may run, exactly as between two awaits.
Audit rows of `sync_conflicts`, size checks and rate limits are left out.  A batch has one change
per row, as the desktop builds it.

**SyncPush** adds `acked`, the history of what a device was told is stored, and the abstract store.

**DataSync.**  Per device: `rows`, `hlcLast`, the two cursors and `sess`, the local state of
`sync_data` between its steps.  `Create`, `Edit`, `SoftDelete`, `Restore` are the local writers: they
set `updated_at` and do not touch `hlc`.  `PullRead`/`PullApply` are a page (the response, then one
transaction), `PushCollect` is the collection with its stamps and the first request, `PushRetry` the
repeated body after a timeout, a lost answer or a 5xx (the handler before may still run), `PushAnswer` the answer with the
cursor, `Finish` the pull cursor, `GiveUp` and `Abort` the ends that store nothing.  Each row is a row
of a table of its own; foreign keys and group names are `SyncRefs`'s, credential payloads are left out;
each device runs one session at a time and collects all tables at one moment.  That is a restriction of the model: in the code the
scheduler's job and Sync Now may overlap (`chunk_7.py:15`, `licenseMixinMixin5.py:39`), which is what `DeviceSessions` is for, and no theorem about
`DataSync` is of overlapping sessions.

**PullDelivery** adds a history to `DataSync`: `owed[d]`, the rows whose stored change lies past the pull cursor of `d` and was stored while no
pull of `d` was between its first page and its end (`Reading`, `BecomesOwed`).  A page settles what is on it, what shares the `updated_at` of its
last row if it is full (the next page asks for strictly later rows), and at the page limit all that is left (`Settled`).

**DeviceSessions.**  One row of one desktop, its states numbered by its edits; `twin[c]` is the session of the scheduler's job or of Sync Now.
The clock is read (`Hear`, `ReadClock`) and stored (`NoteHeard`, `SaveOther`, `SaveMine`) in two transactions, either of which may fail; the push cursor is read
at the start of a push and stored at its end (`ReadCursor`, `Answered`); the table of the row and the tables after it are read by statements of their own
(`CollectRow`, `CollectRest`).  A request arrives late, again or after its session has given up (`Arrive`).  `overtaken` is history: one of the cases that
`PassedIsStored` excepts.  A cursor is the number of edits up to its time, so edits lie a second apart.  The row takes part as it is pushed: what a pull does to
it, pages and handlers that overlap are in `DataSync` and `SyncPush`.

**SyncRefs.**  `tables[d][k]` and `cloud[k]` hold name, link, deletion, time and clock of a row, named by its
global id.  `PullPage` applies a page in the order of `SYNC_PUSH_ORDER`, one change after the other (`Before`, `ApplyFirst`, a
recursive function `Applying`; rows of one table and time in any order): a tombstone makes clients leave the group, an upsert looks its link up among the live groups or among all
clients, and a group whose name is taken gets a longer one.  `PageFails` is the exception that rolls the page back.
Clocks agree and user writes and pushes take a second each, so a clock is a number.  `listed` is what
an open dialog still offers.  The desktops start empty or from one backup that has a client in a group.
Of the client commands, `armed` holds what the undo of the last edit or group assignment writes back (`EditClient`, `AssignGroup`, `UndoClient`); the undo
of a new or a deleted client is in `ClientUndo`.  `update_client` reads the row and writes it whole: `SaveInfo` or `UndoClient` fill
`update`, `WriteClient` stores it, and pulls may come between.  `late` is history: clients whose group was last written after it was deleted,
from a dialog, a row or a snapshot that was read before.

**SyncSeats.**  `register[s]` walks through `lookupLicenseOrgId`, `checkOrgDeviceLimit` and `upsertSyncDevice`, one step
per await; `Authorize` and `Refresh` are `syncAuthMiddleware`.  `loose` marks seats taken beside the count.
`LoseFile` is a `sync_device.json` that is torn, unreadable or removed, `LoseAnswer` a reply that does not arrive.  `alone` are the requests
that no other of their desktop overlapped; `crossed` are the desktops that have lost an answer or the file, or asked twice at once, since
the last answer to a request that was alone.  Neither looks at a token.

**Licensing.**  Time is in days: the purge compares date texts by date, and packages and the 24-hour
activation window are whole days.  On the day a text expires both outcomes are open (`MayBeLive`,
`MayBeOver`).  A code is `[id, kind, mid, exp]`: its nonce is the issue and the kind, since license key
and passcode have nonces of their own.  A claim handler goes through `Check` (ban, revocation and
expiry), `ReadRow`, `ReadUsed`, `Apply` (one batch: re-sign and burn); `HandlerFails` may end it at any of
them.  `GiveUp` is a desktop that stops waiting: the handler goes on.  The purge is `PurgeSelect`,
`PurgeArchive`, `PurgeRows`, `PurgeBurns`, with `PurgeFails` between any two.  `Send` merges the Worker's
burns (what the control list brings), checks the code against the local files and posts.
Simplifications: the four eligibility reads are one step; merging, checking and posting are one
step (a burn in between is found by the handler); no activation runs over midnight, so a purge and a
claim that straddle midnight are not combined; `control_version` is left out, nothing compares it.
`claims`, `raced` and `unrevoked` are history.

**Registration.**  `Grant` and `Refuse` are the two answers of `/api/sync/register` for the text of
`license.key`; `creds` may miss the answer.  Each license is for a machine of its own and for a package
that syncs, so seats do not matter here; tokens do not expire.

**LicenseFiles.**  Texts are numbers, `Blank` is a truncated file.  A thread has a list of files `todo` to truncate and
fill one by one, as `write_text` does, then goes on to `find_license_file`, the seal, the record of the daily
check and the shadow copy (`FindKey` to `CopyShadow`).  `Stop` ends the app between any two writes,
`WriteFails` is a refused write, `Clean` a deleted `license.key`.  `torn` says which group of files was
left half-written, `excused` that a verdict was reached beside a write: both are history.

**ControlList.**  `published` are the Worker's tables, `local` the desktop's files.  `ReadList` is one await of
`controlHandler`, `ReplaceList` one file, and `ReadUsed`, `TruncateUsed`, `WriteUsed` are `mark_used` of one code.  Files may fail:
`ReadFails` is `used_nonces()` that answers the empty set, so that `used.txt` is rewritten with one code; `WriteFails` is an open that fails, or a write that
fails after the truncation, and is swallowed; `ReplaceFails` leaves a list as it is; a list that `CheckMisses` reads as empty.  `Check` is
the loop's verdict, which for a key asks the bans and the revoked nonces, for a passcode the bans and the revoked passcodes (`kind`, `Blocking`);
`Quit` and `Dies` end all threads.  Of bans and revocations only those of this machine and its license are looked at (`Concern`), and the license is
not replaced while the app runs.  `lost` is history: codes that another thread's rewrite, a file error or the end of the app may have cost.

**AutoSync.**  One variable per module-level flag or timer; `sess` has the job (`auto`) and Sync Now
(`manual`), which has its own thread and does not look at `_busy`.  `Save` is a commit of a row that
syncs, `Touch` any other commit (every write connection notifies).  `missed` is history: it records
that one of the listed losses happened since the last complete push.

**AsyncUi.**  `queue`, `active`, `pump[w]` are `_QUEUE`, `_ACTIVE`, `_async_pump_after`.  The main loop runs one thing
at a time; a pump drains the queue, looks at the count, then at the queue again, and workers may put
and leave in between.  A callback may destroy any widget, the pumped one too (`Removed`); `_pump_async_queue` then
finds no widget and sets no timer (`Reschedule`).  `stranded` is history: the last pump was cancelled or went with its widget.
Left out: a second timer of a widget whose own callback gives it work, a worker whose first timer cannot be set, and the nested event loop of
a dialog that a callback opens.

**AutoBackup.**  A check runs on the main loop from start to end, so it is one step (`CheckDisabled`, `CheckNotDue`, `Backup`,
`BackupFails`); `checks` counts pending timers.  `excuse` is history: a run was not recorded or the clock
went back.

**ConnectionPool.**  `at[t].pc` is where a thread is in `_get_bg_conn_impl`, a scope or a bundle; steps are split where no
lock is held.  `CloseAll` is `_close_pooled_conn`; `Lock`, `CloseAgain`, `Replace` are the restore.  A closed handle raises at its
next use.

**DatabaseSwap.**  `disk` says what is under the three names: whole old or new data, a blank, an empty or a torn
file.  Each rename, truncation, write and deletion is a step and may be denied (`MoveDenied`, `AsideDenied`, ...); `EndApp`
and `OpenDatabase` are the next start.  `risked` is history: the bytes were overwritten, or a swap was repeated on the blank
database of a failed one.

**Upgrade.**  `start.left` are the statements still to run of migrations 1, 2, 4, 6, 10, 18 and `SCHEMA_SQL` (0); `stored` is what is
committed and `work` what the connection sees.  `ChangeRows` opens a transaction, `ChangeTables` does not and is
committed at once if none is open, as the driver does it; `EndStart` may come anywhere, `Refused` is a CREATE
of a table that exists.

**ClientUndo.**  `doing` is the command or undo in progress, `pending` the one that can be undone, with its snapshot.  `PullClient`,
`PullDelete` and `DeleteChild` are what others do in between; each call of `update_client` is one step, and so are the
two reads of a snapshot.  One text field stands for all that may be NULL, one field for status and group,
one child row for all rows deleted with a client.

## 4. Runs

Twelve runs: five pass, seven show that the code does something other than what a document or comment
of the repository says.

| Run | Instance | What it shows |
|---|---|---|
| `parts` | eight parts, one at a time; two machines, orgs, threads, desktops, clients, sessions | **push** (one handler): `ImplementsLww`; **seats**: `CapNeedsCause`, `TokenKnown`; **files**: `CopiesAgree`, `ComplaintNeedsCause`; **pool**: `HandlesSafe`, `OnlyRacedOpen`, `PinnedAllOrNothing`; **swap**: `SwapSafe`; **refs**: `DanglingNeedsStaleWrite`, `GroupJamNeedsTombstone`, `LinkLossNeedsCause`; **undo**: `UndoIsExact`; **device**: `PassedIsStored`; types of all (`PartsTypeOK`) |
| `desktop` | five parts, one at a time; 2 saves, 2 codes on a key or a passcode, 2 changes by the owner or file errors, 2 widgets, 4 backup runs, 2 ends of an upgrade | **sync**: `PullScheduled`, `UnpushedIsComing`, `SessionsEnd`; **list**: `BurnedStays`, `BlockEnforced`, `ListsSettle`; **ui**: `ResultHasPump`, `ResultDelivered`; **backup**: `LatestKept`, `BackupComes`; **upgrade**: `KeptOnce`, `HealedUnlessCut`; types of all (`DesktopTypeOK`) |
| `data_sync_merge` | 2 devices (one clock ahead), 1 row, 1 handler, pages of 1 up to the page limit of 2, 3 writes, 2 sessions, aborts, one retry | a clock dominates the tables (`ClockDominates`), every session ends (`SessionEnds`) |
| `data_sync_pages` (`MCPullDelivery`) | 2 rows of one device with a fast clock, another device, 2 handlers, pages of 1 up to the page limit of 2, 2 writes, 2 sessions, aborts, one retry | one stamp, one write (`StampsUnique`); a pushed change beats the copy it was made on (`PushBeatsCopy`); what is owed stays ahead of the pull cursor (`OwedStaysAhead`); `TypeOK` |
| `licensing` | 1 machine, 2 activations, an unlimited and a one-day package, 2 owner requests, 4 days | `ResignedIsBurned`, `NothingLost`, `PurgeKeepsRunning`, `ReclaimNeedsCause`, `LocalBurns`; 5.6 million states |
| `claim_higher_clock` | two handlers | refutes `HigherClockWins` |
| `claim_early_delete` | one row, 5 sessions | refutes `EarlyDeleteLoses` |
| `claim_cursor_late_row` | one row, 3 sessions, days of one instant | refutes `MissingAheadOfCursor` |
| `claim_register` | one license, one activation | refutes `ActiveLicenseRegisters` |
| `claim_full_period` | a two-day package | refutes `FullPeriod` |
| `claim_backup_timer` | 4 settings changed, 3 timers | refutes `OneCheckPending` |
| `claim_file_untouched` | one swap of five passes | refutes `OriginalUntouched` |

### Bounds, and why they are enough

*Rows and devices.*  A merge looks at one row, an order of two rows matters at a page end and at a D1
batch end, and a race needs two devices or handlers: two of each.  `data_sync_merge` takes one row and
one handler, `data_sync_pages` two rows and two handlers that a repeated request keeps busy at once, because liveness on the latter is out of reach.
*Page sizes* (500, 200 in the code), the *page limit* (100) and the *D1 batch* (100) are 1 or 2.  In both runs every page that has a row is full, so the
loop asks again; a push loop turns again while rows are pending, and a row that is written on while it is pushed makes it reach the limit of 2 with rows left over, as a row that
comes back to a device ends a pull at the limit.  *Retries* is 2 (3 in the code): the second attempt is the one that
overlaps or repeats; the proofs cover every number.  *`DayLen`* is 10 where the format of the texts
must not matter, 2 in `data_sync_pages`, where a cursor meets row texts of its own day and of the next, and 1 in `claim_cursor_late_row`, where the day decides; `UtcOffset` is 0 in all runs.
*Writes and sessions*: three writes are create, edit, delete (or restore) of one row; two
sessions are a writer's push or a reader's pull and one that meets what it left, or was cut off from.
*`parts`*: one handler of the push part has 6 batches of two devices, two legacy rows and D1 batches of 1.
Two requests for one seat are the race of the count; three registrations let a token rotate.  Two checkers with two
duties are a save beside a check, and one end of the app or a cleaning tool falls between any two of their writes.  A
pool of two background threads and the main one with three tasks has a restore, a bundle and a save at once; six
handles are never all in use.  Three swaps of the five passes that the code makes (aside from the second pass on,
overwriting from the third) include one that is repeated after one that failed.  Two desktops, two groups of one label and one client with
its task are looked at twice: `refs` takes every step, three writes and two pushes, for each name clash and each order of a page; `links` starts from the backup, which
counts as a write, and takes the commands on clients, the deletion of groups and the sessions (`LinksNext`), four writes and one push, for an edit, the deletion of its group and the undo of the edit.
`PullLimit` is 2, so a page ends between
parent and child.  Two clients of two names, one command and two changes by others reach each stage of a
command and its undo.  Two edits, two sessions and counters up to 1 are enough for each case that `PassedIsStored` excepts to refute it when it is left out.
*`desktop`*: two saves are needed for one that is taken by
a session and one that is not; a second start is a restart.  Two codes, one of them this machine's, two events (changes
of the owner and file errors count together: ban and unban, a burn and a failed read), a thread besides the loop; two widgets and three pieces of work; two parts of a day and four instants make
backups of one day and of three, with `Keep` 2 (7 in the code); an upgrade is cut off twice, since
what the second start finds is what the first has left, and one row stands for all that a migration moves at once.
*Licensing*: two activations are the race, one issue has two codes already; ban, then unban, or revoke,
then un-revoke is two requests; with purges older than one day, a one-day package and a one-day window
four days suffice to issue, expire, purge and try again.  The cap on stacked days is 1 (365 in the
code), which is reached.

Symmetry is used where the members are interchangeable: activations, values of a row, the handlers of `data_sync_pages`, and the sets of `MCParts`.  The runs with
liveness properties use none.  All passing runs may use up their bounded inputs and rest, so they do not
check deadlock; that nothing gets stuck halfway is what the liveness properties say.

### Fairness

* `DataSync!FairSpec`: weak fairness of each device's session thread and of each handler.  A thread is
  never suspended for good, requests have timeouts (`chunk_2.py`), and Workers have a time limit.  Nothing
  obliges a user, the clock, or a start of a session.
* `MCDesktop!DesktopSpec` gives each part the fairness of its own specification.  *AutoSync*: weak fairness of the two timers (Tk
  `after`) and of the two worker threads with their callbacks (of Sync Now as long as the Settings view keeps its pump); saves, settings, focus and restarts are not fair.  *ControlList*: the
  loop goes round (weak), and an answer that can arrive again and again arrives once (strong: a fetch may fail any
  finite number of times).  File errors are finitely many.  *AsyncUi*: workers end and the main loop runs (weak); a timer that is set again and
  again goes off once (strong: the user may cancel it).  *AutoBackup*: a pending timer goes off.  The safety parts have none.

Safety runs use the specification without fairness.

## 5. Findings

1. **Overlapping pushes** (`claim_higher_clock`).  `docs/CRDT_DESIGN.md:45`: "higher HLC wins, whether it is an
   update or a tombstone".  A handler compares with rows it read before an await and upserts without a
   guard (`worker/sync_push/write.ts:7`): of two overlapping pushes the later write wins.  As long
   as no handler is in another's window the sentence holds, and is proved (`UndisturbedRefinement`).
2. **An early delete wins** (`claim_early_delete`).  `docs/CRDT_DESIGN.md:47`: "early delete loses to a later edit".
   A local edit leaves the row's `hlc` alone; a pulled tombstone is compared with the clock of the last
   sync (`data_sync/chunk_5.py:26`) and deletes the later edit.
3. **A row behind every cursor** (`claim_cursor_late_row`).  The pull cursor is the Worker's time, rows are
   filtered by the writer's `updated_at` (`data_sync/chunk_7.py:63`): a row pushed late is not pulled by devices
   that synced in between, against the "deterministic convergence" of `docs/CRDT_DESIGN.md:21`.
4. **The saved license is refused** (`claim_register`).  `docs/PLATFORM.md:44`: "Exchange active license for device
   sync token".  The claim burns the nonce of the license that is then saved, and register refuses burned
   nonces (`worker/routes/sync/register.ts:73`).
5. **A passcode lasts a day** (`claim_full_period`).  `worker/signing.ts:113`: "full period starts on claim".  The row is
   looked up by the key's nonce (`worker/routes/claim/lookup.ts:17`), a passcode has another: nothing is
   re-signed, and the saved passcode ends with the activation window.
6. **Backup timers multiply** (`claim_backup_timer`).  `autoBackupSchedulerMixin0.py:19`: "check every 30 minutes".  While backup is off the
   branch at line 54 and the `finally` at line 82 both set the next timer, and `stop()` reaches the last only.
7. **A failed replacement touches the file** (`claim_file_untouched`).  `db/cipher/funcs_1.py:14`: "Raises on failure with the original file
   untouched."  The rename aside is not undone and the overwrite truncates first (`db/replace_db.py:50`).

### Met while modelling, without a run of their own

*Found by proofs.*  `LinkLossNeedsCause` was first stated of all rows that a page changes, and fails on larger instances than the run's:
a client that is newer on the desktop is not pulled, but leaves a group that the page deletes.  `GroupJamNeedsTombstone` failed where a page
deletes a group and brings the name of another that is deleted on the desktop.  Both now say so.  `PurgeKeepsRunning` was first stated without an exception.  Its inductive invariant failed where two claims of one code
run into each other with different `existing_seconds`: the second re-signs the row with an earlier end than the first was told, so
the purge may take the row while the first machine's license runs.  `Running` now names this case (`raced`).

*Other sentences that the code does not keep.*  `docs/MULTI_PLATFORM.md:117` "Push ~1-2s after save": `UnpushedIsComing` lists the losses.
`docs/CRDT_DESIGN.md:79`, `context_b.py:33`: a bundle on a background thread beside the main thread's commits piecewise.  `verify/chunk_5.py:38`: `used.txt` is rewritten, not only
added to (`chunk_4.py:96`).  `verify/chunk_10.py:70`: a key is also rewritten from its shadow copy.  `sku_max_devices.ts:20`: the cap is not hard
(`CapNeedsCause`).  `replace_db.py:18`: something may be open while the file is replaced (`OnlyRacedOpen`).  `client_commands/__init__.py:5-7` "restores the exact
prior state": `Inexact` lists when not.  `clients_panel/chunk_10.py:33` says groups are local, but they are synced; the delete dialog
(`chunk_8.py:66`) does not say that tasks get tombstones.

*Two sessions of one desktop.*  `PassedIsStored` names five ways in which a push cursor passes an edit that the Worker does not have: a clock saved over one that
the other session has stored since it was read, one made when reading the clock failed (`services/sync_hlc/funcs.py:70`), a row stamped with a clock that could not be saved
(`:77`), an older state of the row stamped after a newer one, and, with one session alone, an edit between two of the statements that collect the
tables (`chunk_4_collect.py:47`) if another row saved after it is still collected: the cursor moves to the time of the last row.

*Sync.*  Tasks send `pipeline_item_id` and `source_document_id` as local numbers (`_allowed_a.py:74-76`).  Several writers of synced tables leave
`updated_at` alone, so their edits are not pushed (`documents_b`, `documents_c.py:14`, `tasksMixinMixin5.py:24`, `tasksMixinMixin6.py:83`,
`suppliersMixinMixin1.py:57` and `:90`, `tax/operations_a.py:58`).  Rows stamped by migrations 17 and 18 with an old `created_at` lie behind the push cursor of a
desktop that had synced (`chunk_4_collect.py:45`).  A clash of client names in a pulled page makes every later pull fail.  A link that was lost because
the parent lies on a later page is pushed back to the Worker.  Rows that share the `updated_at` of a full page's last row are left out by the next page
(`chunk_7_pull.py` asks for later ones), and the session still moves the cursor to the Worker's time; rows past the page limit likewise: `Settled` names both.
The undo of an edit or of a group assignment, and any `update_client` (`crud_c.py:32`, `:58`), writes a `group_id` that was read before: after a local or pulled
delete of the group a live client is in it (`editClientCommandMixin0.py:24-33`, `assignGroupCommandMixin0.py:24-29`), as `DanglingNeedsStaleWrite` excepts.

*Control list.*  A saved passcode whose nonce the owner revokes goes on running: its branch of `verify_key_text` (`chunk_8.py:36-42`) asks for revoked passcodes and bans,
never for revoked nonces.  `mark_used` after a read that failed writes `used.txt` with the new code only (`chunk_3.py:130`, `chunk_4.py:96`), and a write that fails after
the truncation is swallowed and leaves it empty (`chunk_4.py:97-99`): `BurnedStays` excepts both as `lost`.

*Database.*  A second attempt of a failed restore overwrites the aside copy with the blank database.  A short `os.write` counts as success.  `_rewrite_db_paths`
(`services/crypto/funcs_1.py:85-88`) updates without WHERE.  An end of the app inside migration 6 (`m006_pricing_matrix_services.py:25-52`) leaves a table whose
CREATE then raises at every start; one between ADD COLUMN and the backfill of migrations 11, 17, 18 leaves rows with no
`updated_at` (`m018:47-52`).  `runner.py:66-68` commits the upgrade and its record apart.

*Pipeline and tasks.*  `sync_pipeline_tasks` reads the item outside the transaction that writes its tasks (`pipelineMixinMixin0.py:24,58`), so a deleted
step task does not come back; Completed to Ongoing does not reopen the task (`tasksMixinMixin2.py:49-51`); reminders are keyed by a title with the
client's name; `generate_recurring_tasks` compares a UTC month with local time and is called nowhere.

## 6. Theorems

All proofs are checked by `tlapm` (Z3, Zenon, LS4), to the last leaf.  They assume only the named
assumptions on the constants in the modules (`ServerAssumption`, `TimeAssumption`, `DesktopAssumption`,
`SlotAssumption`, `RefsAssumption`, `DeviceAssumption`, `AutoSyncAssumption`, `LicensingAssumption`, `SeatsAssumption`, `PoolAssumption`, `SwapAssumption`, `LicenseFilesAssumption`,
`ControlAssumption`, `UiAssumption`, `BackupAssumption`, `UpgradeAssumption`, `UndoAssumption`, `NoRecordAssumption`,
`OfferedAssumption`), which TLC evaluates in the runs.  The theorems on overlapping pushes have a hypothesis on behaviours besides, `[]Undisturbed`.  The bounds are constants as well: the theorems hold for every bound, and for any
number of devices, threads, handlers, codes, widgets and rows.

**HybridClock_proofs.**  The order is total, irreflexive and transitive; a stamp is above the persisted
clock, and later stamps of a run are strictly higher (`StampIncreasing`).

**DataSync_proofs** (no restriction on handlers; one session of a device at a time).
`SyncTypeOK`; `SyncLocalMonotone` is an action property from it (a merge skips what is not
higher).  `SyncClockDominates`: a page raises the clock to every clock it
brings, and local writers do not touch `hlc`.  `SyncStampsUnique` needs
`WireBelow`: each clock outside the tables names a device that exists and is at or below the clock this
device has persisted since; so a new stamp differs from every clock on the wire, and stamps of one
collection differ by their counter (`Collected`).  `SyncPushBeatsCopy` needs that clocks dominate and that
only a waiting session remembers a batch (`OutOnlyWaiting`).  `SyncOwedStaysAhead` needs `DeliveryInv`: what is owed is
stored, and a session's place says where owed rows are (`OwedBySession`): past the session's cursor before a page is read (`BeforePage`), on the page or at or past its
last row once it was (`OnOrPastPage`), and nowhere once the pages are done, so `Finish` may move the cursor to the Worker's time.
All of these are of sessions of a device that do not overlap; `DeviceSessions` says what overlapping ones cost.
Distinct devices have distinct nodes by construction; see section 8.

**Desktop_proofs** has a section for each of five parts.
*AutoSync*: `Inv` adds that only a push job clears the flag (`ClearsForPush`) and that nothing
takes more than was saved (`TookSaved`): `AutoTypeOK`, `AutoDepthCounts`, `AutoBusyIsJob`,
`AutoPullScheduled`, `AutoUnpushedIsComing`.
*AutoBackup*: `BackupInv` adds that no archive is dated after the clock unless there is an excuse, and that the names of a day are counted
up to the latest (`FilesPast`), so pruning by name never takes the newest: `BackupTypeCorrect`, `BackupLatestKept`, `BackupNamesFree`.
*AsyncUi*: `UiInv` adds that `_ACTIVE` counts the workers (`ActiveCounts`) and what a running pump has seen stays true until it decides (`PumpSees`):
`UiResultHasPump`, `UiActiveCounts`.
*ControlList*: `ListInv` adds where a thread is and what it holds (`Places`), that a clean rewrite is alone and has read the file (`CleanAlone`) and that only a thread between truncating
and writing can make the file lack a code (`OnlyFillLacks`): `ListTypeCorrect`, `ListBurnedStays`.
*Upgrade*: `KeptInv` says of the committed file that each row is in one of its tables (`Kept`), and of the connection that what is left to run
begins with the rest of a move and that the tables are as that rest requires (`Moves`, `Ahead`): `UpgradeKeptOnce`, `UpgradeTypeCorrect`.
`HealInv` adds three parts.  `InOrder`: up to the place where the start is, every migration is recorded or under way, and its record comes last (`Shaped`).
`AimsReached`: each migration has aims, named by the statement that reaches them (`Aims`, `Undoes`); the aim of a recorded one is reached, in the file and
on the connection, and nothing left to run undoes it (`Stays`); that of the one under way is reached or still to be, after whatever undoes it (`Bound`).
`LeftoversHaveCause`: a second price table, or a column without its stamps, was left by a start that was cut off there.  A migration's list of statements
meets this whatever file it finds (`MigrationAims`): `UpgradeHealed`.
*Composition*: a step of `MCDesktop` is a step of one part and leaves the others alone (`DesktopSteps`), so its specification implies
that of each part (`DesktopImplementsEach`), and what is proved of each holds of the whole (`DesktopTypes`, `DesktopSafe`).

**Files_proofs** has three sections.
*DatabaseSwap*: `SwapInv` says for each place in the code which files hold which data (`StagedWhole`, `Places`) and that the old data are
somewhere whole unless a listed risk was taken (`DataKept`): `SwapInvariant`, `SwapTypes`, `SwapIsSafe`.  The risks that `SwapIsSafe` excepts (`risked`) are
the overwrite of the file's bytes from the third pass on, and a swap repeated on the blank database of one that failed.
*LicenseFiles*: `FilesInv` says which lists of writes occur (`Shapes`), what must be present (`Present`), that a clean writer is alone (`Alone`), that the
files agree unless torn or being written (`LicenseAgrees`, `RecordAgrees`, `CleanWrites`) and that a reader who has seen one file knows the others unless
it is excused (`ReadsAgree`, `ExcusedRead`): `FilesTypeCorrect`, `FilesCopiesAgree`, `FilesComplaintNeedsCause`.
*ClientUndo*: `UndoInv` says, of each client that nobody else has changed since the snapshot, what a command that is still open has left of it
(`Opened`) and what the command that can be undone has (`Armed`, `Remains`), and which clients an undo under way has already put back (`Revising`).
A command that created its client and then fails is why `Armed` excepts `Freshly` created rows.  No two rows have one name, and a name that an undo
made up is older than the snapshot (`MadeUpBefore`), so it is never made up twice: `UndoTypeCorrect`, `UndoExact`.

**Licensing_proofs.**  `IInv` adds to the properties: a purge deletes what it has archived and prunes what it has
deleted (`PurgeOrder`); rows were issued; a handler looks at the row of its own code (`OwnRow`); whoever is told
that a claim stands has a code that is burned or archived (`AnsweredBurned`).  `NothingLost` follows from
`PurgeOrder`; `LocalBurns` needs `AnsweredBurned` because the desktop marks a code long after the burn, when a
purge may have pruned it: `LicensingTypeOK`, `LicensingNothingLost`, `LicensingResignedIsBurned`,
`LicensingLocalBurns`.  `PInv` carries `LicensingPurgeKeepsRunning` and `LicensingReclaimNeedsCause`: the row of a plain code lasts at least as long as every copy
of its text in anyone's hands (`RowLastsLongest`, `Snapshots`, `UnclaimedKeepWindow`), so what a purge selects is over for every holder (`PurgedDead`, `HandledLive`);
claims are burned or archived (`ClaimsBurned`, `SavedBurned`), rivals in hand are recorded as raced (`RivalsRaced`) and a pruned burn is blocked by a
revocation or its end (`PrunedBlocked`).

**ConnectionPool_proofs.**  `Typed /\ Safe`: for each stage of a thread what it holds (`Roles`), what a bundle has committed (`Commits`), that owners of handles
are apart (`Apart`), that there is one restore and what it has locked out (`OneRestore`, `LockedOut`): `PoolInvariant`, `PoolTypes`, `PoolHandles`,
`PoolLocksOut`, `PoolPinned`.

**Org_proofs** has four sections.
*SyncSeats*: `SeatsInv` adds what a handler knows at each stage (`Known`), that a row once found stays (`FoundStays`), and that between count and insert an
undisturbed handler's org has room (`CountedBelow`), and, for `SeatsToken`, that a request that was alone and has written its
row knows the row's token (`AloneOK`): `SeatsInvariant`, `SeatsTypes`, `SeatsCap`, `SeatsToken`.
*SyncRefs*: `RefsInv` adds that a row refers to a row of the table before its own (`RowsOK`), that what a pull has added to the name of a group is the
group's own id (`OwnName`), and that no time is ahead of the clock.  A page is one step of it, so what holds while a page is applied is an invariant of its
own (`PageInv`): what is left has only been touched by a group's deletion, nothing left comes before anything done, so no delete follows an upsert
(`DeletesFirst`) and a row finds its parent done or not on the page; and where existence, deletion and label of a row come from (`From`).
`PageStep` keeps it, and `PageEnd` carries it along the recursive function: `LeastNumber`, from the library's facts on well-founded relations, gives
the induction over the number of steps, for `PageInv` and for the solution of the recursive definition (`StepsExist`).
`RefsInvariant`, `RefsTypeCorrect`, `LinksAreLive` (of `DanglingNeedsStaleWrite`), `OnlyTombstonesJam`, `LinksAreKept`.
*DeviceSessions*: `DeviceInv` says that what a session has in its hands was stamped (`InHand`) and what went out too (`SentStamped`), and, unless
`overtaken`, that the stored clock is at or past every clock of the row (`ClockAbove`), that these are in the order of the edits (`StampsFollowEdits`), so that the
Worker's row never goes back to an earlier edit, and that what a session has passed over is on the Worker (`PassedBy`).  A stored clock is above the one read, by
`StampAboveLast`; if that is still what is stored, the clock rises past all clocks of the row.  The cursor alone is not inductive: an answer moves it to what was
collected, and only `PassedBy` knows of a row that was not on the page that an earlier page had brought it: `DeviceInvariant`, `DeviceTypes`, `DevicePassedIsStored`.
*SyncPush*: any number of handlers may overlap.  Without a condition the endpoint is no last-writer-wins store (finding 1), so the theorems say
which overlap breaks it: `UndisturbedRow(k)` holds of a state unless one handler is about to write row `k` while another has decided on it
and not answered (two that are both about to write it, or one that refused its change in favour of an unclocked row of protocol 1, which the
other replaces, maybe by a lower clock).  The invariant of one row is `TypeOK /\ NothingLeft /\ StillNewer(k) /\ HandledCovered(k) /\ RowAcked(k)`.
What was acknowledged is not inductive alone: an answer covers its batch only because every row a handler has dealt with, and is not about
to write, is covered (`HandledCovered`), and nothing is left when it is done (`NothingLeft`); a write keeps what was acknowledged because it is
still newer than what is stored (`StillNewer`).  `RowSafe` is per row: a race on one row does not harm another.  Over all rows the same steps give
`UndisturbedWinnersStillNewer`, `UndisturbedDoneCovered`, `UndisturbedAckedCovered`, and `UndisturbedRefinement`, where every write is a step of
`LwwStore` and everything else but answers a stutter.  Handlers that run one at a time are never in each other's window (`SerialRefinement`), but
the condition is far weaker: two handlers with different rows, or one that reads after the other has written, never break it.  TLC found that its part
about protocol 1 is needed: without it a handler may acknowledge a change that lost to an unclocked row, after another has replaced that row by a lower clock.

**Parts_proofs** composes the eight parts of `MCParts`, as `Desktop_proofs` does its five: `PartsImplementEach`, `PartsTypes`, `PartsSafe`, and
`PartsImplementLww`, the refinement of `LwwStore` by the push endpoint among the other parts.  A step of `links` is one of `SyncRefs` (`LinksAreRefs`).

## 7. What is model-checked only

* Liveness: `SessionEnds`, `SessionsEnd`, `BlockEnforced`, `ListsSettle`, `ResultDelivered`, `BackupComes`.  Fairness and ENABLED are outside the prover.
* Every safety invariant and action property of a passing run is a theorem.  `ImplementsLww`, which the run checks of one handler, is
  a theorem of any number of them as long as none is in another's window; so is `AckedCovered`, an invariant of the abstract store.
* The refuted properties of section 5: a counterexample needs no proof.

## 8. What is not modelled, and why

*Left out of modelled components.*  Credentials in a sync session; two machines with one
node id (a short id, equal only after a copy of a whole installation); the cursor jump after the last allowed page
(`chunk_7_pull.py:19`); a token that expired by inactivity, which the desktop never drops (`sync_auth.ts:105`); conflict audit rows; rate
limits; entitlement flags and prices; the offline build of the activation; the cap of 5000 used codes; sidecar
files and paths of a restore; migrations of a single statement.  Hazards that need them are listed in `PROJECT.json` with a note where the
code has them.  An `after()` that raises (`scheduler.py:56-57`) and `run_background` that cannot set a timer; saves right after a restart, which `UnpushedIsComing`
excuses (`missed`); that rows of the renewal list are moved
only once (they are a set: `KeptOnce` counts the vault's rows, and says of the others that none is lost).

*Left out altogether.*  Cryptography and signatures (taken as unforgeable), the vault's encryption, rendering, reports,
import and export, file and drive operations, the assistant, record keeping SQL (sequential), packaging.

## 9. Plan

1. **Abstract specifications** of the control list (revocations known to a desktop) and of the license files (one saved code), refined by
   `ControlList` and `LicenseFiles`.

## 10. Running it

```
tlc -workers 2 -config desktop.cfg MCDesktop.tla     # module and cfg: see "runs" in PROJECT.json
tlapm Licensing_proofs.tla
```
