---- MODULE ConnectionPool ----
(***************************************************************************)
(* The SQLite handles of one desktop: one pooled handle for the main       *)
(* thread, one per background thread, all closed together when the app     *)
(* shuts the database down or locks it to replace the file.  A thread uses *)
(* a handle in one scope (connection) or in a bundle of nested scopes that *)
(* is meant to be one transaction (bundle_queries).                        *)
(*                                                                         *)
(* Steps are split where the code holds no lock.  A handle that is closed  *)
(* raises when it is next used, and its open transaction is rolled back.   *)
(* Reads, busy time-outs between writers and the second Database object    *)
(* that the restore opens on the new file are left out.                    *)
(***************************************************************************)
EXTENDS Integers, FiniteSets

CONSTANTS Main,      \* the thread that made the Database
          Background,\* threads of run_background
          Handles,   \* connection objects; bound: those that exist at once
          NoHandle,  \* None
          Writes,    \* nested scopes of a bundle
          Attempts,  \* of _get_bg_conn_impl: 3
          MaxTasks   \* bound: what the threads are given to do

ASSUME PoolAssumption ==
    /\ Main \notin Background
    /\ NoHandle \notin Handles
    /\ Writes \in Nat /\ Attempts \in Nat \ {0} /\ MaxTasks \in Nat

Threads == Background \cup {Main}

VARIABLES lockout,  \* _restore_lockout
          epoch,    \* _pool_epoch
          pooled,   \* _pooled_conn
          bgConns,  \* _bg_conns
          legacy,   \* _bundle_conn and _bundle_owner are set, by the main thread
          open,     \* the handles that are open
          local,    \* _local.conn, .conn_epoch and .bundle_conn of each thread
          at,       \* what a thread is doing, and how far it is
          tasks,    \* given so far
          raced     \* history: threads past the check when the lock came
pool == <<lockout, epoch, pooled, bgConns, legacy, open>>
poolVars == <<lockout, epoch, pooled, bgConns, legacy, open, local, at, tasks, raced>>

Idle == [task |-> "none", pc |-> "idle", held |-> NoHandle, tries |-> 0,
         pinned |-> FALSE, wrote |-> 0, saved |-> 0]
NoLocals == [conn |-> NoHandle, label |-> 0, bundle |-> NoHandle]

PoolInit ==
    /\ lockout = FALSE /\ epoch = 0
    /\ pooled = NoHandle /\ bgConns = {} /\ legacy = FALSE
    /\ open = {}
    /\ local = [t \in Threads |-> NoLocals]
    /\ at = [t \in Threads |-> Idle]
    /\ tasks = 0 /\ raced = {}

\* An object somebody still refers to is not another's.
Referred == bgConns \cup open \cup {pooled} \cup {local[t].conn : t \in Threads}
                    \cup {local[t].bundle : t \in Threads} \cup {at[t].held : t \in Threads}
Fresh == Handles \ Referred
NewHandle == CHOOSE h \in Fresh : TRUE

Go(t, pc) == at' = [at EXCEPT ![t].pc = pc]
GoWith(t, h) == at' = [at EXCEPT ![t].pc = "use", ![t].held = h]

\* What is remembered of a task that is over: the outcome of a bundle.
Ended(a) == [Idle EXCEPT !.task = IF a.task = "bundle" THEN a.task ELSE @,
                         !.pinned = a.pinned, !.saved = a.saved]

\* Where an exception in a scope takes the thread: out of what it does, or
\* on to the close where the code catches it.
Raise(t) ==
    at' = [at EXCEPT ![t] =
        IF at[t].task \in {"shutdown", "restore"} THEN [@ EXCEPT !.pc = "close"]
        ELSE Ended(@)]

----------------------------------------------------------------------------
(* What a thread is given to do.                                           *)

Give(t, task, pc) ==
    /\ at[t].pc = "idle"
    /\ tasks < MaxTasks /\ tasks' = tasks + 1
    /\ at' = [at EXCEPT ![t] = [Idle EXCEPT !.task = task, !.pc = pc]]
    /\ UNCHANGED <<pool, local, raced>>

\* with db.connection(): ...
Save(t) == Give(t, "save", "check")

\* shutdown on the main thread: when the app closes or the license ends.
Shutdown == Give(Main, "shutdown", IF lockout THEN "close" ELSE "check")

\* The work of a restore, on a background thread: begin_restore_lockout
\* starts with a shutdown. The button is disabled meanwhile.
Restore(t) ==
    /\ t \in Background /\ ~ lockout
    /\ \A u \in Threads : at[u].pc # "idle" => at[u].task # "restore"
    /\ Give(t, "restore", "check")

\* bundle_queries: while the main thread has a bundle, another thread's
\* bundle is a plain scope around its nested ones.
Bundle(t) ==
    /\ at[t].pc = "idle"
    /\ tasks < MaxTasks /\ tasks' = tasks + 1
    /\ at' = [at EXCEPT ![t] = [Idle EXCEPT !.task = "bundle", !.pc = "check",
                                            !.pinned = ~ (legacy /\ t # Main)]]
    /\ UNCHANGED <<pool, local, raced>>

----------------------------------------------------------------------------
(* _get_pooled_conn and _get_bg_conn_impl.                                 *)

Check(t) ==
    /\ at[t].pc = "check"
    /\ IF lockout THEN Raise(t)
       ELSE at' = [at EXCEPT ![t].pc = IF t = Main THEN "get" ELSE "look", ![t].tries = 0]
    /\ UNCHANGED <<pool, local, tasks, raced>>

\* The main thread's handle, under the lock; a handle in the pool is open.
MainGet ==
    /\ at[Main].pc = "get"
    /\ \/ pooled \in open /\ GoWith(Main, pooled) /\ UNCHANGED <<pooled, open>>
       \/ /\ pooled \notin open /\ Fresh # {}
          /\ pooled' = NewHandle /\ open' = open \cup {NewHandle} /\ GoWith(Main, NewHandle)
       \/ pooled \notin open /\ pooled' = NoHandle /\ Raise(Main) /\ UNCHANGED open
    /\ UNCHANGED <<lockout, epoch, bgConns, legacy, local, tasks, raced>>

Current(t) == local[t].conn \in open /\ local[t].label = epoch

\* Mutant of Reuse: a thread without a handle takes the pooled one.
ReusePooled(t) ==
    /\ at[t].pc = "look"
    /\ IF Current(t) THEN GoWith(t, local[t].conn) ELSE pooled \in open /\ GoWith(t, pooled)
    /\ UNCHANGED <<pool, local, tasks, raced>>

Reuse(t) ==
    /\ at[t].pc = "look" /\ Current(t)
    /\ GoWith(t, local[t].conn)
    /\ UNCHANGED <<pool, local, tasks, raced>>

Forget(t) ==
    /\ at[t].pc = "look" /\ ~ Current(t)
    /\ open' = open \ {local[t].conn}
    /\ bgConns' = bgConns \ {local[t].conn}
    /\ local' = [local EXCEPT ![t].conn = NoHandle]
    /\ Go(t, "connect")
    /\ UNCHANGED <<lockout, epoch, pooled, legacy, tasks, raced>>

Connect(t) ==
    /\ at[t].pc = "connect"
    /\ \/ /\ Fresh # {} /\ open' = open \cup {NewHandle}
          /\ local' = [local EXCEPT ![t].conn = NewHandle]
          /\ Go(t, "label")
       \/ Raise(t) /\ UNCHANGED <<open, local>>
    /\ UNCHANGED <<lockout, epoch, pooled, bgConns, legacy, tasks, raced>>

\* The epoch is read after the handle was opened.
Label(t) ==
    /\ at[t].pc = "label"
    /\ local' = [local EXCEPT ![t].label = epoch]
    /\ Go(t, "track")
    /\ UNCHANGED <<pool, tasks, raced>>

\* Mutant of Track: a handle of an earlier epoch is not closed.
TrackUnclosed(t) ==
    /\ at[t].pc = "track"
    /\ IF local[t].label = epoch
       THEN bgConns' = bgConns \cup {local[t].conn} /\ GoWith(t, local[t].conn) /\ UNCHANGED local
       ELSE /\ local' = [local EXCEPT ![t].conn = NoHandle]
            /\ IF at[t].tries + 1 = Attempts
               THEN Raise(t)
               ELSE at' = [at EXCEPT ![t].pc = "look", ![t].tries = @ + 1]
            /\ UNCHANGED bgConns
    /\ UNCHANGED <<lockout, epoch, pooled, legacy, open, tasks, raced>>

\* _track_bg_conn, then another attempt if the epoch has moved.
Track(t) ==
    /\ at[t].pc = "track"
    /\ IF local[t].label = epoch
       THEN /\ bgConns' = bgConns \cup {local[t].conn}
            /\ GoWith(t, local[t].conn)
            /\ UNCHANGED <<open, local>>
       ELSE /\ open' = open \ {local[t].conn}
            /\ local' = [local EXCEPT ![t].conn = NoHandle]
            /\ IF at[t].tries + 1 = Attempts
               THEN Raise(t)
               ELSE at' = [at EXCEPT ![t].pc = "look", ![t].tries = @ + 1]
            /\ UNCHANGED bgConns
    /\ UNCHANGED <<lockout, epoch, pooled, legacy, tasks, raced>>

----------------------------------------------------------------------------
(* Scopes and bundles.                                                     *)

Finished(t) == at' = [at EXCEPT ![t] = Ended(@)]

\* The end of a plain scope: commit, or rollback if the body raised or the
\* handle was closed.
EndScope(t) ==
    /\ at[t].pc = "use" /\ at[t].task # "bundle"
    /\ IF at[t].task = "save" THEN Finished(t) ELSE Go(t, "close")
    /\ UNCHANGED <<pool, local, tasks, raced>>

\* The bundle has its handle; only a pinned one hands it to nested scopes.
Pin(t) ==
    /\ at[t].pc = "use" /\ at[t].task = "bundle" /\ at[t].wrote = 0
    /\ IF at[t].pinned
       THEN local' = [local EXCEPT ![t].bundle = at[t].held] /\ legacy' = (legacy \/ t = Main)
       ELSE UNCHANGED <<local, legacy>>
    /\ Go(t, "body")
    /\ UNCHANGED <<lockout, epoch, pooled, bgConns, open, tasks, raced>>

Unpin(t) ==
    /\ local' = [local EXCEPT ![t].bundle = NoHandle]
    /\ legacy' = (legacy /\ ~ (t = Main /\ at[t].pinned))

\* Mutant of Nested: a nested scope commits although the handle is pinned.
NestedCommits(t) ==
    /\ at[t].pc = "body" /\ at[t].wrote < Writes
    /\ IF at[t].pinned
       THEN local[t].bundle \in open /\ at' = [at EXCEPT ![t].wrote = @ + 1, ![t].saved = @ + 1]
       ELSE at' = [at EXCEPT ![t].wrote = @ + 1, ![t].pc = "check"]
    /\ UNCHANGED <<pool, local, tasks, raced>>

\* A nested scope that writes: in the pinned transaction, or with a checkout
\* of its own.
Nested(t) ==
    /\ at[t].pc = "body" /\ at[t].wrote < Writes
    /\ IF at[t].pinned
       THEN local[t].bundle \in open /\ at' = [at EXCEPT ![t].wrote = @ + 1]
       ELSE at' = [at EXCEPT ![t].wrote = @ + 1, ![t].pc = "check"]
    /\ UNCHANGED <<pool, local, tasks, raced>>

NestedCommit(t) ==
    /\ at[t].pc = "use" /\ at[t].task = "bundle" /\ at[t].wrote > 0
    /\ IF at[t].held \in open
       THEN at' = [at EXCEPT ![t].pc = "body", ![t].saved = @ + 1]
       ELSE Raise(t)
    /\ UNCHANGED <<pool, local, tasks, raced>>

\* The outer commit.
EndBundle(t) ==
    /\ at[t].pc = "body" /\ at[t].wrote = Writes
    /\ at' = [at EXCEPT ![t] =
            [Ended(@) EXCEPT !.saved = IF at[t].pinned /\ local[t].bundle \in open THEN Writes ELSE at[t].saved]]
    /\ Unpin(t)
    /\ UNCHANGED <<lockout, epoch, pooled, bgConns, open, tasks, raced>>

\* The body raises, for a reason of its own or because the pinned handle was
\* closed: what is not committed is rolled back.
BodyFails(t) ==
    /\ at[t].pc = "body"
    /\ Finished(t) /\ Unpin(t)
    /\ UNCHANGED <<lockout, epoch, pooled, bgConns, open, tasks, raced>>

----------------------------------------------------------------------------
(* Closing, and replacing the file.                                        *)

\* Mutant of CloseAll: the handles of background threads stay in the list.
CloseAllMain(t) ==
    /\ open' = open \ {pooled}
    /\ pooled' = NoHandle /\ legacy' = FALSE
    /\ epoch' = epoch + 1
    /\ local' = [local EXCEPT ![t].conn = NoHandle, ![t].bundle = NoHandle]
    /\ UNCHANGED bgConns

\* _close_pooled_conn, under the lock; the caller then drops its own locals.
CloseAll(t) ==
    /\ open' = open \ (bgConns \cup {pooled})
    /\ pooled' = NoHandle /\ bgConns' = {} /\ legacy' = FALSE
    /\ epoch' = epoch + 1
    /\ local' = [local EXCEPT ![t].conn = NoHandle, ![t].bundle = NoHandle]

Close(t) ==
    /\ at[t].pc = "close" /\ CloseAll(t)
    /\ IF at[t].task = "restore"
       THEN at' = [at EXCEPT ![t].pc = "lock", ![t].held = NoHandle]
       ELSE Finished(t)
    /\ UNCHANGED <<lockout, tasks, raced>>

Acquiring(t) == at[t].pc \in {"get", "look", "connect", "label", "track"}

Lock(t) ==
    /\ at[t].pc = "lock" /\ lockout' = TRUE /\ Go(t, "close again")
    /\ raced' = {u \in Threads : Acquiring(u)}
    /\ UNCHANGED <<epoch, pooled, bgConns, legacy, open, local, tasks>>

CloseAgain(t) ==
    /\ at[t].pc = "close again" /\ CloseAll(t) /\ Go(t, "replace")
    /\ UNCHANGED <<lockout, tasks, raced>>

\* restore_encrypted_backup. If it fails the lock is lifted; otherwise it
\* stays until the app has been closed.
Replace(t) ==
    /\ at[t].pc = "replace" /\ Finished(t)
    /\ lockout' \in {TRUE, FALSE}
    /\ UNCHANGED <<epoch, pooled, bgConns, legacy, open, local, tasks, raced>>

ThreadStep(t) ==
    \/ Save(t) \/ Bundle(t) \/ Restore(t)
    \/ Check(t) \/ Reuse(t) \/ Forget(t) \/ Connect(t) \/ Label(t) \/ Track(t)
    \/ EndScope(t) \/ Pin(t) \/ Nested(t) \/ NestedCommit(t) \/ EndBundle(t) \/ BodyFails(t)
    \/ Close(t) \/ Lock(t) \/ CloseAgain(t) \/ Replace(t)

PoolNext == Shutdown \/ MainGet \/ \E t \in Threads : ThreadStep(t)

PoolSpec == PoolInit /\ [][PoolNext]_poolVars

----------------------------------------------------------------------------
Stage == {"idle", "check", "get", "look", "connect", "label", "track", "use", "body",
          "close", "lock", "close again", "replace"}
Handle == Handles \cup {NoHandle}

PoolTypeOK ==
    /\ lockout \in BOOLEAN /\ epoch \in Nat /\ legacy \in BOOLEAN
    /\ pooled \in Handle /\ bgConns \subseteq Handles /\ open \subseteq Handles
    /\ local \in [Threads -> [conn : Handle, label : Nat, bundle : Handle]]
    /\ at \in [Threads -> [task : {"none", "save", "bundle", "shutdown", "restore"}, pc : Stage,
                           held : Handle, tries : 0..(Attempts - 1), pinned : BOOLEAN,
                           wrote : 0..Writes, saved : 0..Writes]]
    /\ tasks \in Nat /\ raced \subseteq Threads

\* Every open handle is one the next close will close, or one a thread is
\* just opening: no order of opening, closing and retrying leaks one.
HandlesTracked ==
    \A h \in open : \/ h = pooled \/ h \in bgConns
                    \/ \E t \in Background : at[t].pc \in {"label", "track"} /\ local[t].conn = h

\* No two threads are ever in a scope with one handle.
HandlesOwned ==
    \A t, u \in Threads : at[t].held # NoHandle /\ at[t].held = at[u].held => t = u

\* Handles are neither leaked nor shared.
HandlesSafe == HandlesTracked /\ HandlesOwned

Uses(t, h) == local[t].conn = h \/ (t = Main /\ pooled = h)

\* While the file is replaced, only threads that were past the check when
\* the lock came can have it open.
OnlyRacedOpen ==
    (\E t \in Threads : at[t].pc = "replace") =>
        \A h \in open : \E t \in raced : Uses(t, h)

\* A pinned bundle is one transaction, though another thread may close its
\* handle between any two of its nested scopes.
PinnedAllOrNothing ==
    \A t \in Threads : at[t].pinned => at[t].saved = 0 \/ (at[t].saved = Writes /\ at[t].pc = "idle")
====
