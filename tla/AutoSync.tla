---- MODULE AutoSync ----
(***************************************************************************)
(* When a desktop syncs: the dirty flag that commits raise, the debounced  *)
(* push timer, the interval pull timer, focus events, the background job   *)
(* behind the busy flag, and the Sync Now button, which has a thread of    *)
(* its own.  What a session does to rows is DataSync's; here a session     *)
(* only takes the saves made so far and gets them across or not.           *)
(*                                                                         *)
(* Timers and the user run on the main thread; the two sessions run on     *)
(* worker threads.  Increments of the suppression depth are single steps   *)
(* (CPython does not switch threads inside one).                           *)
(***************************************************************************)
EXTENDS Integers

CONSTANTS MaxSaves,   \* bound: saves of synced rows
          MaxStarts   \* bound: starts of the app

ASSUME AutoSyncAssumption == MaxSaves \in Nat /\ MaxStarts \in Nat

VARIABLES on,         \* is_data_sync_enabled: preference and licence
          interval,   \* SETTING_SYNC_AUTO_INTERVAL is not "off"
          dirty,      \* _dirty
          depth,      \* _suppress_depth
          pushTimer,  \* _push_timer is armed
          pullTimer,  \* _pull_timer is armed
          busy,       \* _busy
          sess,       \* the session of the job and that of Sync Now
          saves,      \* commits of rows that sync
          pushed,     \* how many of them the Worker has
          missed,     \* history: a save was not noticed, or its push was lost
          starts
settings == <<on, interval>>
flags == <<dirty, depth>>
timers == <<pushTimer, pullTimer>>
progress == <<saves, pushed, missed, starts>>
vars == <<on, interval, dirty, depth, pushTimer, pullTimer, busy, sess,
          saves, pushed, missed, starts>>

Jobs == {"auto", "manual"}
NoSession == [pc |-> "none", mode |-> "full", took |-> 0]
AutoPull == on /\ interval

Init ==
    /\ on \in BOOLEAN /\ interval \in BOOLEAN
    /\ dirty = FALSE /\ depth = 0
    /\ pushTimer = FALSE /\ pullTimer = AutoPull
    /\ busy = FALSE
    /\ sess = [j \in Jobs |-> NoSession]
    /\ saves = 0 /\ pushed = 0 /\ missed = FALSE /\ starts = 1

----------------------------------------------------------------------------
(* Commits.                                                                *)

\* Mutant of Notify: the timer is armed when the flag goes up only.
NotifyOnce(enabled) ==
    IF depth > 0 THEN UNCHANGED <<dirty, pushTimer>>
    ELSE dirty' = TRUE /\ pushTimer' = (pushTimer \/ (enabled /\ ~ dirty))

\* mark_dirty and _on_dirty, given whether sync is on after the commit.
Notify(enabled) ==
    IF depth > 0 THEN UNCHANGED <<dirty, pushTimer>>
    ELSE dirty' = TRUE /\ pushTimer' = (pushTimer \/ enabled)

\* The user saves a row that syncs.
Save ==
    /\ saves < MaxSaves
    /\ saves' = saves + 1
    /\ Notify(on)
    /\ missed' = (missed \/ depth > 0 \/ ~ on)
    /\ UNCHANGED <<settings, depth, pullTimer, busy, sess, pushed, starts>>

\* Any other commit: every write connection notifies.
Touch == Notify(on) /\ UNCHANGED <<settings, depth, pullTimer, busy, sess, progress>>

\* The two settings; each write is a commit, and each is followed by nudge.
Toggle ==
    /\ on' = ~ on /\ UNCHANGED interval
    /\ Notify(on')
    /\ pullTimer' = (on' /\ interval)
    /\ UNCHANGED <<depth, busy, sess, progress>>

SetInterval ==
    /\ interval' = ~ interval /\ UNCHANGED on
    /\ Notify(on)
    /\ pullTimer' = (on /\ interval')
    /\ UNCHANGED <<depth, busy, sess, progress>>

----------------------------------------------------------------------------
(* Timers, focus and the button.                                           *)

\* run_auto_sync_job: dropped while another job runs.
Run(mode) ==
    IF busy THEN UNCHANGED <<busy, sess>>
    ELSE /\ busy' = TRUE
         /\ sess' = [sess EXCEPT !["auto"] =
                [pc |-> IF mode = "push" THEN "clear" ELSE "enter", mode |-> mode, took |-> 0]]

DebouncedPush ==
    /\ pushTimer /\ pushTimer' = FALSE
    /\ IF on /\ dirty THEN Run("push") ELSE UNCHANGED <<busy, sess>>
    /\ missed' = (missed \/ ~ on \/ (dirty /\ busy))
    /\ UNCHANGED <<settings, flags, pullTimer, saves, pushed, starts>>

\* Mutant of IntervalPull: no new timer when the job was dropped.
IntervalPullOnce ==
    /\ pullTimer
    /\ pullTimer' = (AutoPull /\ ~ busy)
    /\ IF AutoPull THEN Run("pull") ELSE UNCHANGED <<busy, sess>>
    /\ UNCHANGED <<settings, flags, pushTimer, progress>>

IntervalPull ==
    /\ pullTimer
    /\ pullTimer' = AutoPull
    /\ IF AutoPull THEN Run("pull") ELSE UNCHANGED <<busy, sess>>
    /\ UNCHANGED <<settings, flags, pushTimer, progress>>

Focus ==
    /\ AutoPull /\ Run("pull")
    /\ UNCHANGED <<settings, flags, timers, progress>>

\* The Settings view disables its buttons while its own session runs, but
\* it does not look at _busy.
SyncNow ==
    /\ sess["manual"].pc = "none"
    /\ sess' = [sess EXCEPT !["manual"] = [NoSession EXCEPT !.pc = "enter"]]
    /\ UNCHANGED <<settings, flags, timers, busy, progress>>

\* The app is closed, or crashes, and is started again.
Restart ==
    /\ starts < MaxStarts /\ starts' = starts + 1
    /\ dirty' = FALSE /\ depth' = 0
    /\ pushTimer' = FALSE /\ pullTimer' = AutoPull
    /\ busy' = FALSE /\ sess' = [j \in Jobs |-> NoSession]
    /\ missed' = TRUE
    /\ UNCHANGED <<settings, saves, pushed>>

----------------------------------------------------------------------------
(* The sessions, on their threads.                                         *)

Move(j, pc) == sess' = [sess EXCEPT ![j].pc = pc]

Clear(j) ==
    /\ sess[j].pc = "clear" /\ dirty' = FALSE /\ Move(j, "enter")
    /\ UNCHANGED <<settings, depth, timers, busy, progress>>

\* sync_data: nothing while sync is off, otherwise under suppress_dirty.
Enter(j) ==
    /\ sess[j].pc = "enter"
    /\ IF on
       THEN depth' = depth + 1 /\ Move(j, IF sess[j].mode = "push" THEN "collect" ELSE "pull")
       ELSE UNCHANGED depth /\ Move(j, "done")
    /\ missed' = (missed \/ ~ on)
    /\ UNCHANGED <<settings, dirty, timers, busy, saves, pushed, starts>>

\* The response to a first registration may say that the licence has no
\* sync: the settings are turned off, nobody nudges the timers, and the
\* session goes on.
TurnedOff(j) ==
    /\ sess[j].pc \in {"pull", "collect"}
    /\ on' = FALSE /\ interval' = FALSE
    /\ UNCHANGED <<flags, timers, busy, sess, progress>>

\* The pull ends well or badly.
Pull(j) ==
    /\ sess[j].pc = "pull"
    /\ Move(j, "exit") \/ (sess[j].mode = "full" /\ Move(j, "collect"))
    /\ UNCHANGED <<settings, flags, timers, busy, progress>>

\* Mutant of Collect: an empty page does not end the session.
CollectSome(j) ==
    /\ sess[j].pc = "collect" /\ pushed < saves
    /\ sess' = [sess EXCEPT ![j].took = saves, ![j].pc = "send"]
    /\ UNCHANGED <<settings, flags, timers, busy, progress>>

Collect(j) ==
    /\ sess[j].pc = "collect"
    /\ sess' = [sess EXCEPT ![j].took = saves, ![j].pc = IF pushed = saves THEN "exit" ELSE "send"]
    /\ UNCHANGED <<settings, flags, timers, busy, progress>>

Arrived(j) == IF sess[j].took > pushed THEN sess[j].took ELSE pushed

Send(j) ==
    /\ sess[j].pc = "send" /\ Move(j, "exit")
    /\ pushed' = Arrived(j)
    /\ missed' = (missed /\ Arrived(j) < saves)
    /\ UNCHANGED <<settings, flags, timers, busy, saves, starts>>

\* Out of retries: the job logs it; nothing is scheduled.
SendFails(j) ==
    /\ sess[j].pc = "send" /\ Move(j, "exit")
    /\ missed' = TRUE
    /\ UNCHANGED <<settings, flags, timers, busy, saves, pushed, starts>>

Exit(j) ==
    /\ sess[j].pc = "exit" /\ depth' = depth - 1 /\ Move(j, "done")
    /\ UNCHANGED <<settings, dirty, timers, busy, progress>>

\* The callbacks, back on the main thread; finally_fn clears the busy flag.
Done(j) ==
    /\ sess[j].pc = "done"
    /\ sess' = [sess EXCEPT ![j] = NoSession]
    /\ busy' = (busy /\ j # "auto")
    /\ UNCHANGED <<settings, flags, timers, progress>>

SessionStep(j) ==
    \/ Clear(j) \/ Enter(j) \/ Pull(j) \/ Collect(j)
    \/ Send(j) \/ SendFails(j) \/ Exit(j) \/ Done(j)

Next ==
    \/ Save \/ Touch \/ Toggle \/ SetInterval
    \/ DebouncedPush \/ IntervalPull \/ Focus \/ SyncNow \/ Restart
    \/ \E j \in Jobs : SessionStep(j) \/ TurnedOff(j)

Spec == Init /\ [][Next]_vars

\* Timers go off, and worker threads and their callbacks run.
FairSpec ==
    /\ Spec
    /\ WF_vars(DebouncedPush) /\ WF_vars(IntervalPull)
    /\ \A j \in Jobs : WF_vars(SessionStep(j))

----------------------------------------------------------------------------
Stages == {"none", "clear", "enter", "pull", "collect", "send", "exit", "done"}

TypeOK ==
    /\ on \in BOOLEAN /\ interval \in BOOLEAN /\ dirty \in BOOLEAN
    /\ pushTimer \in BOOLEAN /\ pullTimer \in BOOLEAN
    /\ busy \in BOOLEAN /\ missed \in BOOLEAN
    /\ depth \in Nat
    /\ sess \in [Jobs -> [pc : Stages, mode : {"full", "pull", "push"}, took : Nat]]
    /\ saves \in Nat /\ pushed \in Nat /\ starts \in Nat

Inside(j) == sess[j].pc \in {"pull", "collect", "send", "exit"}

\* The suppression depth counts the sessions inside sync_data: none leaves
\* it raised, none lowers it twice, however the two threads interleave.
DepthCounts == depth = (IF Inside("auto") THEN 1 ELSE 0) + (IF Inside("manual") THEN 1 ELSE 0)

\* The busy flag is up exactly while the job is running: a dropped or a
\* failed job leaves no flag behind.
BusyIsJob == busy = (sess["auto"].pc # "none")

\* While automatic pulls are wanted, the next one is scheduled, whatever
\* was dropped or toggled in between.
PullScheduled == AutoPull => pullTimer

\* A job will still take every save made so far.
JobTakesAll ==
    /\ sess["auto"].mode = "push"
    /\ \/ sess["auto"].pc \in {"clear", "enter", "collect"}
       \/ sess["auto"].pc = "send" /\ sess["auto"].took = saves

\* Outside the known losses (a save during a session or while sync is off,
\* a debounce that fires into a running job, a push that fails, a restart)
\* a save that has not arrived has a timer or a job coming for it.
UnpushedIsComing == pushed < saves => missed \/ (pushTimer /\ dirty) \/ JobTakesAll

\* Every job and every Sync Now comes to its end, so no job keeps the
\* later ones out for ever.
SessionsEnd == \A j \in Jobs : sess[j].pc # "none" ~> sess[j].pc = "none"
====
