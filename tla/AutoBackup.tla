---- MODULE AutoBackup ----
(***************************************************************************)
(* The scheduler of automatic backups: a timer of the main loop checks     *)
(* every 30 minutes whether a backup is due, makes it, prunes the folder   *)
(* by name and records the run; changing a setting checks soon.            *)
(*                                                                         *)
(* A check runs on the main loop from its start to its end, so it is one   *)
(* step.  Time goes by in parts of a day.  Names are compared as texts,    *)
(* which for fewer than ten backups a day is by day and counter.  The      *)
(* folder the user may choose instead of AutoBackups is left out.          *)
(***************************************************************************)
EXTENDS Integers, FiniteSets

CONSTANTS Keep,      \* AUTO_BACKUP_KEEP
          DayParts,  \* parts of a day, the unit of the clock
          MaxClock,  \* bound: the clock stops there
          MaxTimers, \* bound: timers that are pending at once
          MaxRuns    \* bound: backups made, settings changed, starts

ASSUME BackupAssumption ==
    {Keep, DayParts, MaxTimers} \subseteq Nat \ {0} /\ {MaxClock, MaxRuns} \subseteq Nat

VARIABLES wanted,   \* SETTING_AUTO_BACKUP_ENABLED is "1"
          every,     \* SETTING_AUTO_BACKUP_INTERVAL
          lastRun,   \* SETTING_AUTO_BACKUP_LAST_RUN, or Never
          clock,
          checks,    \* after callbacks of _check that are pending
          files,     \* the names in AutoBackups
          latest,    \* history: the name of the latest backup
          excuse,    \* history: a run was not recorded, or the clock went back
          failed,    \* history: the latest attempt failed
          runs
backupVars == <<wanted, every, lastRun, clock, checks, files, latest, excuse, failed, runs>>

Never == -1
NoFile == [day |-> -1, n |-> 0]
Days == [daily |-> 1, weekly |-> 7]

BackupInit ==
    /\ wanted \in BOOLEAN /\ every \in {"daily", "weekly", "off"}
    /\ lastRun = Never /\ clock = 0
    /\ checks = 1
    /\ files = {} /\ latest = NoFile
    /\ excuse = FALSE /\ failed = FALSE /\ runs = 0

Counted == runs < MaxRuns /\ runs' = runs + 1

----------------------------------------------------------------------------
(* Which backup is due, its name, and what is pruned.                      *)

\* should_run_backup
ShouldRun ==
    every # "off" /\ (lastRun = Never \/ clock - lastRun >= Days[every] * DayParts)

Today == clock \div DayParts
Name == [day |-> Today, n |-> CHOOSE n \in 0..Cardinality(files) :
            /\ [day |-> Today, n |-> n] \notin files
            /\ \A i \in 0..(n - 1) : [day |-> Today, n |-> i] \in files]
Before(f, g) == f.day < g.day \/ (f.day = g.day /\ f.n < g.n)

\* Mutant of Pruned: the wrong end of the list is kept.
PrunedNewest(fs) == {f \in fs : Cardinality({g \in fs : Before(g, f)}) < Keep}

\* prune_old_backups
Pruned(fs) == {f \in fs : Cardinality({g \in fs : Before(f, g)}) < Keep}

----------------------------------------------------------------------------
(* _check                                                                  *)

\* Mutant of CheckDisabled: a disabled check is the last.
CheckDisabledLast ==
    /\ ~ wanted /\ checks > 0 /\ checks' = checks - 1
    /\ UNCHANGED <<wanted, every, lastRun, clock, files, latest, excuse, failed, runs>>

\* The branch for "disabled" schedules the next check, and then so does the
\* finally clause.
CheckDisabled ==
    /\ ~ wanted /\ checks > 0 /\ checks < MaxTimers
    /\ checks' = checks + 1
    /\ UNCHANGED <<wanted, every, lastRun, clock, files, latest, excuse, failed, runs>>

\* Mutant of NextCheck: an enabled check is the last.
NoNextCheck == checks > 0 /\ checks' = checks - 1

\* The timer that went off is followed by one.
NextCheck == checks > 0 /\ UNCHANGED checks

CheckNotDue ==
    /\ wanted /\ ~ ShouldRun /\ NextCheck
    /\ UNCHANGED <<wanted, every, lastRun, clock, files, latest, excuse, failed, runs>>

\* A file that cannot be deleted stays. The settings may be locked: the run
\* is not recorded then, as when the app ends before.
Backup ==
    /\ wanted /\ ShouldRun /\ Counted /\ NextCheck
    /\ LET all == files \cup {Name} IN files' \in {Pruned(all), all}
    /\ latest' = Name
    /\ \/ lastRun' = clock /\ UNCHANGED excuse /\ failed' = FALSE
       \/ excuse' = TRUE /\ failed' = TRUE /\ UNCHANGED lastRun
    /\ UNCHANGED <<wanted, every, clock>>

BackupFails ==
    /\ wanted /\ ShouldRun /\ NextCheck
    /\ failed' = TRUE
    /\ UNCHANGED <<wanted, every, lastRun, clock, files, latest, excuse, runs>>

----------------------------------------------------------------------------
(* The user, the clock and the app.                                        *)

\* _toggle_auto_backup and nudge, which replaces the timer set last.
ChangeSettings ==
    /\ Counted
    /\ wanted' \in BOOLEAN /\ every' \in {"daily", "weekly", "off"}
    /\ checks' = IF checks = 0 THEN 1 ELSE checks
    /\ UNCHANGED <<lastRun, clock, files, latest, excuse, failed>>

\* The app is started again, after a restore with the settings of the backup.
StartAgain ==
    /\ Counted /\ checks' = 1
    /\ \/ UNCHANGED <<lastRun, excuse>>
       \/ \E t \in {Never} \cup 0..clock : lastRun' = t /\ t < lastRun /\ excuse' = TRUE
    /\ UNCHANGED <<wanted, every, clock, files, latest, failed>>

TimePasses ==
    /\ clock < MaxClock /\ clock' = clock + 1
    /\ UNCHANGED <<wanted, every, lastRun, checks, files, latest, excuse, failed, runs>>

\* Another time zone, or a clock that is set.
TurnBack ==
    /\ Counted /\ clock >= DayParts /\ clock' = clock - DayParts /\ excuse' = TRUE
    /\ UNCHANGED <<wanted, every, lastRun, checks, files, latest, failed>>

CheckBackup == CheckDisabled \/ CheckNotDue \/ Backup \/ BackupFails

BackupNext == CheckBackup \/ ChangeSettings \/ StartAgain \/ TimePasses \/ TurnBack

BackupSpec == BackupInit /\ [][BackupNext]_backupVars

\* Timers go off.
BackupFairSpec == BackupSpec /\ WF_backupVars(CheckBackup)

----------------------------------------------------------------------------
\* A check is always pending, whatever was toggled and whatever failed.
BackupTypeOK ==
    /\ wanted \in BOOLEAN /\ every \in {"daily", "weekly", "off"}
    /\ lastRun \in Nat \cup {Never} /\ clock \in Nat
    /\ checks \in Nat \ {0}
    /\ files \subseteq [day : Nat, n : Nat] /\ latest \in [day : Nat, n : Nat] \cup {NoFile}
    /\ excuse \in BOOLEAN /\ failed \in BOOLEAN /\ runs \in Nat

\* Pruning by name spares the backup that was just made, unless a run was
\* not recorded or the clock went back: only then can names of one day run
\* ahead of it, or a name that was pruned be used again.
LatestKept == latest = NoFile \/ latest \in files \/ excuse

\* A backup that is due is made, tried in vain, or not wanted any more.
BackupComes == (wanted /\ ShouldRun) ~> (~ (wanted /\ ShouldRun) \/ failed)

\* "check every 30 minutes": one check is pending at a time.
OneCheckPending == checks = 1
====
