---- MODULE MCDesktop ----
(***************************************************************************)
(* Parts of the desktop that share no state: automatic sync, the control   *)
(* list, background work with its pumps, automatic backup, and the upgrade *)
(* of the database that comes before them.  One run checks them, one at a  *)
(* time: only the part chosen at the start moves.                          *)
(***************************************************************************)
EXTENDS AutoSync, ControlList, AsyncUi, AutoBackup, Upgrade

VARIABLE part
desktopVars == <<vars, listVars, uiVars, backupVars, upgradeVars, part>>

DesktopInit ==
    /\ part \in {"sync", "list", "ui", "backup", "upgrade"}
    /\ Init /\ ListInit /\ UiInit /\ BackupInit /\ UpgradeInit
    /\ part # "sync" => on /\ interval
    /\ part # "list" => kind = "key"
    /\ part # "backup" => ~ wanted /\ every = "daily"
    /\ part # "upgrade" => stored = CHOOSE f \in OlderFiles : TRUE

SyncMoves == part = "sync" /\ UNCHANGED <<part, listVars, uiVars, backupVars, upgradeVars>>
ListMoves == part = "list" /\ UNCHANGED <<part, vars, uiVars, backupVars, upgradeVars>>
UiMoves == part = "ui" /\ UNCHANGED <<part, vars, listVars, backupVars, upgradeVars>>
BackupMoves == part = "backup" /\ UNCHANGED <<part, vars, listVars, uiVars, upgradeVars>>
UpgradeMoves == part = "upgrade" /\ UNCHANGED <<part, vars, listVars, uiVars, backupVars>>

DesktopNext ==
    \/ SyncMoves /\ Next
    \/ ListMoves /\ ListNext
    \/ UiMoves /\ UiNext
    \/ BackupMoves /\ BackupNext
    \/ UpgradeMoves /\ UpgradeNext

\* The fairness of each part's own specification.
SyncFairness ==
    /\ WF_desktopVars(SyncMoves /\ DebouncedPush) /\ WF_desktopVars(SyncMoves /\ IntervalPull)
    /\ \A j \in Jobs : WF_desktopVars(SyncMoves /\ SessionStep(j))
ListFairness ==
    /\ WF_desktopVars(ListMoves /\ FetchStep(Loop)) /\ SF_desktopVars(ListMoves /\ Arrive(Loop))
    /\ WF_desktopVars(ListMoves /\ Check)
UiFairness ==
    /\ WF_desktopVars(UiMoves /\ Leave) /\ WF_desktopVars(UiMoves /\ PumpStep)
    /\ \A w \in Widgets : WF_desktopVars(UiMoves /\ Put(w)) /\ SF_desktopVars(UiMoves /\ PumpFires(w))
BackupFairness == WF_desktopVars(BackupMoves /\ CheckBackup)

DesktopSpec ==
    /\ DesktopInit /\ [][DesktopNext]_desktopVars
    /\ SyncFairness /\ ListFairness /\ UiFairness /\ BackupFairness

\* The state of every part keeps its types: no count of sessions or workers
\* goes below zero, and a check of the backup is always pending.
DesktopTypeOK ==
    CASE part = "sync" -> TypeOK [] part = "list" -> ListTypeOK [] part = "ui" -> UiTypeOK
      [] part = "backup" -> BackupTypeOK [] part = "upgrade" -> UpgradeTypeOK
====
