SPECIFICATION DesktopSpec
CONSTANTS
    MaxSaves = 2
    MaxStarts = 2
    Codes = {"a", "b"}
    Mine = "a"
    Others = {"o"}
    Loop = "loop"
    MaxEvents = 2
    MaxErrands = 1
    Widgets = {"v", "w"}
    MaxWork = 3
    Keep = 2
    DayParts = 2
    MaxClock = 4
    MaxTimers = 3
    MaxRuns = 4
    Relics = {"r"}
    MaxEnds = 2
INVARIANTS DesktopTypeOK PullScheduled UnpushedIsComing
INVARIANTS BurnedStays ResultHasPump LatestKept KeptOnce HealedUnlessCut
PROPERTIES SessionsEnd BlockEnforced ListsSettle ResultDelivered BackupComes
CHECK_DEADLOCK FALSE
