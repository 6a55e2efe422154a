SPECIFICATION BackupSpec
CONSTANTS
    Keep = 2
    DayParts = 2
    MaxClock = 4
    MaxTimers = 3
    MaxRuns = 4
INVARIANT OneCheckPending
