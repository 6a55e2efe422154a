SPECIFICATION FairSpec
CONSTANTS
    r1 = r1
    r2 = r2
    va = va
    vb = vb
    Rows = {r1}
    Values = {va}
    NoRow = absent
    NoChange = omitted
    Slots = {1}
    BatchSize = 1
    LegacyRows = {}
    Devices = {1, 2}
    Owner <- MCOwner
    Skew <- FastFirst
    PullPageSize = 1
    PushPageSize = 1
    MaxPages = 2
    Retries = 2
    MayAbort = TRUE
    MaxTime = 3
    MaxEdits = 3
    MaxSessions = 2
    DayLen = 10
    UtcOffset = 0
PROPERTIES SessionEnds
INVARIANTS ClockDominates
CHECK_DEADLOCK FALSE
