SPECIFICATION Spec
CONSTANTS
    r1 = r1
    r2 = r2
    va = va
    vb = vb
    Rows = {r1}
    Values = {va, vb}
    NoRow = absent
    NoChange = omitted
    Slots = {1, 2}
    BatchSize = 1
    LegacyRows = {}
    Devices = {1, 2}
    Owner <- MCOwner
    Skew <- NoSkew
    PullPageSize = 2
    PushPageSize = 2
    MaxPages = 2
    Retries = 1
    MayAbort = FALSE
    MaxTime = 3
    MaxEdits = 2
    MaxSessions = 4
    DayLen = 10
    UtcOffset = 0
SYMMETRY ValueSym
PROPERTIES HigherClockWins
CHECK_DEADLOCK FALSE
