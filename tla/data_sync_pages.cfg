SPECIFICATION DeliverySpec
CONSTANTS
    r1 = r1
    r2 = r2
    va = va
    vb = vb
    s1 = s1
    s2 = s2
    Rows = {r1, r2}
    Values = {va, vb}
    NoRow = absent
    NoChange = omitted
    Slots = {s1, s2}
    BatchSize = 1
    LegacyRows = {}
    Devices = {1, 2}
    Owner <- MCOwner
    Skew <- FastFirst
    PullPageSize = 1
    PushPageSize = 1
    MaxPages = 2
    Retries = 2
    MayAbort = TRUE
    MaxTime = 2
    MaxEdits = 2
    MaxSessions = 2
    DayLen = 2
    UtcOffset = 0
INVARIANTS TypeOK StampsUnique PushBeatsCopy OwedStaysAhead
SYMMETRY Alike
CHECK_DEADLOCK FALSE
