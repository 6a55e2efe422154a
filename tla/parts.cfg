SPECIFICATION PartsSpec
CONSTANTS
    r1 = r1
    r2 = r2
    absent = absent
    omitted = omitted
    Rows <- MCRows
    Values = {"a", "b"}
    NoRow = absent
    NoChange = omitted
    Slots = {1}
    BatchSize = 1
    LegacyRows <- MCLegacyRows
    Offered <- MCOffered
    DayLen = 10
    UtcOffset = 0
    Machines = {m1, m2}
    Orgs = {o1, o2}
    Requests = {x, y}
    Cap = 1
    Ttl = 0
    MaxDay = 1
    MaxTokens = 3
    Checkers = {x, y}
    MaxDuties = 2
    MaxStops = 1
    Main = main
    Background = {m1, m2}
    Handles = {1, 2, 3, 4, 5, 6}
    NoHandle = 0
    Writes = 2
    Attempts = 3
    MaxTasks = 3
    Tries = 5
    AsideFrom = 1
    OverwriteFrom = 2
    MaxSwaps = 3
    Desktops = {x, y}
    GroupIds = {m1, m2}
    ClientIds = {k1}
    NoRef = none
    Labels = {l1}
    PullLimit = 2
    MaxWrites = 4
    MaxPushes = 2
    Clients = {x, y}
    Names = {m1, m2}
    Contacts = {l1}
    Marks = {l1}
    NoRecord = absent
    MaxNow = 2
    MaxCommands = 1
    MaxOthers = 2
    Node = 1
    Walls = {0, 1}
    Remote <- MCRemote
    MaxEdits = 2
    MaxBegun = 2
    MaxCounter = 1
SYMMETRY Alike
INVARIANTS PartsTypeOK CapNeedsCause TokenKnown CopiesAgree ComplaintNeedsCause
INVARIANTS HandlesSafe OnlyRacedOpen PinnedAllOrNothing SwapSafe
INVARIANTS DanglingNeedsStaleWrite GroupJamNeedsTombstone PassedIsStored
PROPERTIES ImplementsLww LinkLossNeedsCause UndoIsExact
CHECK_DEADLOCK FALSE
