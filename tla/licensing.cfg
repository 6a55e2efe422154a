CONSTANTS
    Machines = {m1}
    Slots = {s1, s2}
    Packages = {0, 1}
    MaxStack = 1
    PurgeAges = {1}
    MaxIssues = 1
    MaxAdmin = 2
    MaxTime = 3
SPECIFICATION Spec
SYMMETRY Symmetric
CHECK_DEADLOCK FALSE
INVARIANTS TypeOK ResignedIsBurned NothingLost PurgeKeepsRunning ReclaimNeedsCause LocalBurns
