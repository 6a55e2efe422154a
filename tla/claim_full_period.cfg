CONSTANTS
    Machines = {m1}
    Slots = {s1, s2}
    Packages = {2}
    MaxStack = 1
    PurgeAges = {1}
    MaxIssues = 1
    MaxAdmin = 0
    MaxTime = 1
SPECIFICATION Spec
SYMMETRY Symmetric
CHECK_DEADLOCK FALSE
INVARIANTS FullPeriod
