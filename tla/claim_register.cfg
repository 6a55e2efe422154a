CONSTANTS
    Machines = {m1}
    Slots = {s1}
    Packages = {0, 1}
    MaxStack = 1
    PurgeAges = {1}
    MaxIssues = 1
    MaxAdmin = 0
    MaxTime = 1
    MaxTokens = 2
SPECIFICATION RegSpec
SYMMETRY Symmetric
CHECK_DEADLOCK FALSE
INVARIANT ActiveLicenseRegisters
