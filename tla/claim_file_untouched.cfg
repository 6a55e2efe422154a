SPECIFICATION SwapSpec
CONSTANTS
    Tries = 5
    AsideFrom = 1
    OverwriteFrom = 2
    MaxSwaps = 1
INVARIANT OriginalUntouched
