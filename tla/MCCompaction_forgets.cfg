CONSTANTS
    KeepRecentTokens = 2
    Sizes <- SizesOf
    MaxEntries = 6
SPECIFICATION BranchSpec
CHECK_DEADLOCK FALSE
INVARIANTS
    NothingIsForgotten
