CONSTANTS
    KeepRecentTokens = 2
    Sizes <- SizesOf
    MaxEntries = 7
SPECIFICATION BranchSpec
CHECK_DEADLOCK FALSE
INVARIANTS
    ResultsKeepTheirCalls
    SummaryAndContextPartition
    KeptMeetsBudget
