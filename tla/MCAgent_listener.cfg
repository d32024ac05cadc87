CONSTANTS
    Inputs = {i1}
    i1 = i1
    MaxRuns = 2
    MaxCalls = 1
    MaxTurns = 1
    QueueModes = {"one-at-a-time"}
    Environment = {"listener"}
SPECIFICATION FairSpec
CHECK_DEADLOCK FALSE
PROPERTIES
    WaitForIdleResolves
