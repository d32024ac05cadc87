CONSTANTS
    Inputs = {i1, i2, i3}
    i1 = i1
    i2 = i2
    i3 = i3
    MaxRuns = 2
    MaxCalls = 2
    MaxTurns = 1
    QueueModes = {"all", "one-at-a-time"}
    Environment = {"loop"}
SPECIFICATION Spec
SYMMETRY InputSymmetry
CHECK_DEADLOCK FALSE
INVARIANTS
    TypeOK
    ToolResultsFollowCalls
    DeliveredInOrder
    
    TranscriptMirrors
    DrainedStateExact
    OneLoopAtATime
