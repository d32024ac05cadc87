CONSTANTS
    Requests = {r1, r2}
    Teardowns = {t1, t2}
    r1 = r1
    r2 = r2
    t1 = t1
    t2 = t2
    main = main
    other = other
    Keys = {main, other}
    PrimaryKey = main
    MaxQueuePerSession = 2
    MaxSessions = 3
SPECIFICATION Spec
CHECK_DEADLOCK FALSE
INVARIANTS
    MapHoldsLiveSessions
    OnePromptPerKey
    NoOrphans
    ChatStreamsItsRun

    
