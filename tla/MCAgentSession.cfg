CONSTANTS
    Callers = {1, 2}
    Chain = Chain
    Manual = Manual
    None = None
    Outcomes = {"ok", "large", "retryable", "overflow"}
    MaxRetries = 1
    MaxQueued = 1
    MaxAborts = 1
    MaxSessions = 2
    MaxManual = 1
    Patient = TRUE
SPECIFICATION FairSpec
CHECK_DEADLOCK FALSE
INVARIANTS
    TypeOK
    ContextFollowsSession
    SessionsDoNotMix
    OneRecovery
    RetriesAreBounded
PROPERTIES
    PromptsReturn
