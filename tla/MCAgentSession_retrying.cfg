CONSTANTS
    Callers = {1, 2}
    Chain = Chain
    Manual = Manual
    None = None
    Outcomes = {"ok", "retryable", "fatal"}
    MaxRetries = 1
    MaxQueued = 1
    MaxAborts = 1
    MaxSessions = 2
    MaxManual = 1
    Patient = TRUE
SPECIFICATION Spec
CHECK_DEADLOCK FALSE
INVARIANTS
    IsRetryingIsTrue
