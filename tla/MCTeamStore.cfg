CONSTANTS
    Callers = {1, 2, 3}
    Inbox = Inbox
    Dir = Dir
    None = None
    Absent = Absent
    Torn = Torn
    Dead = Dead
    Ok = Ok
    Refused = Refused
    TaskIds = {1, 2}
    Locks = {1, 2, Inbox, Dir}
    MaxRetries = 2
    Offered <- SomeJobs
    MaxDeaths = 1
    Crowd = 2
SPECIFICATION Spec
CHECK_DEADLOCK FALSE
INVARIANTS
    TypeOK
    ExclusiveUntilStale
    LocksHaveOwners
PROPERTIES
    OperationsAreAtomic
