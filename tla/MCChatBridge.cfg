CONSTANTS
    k1 = k1
    k2 = k2
    k3 = k3
    Keys = {k1, k2, k3}
    Sender <- SenderOf
    MaxQueuePerSender = 2
    MaxConcurrent = 2
    MaxMessages = 3
    MaxSessions = 3
SPECIFICATION Spec
CHECK_DEADLOCK FALSE
INVARIANTS
    OnePromptPerSender
    AtMostMaxConcurrent
    RepliesInOrder
    NoIdleSlotWhileWaiting
PROPERTIES
    EveryMessageAnswered
