CONSTANTS
    Consumers = {c1, c2, c3}
    c1 = c1
    c2 = c2
    c3 = c3
    MaxEvents = 4
SPECIFICATION FairSpec
CHECK_DEADLOCK FALSE
INVARIANTS
    WaitersAreStarved
PROPERTIES
    ImplementsChannel
    EveryEventDelivered
