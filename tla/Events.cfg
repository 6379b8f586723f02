\* One control server: two phones, a channel and a queue that fill up.
SPECIFICATION FairSpec
CONSTANTS
    s1 = s1
    s2 = s2
    Sessions <- TwoSessions
    SourceCap = 2
    StreamCap = 1
    MaxHubs = 1
    MaxEvents = 3
INVARIANTS
    InOrder
    EveryEventReachesAll
PROPERTIES
    EveryEventPasses
CHECK_DEADLOCK FALSE
