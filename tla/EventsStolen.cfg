\* A second hub takes events the first one's sessions never see.
SPECIFICATION Spec
CONSTANTS
    s1 = s1
    s2 = s2
    Sessions <- TwoSessions
    SourceCap = 2
    StreamCap = 2
    MaxHubs = 2
    MaxEvents = 2
INVARIANTS
    EveryEventReachesAll
CHECK_DEADLOCK FALSE
