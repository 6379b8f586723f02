\* Windows: the file is removed before the new one takes its name.
SPECIFICATION Spec
CONSTANTS
    d1 = d1
    d2 = d2
    s1 = s1
    s2 = s2
    t1 = t1
    c1 = c1
    i1 = i1
    i2 = i2
    Devices <- OneDevice
    Sessions <- NoSessions
    DeviceOf <- NobodysSessions
    NoCaller = NoCaller
    OtherCaller = OtherCaller
    Threads <- NoThreads
    Tokens <- OneCode
    NoToken = NoToken
    Ids <- TwoIds
    NoId = NoId
    Windows = TRUE
    SaveErrors = FALSE
INVARIANTS
    ReconnectWithoutPairing
CHECK_DEADLOCK FALSE
