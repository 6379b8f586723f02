\* Two phones, the first one connected twice: pairing, revocation, the thread they
\* hold, failed saves and crashes, where a save removes the old file first.
SPECIFICATION FairSpec
CONSTANTS
    d1 = d1
    d2 = d2
    s1 = s1
    s2 = s2
    t1 = t1
    c1 = c1
    i1 = i1
    i2 = i2
    Devices <- TwoDevices
    Sessions <- TwoSessions
    DeviceOf <- SameDevice
    NoCaller = NoCaller
    OtherCaller = OtherCaller
    Threads <- OneThread
    Tokens <- OneCode
    NoToken = NoToken
    Ids <- TwoIds
    NoId = NoId
    Windows = TRUE
    SaveErrors = TRUE
INVARIANTS
    RevokedStaysOut
    PairedStaysKnown
    OneIdentity
    OneDevicePerCode
    ConnectionsCounted
    HoldsEndWithSessions
PROPERTIES
    SessionsEnd
CHECK_DEADLOCK FALSE
