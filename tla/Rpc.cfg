\* One call and two users who answer approvals; codex may answer late, twice or
\* never, ask, notify, resolve, send a broken line and die.
SPECIFICATION FairSpec
CONSTANTS
    c1 = c1
    p1 = p1
    p2 = p2
    Calls <- OneCall
    Responders <- TwoUsers
    EventCap = 1
    Kinds <- RpcKinds
    MaxOut = 2
INVARIANTS
    FirstReplyTranslated
    ResponseSlotFree
    NoPendingLeak
    EventStreamIntact
PROPERTIES
    SessionEndsForAll
CHECK_DEADLOCK FALSE
