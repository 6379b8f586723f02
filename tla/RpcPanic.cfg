\* A line still buffered when the waiter has shut the client down.
SPECIFICATION Spec
CONSTANTS
    c1 = c1
    p1 = p1
    p2 = p2
    Calls = {}
    Responders = {}
    EventCap = 1
    Kinds <- CallKinds
    MaxOut = 1
INVARIANTS
    NoSendOnClosedEvents
CHECK_DEADLOCK FALSE
