\* One user starts the server and releases a thread.
SPECIFICATION AwakeSpec
CONSTANTS
    o1 = o1
    o2 = o2
    Ops <- OneOp
    Kinds <- DesktopKinds
    MaxStarts = 2
    AcquireFails = FALSE
    MaxToggles = 0
INVARIANTS
    AwakeWhileRunning
CHECK_DEADLOCK FALSE
