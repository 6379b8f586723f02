\* One goroutine of the application and the watch goroutines; crashes, a refused
\* inhibitor.
SPECIFICATION AwakeFairSpec
CONSTANTS
    o1 = o1
    o2 = o2
    Ops <- OneOp
    Kinds <- DesktopKinds
    MaxStarts = 2
    AcquireFails = TRUE
    MaxToggles = 1
INVARIANTS
    NoStrayInhibitor
PROPERTIES
    SleepIsFreed
CHECK_DEADLOCK FALSE
