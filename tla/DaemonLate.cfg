\* A restart that outlasts the two seconds.
SPECIFICATION DaemonSpec
CONSTANTS
    r1 = r1
    r2 = r2
    s1 = s1
    s2 = s2
    Restarters <- OneRestarter
    Stoppers <- OneStopper
INVARIANTS
    OwnsItsProcesses
CHECK_DEADLOCK FALSE
