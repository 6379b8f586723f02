\* Two restarts, a shutdown request, phones, signals and kills; one daemon after the other.
SPECIFICATION DaemonFairSpec
CONSTANTS
    r1 = r1
    r2 = r2
    s1 = s1
    s2 = s2
    Restarters <- TwoRestarters
    Stoppers <- OneStopper
INVARIANTS
    NothingOutlivesDaemon
    StateFileIsTrue
PROPERTIES
    ShutdownEnds
CHECK_DEADLOCK FALSE
