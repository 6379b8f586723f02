\* Two operations at a time, crashes at any moment.
SPECIFICATION FairSpec
CONSTANTS
    o1 = o1
    o2 = o2
    Ops <- TwoOps
    Kinds <- AllKinds
    MaxStarts = 2
INVARIANTS
    StateMatchesClient
    ProcessUnderControl
PROPERTIES
    LiveClientKept
    ManagerResponds
    ImplementsLifecycle
CHECK_DEADLOCK FALSE
