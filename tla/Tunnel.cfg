\* Two operations at a time, crashes at any moment, one output stream.
SPECIFICATION FairSpec
CONSTANTS
    o1 = o1
    o2 = o2
    out = out
    err = err
    Ops <- TwoOps
    Kinds <- RestartKinds
    Streams <- OneStream
    PipeCap = 1
    MaxStarts = 2
INVARIANTS
    StateMatchesCommand
    NoOrphanTunnel
PROPERTIES
    TunnelResponds
    ImplementsLifecycle
CHECK_DEADLOCK FALSE
