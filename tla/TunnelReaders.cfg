\* One operation at a time, one process with both of its output streams.
SPECIFICATION FairSpec
CONSTANTS
    o1 = o1
    o2 = o2
    out = out
    err = err
    Ops <- OneOp
    Kinds <- RestartKinds
    Streams <- TwoStreams
    PipeCap = 2
    MaxStarts = 1
PROPERTIES
    LiveTunnelKept
    ReadersEnd
CHECK_DEADLOCK FALSE
