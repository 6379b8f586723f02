\* cloudflared goes on logging after its address has been found.
SPECIFICATION Spec
CONSTANTS
    o1 = o1
    o2 = o2
    out = out
    err = err
    Ops <- OneOp
    Kinds <- StartKinds
    Streams <- OneStream
    PipeCap = 2
    MaxStarts = 1
INVARIANTS
    TunnelNotStuck
CHECK_DEADLOCK FALSE
