\* A restart whose Stop finds the process already reaped.
SPECIFICATION Spec
CONSTANTS
    o1 = o1
    o2 = o2
    out = out
    err = err
    Ops <- OneOp
    Kinds <- RestartKinds
    Streams <- OneStream
    PipeCap = 1
    MaxStarts = 2
INVARIANTS
    RestartNotGivenUp
CHECK_DEADLOCK FALSE
