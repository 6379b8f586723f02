\* A session that ends on a line readLoop cannot decode.
SPECIFICATION Spec
CONSTANTS
    o1 = o1
    o2 = o2
    Ops <- TwoOps
    Kinds <- AllKinds
    MaxStarts = 2
SYMMETRY OpSymmetry
INVARIANTS
    OwnsItsProcess
CHECK_DEADLOCK FALSE
