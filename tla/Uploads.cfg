\* Three uploads and two turns, a server that closes at any moment.
SPECIFICATION UploadsSpec
CONSTANTS
    u1 = u1
    u2 = u2
    u3 = u3
    t1 = t1
    t2 = t2
    Uploads <- ThreeUploads
    Turns <- TwoTurns
SYMMETRY PhoneSymmetry
INVARIANTS
    NoLeftovers
    LostOnlyToCleanup
CHECK_DEADLOCK FALSE
