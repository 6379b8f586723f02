\* The setting is switched off while a start is finishing.
SPECIFICATION AwakeSpec
CONSTANTS
    o1 = o1
    o2 = o2
    Ops <- TwoOps
    Kinds <- StartKinds
    MaxStarts = 1
    AcquireFails = FALSE
    MaxToggles = 1
INVARIANTS
    AsleepWhenDisabled
CHECK_DEADLOCK FALSE
