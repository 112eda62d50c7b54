SPECIFICATION Spec
CONSTANTS
    LastDay = 1
    Open <- MCOpen
    Early <- MCEarly
    TimesOfDay = 7
    Slots <- MCSlots
    Cutoff = 3
    Match = 1
    Guard = 1
    Grace = 1
    MaxStart = 1
    Prepared <- MCPrepared
    MaxCrashes = 1
    None = None
INVARIANTS
    MissesOnRecord
    RunIsExpected
PROPERTY
    ExpectedIsResolved
CHECK_DEADLOCK FALSE
