SPECIFICATION Spec
CONSTANTS
    Symbols = {1, 2}
    LastSlot = 1
    Spacing = 12
    Minute = 2
    MaxLag = 1
    MaxLife = 11
    Horizon = 12
    Window = 2
    Skew = 1
    ProbeBudget = 1
    ProbeCap = 2
    CandidateCap = 2
    EntryLast = 0
    ForcedSlot = 1
    Hold = 10
    Delays = {1}
    MayFail = FALSE
    None = None
CHECK_DEADLOCK FALSE
INVARIANT
    HorizonSlotCloses
