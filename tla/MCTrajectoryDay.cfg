SPECIFICATION Spec
CONSTANTS
    Symbols = {1, 2}
    LastSlot = 2
    Spacing = 8
    Minute = 1
    MaxLag = 1
    MaxLife = 9
    Horizon = 8
    Window = 2
    Skew = 1
    ProbeBudget = 1
    ProbeCap = 1
    CandidateCap = 1
    EntryLast = 0
    ForcedSlot = 1
    Hold = 9
    Delays = {1, 3}
    MayFail = TRUE
    None = None
CHECK_DEADLOCK FALSE
INVARIANTS
    OneCandidatePerSymbol
    ClosedOnceAtHorizon
    CalibrationRoundTrip
PROPERTIES
    ReportIsStable
