SPECIFICATION MCSpec
CONSTANTS
    i1 = i1
    i2 = i2
    k1 = k1
    k2 = k2
    c1 = c1
    Intents = {i1, i2}
    Keys = {k1, k2}
    Callers = {c1}
    NoCall = NoCall
    NoOrder = NoOrder
    Unknown = Unknown
    Capital = 2
    LastDay = 2
    Tolerance = 1
    MaxEvents = 8
    a = a
    b = b
    SampleIds = {a, b}
    MaxAge = 1
    Skew = 1
    MaxHold = 2
    MaxTime = 3
    Limits = {10}
    Asks = {0, 9, 11}
    Marks = {8, 10, 13}
    Missing = Missing
    None = None
CONSTRAINT BrokerBound
SYMMETRY Symmetry
CHECK_DEADLOCK FALSE
INVARIANTS
    CashCovered
    FillWins
    GateSeesEveryExposure
    CompletedIsFlat
    ReviewTellsTheTruth
    ExitEvidence
    SamplesInOrder
    PilotTradeNeverCounted
PROPERTIES
    KeyNamesOneOrder
