SPECIFICATION MCSpec
CONSTANTS
    p1 = p1
    p2 = p2
    c1 = c1
    Owner = Owner
    Clients = {p1, p2}
    Writers = {p1, p2, c1}
    Cli = c1
    Ids = {1}
    NoFile = NoFile
    Nothing = Nothing
    NoToken = NoToken
    Lifetime = 2
    Skew = 1
    MaxTime = 2
    MaxIssued = 3
    PageCap = 2
    BatchCap = 2
    ClockSkew = 1
    Symbols = {1, 2, 3, 4, 5}
    Measured <- MCMeasured
    Widths = {0, 1, 2}
    Budget = 8
    PerCall = 4
CHECK_DEADLOCK FALSE
INVARIANTS
    EvidenceIsCollected
    CacheHoldsLiveToken
    ProbesWholeInBudget
PROPERTIES
    RunsEnd
