SPECIFICATION Spec
CONSTANTS
    r1 = r1
    r2 = r2
    Runs = {r1, r2}
    MaxFiled = 2
    MaxMishaps = 1
INVARIANTS
    SentWasShown
    RepeatsOnlyAfterMishap
PROPERTIES
    OnlyResolutionCloses
    MissIsFiled
    AlertIsShown
