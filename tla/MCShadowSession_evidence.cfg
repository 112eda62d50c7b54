SPECIFICATION Spec
CONSTANTS
    a = a
    b = b
    SampleIds = {a, b}
    MaxAge = 1
    Skew = 1
    MaxHold = 2
    MaxTime = 3
    Limits = {10}
    Asks = {0, 9, 11}
    Marks = {8, 10, 13}
    Missing = Missing
    None = None
SYMMETRY Symmetry
CHECK_DEADLOCK FALSE
INVARIANT PilotIsNotEvidence
