CONSTANTS
    Keys = {k1, k2}
    Vals = {v1, v2}
    NoValue = NoValue
    MaxWriteAttempts = 10
    ConcurrentInserts = TRUE

SPECIFICATION Spec
SYMMETRY Symmetry
PROPERTY ClearLosesNothing
