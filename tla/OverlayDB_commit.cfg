CONSTANTS
    Keys = {k1, k2}
    Vals = {v1, v2}
    NoValue = NoValue
    MaxWriteAttempts = 10
    ConcurrentInserts = FALSE

SPECIFICATION Spec
SYMMETRY Symmetry
INVARIANT TypeOK
PROPERTY ImplementsOverlayKV
