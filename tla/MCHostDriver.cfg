SPECIFICATION Spec
CONSTANTS
    Thread = {t1, t2}
    Descriptor = {d1, d2}
    Lengths = {0, 2, 5}
    MaxBlock = 2
    FileSize = 5
    MaxCalls = 5
    MaxMishaps = 1
SYMMETRY MCSymmetry
INVARIANTS
    Transferred
    HandlesKnown
CHECK_DEADLOCK FALSE
