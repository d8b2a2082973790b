SPECIFICATION Spec
CONSTANTS
    Threads = {t1, t2}
    Last = t2
    MaxFiles = 2
    MaxDirs = 1
    Files = {f, g}
    Dirs = {d}
    NoPath = NoPath
    Fds = {3, 4}
    Limit = 3
    blk_size = 1
    MaxEntries = 1
    ChmodFails = FALSE
    MaxCalls = 4
    MaxFaults = 1
INVARIANTS
    TablesRight
    InStep
    ReadOnly
SYMMETRY MCSymmetry
CHECK_DEADLOCK FALSE
