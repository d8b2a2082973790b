SPECIFICATION Spec
CONSTANTS
    Threads = {t1, t2}
    Endpoints = {e1, e2}
    NoEndp = NoEndp
    Byte <- MCByte
    Packets <- MCPackets
    BufSize = 2
    NumChan = 1
    UserChan = 0
SYMMETRY MCSymmetry
INVARIANTS
    RingOK
    NoLostData
PROPERTIES
    PipeSpec
CHECK_DEADLOCK FALSE
