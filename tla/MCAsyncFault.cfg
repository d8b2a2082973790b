SPECIFICATION Spec
CONSTANTS
    Threads = {t1, t2}
    Endpoints = {e1}
    NoEndp = NoEndp
    Byte <- MCByte
    Packets <- MCPackets
    BufSize = 2
    NumChan = 1
    UserChan = 0
INVARIANTS
    ReadReturns
CHECK_DEADLOCK FALSE
