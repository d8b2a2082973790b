SPECIFICATION ModeSpec
CONSTANTS
    Threads = {t1}
    MsHandles = {m1, m2}
    HostHandles = {h1, h2, h3}
    NoHandle = NoHandle
    Chunk = 2
    Modes = {"USB", "WIF"}
    Careless = {}
INVARIANTS
    ModeAccounted
    HostReady
PROPERTIES
    HostReached
CHECK_DEADLOCK FALSE
