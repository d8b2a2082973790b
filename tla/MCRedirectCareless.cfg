SPECIFICATION ModeSpec
CONSTANTS
    Threads = {t1}
    MsHandles = {m1}
    HostHandles = {h1}
    NoHandle = NoHandle
    Chunk = 1
    Modes = {"USB", "WIF"}
    Careless = {"early", "again", "end"}
INVARIANTS
    HostReady
CHECK_DEADLOCK FALSE
