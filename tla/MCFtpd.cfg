SPECIFICATION FtpdFairSpec
CONSTANTS
    MaxSession = 2
    MaxCommands = 3
    Commands = {"PASV", "PORT", "LIST", "STOR", "QUIT", "CWD", "RNFR", "RNTO", "DELE", "MKD", "RMD", "NOOP"}
    Names = {"d"}
    NewNames = {"d", "e"}
    Walks <- MCWalks
    MaxNumber = 8
    Chunks = {1, 2}
    WriteBuffer = 2
    MaxFile = 3
INVARIANTS
    MemoryLive
    WalkRight
PROPERTIES
    OwnSockets
    StoreWhole
    TransferEnds
    ExitEnds
CHECK_DEADLOCK FALSE
