SPECIFICATION MCSpec
CONSTANTS
    Thread = {t1, t2, m}
    Exempt = {m}
    MaxKeys = 3
    MaxFail = 1
    Tree <- MCTree
    Plugins = {"p"}
    NameLength <- MCNameLength
    MaxPath = 21
    MaxDepth = 3
    MaxDirNum = 3
    Rows = 2
    Folders <- MCFolders
    LineMax = 11
    CaptureMax = 3
    CfgLine = 24
INVARIANTS
    NotLeftAsleep
    FlagsTrue
    FoldersKept
PROPERTIES
    GameRuns
    PlaceRight
CHECK_DEADLOCK FALSE
