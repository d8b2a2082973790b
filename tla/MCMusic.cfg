SPECIFICATION MCSpec
CONSTANTS
    Count = 3
    Kind <- MCKindOf
    Frames = 2
    MaxMishaps = 1
    Firmwares = {NAND, fw1, fw2}
    Original <- MCOriginal
    NoFile = NoFile
    MaxCrash = 2
    MaxFails = 1
INVARIANTS
    PauseTrue
    UserFileKept
    Restored
PROPERTIES
    RightSong
    Resumed
    TrackHandled
CHECK_DEADLOCK FALSE
