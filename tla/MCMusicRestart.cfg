SPECIFICATION MCSpec
CONSTANTS
    Count = 3
    Kind <- MCKindOf
    Frames = 1
    MaxMishaps = 1
    Firmwares = {NAND}
    Original <- MCOriginal
    NoFile = NoFile
    MaxCrash = 0
    MaxFails = 0
INVARIANTS
    CodecHeld
CHECK_DEADLOCK FALSE
