SPECIFICATION TmSpec
CONSTANTS
    Firmwares = {NAND, fw1, fw2}
    Original <- MCOriginal
    NoFile = NoFile
    MaxCrash = 1
    MaxFails = 0
INVARIANTS
    BackupOriginal
