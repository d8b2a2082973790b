SPECIFICATION Spec
CONSTANTS
    Clients = {c1, c2}
    UsbThread = usb
    Ops = {"xchg", "async", "lock"}
    DataLen = 2
    TxMax = 2
    MaxFaults = 0
    MaxAttach = 1
    ShortIn = TRUE
    Rejects = FALSE
SYMMETRY MCSymmetry
INVARIANTS
    BusOK
    FollowsCable
    BothInSync
PROPERTIES
    InIntact
