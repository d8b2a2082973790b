SPECIFICATION FairSpec
CONSTANTS
    Clients = {c1}
    UsbThread = usb
    Ops = {"xchg", "bulk"}
    DataLen = 1
    TxMax = 1
    MaxFaults = 1
    MaxAttach = 2
    ShortIn = FALSE
    Rejects = FALSE
PROPERTIES
    CallReturns
    CableFollowed
CHECK_DEADLOCK FALSE
