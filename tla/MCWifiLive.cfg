SPECIFICATION FairSpec
CONSTANTS
    Clients = {c1, c2}
    Ctl = Ctl
    NumSock = 3
    MaxLen = 1
    ConfEntry = 1
    ConfBlock = 1
    DefaultBlock = 2
    MaxFaults = 1
    Preemptive = FALSE
    Ops = {"open", "read", "exit"}
PROPERTIES
    CallReturns
    ExitEnds
CHECK_DEADLOCK FALSE
