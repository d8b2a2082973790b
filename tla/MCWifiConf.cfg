SPECIFICATION Spec
CONSTANTS
    Clients = {c1}
    Ctl = Ctl
    NumSock = 1
    MaxLen = 2
    ConfEntry = 0
    ConfBlock = 0
    DefaultBlock = 2
    MaxFaults = 0
    Preemptive = FALSE
    Ops = {"cmd", "read", "write"}
INVARIANTS
    NoError
