SPECIFICATION Spec
CONSTANTS
    Clients = {c1, c2}
    Ctl = Ctl
    NumSock = 2
    MaxLen = 2
    ConfEntry = 1
    ConfBlock = 2
    DefaultBlock = 2
    MaxFaults = 0
    Preemptive = TRUE
    Ops = {"cmd", "stat", "read", "write", "exit"}
SYMMETRY MCSymmetry
CONSTRAINTS
    NotMet
INVARIANTS
    OneUser
    PoolClean
    DataIntact
CHECK_DEADLOCK FALSE
