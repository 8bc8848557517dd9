CONSTANTS
    Conns = {c1, c2, c3}
    NoConn = NoConn
    MaxLines = 2
    Window = 1
    EarlyClosers = {c1}
    MAX_CHILD = 3
    MAXSENDER = 2
    MAXQUEUESZ = 3
    FirstFd = 5
    CtlMayFail = TRUE
SPECIFICATION Spec
INVARIANTS RepliesToOwner
CHECK_DEADLOCK FALSE
