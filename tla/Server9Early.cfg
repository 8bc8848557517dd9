CONSTANTS
    Conns = {c1, c2, c3}
    NoConn = NoConn
    MaxLines = 2
    Window = 1
    EarlyClosers = {c1, c2, c3}
    MAX_CHILD = 3
    MAXSENDER = 1
    MAXQUEUESZ = 4
    FirstFd = 5
    CtlMayFail = TRUE
SPECIFICATION Spec
INVARIANTS TypeOK CountIsOpen EventsAreLive NoLostWakeup CrossTalkOnlyFromLeavers SlotNotShared
SYMMETRY Perms
CHECK_DEADLOCK FALSE
