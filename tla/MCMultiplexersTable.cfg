CONSTANTS
    Conns = {c1, c2, c3, c4}
    NoConn = NoConn
    MaxLines = 1
    Window = 1
    EarlyClosers = {c1, c2, c3, c4}
    MAX_CHILD = 3
    FirstFd = 4
    MAXSENDER = 1
    MAXQUEUESZ = 2
    Servers = {"select", "poll", "epoll", "libevent"}
    CtlMayFail = TRUE
    Interrupted = TRUE
SPECIFICATION Spec
INVARIANTS BooksAgree NeverBlocksOnRecv
PROPERTIES TurnsAwayOnlyWhenFull
SYMMETRY Perms
CHECK_DEADLOCK FALSE
