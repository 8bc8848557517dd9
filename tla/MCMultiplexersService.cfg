CONSTANTS
    Conns = {c1, c2}
    NoConn = NoConn
    MaxLines = 3
    Window = 2
    EarlyClosers = {}
    MAX_CHILD = 3
    FirstFd = 5
    MAXSENDER = 2
    MAXQUEUESZ = 3
    Servers = {"select", "poll", "epoll", "libevent", "queue"}
    CtlMayFail = FALSE
    Interrupted = FALSE
SPECIFICATION FairSpec
PROPERTIES EchoRefined EveryLineAnswered
CHECK_DEADLOCK FALSE
