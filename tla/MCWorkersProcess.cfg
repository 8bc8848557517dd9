CONSTANTS
    Conns = {c1, c2, c3}
    NoConn = NoConn
    MaxLines = 1
    Window = 1
    EarlyClosers = {c1, c2, c3}
    Workers = {w1, w2}
    Nobody = Nobody
    MayFail = TRUE
    MaxHups = 2
    Servers = {"fork", "thread", "prefork", "prethread", "server", "server1", "afindepend", "ssl"}
SPECIFICATION Spec
INVARIANTS ChildrenAreReaped LockIsForAccept OneAtATimeAndReady
PROPERTIES EchoRefined
SYMMETRY Perms
CHECK_DEADLOCK FALSE
