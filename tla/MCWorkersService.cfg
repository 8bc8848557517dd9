CONSTANTS
    Conns = {c1, c2}
    NoConn = NoConn
    MaxLines = 2
    Window = 2
    EarlyClosers = {c1}
    Workers = {w1, w2}
    Nobody = Nobody
    MayFail = TRUE
    MaxHups = 2
    Servers = {"fork", "thread", "prefork", "prethread", "server", "server1", "afindepend", "re-exec", "ssl"}
SPECIFICATION FairSpec
PROPERTIES QueueMovesOn EveryLineAnswered RestartCompletes
CHECK_DEADLOCK FALSE
