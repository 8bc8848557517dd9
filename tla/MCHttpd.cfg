SPECIFICATION FairSpec
CONSTANTS
    c1 = c1
    c2 = c2
    NoConn = NoConn
    Conns <- MCConns
    Scripts <- MCScripts
    MAX_BACKLOG = 1
    Sizes = {0, 2}
    MaxChanges = 1
    MaxFailures = 1
INVARIANTS TypeOK AnswersOnlyRequests AnswersEveryRequest ResponseIsWhole
PROPERTY EveryRequestEnds
CHECK_DEADLOCK FALSE
