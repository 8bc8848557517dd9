CONSTANTS
    c1 = c1
    c2 = c2
    s1 = s1
    s2 = s2
    Nobody = Nobody
    Clients = {c1, c2}
    Files = {c2}
    Bound = {c2}
    Servers = {s1, s2}
    MaxTyped <- MCMaxTyped
    Port <- MCPort
    Host <- MCHost
    MaxFaults = 1
    MaxOks = 3
SPECIFICATION Spec
INVARIANTS TypeOK AnswersAreOwn OneAnswerEach
PROPERTIES LineIsAnswered
CHECK_DEADLOCK FALSE
