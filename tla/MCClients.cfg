CONSTANTS
    Programs = {1, 2, 3, 4, 5}
    MaxBytes = 4
    MaxSignals = 2
    Me = Me
    MaxLines = 3
SPECIFICATION Spec
INVARIANTS CommandsApart TerminalGivenBack NothingTypedIsLost
PROPERTIES EndIsNoticed LinesGetThrough
CHECK_DEADLOCK FALSE
