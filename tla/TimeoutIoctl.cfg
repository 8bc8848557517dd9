CONSTANTS
    TIMEOUT_SEC = 2
    Ticks = 3
    MaxLines = 2
    MaxSignals = 2
SPECIFICATION Spec
INVARIANT RecvHasTimeout
