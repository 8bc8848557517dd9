CONSTANTS
    Letters = {a, b}
    NL = NL
    NUL = NUL
    FIXED_BUFFER_SIZE = 4
    ALLOC_SIZE = 3
    ALLOC_LIMIT = 6
    MAX_CHILD = 3
    MaxBytes = 6
    MaxFailures = 1
    TIMEOUT_SEC = 2
    Ticks = 3
    MaxLines = 2
    MaxSignals = 2
    BigSize = 5
    Room = 2
    Programs = {"oneline", "oneline1", "timeout", "connect", "big"}
SPECIFICATION ReceivingSpec
INVARIANTS TypeOK BytesAccounted OneLineAtATime BuffersSuffice LinesEchoed TimeoutIsTrue CallIsBounded TransferIsWhole
SYMMETRY Perms
CHECK_DEADLOCK FALSE
