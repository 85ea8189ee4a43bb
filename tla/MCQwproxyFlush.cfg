\* The comment of Writer.Close against the shutdown sequence.
CONSTANTS
    Records = {r1, r2}
    Buffer = 1
    BatchSize = 2
SPECIFICATION ServerSpec
INVARIANTS
    CloseFlushesBuffered
CHECK_DEADLOCK FALSE
