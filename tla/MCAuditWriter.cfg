\* Three requests, a channel of one and batches of two: the channel is full
\* while a batch waits, an insert is under way, or the worker has stopped.
CONSTANTS
    Records = {r1, r2, r3}
    Buffer = 1
    BatchSize = 2
SPECIFICATION Spec
INVARIANTS
    TypeOK
    CountersAgree
    QueuedOnce
    RowsFaithful
    CleanCloseDrains
PROPERTIES
    KeepsLedger
    RecordSettles
CHECK_DEADLOCK FALSE
