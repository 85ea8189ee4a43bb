\* Three requests, a channel of one and batches of two: one record on the channel,
\* one in the batch, one late.  No fairness for handlers.
CONSTANTS
    Records = {r1, r2, r3}
    Buffer = 1
    BatchSize = 2
SPECIFICATION ServerFairSpec
INVARIANTS
    PanicOnlyPastDeadline
    LastLineAccounts
    StrandedBounded
PROPERTIES
    SignalStops
CHECK_DEADLOCK FALSE
