\* The DEFAULT partition as a safety net, against the next start of a proxy.
CONSTANTS
    Replicas = {p1}
    Retention = 2
    MaxMonth = 4
SPECIFICATION Spec
INVARIANTS
    NetDoesNotBlock
CHECK_DEADLOCK FALSE
