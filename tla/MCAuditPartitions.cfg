\* Two replicas over five months with a retention of two.
CONSTANTS
    Replicas = {p1, p2}
    Retention = 2
    MaxMonth = 4
SPECIFICATION Spec
SYMMETRY ReplicaSymmetry
INVARIANTS
    TypeOK
    TwoMonthsReady
PROPERTIES
    KeepsRecent
CHECK_DEADLOCK FALSE
