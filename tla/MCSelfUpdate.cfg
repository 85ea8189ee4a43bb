\* Three processes, two versions, four upgrades.
CONSTANTS
    Procs = {p1, p2, p3}
    Versions = {v1, v2}
    Inodes = {i1, i2, i3, i4}
    MaxRuns = 4
    None = None
    Bad = Bad
    Gap = Gap
SPECIFICATION Spec
SYMMETRY Symmetry
INVARIANTS
    TypeOK
    AlwaysRunnable
    OnlyVerified
    OverlapHeals
CHECK_DEADLOCK FALSE
