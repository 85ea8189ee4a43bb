\* Three documents, pages of two, a dedup set of two, an overlap of two seconds.
CONSTANTS
    Since = 2
    Start = 3
    Overlap = 2
    Factor = 1
    PageSize = 2
    MaxSeen = 2
    MaxClock = 5
    MaxDocs = 3
SPECIFICATION FairSpec
INVARIANTS
    TypeOK
PROPERTIES
    NoneMissed
    Settles
CHECK_DEADLOCK FALSE
