\* Two processes, two contexts, four commands, three credentials and one write
\* cut short.
CONSTANTS
    Procs = {p1, p2}
    Names = {a, b}
    Inodes = {i1, i2, i3}
    SendsIDToken = TRUE
    MaxRuns = 4
    MaxIssued = 3
    MaxCuts = 1
    None = None
    Absent = Absent
    Blank = Blank
    Torn = Torn
SPECIFICATION Spec
SYMMETRY Symmetry
INVARIANTS
    TypeOK
    CurrentExists
    TokensStayHome
    LoginLasts
PROPERTIES
    KeepsRegister
CHECK_DEADLOCK FALSE
