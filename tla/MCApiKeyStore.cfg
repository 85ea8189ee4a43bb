\* Two users, one account, two keys, one request in flight
\* beside the single-statement ones; keys that live one or two ticks or for ever.
CONSTANTS
    Users = {alice, bob}
    Names = {robot}
    Keys = {k1, k2}
    Clients = {c1}
    MaxTTL = 2
    AskDays = {0, 1, 3, 4, 6, 9}
    Labels = {0, 1, 4}
    Half = 4
    UnusedFor = 0
    StaleAfter = 1
    MaxTime = 2
    None = None
    Never = Never
SPECIFICATION Spec
SYMMETRY KeySymmetry
INVARIANTS
    TypeOK
    AuthenticateExact
    ReportsAgree
    LifetimesKept
PROPERTIES
    DeathIsFinal
CHECK_DEADLOCK FALSE
