CONSTANTS
    Logins = {l1, l2}
    MaxCalls = 3
    MaxGrants = 1
    None = None
    Failure = Failure
SPECIFICATION Spec
INVARIANTS TypeOK RedeemsOwn PageShown
PROPERTIES LoginsEnd
CHECK_DEADLOCK FALSE
