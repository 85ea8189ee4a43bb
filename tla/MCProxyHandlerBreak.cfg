\* Every combination of credentials, route and body; a reply may break off.
CONSTANTS
    Audiences = {cli, other}
    ClientIDs = {cli}
    MaxBytes = 1
    Forged = Forged
    None = None
SPECIFICATION Spec
INVARIANTS
    EveryCallAudited
CHECK_DEADLOCK FALSE
