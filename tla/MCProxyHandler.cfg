\* Every combination of credentials, route and body; replies of up to two chunks.
CONSTANTS
    Audiences = {cli, other}
    ClientIDs = {cli}
    MaxBytes = 2
    Forged = Forged
    None = None
SPECIFICATION Spec
INVARIANTS
    TypeOK
    UpstreamGuarded
    AttributedToUser
    BodyIntact
    RecordShowsReply
CHECK_DEADLOCK FALSE
