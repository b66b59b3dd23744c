\* A server opens a workspace while it is deleted.
\* A deletion may have left nothing to do.
CHECK_DEADLOCK FALSE
SPECIFICATION RegistrySpec
CONSTANTS
    Ids = {w1, w2}
    Names = {home}
    KeyIds = {}
    Operators = {o1}
    Requests = {}
    Lasting = {None}
    OlderThan = 1
    LastUseEvery = 1
    None = None
    MaxTime = 0
    MaxAudit = 2
    MaxSecrets = 1
    Server = server
    MaxKills = 0
INVARIANTS
    DeletedStaysDeleted
