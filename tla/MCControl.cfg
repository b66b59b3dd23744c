\* Workspaces whose name is taken again, key ids used again, two commands at once, a request,
\* time that passes between any two steps, and a process that is killed.
\* Everything may be done, and every request answered.
CHECK_DEADLOCK FALSE
SPECIFICATION PartsSpec
CONSTANTS
    Ids = {w1, w2}
    Names = {home}
    KeyIds = {k1, k2}
    Operators = {o1, o2}
    Requests = {r1}
    Lasting = {None, 1}
    OlderThan = 1
    LastUseEvery = 1
    None = None
    MaxTime = 2
    MaxAudit = 4
    MaxSecrets = 2
    Server = server
    MaxKills = 1
SYMMETRY MCSymmetry
INVARIANTS
    DeadKeysStayOut
    TrailExplainsKeys
PROPERTIES
    PruneSparesActiveKeys
    NamedKeepTheirItems
