\* Four processes of three versions; any two of the renewals by the hook, those by a tool that
\* writes in place, and the run of `tls self-signed`; two builds installed with two failing actions and two edits;
\* three users with every environment; and the days of more than four centuries.
\* The days end, and so do the renewals.
CHECK_DEADLOCK FALSE
SPECIFICATION HostSpec
CONSTANTS
    Processes = {"v1", "v2", "server", "command"}
    Latest <- MCLatest
    Nobody = Nobody
    Makers = {m1}
    Renewals = 2
    InPlace = TRUE
    Builds = 2
    Failures = 2
    Edits = 2
    Users = {root, service, user}
    Root = root
    None = None
    LastDay = 147000
INVARIANTS
    Whole
    InitIsFound
    DateIsRight
PROPERTIES
    OpeningEnds
    PairIsServed
    SparesTheirs
