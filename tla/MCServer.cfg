\* One operator and a janitor with two kills; a client that speaks, one that says nothing and
\* one that never finishes, with one handshake at a time; an upload and two
\* downloads, one of whose clients may stall, on a pool of two threads; every form of a range
\* against contents of up to four bytes; two requests in flight from clients behind a proxy, two
\* of them of one /64, with room for one counted address.
\* Transfers and answers end.
CHECK_DEADLOCK FALSE
SPECIFICATION ServerSpec
CONSTANTS
    Ids = {w1, w2}
    Names = {home}
    KeyIds = {}
    Operators = {o1}
    Requests = {}
    Lasting = {None}
    OlderThan = 1
    LastUseEvery = 1
    None = None
    MaxTime = 0
    MaxAudit = 2
    MaxSecrets = 1
    Server = server
    MaxKills = 2
    Clients = {a, s, t}
    Silent = {s}
    Stalling = {t}
    Mode = "tls"
    Handshakes = 1
    Transfers = {up, down, slow}
    Uploads = {up}
    Lively = {up, down}
    Pieces = 2
    Depth = 1
    Threads = 2
    MaxSize = 4
    Changes = 1
    Attempts = {r1, r2}
    Peers = {"proxy", "x", "y"}
    Proxy = "proxy"
    CountedAs <- MCCountedAs
    PerMinute = 2
    Window = 2
    Capacity = 1
    NoAddress = NoAddress
    LastTime = 3
INVARIANTS
    AcceptedIsWhole
    ExactlyWhatWasAsked
    TableBounded
    GuessesBounded
PROPERTIES
    EveryWorkspaceGetsItsDirectory
    ServesToTheEnd
    LivelyEnds
