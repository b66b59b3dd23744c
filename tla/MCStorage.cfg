\* An upload of one item, two threads, a PUT, a reader, another process that opens the shelf,
\* and a kill anywhere; an upload whose content is sent up to three times, one request after
\* the other, with kills and power failures between any two steps; two threads of a server
\* that share its connection, and a command beside them.
\* The bound on the names in the trash stops it, and an upload that has ended may stop.
CHECK_DEADLOCK FALSE
SPECIFICATION StorageSpec
CONSTANTS
    Uploads = {u1}
    Gens = {0}
    Items = {i1}
    Contents = {c1}
    Envelopes = {e1, e2}
    Workers = {a, b}
    Senders = {s}
    Readers = {r}
    Missing = Missing
    Empty = Empty
    Torn = Torn
    MaxKills = 1
    MaxTrash = 2
    Puts = {1, 2, 3}
    Sends <- MCSends
    Right = "right"
    None = None
    Pieces = 2
    Overlap = FALSE
    MaxFaults = 3
    Records <- MCRecords
    Processes = {"server", "command"}
    Threads <- MCThreads
    Null = Null
SYMMETRY MCSymmetry
INVARIANTS
    ItemIsWhole
    DigestIsOfTheContent
    LoadsWhatWasStored
PROPERTIES
    ImplementsDiskShelf
    OpeningSparesTheLiving
