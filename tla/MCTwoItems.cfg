\* A full workspace of two items is re-encrypted, item by item and by one holder after
\* another: a lease of zero seconds may be taken over at once.
SPECIFICATION Spec
CONSTANTS
    ApiKeys = {a, b}
    Writers = {a, b}
    DataKeys = {k1}
    Words = {w1}
    Texts = {"short", "long"}
    Stamps = {1}
    Size <- MCSize
    UploadIds = {u1, u2, u3, u4}
    None = None
    MaxItemBytes = 2
    Quota = 3
    StagingSecs = 1
    LeaseSecs = 0
    CommitMayFail = FALSE
    MaxGeneration = 1
    MaxTime = 0
    MaxFaults = 0
SYMMETRY Symmetric
PROPERTIES
    ImplementsStore
