\* Two callers seal, migrate, rotate, take over, and abort, with one kill or failed
\* clean-up at any point.
SPECIFICATION Spec
CONSTANTS
    ApiKeys = {a, b}
    Writers = {a, b}
    DataKeys = {k1, k2}
    Words = {w1}
    Texts = {"short"}
    Stamps = {1}
    Size <- MCSize
    UploadIds = {u1, u2}
    None = None
    MaxItemBytes = 2
    Quota = 3
    StagingSecs = 1
    LeaseSecs = 1
    CommitMayFail = FALSE
    MaxGeneration = 3
    MaxTime = 1
    MaxFaults = 1
SYMMETRY Symmetric
INVARIANTS
    ItemsUnderTheirKey
    CleanupsSpareTheLiving
    GenerationsNeverReused
    HeaderWrapsTheKey
    RewriteUploadsBelongToTheSession
PROPERTIES
    ImplementsStore
    SessionsPassAtLeaseEnd
