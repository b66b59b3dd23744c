\* A commit that fails after its publish, and whose upload then ends.
SPECIFICATION Spec
CONSTANTS
    ApiKeys = {a, b}
    Writers = {a, b}
    DataKeys = {}
    Words = {}
    Texts = {"short", "long"}
    Stamps = {1}
    Size <- MCSize
    UploadIds = {u1, u2, u3}
    None = None
    MaxItemBytes = 2
    Quota = 2
    StagingSecs = 1
    LeaseSecs = 1
    CommitMayFail = TRUE
    MaxGeneration = 1
    MaxTime = 1
    MaxFaults = 1
SYMMETRY Symmetric
INVARIANTS
    WithinQuota
