\* Three uploads by two callers of two texts that fit the quota one at a time, in a plaintext
\* workspace that may be sealed, its items set aside or re-encrypted, with one kill or failed
\* clean-up.
SPECIFICATION Spec
CONSTANTS
    ApiKeys = {a, b}
    Writers = {a, b}
    DataKeys = {k1}
    Words = {w1}
    Texts = {"short", "long"}
    Stamps = {1}
    Size <- MCSize
    UploadIds = {u1, u2, u3}
    None = None
    MaxItemBytes = 2
    Quota = 2
    StagingSecs = 1
    LeaseSecs = 1
    CommitMayFail = FALSE
    MaxGeneration = 1
    MaxTime = 1
    MaxFaults = 1
SYMMETRY Symmetric
INVARIANTS
    BooksBalance
    OneOutcome
    WithinQuota
