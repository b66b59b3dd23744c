\* A reader beside a writer of two items that uploads, deletes, seals, migrates, and starts
\* afresh, with one kill or failed clean-up.
SPECIFICATION RequestsSpec
CONSTANTS
    ApiKeys = {a}
    Writers = {a}
    DataKeys = {k1}
    Words = {w1}
    Texts = {"short", "long"}
    Stamps = {1}
    Size <- MCSize
    UploadIds = {u1, u2}
    None = None
    MaxItemBytes = 2
    Quota = 3
    StagingSecs = 1
    LeaseSecs = 1
    CommitMayFail = FALSE
    MaxGeneration = 1
    MaxTime = 0
    MaxFaults = 1
SYMMETRY SymmetricUploads
INVARIANTS
    AnswersWereThere
    NotFoundIsTrue
    ListsWhatStays
