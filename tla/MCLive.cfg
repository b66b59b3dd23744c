\* One caller, every step of which two faults may interrupt, among them commits that fail
\* while the process lives, and a janitor.
SPECIFICATION FairSpec
CONSTANTS
    ApiKeys = {a}
    Writers = {a}
    DataKeys = {k1}
    Words = {w1}
    Texts = {"short"}
    Stamps = {1, 2}
    Size <- MCSize
    UploadIds = {u1, u2}
    None = None
    MaxItemBytes = 2
    Quota = 3
    StagingSecs = 1
    LeaseSecs = 1
    CommitMayFail = TRUE
    MaxGeneration = 1
    MaxTime = 1
    MaxFaults = 2
INVARIANTS
    TypeOK
    ContentStoredOnce
PROPERTIES
    UsesTheShelf
    RubbishGoes
