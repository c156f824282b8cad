CONSTANTS
    None = None
    Depth = 3
    MAX_RETRIES = 1
    UID_MOD = 3
    SERVER_UID = 2
    UID_MAX = 5
    SERVER_RETRIES = 1
    Requests = {"A"}
    Answers = {"X"}
    MaxSends = 4
SPECIFICATION FairSpec
INVARIANTS
    TypeOK
    AcksTellTheTruth
    InOrder
PROPERTIES
    KeepsPromise
    Quiesces
CHECK_DEADLOCK FALSE
