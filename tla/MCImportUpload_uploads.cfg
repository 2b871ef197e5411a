SPECIFICATION FairSpec

CONSTANTS
    r1 = r1
    r2 = r2
    r3 = r3
    a = a
    b = b
    long = long
    text = text
    k1 = k1
    k2 = k2
    NoKey = NoKey
    NoRequest = NoRequest
    Requests = {r1, r2, r3}
    Contents = {a, b, long, text}
    TooLarge = {long}
    Unsigned = {text}
    Keys = {k1, k2}
    HashText <- MCHashText
    PoolSize = 2
    Uploads <- MCUploads
    Faults = {"crash", "save_error", "db_error", "commit_rejected",
              "commit_applied", "refresh_error"}

INVARIANTS
    TypeOK
    OneImportPerFile
    CommittedFileKept
    NoOrphanFiles
    RepliesAgree
    NoCircularWait

PROPERTIES
    ContractRefinement
    EveryRequestEnds
