SPECIFICATION FairSpec

CONSTANTS
    i1 = i1
    p1 = p1
    w1 = w1
    t1 = t1
    t2 = t2
    Imports = {i1}
    Publishers = {p1}
    Workers = {w1}
    Tokens = {t1, t2}
    NoToken = NoToken
    NoImport = NoImport
    ImportMaxAttempts = 2
    TaskMaxAttempts = 2
    OutboxMaxAttempts = 5
    OutboxBatchSize = 1
    WatchdogBatchSize = 1
    MaxDisruptions = 1
    Faults = {"broker_down", "confirm_lost", "claim_commit_applied",
              "db_after_claim", "complete_commit_applied", "handler_lost"}

PROPERTIES
    EveryImportFinishes
    EveryIntentSettles
