SPECIFICATION Spec

CONSTANTS
    i1 = i1
    i2 = i2
    p1 = p1
    w1 = w1
    t1 = t1
    t2 = t2
    t3 = t3
    Imports = {i1, i2}
    Publishers = {p1}
    Workers = {w1}
    Tokens = {t1, t2, t3}
    NoToken = NoToken
    NoImport = NoImport
    ImportMaxAttempts = 2
    TaskMaxAttempts = 3
    OutboxMaxAttempts = 6
    OutboxBatchSize = 2
    WatchdogBatchSize = 2
    MaxDisruptions = 0
    Faults = {"broker_down", "claim_commit_applied", "db_after_claim",
              "complete_commit_applied", "handler_lost"}

INVARIANTS
    NoStrandedImport
    CarriedInvariant
