SPECIFICATION Spec

CONSTANTS
    i1 = i1
    p1 = p1
    w1 = w1
    w2 = w2
    t1 = t1
    t2 = t2
    t3 = t3
    Imports = {i1}
    Publishers = {p1}
    Workers = {w1, w2}
    Tokens = {t1, t2, t3}
    NoToken = NoToken
    NoImport = NoImport
    ImportMaxAttempts = 2
    TaskMaxAttempts = 2
    OutboxMaxAttempts = 2
    OutboxBatchSize = 1
    WatchdogBatchSize = 1
    MaxDisruptions = 0
    Faults = {"stale_insert"}

INVARIANTS
    NoStrandedImport
