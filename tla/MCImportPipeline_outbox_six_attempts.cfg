SPECIFICATION FairSpec

CONSTANTS
    i1 = i1
    p1 = p1
    w1 = w1
    t1 = t1
    t2 = t2
    Imports = {i1}
    Publishers = {p1}
    Workers = {w1}
    Tokens = {t1, t2}
    NoToken = NoToken
    NoImport = NoImport
    ImportMaxAttempts = 1
    TaskMaxAttempts = 1
    OutboxMaxAttempts = 6
    OutboxBatchSize = 1
    WatchdogBatchSize = 1
    MaxDisruptions = 0
    Faults = {"broker_down"}

PROPERTIES
    EveryIntentSettles
