SPECIFICATION Spec

CONSTANTS
    i1 = i1
    p1 = p1
    p2 = p2
    w1 = w1
    t1 = t1
    t2 = t2
    t3 = t3
    Imports = {i1}
    Publishers = {p1, p2}
    Workers = {w1}
    Tokens = {t1, t2, t3}
    NoToken = NoToken
    NoImport = NoImport
    ImportMaxAttempts = 2
    TaskMaxAttempts = 2
    OutboxMaxAttempts = 3
    OutboxBatchSize = 1
    WatchdogBatchSize = 1
    MaxDisruptions = 2
    Faults = {"broker_down", "confirm_lost", "db_after_claim"}

SYMMETRY ProcessSymmetry

INVARIANTS
    NoStrandedImport

PROPERTIES
    IntentLifecycle
    DispatchAttemptsNeverRollBack
    GivenUpWithLastDispatch
