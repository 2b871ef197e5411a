SPECIFICATION Spec

CONSTANTS
    i1 = i1
    p1 = p1
    w1 = w1
    w2 = w2
    t1 = t1
    t2 = t2
    t3 = t3
    Imports = {i1}
    Publishers = {p1}
    Workers = {w1, w2}
    Tokens = {t1, t2, t3}
    NoToken = NoToken
    NoImport = NoImport
    ImportMaxAttempts = 2
    TaskMaxAttempts = 2
    OutboxMaxAttempts = 2
    OutboxBatchSize = 1
    WatchdogBatchSize = 1
    MaxDisruptions = 2
    Faults = {"broker_down", "db_before_claim", "error_before_claim",
              "claim_commit_lost", "claim_commit_applied", "db_after_claim",
              "complete_commit_applied", "handler_lost",
              "requeue_commit_applied", "retry_publish", "redeliver",
              "stale_insert"}

SYMMETRY ProcessSymmetry

INVARIANTS
    TypeOK
    PendingIsClaimable

PROPERTIES
    CompletedByCurrentAttempt
    LifecycleRefinement

CHECK_DEADLOCK FALSE
