---------------------------- MODULE PipelineState ----------------------------
(***************************************************************************)
(* The state the import pipeline's processes share, and the row operations *)
(* their repositories perform on it:                                       *)
(*                                                                         *)
(*   job        the import_jobs table                                      *)
(*   outbox     the import_dispatch_outbox table                           *)
(*   queue      the imports.dispatch queue of RabbitMQ                     *)
(*   publisher  what each outbox publisher process holds in memory         *)
(*   worker     what each Celery worker process holds in memory            *)
(*   disruptions  how many process crashes, publisher stalls and           *)
(*                redeliveries have happened (a bound, not program state)  *)
(***************************************************************************)
EXTENDS Integers, FiniteSets

CONSTANTS
    Imports,            \* import ids
    Publishers,         \* outbox publisher processes
    Workers,            \* Celery worker processes (one task at a time each)
    Tokens,             \* uuid4 values: processing tokens and claim tokens
    NoToken,            \* NULL in a token column
    NoImport,           \* an idle worker's import
    ImportMaxAttempts,  \* IMPORT_MAX_ATTEMPTS when the imports were uploaded
    TaskMaxAttempts,    \* IMPORT_MAX_ATTEMPTS of the workers
    OutboxMaxAttempts,  \* OUTBOX_MAX_ATTEMPTS
    OutboxBatchSize,    \* OUTBOX_BATCH_SIZE
    WatchdogBatchSize,  \* WATCHDOG_BATCH_SIZE, STARTUP_RECOVERY_BATCH_SIZE
    MaxDisruptions,     \* bound on crashes, stalls and redeliveries
    Faults              \* the failures of PostgreSQL and RabbitMQ that happen

\* The failures, and one timing, the code has a handler (or no handler) for. Workbook errors are
\* always possible and crashes are bounded by MaxDisruptions instead.
FaultKinds ==
    { "broker_down",             \* send_task raises, nothing was enqueued
      "confirm_lost",            \* send_task raises, the message was enqueued
      "db_before_claim",         \* OperationalError before the claim
      "error_before_claim",      \* any other error before the claim
      "claim_commit_lost",       \* the claim's COMMIT raises, rolled back
      "claim_commit_applied",    \* the claim's COMMIT raises, but took effect
      "db_after_claim",          \* OperationalError while processing
      "complete_commit_applied", \* the final COMMIT raises, but took effect
      "handler_lost",            \* the failure handler's transaction fails
      "requeue_commit_applied",  \* the requeue's COMMIT raises, took effect
      "retry_publish",           \* Celery cannot publish the retry message
      "redeliver",               \* the broker redelivers a held message
      "stale_insert" }           \* a claim meets a stale worker's insert

ASSUME ProcessAssumption ==
    /\ NoToken \notin Tokens
    /\ NoImport \notin Imports

\* Settings.validate_positive_integers.
ASSUME SettingsAssumption ==
    /\ ImportMaxAttempts \in Nat \ {0}
    /\ TaskMaxAttempts \in Nat \ {0}
    /\ OutboxMaxAttempts \in Nat \ {0}
    /\ OutboxBatchSize \in Nat \ {0}
    /\ WatchdogBatchSize \in Nat \ {0}
    /\ MaxDisruptions \in Nat

ASSUME FaultsAssumption == Faults \subseteq FaultKinds

\* len(outbox_retry_delays_seconds), which Settings fixes.
RetryDelayCount == 4

\* max_retries of process_import_task, from the settings of the worker, while an
\* import keeps the max_attempts it was created with: request.retries runs over
\* Retries.
MaxRetries == TaskMaxAttempts - 1
Retries == 0 .. MaxRetries

\* A dispatch intent is named by its import and the import's attempt_count when
\* it was written: 0 on upload, the attempts made so far on a watchdog requeue.
Slots == 0 .. ImportMaxAttempts - 1
Events == Imports \X Slots
ImportOf(e) == e[1]

\* "NONE" stands for a row that does not exist (yet).
JobStatus == {"NONE", "PENDING", "PROCESSING", "COMPLETED", "FAILED"}
Reasons == {"none", "never_started", "processing_failed", "max_attempts"}
ImportJob ==
    [status : JobStatus, token : Tokens \cup {NoToken},
     attempts : 0 .. ImportMaxAttempts, reason : Reasons]
NoJob == [status |-> "NONE", token |-> NoToken, attempts |-> 0,
          reason |-> "none"]
NewJob == [NoJob EXCEPT !.status = "PENDING"]

IntentStatus == {"NONE", "PENDING", "PROCESSING", "PUBLISHED", "FAILED"}
DispatchIntent ==
    [status : IntentStatus, attempts : 0 .. OutboxMaxAttempts,
     token : Tokens \cup {NoToken}]
NoIntent == [status |-> "NONE", attempts |-> 0, token |-> NoToken]
PendingIntent == [NoIntent EXCEPT !.status = "PENDING"]

\* A ClaimedOutboxEvent in a publisher's memory, and how its send_task went.
ClaimedEvent ==
    [event : Events, token : Tokens, attempts : 0 .. OutboxMaxAttempts,
     outcome : {"claimed", "published", "refused"}]

\* One run of process_import_task. "held": RabbitMQ still counts the message as
\* delivered to this worker and not acknowledged.
WorkerPc == {"idle", "received", "locked", "working", "handling", "marking",
             "retrying", "done"}
TaskRun ==
    [pc : WorkerPc, import : Imports \cup {NoImport}, retries : Retries,
     held : BOOLEAN, token : Tokens \cup {NoToken},
     attempts : 0 .. ImportMaxAttempts]
IdleRun == [pc |-> "idle", import |-> NoImport, retries |-> 0, held |-> FALSE,
            token |-> NoToken, attempts |-> 0]

VARIABLES job, outbox, queue, publisher, worker, disruptions

vars == <<job, outbox, queue, publisher, worker, disruptions>>

\* Every table, queue and process holds values of its type.
TypeOK ==
    /\ job \in [Imports -> ImportJob]
    /\ outbox \in [Events -> DispatchIntent]
    /\ queue \in [Imports -> [Retries -> Nat]]
    /\ publisher \in [Publishers -> SUBSET ClaimedEvent]
    /\ worker \in [Workers -> TaskRun]
    /\ disruptions \in 0 .. MaxDisruptions

-----------------------------------------------------------------------------
(* Rows of import_jobs.                                                    *)

\* The WHERE clause of ImportClaimRepository.claim_pending_import.
Claimable(i) ==
    /\ job[i].status = "PENDING"
    /\ job[i].attempts < ImportMaxAttempts

\* Mutant: the updates match any owner's PROCESSING row.
OwnedByAnyone(i, t) == job[i].status = "PROCESSING"

\* The WHERE clause of every token-checked update of ImportProgressRepository.
Owned(i, t) ==
    /\ job[i].status = "PROCESSING"
    /\ job[i].token = t

ClaimRow(row, t) ==
    [row EXCEPT !.status = "PROCESSING", !.token = t,
                !.attempts = row.attempts + 1]
CompleteRow(row) == [row EXCEPT !.status = "COMPLETED", !.token = NoToken]
FailRow(row, why) ==
    [row EXCEPT !.status = "FAILED", !.token = NoToken, !.reason = why]
RequeueRow(row) ==
    [row EXCEPT !.status = "PENDING", !.token = NoToken, !.reason = "none"]

\* A claiming worker keeps the row locked from its SELECT ... FOR UPDATE to the
\* end of the transaction.
RowLocked(i) == \E w \in Workers : worker[w].pc = "locked" /\ worker[w].import = i

\* The chunk INSERTs of a worker lock its import's row FOR KEY SHARE, for the
\* foreign key, to the end of their transaction. The row is claimable only if that
\* worker lost it after its ownership check.
StaleInsertLocks(i) ==
    /\ "stale_insert" \in Faults
    /\ \E w \in Workers : worker[w].pc = "working" /\ worker[w].import = i

-----------------------------------------------------------------------------
(* Messages of imports.dispatch, counted by import and request.retries.    *)

Enqueue(q, i, r) == [q EXCEPT ![i][r] = @ + 1]
Dequeue(q, i, r) == [q EXCEPT ![i][r] = @ - 1]

\* One more crash, stall or redelivery, within the bound.
Disrupt ==
    /\ disruptions < MaxDisruptions
    /\ disruptions' = disruptions + 1
=============================================================================
