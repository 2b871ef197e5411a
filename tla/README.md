# Verification of the shipment import service

TLA+ models of this repository's import service, the TLC runs that check them on
small instances, and TLAPS proofs of the properties that matter most for every
instance.

## The system

A client uploads an XLSX file of shipments (`POST /imports`). The API stores the
file, and one transaction inserts an `import_jobs` row and an
`import_dispatch_outbox` row (the *intent*). From then on several kinds of processes
share the tables and one RabbitMQ queue:

| Component | State | Operations | Talks to |
|---|---|---|---|
| Upload endpoint and storage (`api/v1/imports.py`, `local_file_storage.py`) | stored files | save, check, delete; one reply per outcome | import creation |
| Import creation (`create_import.py`, `import_repository.py`) | - | advisory lock, lookup by key and by fingerprint, insert job and intent, commit, refresh | both tables, connection pool |
| Outbox publisher (`publish_outbox.py`, `outbox_repository.py`) | the batch of claims in memory | recover stale claims, claim due intents, `send_task`, record success or failure | both tables, RabbitMQ |
| Worker (`tasks.py`, `process_import.py`, claim and progress repositories) | token and attempt of the running task | claim, reset, process chunks, complete / fail / requeue, Celery retry, late acknowledgement | RabbitMQ, `import_jobs`, `shipments`, `import_errors` |
| Watchdog (`recover_stale_imports.py`, Beat and worker start) | - | requeue with a new intent, or fail, imports whose heartbeat expired | both tables |
| Broker and Celery (`celery_app.py`) | queue `imports.dispatch`, dead-letter queue nobody consumes | deliver, redeliver, acknowledge, reject | publisher, workers |
| Row validation (`row_validation.py`, `shipment_rules.py`, `duplicate_tracker.py`) | codes seen in the file | parse and check fields, find duplicates in the file and in the table | database (reads) |
| Chunk persistence (`process_import.py`, shipment and error repositories) | `shipments`, `import_errors`, counters | insert a validated chunk, reclassify duplicate races | database |
| Read endpoints (status, errors, shipments, `pagination.py`) | - | one status, or a page and its total | database (reads) |
| Workbook parser, settings, migrations, application shell | - | - | - |

What is hard here: the processes run concurrently and share no lock but the rows'
own and the upload's advisory lock; a publisher and a worker hold a token in memory
and act on rows that the recovery services may have taken from them; a message may
be sent twice, lost with a failed task or redelivered; every `COMMIT` may fail with
or without effect; the watchdog looks only at `PROCESSING` rows, so nothing ever
looks again at a `PENDING` row whose last message is gone; a file and its import are
kept in two places that no transaction spans; and a listing is put together from
many snapshots.

What makes the components correct:

* uploads: one import per file however many uploads of it run side by side; each
  upload is answered as the README's table of duplicates says; a committed import
  keeps its file, every other file goes; all replies about a file name the same import;
  waiting requests never wait for each other in a circle;
* publisher: an intent is eventually `PUBLISHED` or `FAILED`; a publisher whose
  claim was recovered never overwrites another's outcome; attempts never roll back; an
  import is given up only with the last dispatch of an intent, never under a worker;
* worker: only the owner of the current attempt ends it; attempts stay within the
  limit; every accepted import is eventually `COMPLETED` or `FAILED`;
* watchdog: a requeued import is claimable and has a new intent;
* chunks: every run ends, whatever others insert and delete; counters equal committed rows; the output of an import is of one attempt
  and final once it is `COMPLETED` or `FAILED`; every row of a completed file is a
  shipment or an error; a bad row or a duplicate rejects rows, never an import;
* listings: a client that saw its import finish gets each row once, in order;
* together: a `PENDING` import always has an intent, a message or a worker that
  stands for it.

`PROJECT.json` lists the hazards at the line where each one bites.

## Modules

| Module | Contents |
|---|---|
| `PipelineState` | constants and their assumptions, the shared state, the row operations of the repositories |
| `OutboxPublisher` | actions of `PublishOutboxService` and of the publisher process |
| `ImportWorker` | actions of `process_import_task` and `ProcessImportService.run`, retry, acknowledgement, crash, redelivery |
| `StaleImportRecovery` | the watchdog's transaction |
| `ImportLifecycle` | abstract specification: what a client that polls an import may rely on |
| `ImportPipeline` | the composition of the four above it, its properties, inductive invariants, refinement mapping, fairness |
| `RowValidation` | one workbook row: parsing, rules, and what the table accepts |
| `ChunkProcessing` | reset, chunk transactions, duplicate detection, duplicate races and values only the database rejects, for workers whose files share shipment codes |
| `Listings` | a client that polls and pages while `ChunkProcessing` runs |
| `UploadContract` | abstract specification: the README's table of duplicate and idempotent uploads |
| `ImportUpload` | concurrent uploads: files, advisory lock, transaction, connection pool, failures |
| `MCImportPipeline`, `MCChunkProcessing`, `MCListings`, `MCImportUpload` | the instances for TLC |
| `ImportPipelineProofs` | types and ownership of rows, by one lemma per kind of step |
| `ImportLifecycleProofs` | fencing of stale workers; the pipeline implements `ImportLifecycle`; ends are final |
| `StrandedImportProofs` | no import is stranded under the survivable faults |
| `OutboxProofs` | the life of an intent and of its attempts; when an import is given up |
| `ChunkProcessingProofs` | the invariants of `ChunkProcessing`, and which rows can be stored |
| `ChunkProgressProofs` | it implements `ImportLifecycle`; how many steps a run takes; what fails an import |
| `ListingsProofs` | what pages hold, and what a client gets of a list |
| `ImportUploadProofs` | all safety properties of `ImportUpload`; it implements `UploadContract` |

### State and granularity

**Pipeline.** `job[i]` is the import's row without timestamps, file columns and row
counters: `status` (`"NONE"` before the upload), `processing_token`, `attempt_count`
and which of the three kinds of failure reason was written. `outbox[<<i, s>>]` is the
intent written when the import had made `s` attempts: 0 by the upload, more by the
watchdog, which increments nothing itself and only runs on claimed imports. That the
slot is always free when the watchdog writes it is not assumed: `IntentLifecycle`
checks it, and `FreeSlots` in `OutboxProofs` proves it. `queue[i][r]` counts messages
with `request.retries = r`. `publisher[p]` is the set of `ClaimedOutboxEvent`s in
memory with the outcome of their `send_task`; `worker[w]` is the running task. The
limit an import was created with (`ImportMaxAttempts`) and the one its workers give
to Celery's retries (`TaskMaxAttempts`) are different constants.

One action is one transaction or one broker call. The claim is split in two
(`LockImport`, `CommitClaim`), because `FOR UPDATE SKIP LOCKED` makes the time
between its `SELECT` and its `COMMIT` visible to a second delivery. The chunk
transactions of an attempt are the stay in state `working`; all the pipeline sees of
them is that their `INSERT`s lock the import's row for the foreign key, which a claim
skips (`StaleInsertLocks`, switched on by the fault `"stale_insert"`).

Left open, so that every timing is covered: which pending intents are due
(`available_at`), which claims and heartbeats look stale. A claim whose publisher
is alive looks stale only if that publisher stalled for longer than
`OUTBOX_STALE_TIMEOUT_SECONDS`; the model counts that as a disruption. A token is
any value that neither the row nor a live process has, which is what uuid4 gives.
`Faults` selects the failures of PostgreSQL and RabbitMQ that may happen
(`FaultKinds`); crashes, stalls and redeliveries are bounded by `MaxDisruptions`.

**Rows and chunks.** `ChunkProcessing` models what happens in the stay in `working`.
It takes dispatch for granted (a `PENDING` import may be claimed, a `PROCESSING` one
recovered, at any time) and keeps `shipments`, `import_errors`, the counters and, per
worker, the rows read, the chunk between validation and `INSERT`, and the totals in
memory. A file is a sequence of rows with the eight fields of the workbook. A text is
its length (codes keep their identity), a weight is in tenths of a gram and a price
in thousandths: one digit more than the columns store, which is what rounding needs.
The processing token is the attempt's number: both change with each claim, and every
token-checked update also asks for `PROCESSING`.

A chunk transaction is two steps, because under READ COMMITTED anything may commit
between the lookup of existing codes and the `INSERT`. From the `INSERT` on it is
one: the foreign key's lock keeps watchdog and claims away from the import, and other
inserts of the same codes wait. The ownership `SELECT` and the lookup are one step as
well: a worker that loses the import between them is stopped by the token check that
follows the `INSERT`, and writes nothing either way.

**Listings.** Each `SELECT` of a request is a step, so that the total of a page, its
items and the next page come from different snapshots. A filter is the set of codes
it matches. `ORDER BY id` of two errors of one row is any fixed order (`IdRank`). A row's
`Position` is one more than the number of rows listed before it, and `Page` holds the
rows whose positions `LIMIT` and `OFFSET` select.

**Uploads.** One action is one statement of the transaction, one operation on the
file, or the reply. A file and an import are named by the request that made them.
The fingerprint is the content. The advisory lock is taken on `hashtext` of it, which
may collide (`HashText` is any function). A session holds a connection of the pool
from its first statement to the end of a transaction. `file`, `imports` and `reply`
are what a crash of the process does not undo.

### Operators that are deliberately wrong

Next to some definitions stands a second one marked *Mutant*, a plausible bug of
the same code. No specification uses it; substituted for the definition it must
break the property `PROJECT.json` names, which shows the property has teeth.

## Runs

| Run | Instance | Checks |
|---|---|---|
| `worker_faults` | 1 import, 1 publisher, 2 workers, 2 attempts, 2 disruptions, all worker faults and a broker that refuses | `TypeOK`, `PendingIsClaimable`, `CompletedByCurrentAttempt`, `LifecycleRefinement` |
| `publisher_faults` | 2 publishers, 1 worker, 3 dispatch attempts, 2 disruptions | `NoStrandedImport`, `IntentLifecycle`, `DispatchAttemptsNeverRollBack`, `GivenUpWithLastDispatch` |
| `batches` | 2 imports, batches of 2, 6 dispatch attempts, workers that retry more often than the imports may be attempted | `NoStrandedImport`, `CarriedInvariant` |
| `liveness` | 1 of each, 5 dispatch attempts (the default), all survivable faults | `EveryImportFinishes`, `EveryIntentSettles` |
| `chunks` | 2 imports with up to 3 rows in 2 chunks and 2 shared codes, 2 workers, 2 attempts | `TypeOK`, `CountersMatchRows`, `OutputOfOneAttempt`, `CompletedAccountsForRows`, `FirstOccurrenceOnly`, `NoCodeIsLost`, `FinishedOutputIsFinal`, `RunsMakeProgress`, `ImplementsLifecycle`, `EveryRunEnds` |
| `listings` | 2 imports, 2 workers, 2 attempts; a client of the errors of one import or of all shipments, with pages of 2 | `ListingIsComplete`, `ErrorsAreNotRepeated` |
| `uploads` | 3 requests, 2 files, one too large, one unsigned, 2 keys or none, pool of 2, every failure | `TypeOK`, `OneImportPerFile`, `CommittedFileKept`, `NoOrphanFiles`, `RepliesAgree`, `NoCircularWait`, `ContractRefinement`, `EveryRequestEnds` |
| `outbox_six_attempts` | 6 dispatch attempts, broker down | finds `EveryIntentSettles` violated |
| `stranded_stale_insert` | 2 workers, no failure at all | finds `NoStrandedImport` violated |
| `duplicate_race` | two workbooks that race for two codes | finds `DuplicateRaceIsRowError` violated |
| `rejected_value` | a workbook with a weight of 0.0004 | finds `BadValueIsRowError` violated |
| `lost_upload` | a refresh that fails, a retry with the same key | finds `AcceptedImportHasFile` violated |

**Bounds of the pipeline.** Ownership conflicts need one import and two workers (or
two publishers), and two attempts so that there is a first and a last one; three
tokens let two processes and the row have different ones. Imports interact only
through batches, so a second import is in `batches` alone: there the fifth refused
dispatch kills the publisher in the middle of a batch. Two disruptions allow a crash
during the recovery from another. With more dispatch attempts than delays *and* lost
confirms the queue grows for ever, so `batches` leaves lost confirms to the others.

**Bounds of the chunks.** Two workers can be a stale and a current one of the same
import, or race for a code in opposite chunks; the attempts bound everything, so
crashes, errors and takeovers need no bound of their own. The workbooks were chosen
so that a conflict leaves a part of its chunk; a code occurs twice in a chunk, again
after a rejected row in the next chunk, and in both imports; a row is rejected for
one field and for two; and rows that pass the rules fail a CHECK or a column, behind a
row that may meet a duplicate race. `MaxWeight` and `MaxPrice` are small because only
their being exceeded matters. In `listings` the errors of one import are spread over
two chunks with two errors in one row, so that pages and chunks end at different
places, and its first row is rejected only when the other import is faster.

**Bounds of the uploads.** Three requests are a winner, a loser and one that finds
the winner's import committed; a pool of two is smaller than the three requests that
may wait. Different files have different locks in the instance, so that two uploads
race for a key; a collision would only keep them apart, and the proofs take any
function.

`worker_faults` does not check for deadlock: its faults strand imports, after which
the system really does stop. In every other passing run of the pipeline, the chunks
and the uploads the only state without a step but `Quiescent` would be an error.

**Fairness.** Publishers and workers are loops that a supervisor restarts, so each
one's steps are weakly fair (`FairSpec` of `ImportPipeline`). Celery Beat runs the
watchdog for ever, so recovery of abandoned imports is weakly fair; recovery of an
import whose worker is alive may happen and need not. Crashes, stalls, uploads and
redeliveries need not happen. A refusing broker needs no fairness: attempts run out.
In `ChunkProcessing` only the steps of a started task are weakly fair; no claim or
watchdog run is needed for `EveryRunEnds`. In `ImportUpload` each handler's steps are
weakly fair: the event loop resumes a request that waits for nothing, and weak
fairness is enough for the lock and the pool because three requests that end cannot
overtake each other for ever.

## Findings

The violation runs show disagreements between code and documentation; each is
described with its lines in `PROJECT.json`.

* `outbox_six_attempts`: `OUTBOX_MAX_ATTEMPTS >= 6` makes the publisher die at the
  fifth refused send, for ever: recovering its claim counts no attempt.
* `stranded_stale_insert`: a recovered import whose new message meets the row lock of
  the old worker's insert is left `PENDING` with nothing to process it.
* `duplicate_race`: an import that loses a race for a code fails as a whole when the
  winner's rows are deleted for reprocessing at the wrong moment.
* `rejected_value`: a weight that rounds to 0.000, or a text longer than its column,
  passes validation and fails the whole import in the database.
* `lost_upload`: when the refresh after the commit fails, the stored file of a
  committed import is deleted, and a retry is told 202.

Other faults strand an import as well and are listed as hazards: database errors
before the claim, a failed COMMIT of the claim, a requeue whose COMMIT takes effect
but raises, a retry message that Celery cannot publish, and a redelivery that meets
the claim's lock of a worker that then dies (`StrandingFaults`). So is that a publisher
which gives up a `PENDING` import does not ask whether it was attempted before and waits
for a retry or another intent, although the docstring at `import_repository.py:100` says
that dispatch is why "processing never started".

## Proofs

All for arbitrary sets of imports, processes, requests, files and
values, arbitrary positive limits and sizes, and all faults unless stated, from the
named `ASSUME`s of the modules.

* **Pipeline** (`ImportPipelineProofs`). `TypeCorrectness` and
  `PendingImportsAreClaimable` follow from the invariance of `OwnershipInvariant`. Type
  correctness is not inductive alone: that a claim keeps `attempt_count` within its
  limit needs the locked row to stay claimable (`LockProtectsRow`), that in turn that
  nobody else writes it; that a recorded dispatch failure stays within its limit needs
  `DispatchableHasAttempts`; that a requeued import is claimable needs the owner to
  know its attempt (`OwnerKnowsAttempt`), which needs distinct tokens (`TokensAreFresh`).
* **Fencing and refinement** (`ImportLifecycleProofs`). Every step changes
  `import_jobs` in one of the ways of `RowChange`; each is a step of
  `ImportLifecycle`, or leaves the rows as clients see them. No step of
  `ImportLifecycle` changes a finished import, so none of the pipeline does
  (`FinishedImportsStay`). A row has a token exactly during an attempt
  (`TokensEndWithAttempts`).
* **No stranded import** (`StrandedImportProofs`). `CarriedInvariant` is inductive when
  none of `StrandingFaults` happens and `IMPORT_MAX_ATTEMPTS` was not lowered between
  upload and processing (`Survivable`). The strengthening says that an intent counts
  only until its message was sent (`Undelivered`), that Celery's retries stay below
  the import's attempts (`RetriesFollowAttempts`), so a task that must retry still can,
  and that a running task's message is unacknowledged.
* **Intents** (`OutboxProofs`). `OutboxInvariant` adds to ownership that the slots of
  the attempts an import has not yet finished are free (`FreeSlots`) and that a
  publisher whose claim stands knows the row's attempts (`ClaimsAreCurrent`). Every
  step then changes an intent in one of the ways of `IntentChange`, from which
  `IntentLifecycle` and `DispatchAttemptsNeverRollBack` follow. Recording a failed
  dispatch is the only step that gives up an import: workers and watchdog state other
  reasons, and an intent whose claim is recovered has attempts left
  (`RecoveryGivesUpNothing`). The import is then `PENDING` and not locked, so no worker
  owns or claims it (`ImportsAreGivenUpLast`).
  `DelaysSuffice` shows that a publisher dies of a missing delay only when
  `OUTBOX_MAX_ATTEMPTS` is at least 6: the finding has no other cause.
* **Chunks** (`ChunkProcessingProofs`). `ChunkInvariant` says, of a run that still owns
  its import, that everything committed is its own, that its totals in memory are the
  committed counters, and that the rows it has read are, each once, a shipment, an
  error or part of the chunk at hand (`Sound`); the counters, the single attempt and
  the accounting of a completed file follow. It needs that no two runs make the same
  attempt, that only first occurrences are accepted, and that nothing committed is of
  an attempt which has not begun (`OutputIsOld`). `CodesAreKept` is a second
  invariant: a code that an import has passed over is in the table, or some import
  has yet to decide on it. Deleting an import's shipments gives its rows back to that
  set, which is why `NoCodeIsLost` survives reprocessing. `AcceptedRowStorable` says
  exactly which rows pass the rules and can still not be stored.
* **Progress of a run** (`ChunkProgressProofs`). `StepsLeft` is a natural number, at
  most `4n + 4` for a file of `n` rows, that each step of a run lowers and
  nobody else's step changes. A turn of the loop after a duplicate race lowers it
  because it takes a row out of the chunk, or it ends the run. So the loop ends under
  every schedule; only that the next step is taken at all needs fairness. The
  measure is a number only because `ChunkInvariant` bounds what was read.
* **Chunks and the lifecycle** (`ChunkProgressProofs`). With the attempt's number for
  the owner, each step of `ChunkProcessing` is a step of `ImportLifecycle` or changes
  nothing a client sees. Only the steps refine it: `ChunkProcessing` starts after the
  imports were submitted. The pipeline and the chunks, which are modelled apart, thus
  keep the same promise.
* **What fails an import** (`ChunkProgressProofs`). `duplicate_race` and
  `rejected_value` show that an `INSERT` can fail an import; two theorems delimit how.
  With one attempt per import shipments are never deleted (`ShipmentsStay`), the
  codes of a failed `INSERT` are still there when they are looked up
  (`ConflictsAreReal`), and no race fails an import. When the rows that pass the rules
  fit the columns (`Fits`, six bounds), no value does.
* **Listings** (`ListingsProofs`). Lists are strict total orders (`Ordered`), so the
  positions of a finite one are `1 .. n`, each once, and a page begins where the one
  before it ended. `ListingInvariant` has a part for each kind of client. One that
  waited reads a list to which nothing can be added (`Settled`), and what it has is the
  front of it (`ReadsInOrder`). Of one that pages through the errors of an import at
  work, whatever it has lies before the page it asks for next, or belongs to an attempt
  whose errors were deleted for good (`PagesMoveOn`). The latter rests on the order in
  `ChunkInvariant`: a chunk's errors, those of a race included, are committed together
  and behind all earlier ones. That the table is finite (`ShipmentsAreFinite`) has to be
  proved because the set of imports may not be.
* **Uploads** (`ImportUploadProofs`). `UploadInvariant` says what a transaction knows
  under its advisory lock: nobody else with the same hash is in one (`LockExcludes`),
  what its lookups did not find is still not there (`LookedUp`), and an inserted key is
  its own until the commit (`KeyReserved`). With it each step is one row of
  `UploadContract`, or decides nothing. `RepliesAgree` follows from `OneImportPerFile`
  once replies are known to name committed imports of their file (`RepliesNameImports`).
* **Waiting** (`ImportUploadProofs`). `NoCircularWait` holds for any number of requests
  and any pool, one of a single connection included. If all waited, nobody would be about
  to commit, so nobody would wait for a key; then whoever is past the lock would go on,
  so nobody would be; then the lock would be free for whoever waits for it; and then no
  connection would be in use. A request that lost the race for a key always finds the
  winner (`LostRacesHaveWinners`).
* **Lost files** (`ImportUploadProofs`). Without a COMMIT that raises after taking effect
  and without a failing refresh, the import that a 202 names has its file
  (`AcceptedImportsHaveFiles`): whoever creates an import then hears of it
  (`CreatorsHearOfIt`), so `lost_upload` has no third cause.

Only model-checked are the liveness properties (`EveryImportFinishes`,
`EveryIntentSettles`, `EveryRunEnds`, `EveryRequestEnds`), because fairness and `ENABLED`
are beyond the prover. `RunsMakeProgress` and `NoCircularWait` are the safety halves of
the last two: what is left to TLC is that weakly fair steps get taken. `Waits` says
without `ENABLED` when a handler is blocked. Every other property of a passing run is
a theorem, and the violation runs are counterexamples, whose properties are proved only
under the premises above that exclude their causes.

## Not modelled

* The workbook parser does file I/O through a library. Its outcomes, chunks of rows or
  a structure error at any point, are nondeterminism of the worker.
* The application shell, logging, migrations and error formatting have no state the
  properties could see. Of the settings only the limits and sizes are modelled.
* A delete of a stored file that itself fails; parsing of query parameters and the 404
  of an unknown import.
* Shipments paged while imports still run: nothing in the repository promises stable
  pages then, and the pages do shift (listed as a hazard).
* How long the watchdog's task waits behind long imports in the shared queue: the
  fairness assumption takes it as eventually run (listed as a hazard).
* `ImportPipeline`, `ChunkProcessing` and `ImportUpload` are checked apart. What each
  takes from the others is stated at its head: an attempt's transactions check
  ownership, a claim gives a new attempt, an upload commits job and intent together.
