--------------------------- MODULE ChunkProcessing ---------------------------
(***************************************************************************)
(* What a worker writes between its claim and its final update: the reset  *)
(* of an earlier attempt's output, then shipments, errors and counters     *)
(* chunk by chunk, while other imports insert and delete shipments with    *)
(* the same codes (ProcessImportService, RowValidationService, the         *)
(* shipment, error and progress repositories).                             *)
(*                                                                         *)
(* ImportPipeline models how an import gets to a worker. Here a PENDING    *)
(* import may be claimed at any time, and the watchdog may find any        *)
(* PROCESSING import stale. The processing token is the number of the      *)
(* attempt: both are new with every claim, and the token-checked updates   *)
(* ask for PROCESSING as well.                                             *)
(*                                                                         *)
(* A chunk's transaction is two steps. The first ends with the lookup of   *)
(* existing codes; anything may happen before the INSERT. From the INSERT  *)
(* on, the foreign key's lock on the import's row keeps the watchdog away  *)
(* and the unique index makes other inserts of the codes wait, so INSERT,  *)
(* counters and COMMIT are the second.                                     *)
(***************************************************************************)
EXTENDS RowValidation, Sequences, FiniteSets

CONSTANTS
    Imports,
    Workers,
    NoImport,       \* an idle worker's import
    Uploads,        \* which workbooks, as sequences of rows, the imports may have
    ChunkSize,      \* PROCESSING_ROW_CHUNK_SIZE
    MaxAttempts     \* IMPORT_MAX_ATTEMPTS

ASSUME ChunkAssumption ==
    /\ NoImport \notin Imports
    /\ ChunkSize \in Nat \ {0}
    /\ MaxAttempts \in Nat \ {0}
    /\ Uploads \subseteq [Imports -> Seq(WorkbookRow)]

VARIABLES
    file,       \* each import's stored workbook, as XlsxParser reads it
    job,        \* import_jobs: status, attempts and counters
    shipments,  \* the table; "attempt" tells who inserted a row
    errors,     \* import_errors, one element per issue of a rejected row
    run         \* the workers' process_import runs

vars == <<file, job, shipments, errors, run>>

Counters == [success : Nat, failed : Nat]
NoCounts == [success |-> 0, failed |-> 0]

\* total_rows and processed_rows are written as the sum of the other two.
AddCounts(c, d) == [success |-> c.success + d.success, failed |-> c.failed + d.failed]

Processing == {"claimed", "next", "persist", "racing", "complete"}
RunPc == Processing \cup {"idle", "unresolved", "failing", "handling"}
IdleRun == [pc |-> "idle", import |-> NoImport, attempt |-> 0, read |-> 0,
            accepted |-> {}, rejected |-> {}, counts |-> NoCounts]

Job == [status : {"PENDING", "PROCESSING", "COMPLETED", "FAILED"},
        attempts : 0 .. MaxAttempts, counts : Counters]
Run == [pc : RunPc, import : Imports \cup {NoImport}, attempt : 0 .. MaxAttempts,
        read : Nat, accepted : SUBSET Nat,
        rejected : SUBSET [row : Nat, field : Fields], counts : Counters]

\* Tables and runs hold values of their types.
TypeOK ==
    /\ file \in Uploads
    /\ job \in [Imports -> Job]
    /\ shipments \subseteq [import : Imports, row : Nat, code : Codes,
                            attempt : 1 .. MaxAttempts]
    /\ errors \subseteq [import : Imports, row : Nat, field : Fields,
                         attempt : 1 .. MaxAttempts]
    /\ run \in [Workers -> Run]

-----------------------------------------------------------------------------
(* Queries and updates of the repositories.                                *)

ExistingCodes == {s.code : s \in shipments}
ShipmentsOf(i) == {s \in shipments : s.import = i}
ErrorsOf(i) == {e \in errors : e.import = i}
RowsOf(records) == {x.row : x \in records}

\* Mutant: the updates match the row of any attempt.
OwnsAnyAttempt(w) == job[run[w].import].status = "PROCESSING"

\* Mutant: they do not ask for PROCESSING.
OwnsAnyStatus(w) == job[run[w].import].attempts = run[w].attempt

\* has_current_ownership, and rowcount = 1 of every token-checked update.
Owns(w) ==
    /\ job[run[w].import].status = "PROCESSING"
    /\ job[run[w].import].attempts = run[w].attempt

SetStatus(i, status) == job' = [job EXCEPT ![i].status = status]
SetPc(w, pc) == run' = [run EXCEPT ![w].pc = pc]
EndRun(w) == run' = [run EXCEPT ![w] = IdleRun]

\* Mutant: a requeued import gets a status of its own.
OwnRetryStatus(i) ==
    IF job[i].attempts >= MaxAttempts THEN "FAILED" ELSE "RETRYING"

\* After a database error or an expired heartbeat.
RetryStatus(i) ==
    IF job[i].attempts >= MaxAttempts THEN "FAILED" ELSE "PENDING"

-----------------------------------------------------------------------------
(* Row validation.                                                         *)

CodeOf(i, r) == file[i][r].shipment_code

\* The rows of the chunk that XlsxParser yields after it has read n rows.
NextChunk(i, n) ==
    {r \in DOMAIN file[i] : n < r /\ r <= n + ChunkSize}

\* Mutant: only the codes of the current chunk are remembered.
DuplicateInChunk(i, n, r) ==
    /\ CodeOf(i, r) # NoCode
    /\ \E q \in NextChunk(i, n) : q < r /\ CodeOf(i, q) = CodeOf(i, r)

\* The code is in chunk_seen_codes or in the DuplicateTracker, which hold the
\* codes of all earlier rows, accepted or not.
DuplicateInFile(i, n, r) ==
    /\ CodeOf(i, r) # NoCode
    /\ \/ \E q \in 1 .. n : CodeOf(i, q) = CodeOf(i, r)
       \/ \E q \in NextChunk(i, n) : q < r /\ CodeOf(i, q) = CodeOf(i, r)

Unavailable(i, n, r) == DuplicateInFile(i, n, r) \/ CodeOf(i, r) \in ExistingCodes

\* validate_chunk: all issues of a row, in the chunk after n rows.
IssuesOf(i, n, r) ==
    RowIssues(file[i][r]) \cup {f \in {"shipment_code"} : Unavailable(i, n, r)}

\* The rows that become shipments; every issue of the others becomes an error.
AcceptedRows(i, n) == {r \in NextChunk(i, n) : IssuesOf(i, n, r) = {}}
RejectedIssues(i, n) ==
    UNION {[row : {r}, field : IssuesOf(i, n, r)] : r \in NextChunk(i, n)}

\* Mutant: one conflict rejects the whole chunk.
NoRows(w) == {}

\* reclassify_database_duplicates: the rows that stay accepted.
RetainedRows(w) ==
    {r \in run[w].accepted : CodeOf(run[w].import, r) \notin ExistingCodes}

-----------------------------------------------------------------------------
(* The attempt.                                                            *)

\* run() claims an import that was dispatched to it.
Claim(w) ==
    \E i \in Imports :
        /\ run[w].pc = "idle"
        /\ job[i].status = "PENDING"
        /\ job[i].attempts < MaxAttempts
        /\ job' = [job EXCEPT ![i].status = "PROCESSING",
                              ![i].attempts = job[i].attempts + 1]
        /\ run' = [run EXCEPT ![w] = [IdleRun EXCEPT !.pc = "claimed", !.import = i,
                                                     !.attempt = job[i].attempts + 1]]
        /\ UNCHANGED <<file, shipments, errors>>

\* Mutant: the errors of the earlier attempt stay.
PrepareShipmentsOnly(w) ==
    /\ run[w].pc = "claimed"
    /\ Owns(w)
    /\ job' = [job EXCEPT ![run[w].import].counts = NoCounts]
    /\ shipments' = shipments \ ShipmentsOf(run[w].import)
    /\ SetPc(w, "next")
    /\ UNCHANGED <<file, errors>>

\* _prepare_for_reprocessing: counters, shipments and errors in one transaction.
PrepareForReprocessing(w) ==
    /\ run[w].pc = "claimed"
    /\ Owns(w)
    /\ job' = [job EXCEPT ![run[w].import].counts = NoCounts]
    /\ shipments' = shipments \ ShipmentsOf(run[w].import)
    /\ errors' = errors \ ErrorsOf(run[w].import)
    /\ SetPc(w, "next")
    /\ UNCHANGED file

\* _process_next_chunk up to its INSERT: ownership, next chunk, lookup.
ValidateNextChunk(w) ==
    LET i == run[w].import
        chunk == NextChunk(i, run[w].read)
    IN  /\ run[w].pc = "next"
        /\ Owns(w)
        /\ chunk # {}
        /\ run' = [run EXCEPT ![w].pc = "persist",
                              ![w].read = @ + Cardinality(chunk),
                              ![w].accepted = AcceptedRows(i, run[w].read),
                              ![w].rejected = RejectedIssues(i, run[w].read)]
        /\ UNCHANGED <<file, job, shipments, errors>>

\* StopIteration: the transaction ends and the loop is left.
ReachEndOfFile(w) ==
    /\ run[w].pc = "next"
    /\ Owns(w)
    /\ NextChunk(run[w].import, run[w].read) = {}
    /\ SetPc(w, "complete")
    /\ UNCHANGED <<file, job, shipments, errors>>

\* The INSERT fails for a row: IntegrityError, or DataError.
ViolatesConstraint(w) ==
    \E r \in run[w].accepted :
        \/ CodeOf(run[w].import, r) \in ExistingCodes
        \/ BreaksCheck(file[run[w].import][r])
ExceedsColumn(w) ==
    \E r \in run[w].accepted : OverflowsColumn(file[run[w].import][r])
InsertFails(w) == ViolatesConstraint(w) \/ ExceedsColumn(w)

ChunkCounts(w) ==
    [success |-> Cardinality(run[w].accepted), failed |-> Cardinality(RowsOf(run[w].rejected))]

\* _persist_chunk and the COMMIT. The answer to the COMMIT may be lost, which
\* is an OperationalError after it took effect.
PersistChunk(w) ==
    LET i == run[w].import
    IN  /\ run[w].pc = "persist"
        /\ ~InsertFails(w)
        /\ Owns(w)
        /\ shipments' = shipments \cup
             {[import |-> i, row |-> r, code |-> CodeOf(i, r),
               attempt |-> run[w].attempt] : r \in run[w].accepted}
        /\ errors' = errors \cup
             {[import |-> i, row |-> e.row, field |-> e.field,
               attempt |-> run[w].attempt] : e \in run[w].rejected}
        /\ job' = [job EXCEPT ![i].counts = AddCounts(@, ChunkCounts(w))]
        /\ \E pc \in {"next", "handling"} :
             run' = [run EXCEPT ![w].pc = pc,
                                ![w].counts = AddCounts(@, ChunkCounts(w)),
                                ![w].accepted = {}, ![w].rejected = {}]
        /\ UNCHANGED file

\* The transaction is rolled back and, for whichever constraint it was, the
\* chunk reclassified.
CatchIntegrityError(w) ==
    /\ run[w].pc = "persist"
    /\ ViolatesConstraint(w)
    /\ SetPc(w, "racing")
    /\ UNCHANGED <<file, job, shipments, errors>>

CatchDataError(w) ==
    /\ run[w].pc = "persist"
    /\ ExceedsColumn(w)
    /\ SetPc(w, "unresolved")
    /\ UNCHANGED <<file, job, shipments, errors>>

\* Mutant: conflicting rows are dropped, and no error is written for them.
DropDuplicates(w) ==
    /\ run[w].pc = "racing"
    /\ Owns(w)
    /\ RetainedRows(w) # run[w].accepted
    /\ run' = [run EXCEPT ![w].pc = "persist", ![w].accepted = RetainedRows(w)]
    /\ UNCHANGED <<file, job, shipments, errors>>

\* Mutant: the chunk is inserted again as it was.
RetryUnchanged(w) ==
    /\ run[w].pc = "racing"
    /\ Owns(w)
    /\ SetPc(w, "persist")
    /\ UNCHANGED <<file, job, shipments, errors>>

\* _persist_chunk_after_duplicate_race: a new transaction looks the codes up
\* again and goes on to insert the corrected chunk.
ReclassifyDuplicates(w) ==
    /\ run[w].pc = "racing"
    /\ Owns(w)
    /\ RetainedRows(w) # run[w].accepted
    /\ run' = [run EXCEPT ![w].pc = "persist",
                          ![w].accepted = RetainedRows(w),
                          ![w].rejected = @ \cup
                              [row : run[w].accepted \ RetainedRows(w),
                               field : {"shipment_code"}]]
    /\ UNCHANGED <<file, job, shipments, errors>>

\* Nothing to correct: the first IntegrityError is raised again.
RaiseOriginalError(w) ==
    /\ run[w].pc = "racing"
    /\ Owns(w)
    /\ RetainedRows(w) = run[w].accepted
    /\ SetPc(w, "unresolved")
    /\ UNCHANGED <<file, job, shipments, errors>>

\* complete() writes the totals added up in memory. Its answer may be lost.
CompleteImport(w) ==
    /\ run[w].pc = "complete"
    /\ Owns(w)
    /\ job' = [job EXCEPT ![run[w].import].status = "COMPLETED",
                          ![run[w].import].counts = run[w].counts]
    /\ EndRun(w) \/ SetPc(w, "handling")
    /\ UNCHANGED <<file, shipments, errors>>

\* StaleImportWorkerError, or a failure handler that matches no row. INSERT
\* comes before the first token check of _persist_chunk.
StopStaleWorker(w) ==
    /\ run[w].pc # "idle"
    /\ ~Owns(w)
    /\ run[w].pc = "persist" => ~InsertFails(w)
    /\ EndRun(w)
    /\ UNCHANGED <<file, job, shipments, errors>>

-----------------------------------------------------------------------------
(* Failures.                                                               *)

\* WorkbookStructureError, or any other exception that is no OperationalError.
FailProcessing(w) ==
    /\ run[w].pc \in Processing
    /\ SetPc(w, "failing")
    /\ UNCHANGED <<file, job, shipments, errors>>

\* _mark_failed after these, an IntegrityError or a DataError.
MarkFailed(w) ==
    /\ run[w].pc \in {"unresolved", "failing"}
    /\ Owns(w)
    /\ SetStatus(run[w].import, "FAILED")
    /\ EndRun(w)
    /\ UNCHANGED <<file, shipments, errors>>

\* OperationalError (a lost connection, a deadlock over shared codes).
LoseDatabase(w) ==
    /\ run[w].pc \in Processing
    /\ SetPc(w, "handling")
    /\ UNCHANGED <<file, job, shipments, errors>>

\* _handle_operational_failure: requeue, or fail after the last attempt.
HandleOperationalFailure(w) ==
    /\ run[w].pc = "handling"
    /\ Owns(w)
    /\ SetStatus(run[w].import, RetryStatus(run[w].import))
    /\ EndRun(w)
    /\ UNCHANGED <<file, shipments, errors>>

\* The process dies, or its failure handler does: nothing more is written.
CrashWorker(w) ==
    /\ run[w].pc # "idle"
    /\ EndRun(w)
    /\ UNCHANGED <<file, job, shipments, errors>>

\* The watchdog takes an import whose heartbeat looks expired.
RecoverStaleImport(i) ==
    /\ job[i].status = "PROCESSING"
    /\ SetStatus(i, RetryStatus(i))
    /\ UNCHANGED <<file, shipments, errors, run>>

-----------------------------------------------------------------------------
\* All imports were uploaded and wait for their first attempt.
Init ==
    /\ file \in Uploads
    /\ job = [i \in Imports |->
                [status |-> "PENDING", attempts |-> 0, counts |-> NoCounts]]
    /\ shipments = {}
    /\ errors = {}
    /\ run = [w \in Workers |-> IdleRun]

\* The steps of a task after its claim.
RunStep(w) ==
    \/ PrepareForReprocessing(w)
    \/ ValidateNextChunk(w) \/ ReachEndOfFile(w)
    \/ PersistChunk(w) \/ CatchIntegrityError(w) \/ CatchDataError(w)
    \/ ReclassifyDuplicates(w) \/ RaiseOriginalError(w)
    \/ CompleteImport(w) \/ StopStaleWorker(w)
    \/ MarkFailed(w) \/ HandleOperationalFailure(w)

Finished(i) == job[i].status \in {"COMPLETED", "FAILED"}

Quiescent ==
    /\ \A i \in Imports : Finished(i)
    /\ \A w \in Workers : run[w].pc = "idle"
    /\ UNCHANGED vars

Next ==
    \/ \E w \in Workers :
        \/ Claim(w) \/ RunStep(w)
        \/ FailProcessing(w) \/ LoseDatabase(w) \/ CrashWorker(w)
    \/ \E i \in Imports : RecoverStaleImport(i)
    \/ Quiescent

Spec == Init /\ [][Next]_vars

\* A worker runs its task to the end unless it dies. Nothing else is assumed:
\* no claim, crash, error or watchdog run has to happen.
FairSpec == Spec /\ \A w \in Workers : WF_vars(RunStep(w))

-----------------------------------------------------------------------------
(* Properties.                                                             *)

\* An import's counters always equal its committed rows, through crashes,
\* takeovers, reclassified chunks and reprocessing: success_count counts its
\* shipments, failed_count the rows with errors. complete() overwrites counters
\* written chunk by chunk with totals kept in memory; both must agree.
CountersMatchRows ==
    \A i \in Imports :
        /\ job[i].counts.success = Cardinality(ShipmentsOf(i))
        /\ job[i].counts.failed = Cardinality(RowsOf(ErrorsOf(i)))

\* The committed output of an import comes from one attempt, the last one if it
\* is COMPLETED: a worker that lost the import commits nothing, and the reset
\* left nothing behind.
OutputOfOneAttempt ==
    \A i \in Imports : \A x, y \in ShipmentsOf(i) \cup ErrorsOf(i) :
        /\ x.attempt = y.attempt
        /\ job[i].status = "COMPLETED" => x.attempt = job[i].attempts

\* Every row of a COMPLETED import's file is either a shipment or an error.
CompletedAccountsForRows ==
    \A i \in Imports : job[i].status = "COMPLETED" =>
        /\ RowsOf(ShipmentsOf(i)) \cap RowsOf(ErrorsOf(i)) = {}
        /\ RowsOf(ShipmentsOf(i)) \cup RowsOf(ErrorsOf(i)) = DOMAIN file[i]

\* Of the rows of a file with one code only the first may become a shipment,
\* across chunks and also when that first row was rejected for another reason.
FirstOccurrenceOnly ==
    \A s \in shipments :
        ~\E q \in DOMAIN file[s.import] : q < s.row /\ CodeOf(s.import, q) = s.code

\* The first row with its code that the rules accept.
Insertable(i, r) ==
    /\ RowIssues(file[i][r]) = {}
    /\ ~\E q \in DOMAIN file[i] : q < r /\ CodeOf(i, q) = CodeOf(i, r)

\* When all imports are COMPLETED, a code some file could have inserted is in
\* the table: imports that reject a code as a duplicate of each other's rows,
\* which reprocessing then deletes, never both end without it.
NoCodeIsLost ==
    (\A i \in Imports : job[i].status = "COMPLETED") =>
        \A i \in Imports : \A r \in DOMAIN file[i] :
            Insertable(i, r) => CodeOf(i, r) \in ExistingCodes

\* Nothing of a COMPLETED or FAILED import changes any more, whatever a late
\* worker, the watchdog or another import's reprocessing does.
FinishedOutputIsFinal ==
    [][\A i \in Imports : Finished(i) =>
        /\ job'[i] = job[i]
        /\ ShipmentsOf(i)' = ShipmentsOf(i)
        /\ ErrorsOf(i)' = ErrorsOf(i)]_vars

\* Every run ends, so the "while True" of _persist_chunk_after_duplicate_race does
\* too, however often other imports delete and insert the same codes meanwhile.
EveryRunEnds == \A w \in Workers : run[w].pc # "idle" ~> run[w].pc = "idle"

\* A bound on the steps of a run: four for every row not read, and two more for
\* every row that it still tries to insert.
RowsLeft(w) == Len(file[run[w].import]) - run[w].read
StepsLeft(w) ==
    CASE run[w].pc = "idle" -> 0
      [] run[w].pc \in {"unresolved", "failing", "handling"} -> 1
      [] run[w].pc = "complete" -> 2
      [] run[w].pc \in {"next", "racing"} ->
           3 + 4 * RowsLeft(w) + 2 * Cardinality(run[w].accepted)
      [] run[w].pc \in {"claimed", "persist"} ->
           4 + 4 * RowsLeft(w) + 2 * Cardinality(run[w].accepted)

\* No run goes on for ever, under no schedule at all: each step of it brings it
\* nearer to its end, so that the "while True" of the race with other imports is
\* left however often they insert and delete its codes. Others never set it back.
RunsMakeProgress ==
    [][\A w \in Workers : run[w].pc # "idle" /\ run'[w] # run[w] =>
        StepsLeft(w)' \in Nat /\ StepsLeft(w)' < StepsLeft(w)]_vars

\* What ImportLifecycle knows of an import. The abstract owner is the attempt.
Lifecycles ==
    [i \in Imports |->
        [status |-> job[i].status,
         owner |-> IF job[i].status = "PROCESSING" THEN job[i].attempts ELSE 0,
         attempts |-> job[i].attempts]]

Lifecycle == INSTANCE ImportLifecycle WITH
    Owners <- 1 .. MaxAttempts, NoOwner <- 0, import <- Lifecycles

\* Chunk by chunk, an import is still worked on as ImportLifecycle promises: a late
\* worker, an answer lost after COMMIT or the watchdog neither ends an attempt
\* twice nor one that somebody else has begun, and no attempt is one too many.
ImplementsLifecycle == [][Lifecycle!Next]_Lifecycles

\* A conflict over a shipment code only ever rejects rows: when every accepted
\* row is one the table can hold, no worker gives up an import because of its
\* INSERT. The README says so of races with another import.
AcceptedIsStorable(w) == \A r \in run[w].accepted : Storable(file[run[w].import][r])
DuplicateRaceIsRowError ==
    \A w \in Workers : run[w].pc = "unresolved" => ~AcceptedIsStorable(w)

\* A value in a row only ever rejects that row, so that valid rows are saved.
BadValueIsRowError ==
    \A w \in Workers : run[w].pc = "unresolved" => AcceptedIsStorable(w)
=============================================================================
