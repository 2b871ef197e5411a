---------------------------- MODULE ImportWorker ----------------------------
(***************************************************************************)
(* A Celery worker that runs process_import_task: ProcessImportService.run *)
(* over ImportClaimRepository and ImportProgressRepository, the task's     *)
(* retry, and the late acknowledgement of its message.                     *)
(*                                                                         *)
(*   idle -> received -> locked -> working -> done -> idle                 *)
(*                                                                         *)
(* with "handling" (_handle_operational_failure), "marking" (_mark_failed) *)
(* and "retrying" (RetryableImportProcessingError reached the task) on the *)
(* error paths. The chunk transactions between the claim and the final     *)
(* update change rows of other tables only, and each first checks that the *)
(* import is still owned: here they are the stay in "working".             *)
(***************************************************************************)
EXTENDS PipelineState

\* A uuid4 that no row of this import and no worker running it has seen.
UnusedProcessingTokens(i) ==
    Tokens \ ({job[i].token} \cup
              {worker[w].token : w \in {v \in Workers : worker[v].import = i}})
FreshProcessingToken(i) == CHOOSE t \in Tokens : t \in UnusedProcessingTokens(i)

\* Moves w to pc and changes nothing else of its run.
Goto(w, pc) == worker' = [worker EXCEPT ![w].pc = pc]

\* w is at pc and runs import i.
At(w, pc, i) ==
    /\ worker[w].pc = pc
    /\ worker[w].import = i

\* A token-checked update of the import's row by w, as rowcount = 1 or 0.
Owns(w) == Owned(worker[w].import, worker[w].token)
WriteRow(w, row) == job' = [job EXCEPT ![worker[w].import] = row]

-----------------------------------------------------------------------------
(* Delivery and claim.                                                     *)

\* The worker takes a message; run() draws its processing token.
Receive(w) ==
    \E i \in Imports, r \in Retries :
        /\ worker[w].pc = "idle"
        /\ queue[i][r] > 0
        /\ UnusedProcessingTokens(i) # {}
        /\ queue' = Dequeue(queue, i, r)
        /\ worker' = [worker EXCEPT ![w] =
                        [pc |-> "received", import |-> i, retries |-> r,
                         held |-> TRUE, token |-> FreshProcessingToken(i),
                         attempts |-> 0]]
        /\ UNCHANGED <<job, outbox, publisher, disruptions>>

\* SELECT ... FOR UPDATE SKIP LOCKED finds the row.
LockImport(w) ==
    \E i \in Imports :
        /\ At(w, "received", i)
        /\ Claimable(i)
        /\ ~RowLocked(i)
        /\ Goto(w, "locked")
        /\ UNCHANGED <<job, outbox, queue, publisher, disruptions>>

\* It finds nothing, or a row another worker's claim or a stale worker's insert
\* has locked: run() returns.
SkipImport(w) ==
    \E i \in Imports :
        /\ At(w, "received", i)
        /\ ~Claimable(i) \/ RowLocked(i) \/ StaleInsertLocks(i)
        /\ Goto(w, "done")
        /\ UNCHANGED <<job, outbox, queue, publisher, disruptions>>

\* Mutant: the ClaimedImport carries the count from before the claim.
ClaimedRunOldCount(w, pc) ==
    [worker[w] EXCEPT !.pc = pc, !.attempts = job[worker[w].import].attempts]

\* The run after claim_pending_import returned a ClaimedImport.
ClaimedRun(w, pc) ==
    [worker[w] EXCEPT !.pc = pc, !.attempts = job[worker[w].import].attempts + 1]

ClaimedRow(w) == ClaimRow(job[worker[w].import], worker[w].token)

CommitClaim(w) ==
    /\ worker[w].pc = "locked"
    /\ WriteRow(w, ClaimedRow(w))
    /\ worker' = [worker EXCEPT ![w] = ClaimedRun(w, "working")]
    /\ UNCHANGED <<outbox, queue, publisher, disruptions>>

\* OperationalError out of the claim's statements: RetryableImportProcessingError.
LoseDatabaseBeforeClaim(w) ==
    /\ "db_before_claim" \in Faults
    /\ worker[w].pc \in {"received", "locked"}
    /\ Goto(w, "retrying")
    /\ UNCHANGED <<job, outbox, queue, publisher, disruptions>>

\* Any other error out of them is re-raised and fails the task.
FailBeforeClaim(w) ==
    /\ "error_before_claim" \in Faults
    /\ worker[w].pc \in {"received", "locked"}
    /\ Goto(w, "done")
    /\ UNCHANGED <<job, outbox, queue, publisher, disruptions>>

\* OperationalError out of the claim's COMMIT, after claimed_import was assigned.
LoseClaimCommit(w) ==
    /\ "claim_commit_lost" \in Faults
    /\ worker[w].pc = "locked"
    /\ worker' = [worker EXCEPT ![w] = ClaimedRun(w, "handling")]
    /\ UNCHANGED <<job, outbox, queue, publisher, disruptions>>

\* The same, when the server had committed.
ClaimCommitApplied(w) ==
    /\ "claim_commit_applied" \in Faults
    /\ worker[w].pc = "locked"
    /\ WriteRow(w, ClaimedRow(w))
    /\ worker' = [worker EXCEPT ![w] = ClaimedRun(w, "handling")]
    /\ UNCHANGED <<outbox, queue, publisher, disruptions>>

-----------------------------------------------------------------------------
(* Processing and its outcomes.                                            *)

\* complete() matches the row.
CompleteImport(w) ==
    /\ worker[w].pc = "working"
    /\ Owns(w)
    /\ WriteRow(w, CompleteRow(job[worker[w].import]))
    /\ Goto(w, "done")
    /\ UNCHANGED <<outbox, queue, publisher, disruptions>>

\* complete() committed, and the connection was lost before the answer.
CompleteCommitApplied(w) ==
    /\ "complete_commit_applied" \in Faults
    /\ worker[w].pc = "working"
    /\ Owns(w)
    /\ WriteRow(w, CompleteRow(job[worker[w].import]))
    /\ Goto(w, "handling")
    /\ UNCHANGED <<outbox, queue, publisher, disruptions>>

\* StaleImportWorkerError from the reset, from a chunk or from complete().
StopStaleWorker(w) ==
    /\ worker[w].pc = "working"
    /\ ~Owns(w)
    /\ Goto(w, "done")
    /\ UNCHANGED <<job, outbox, queue, publisher, disruptions>>

\* WorkbookStructureError or any exception that is not an OperationalError.
FailProcessing(w) ==
    /\ worker[w].pc = "working"
    /\ Goto(w, "marking")
    /\ UNCHANGED <<job, outbox, queue, publisher, disruptions>>

\* OperationalError from the reset, from a chunk or from complete().
LoseDatabase(w) ==
    /\ "db_after_claim" \in Faults
    /\ worker[w].pc = "working"
    /\ Goto(w, "handling")
    /\ UNCHANGED <<job, outbox, queue, publisher, disruptions>>

\* _mark_failed, the token-checked fail().
MarkFailedWith(w, why) ==
    /\ IF Owns(w)
       THEN WriteRow(w, FailRow(job[worker[w].import], why))
       ELSE UNCHANGED job
    /\ Goto(w, "done")
    /\ UNCHANGED <<outbox, queue, publisher, disruptions>>

MarkFailed(w) ==
    /\ worker[w].pc = "marking"
    /\ MarkFailedWith(w, "processing_failed")

\* _handle_operational_failure on the attempt the worker believes is the last.
HandleLastAttempt(w) ==
    /\ worker[w].pc = "handling"
    /\ worker[w].attempts >= ImportMaxAttempts
    /\ MarkFailedWith(w, "max_attempts")

\* _handle_operational_failure otherwise: requeue_for_retry, then the exception
\* that makes the task retry; a worker that lost the import just returns.
RequeueForRetry(w) ==
    /\ worker[w].pc = "handling"
    /\ worker[w].attempts < ImportMaxAttempts
    /\ IF Owns(w)
       THEN /\ WriteRow(w, RequeueRow(job[worker[w].import]))
            /\ Goto(w, "retrying")
       ELSE /\ UNCHANGED job
            /\ Goto(w, "done")
    /\ UNCHANGED <<outbox, queue, publisher, disruptions>>

\* requeue_for_retry committed, and the connection was lost before the answer:
\* the error leaves run() as it is, and the task fails without a retry.
RequeueCommitApplied(w) ==
    /\ "requeue_commit_applied" \in Faults
    /\ worker[w].pc = "handling"
    /\ worker[w].attempts < ImportMaxAttempts
    /\ Owns(w)
    /\ WriteRow(w, RequeueRow(job[worker[w].import]))
    /\ Goto(w, "done")
    /\ UNCHANGED <<outbox, queue, publisher, disruptions>>

\* The handler's own transaction fails and changes nothing: the task fails.
LoseHandler(w) ==
    /\ "handler_lost" \in Faults
    /\ worker[w].pc \in {"handling", "marking"}
    /\ Goto(w, "done")
    /\ UNCHANGED <<job, outbox, queue, publisher, disruptions>>

-----------------------------------------------------------------------------
(* Task retry and acknowledgement.                                         *)

\* self.retry publishes the next retry, or fails the task past max_retries.
RetryTask(w) ==
    /\ worker[w].pc = "retrying"
    /\ queue' = IF worker[w].retries < MaxRetries
                THEN Enqueue(queue, worker[w].import, worker[w].retries + 1)
                ELSE queue
    /\ Goto(w, "done")
    /\ UNCHANGED <<job, outbox, publisher, disruptions>>

\* The broker refuses the retry: Celery rejects the message to the dead-letter
\* queue, which nothing consumes.
RetryPublishFails(w) ==
    /\ "retry_publish" \in Faults
    /\ worker[w].pc = "retrying"
    /\ Goto(w, "done")
    /\ UNCHANGED <<job, outbox, queue, publisher, disruptions>>

\* task_acks_late: the message is acknowledged when the task has ended, whatever
\* its outcome.
Acknowledge(w) ==
    /\ worker[w].pc = "done"
    /\ worker' = [worker EXCEPT ![w] = IdleRun]
    /\ UNCHANGED <<job, outbox, queue, publisher, disruptions>>

\* The message goes back to the queue unless it already has.
ReturnMessage(w) ==
    queue' = IF worker[w].held
             THEN Enqueue(queue, worker[w].import, worker[w].retries)
             ELSE queue

\* The process dies (task_reject_on_worker_lost): its transaction is rolled back
\* and its message redelivered.
WorkerCrash(w) ==
    /\ worker[w].pc # "idle"
    /\ Disrupt
    /\ ReturnMessage(w)
    /\ worker' = [worker EXCEPT ![w] = IdleRun]
    /\ UNCHANGED <<job, outbox, publisher>>

\* The broker gives up on the consumer while the worker goes on.
Redeliver(w) ==
    /\ "redeliver" \in Faults
    /\ worker[w].pc # "idle" /\ worker[w].held
    /\ Disrupt
    /\ ReturnMessage(w)
    /\ worker' = [worker EXCEPT ![w].held = FALSE]
    /\ UNCHANGED <<job, outbox, publisher>>
=============================================================================
