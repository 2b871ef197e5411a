--------------------------- MODULE OutboxPublisher ---------------------------
(***************************************************************************)
(* The outbox publisher process: PublishOutboxService over                 *)
(* OutboxRepository. Each transaction is one step; between them, and       *)
(* between send_task and the transaction that records its outcome, other   *)
(* publishers, the workers and the watchdog run, and the process may die.  *)
(***************************************************************************)
EXTENDS PipelineState

\* Mutants: the outcome is recorded by the row's id alone, or without comparing
\* the claim token.
HoldsClaimById(e, t) == TRUE
HoldsClaimOfAnyone(e, t) == outbox[e].status = "PROCESSING"

\* The WHERE clause of mark_published, mark_publish_failure and of the two
\* updates of stale claims: the row is still claimed under this token.
HoldsClaim(e, t) ==
    /\ outbox[e].status = "PROCESSING"
    /\ outbox[e].token = t

\* A uuid4 that no row of this event and no publisher holding it has seen.
UnusedClaimTokens(e) ==
    Tokens \ ({outbox[e].token} \cup
              {c.token : c \in {d \in UNION {publisher[p] : p \in Publishers} :
                                   d.event = e}})
FreshClaimToken(e) == CHOOSE t \in Tokens : t \in UnusedClaimTokens(e)

\* The claimed events of p whose outcome is known and not yet recorded: the loop
\* of publish_due_events records one before it dispatches the next.
Unrecorded(p) == {c \in publisher[p] : c.outcome # "claimed"}

\* Mutants: the update does not look at the status, or is forgotten.
FailImportAnyway(i) == FailRow(job[i], "never_started")
LeaveImportPending(i) == job[i]

\* fail_pending_import_after_dispatch_exhausted: an UPDATE of the import's row
\* that only matches while the row is PENDING.
FailPendingImport(i) ==
    IF job[i].status = "PENDING" THEN FailRow(job[i], "never_started") ELSE job[i]

-----------------------------------------------------------------------------
\* The row claim_due_events leaves.
ClaimedIntent(e) ==
    [outbox[e] EXCEPT !.status = "PROCESSING", !.token = FreshClaimToken(e)]

\* _claim_due_events. Which pending rows are due, and in which order, depends on
\* available_at, which the model leaves open.
ClaimDueEvents(p) ==
    \E S \in SUBSET {e \in Events : outbox[e].status = "PENDING"} :
        /\ publisher[p] = {}
        /\ S # {}
        /\ Cardinality(S) <= OutboxBatchSize
        /\ \A e \in S : UnusedClaimTokens(e) # {}
        /\ outbox' = [e \in Events |->
                        IF e \in S THEN ClaimedIntent(e) ELSE outbox[e]]
        /\ publisher' = [publisher EXCEPT ![p] =
                            {[event |-> e, token |-> FreshClaimToken(e),
                              attempts |-> outbox[e].attempts,
                              outcome |-> "claimed"] : e \in S}]
        /\ UNCHANGED <<job, queue, worker, disruptions>>

\* send_task on one claimed event: enqueued or not, and reported or not.
Dispatch(p, c, enqueued, outcome) ==
    /\ Unrecorded(p) = {}
    /\ publisher' = [publisher EXCEPT ![p] =
                        (@ \ {c}) \cup {[c EXCEPT !.outcome = outcome]}]
    /\ queue' = IF enqueued THEN Enqueue(queue, ImportOf(c.event), 0) ELSE queue
    /\ UNCHANGED <<job, outbox, worker, disruptions>>

DispatchAccepted(p) ==
    \E c \in publisher[p] : Dispatch(p, c, TRUE, "published")

DispatchRefused(p) ==
    /\ "broker_down" \in Faults
    /\ \E c \in publisher[p] : Dispatch(p, c, FALSE, "refused")

DispatchConfirmLost(p) ==
    /\ "confirm_lost" \in Faults
    /\ \E c \in publisher[p] : Dispatch(p, c, TRUE, "refused")

\* _record_publish_success.
RecordPublishSuccess(p) ==
    \E c \in Unrecorded(p) :
        /\ c.outcome = "published"
        /\ publisher' = [publisher EXCEPT ![p] = @ \ {c}]
        /\ outbox' = IF HoldsClaim(c.event, c.token)
                     THEN [outbox EXCEPT ![c.event].status = "PUBLISHED",
                                         ![c.event].token = NoToken]
                     ELSE outbox
        /\ UNCHANGED <<job, queue, worker, disruptions>>

\* The last dispatch attempt was made.
Exhausted(attempts) == attempts >= OutboxMaxAttempts

\* Mutant: the repository counts the attempt the service has already counted.
PublishFailureRowCountedTwice(row, attempts) ==
    [row EXCEPT !.status = IF Exhausted(attempts) THEN "FAILED" ELSE "PENDING",
                !.attempts = attempts + 1,
                !.token = NoToken]

\* The row mark_publish_failure leaves.
PublishFailureRow(row, attempts) ==
    [row EXCEPT !.status = IF Exhausted(attempts) THEN "FAILED" ELSE "PENDING",
                !.attempts = attempts,
                !.token = NoToken]

\* _record_publish_failure: the row is retried later or, with its last attempt,
\* failed together with an import that is still PENDING. The second UPDATE waits
\* for a worker that has the import's row locked.
RecordPublishFailure(p) ==
    \E c \in Unrecorded(p) :
        LET n == c.attempts + 1
            i == ImportOf(c.event)
            recorded == HoldsClaim(c.event, c.token)
        IN  /\ c.outcome = "refused"
            /\ Exhausted(n) \/ n <= RetryDelayCount
            /\ recorded /\ Exhausted(n) => ~RowLocked(i)
            /\ publisher' = [publisher EXCEPT ![p] = @ \ {c}]
            /\ outbox' = IF recorded
                         THEN [outbox EXCEPT ![c.event] = PublishFailureRow(@, n)]
                         ELSE outbox
            /\ job' = IF recorded /\ Exhausted(n)
                      THEN [job EXCEPT ![i] = FailPendingImport(i)]
                      ELSE job
            /\ UNCHANGED <<queue, worker, disruptions>>

\* outbox_retry_delays_seconds[attempt_count - 1] past the last delay: the
\* IndexError leaves publish_due_events and ends the process before anything is
\* recorded. The process that is restarted remembers nothing.
PublisherIndexError(p) ==
    /\ \E c \in Unrecorded(p) :
        /\ c.outcome = "refused"
        /\ ~Exhausted(c.attempts + 1)
        /\ c.attempts + 1 > RetryDelayCount
    /\ publisher' = [publisher EXCEPT ![p] = {}]
    /\ UNCHANGED <<job, outbox, queue, worker, disruptions>>

\* Some publisher still works on the claim the row records.
ClaimedByLivePublisher(e) ==
    \E p \in Publishers : \E c \in publisher[p] :
        c.event = e /\ c.token = outbox[e].token

\* Mutant: the claim's columns are cleared, the status is not.
RecoveredIntentKeepsStatus(row) == [row EXCEPT !.token = NoToken]

\* requeue_stale_claim, mark_stale_claim_failed.
RecoveredIntent(row) ==
    [row EXCEPT !.status = IF Exhausted(row.attempts) THEN "FAILED" ELSE "PENDING",
                !.token = NoToken]

\* recover_stale_claims, at the top of the publisher's loop. A claim whose
\* publisher is alive looks stale only if that publisher stalled: a disruption.
RecoverStaleClaimsOf(p, S) ==
    /\ publisher[p] = {}
    /\ Cardinality(S) <= OutboxBatchSize
    /\ \A e \in S : Exhausted(outbox[e].attempts) => ~RowLocked(ImportOf(e))
    /\ IF \E e \in S : ClaimedByLivePublisher(e)
       THEN Disrupt
       ELSE UNCHANGED disruptions
    /\ outbox' = [e \in Events |->
                    IF e \in S THEN RecoveredIntent(outbox[e]) ELSE outbox[e]]
    /\ job' = [i \in Imports |->
                 IF \E e \in S : ImportOf(e) = i /\ Exhausted(outbox[e].attempts)
                 THEN FailPendingImport(i)
                 ELSE job[i]]
    /\ UNCHANGED <<queue, publisher, worker>>

RecoverStaleClaims(p) ==
    \E S \in SUBSET {e \in Events : outbox[e].status = "PROCESSING"} :
        S # {} /\ RecoverStaleClaimsOf(p, S)

\* The process dies, or one of its transactions raises: publish_due_events
\* catches nothing but send_task's errors. The claims stay in the table.
PublisherCrash(p) ==
    /\ publisher[p] # {}
    /\ Disrupt
    /\ publisher' = [publisher EXCEPT ![p] = {}]
    /\ UNCHANGED <<job, outbox, queue, worker>>
=============================================================================
