------------------------- MODULE StaleImportRecovery -------------------------
(***************************************************************************)
(* The watchdog: RecoverStaleImportsService, run by Celery Beat and by     *)
(* every worker that starts. Whether a heartbeat has expired is left open: *)
(* the import of a slow worker may look as stale as that of a dead one.    *)
(***************************************************************************)
EXTENDS PipelineState

\* Mutant: off by one, the last attempt is requeued.
RecoveredRowOneLater(row) ==
    IF row.attempts > ImportMaxAttempts
    THEN FailRow(row, "max_attempts")
    ELSE RequeueRow(row)

\* _mark_failed, or the row's half of _requeue_with_dispatch_intent.
RecoveredRow(row) ==
    IF row.attempts >= ImportMaxAttempts
    THEN FailRow(row, "max_attempts")
    ELSE RequeueRow(row)

\* Mutants: no intent is written, or only the first of the batch.
NoReplacementIntents(S) == {}
FirstReplacementIntent(S) ==
    LET R == {j \in S : job[j].attempts < ImportMaxAttempts}
    IN  IF R = {} THEN {} ELSE {<<i, job[i].attempts>> : i \in {CHOOSE j \in R : TRUE}}

\* The intents written by _requeue_with_dispatch_intent for the imports of S.
ReplacementIntents(S) ==
    {<<i, job[i].attempts>> :
        i \in {j \in S : job[j].attempts < ImportMaxAttempts}}

\* recover_stale_imports: rows and replacement intents in one transaction.
RecoverStaleImportsOf(S) ==
    /\ Cardinality(S) <= WatchdogBatchSize
    /\ job' = [i \in Imports |->
                 IF i \in S THEN RecoveredRow(job[i]) ELSE job[i]]
    /\ outbox' = [e \in Events |->
                    IF e \in ReplacementIntents(S) THEN PendingIntent
                    ELSE outbox[e]]
    /\ UNCHANGED <<queue, publisher, worker, disruptions>>

Processing == {i \in Imports : job[i].status = "PROCESSING"}

RecoverStaleImports ==
    \E S \in SUBSET Processing : S # {} /\ RecoverStaleImportsOf(S)

\* The watchdog step the code's schedule guarantees: it reaches imports whose
\* worker is gone, the ones that stay stale until it does.
Abandoned(i) ==
    /\ i \in Processing
    /\ ~\E w \in Workers : worker[w].import = i /\ worker[w].token = job[i].token
                           /\ worker[w].pc # "done"
RecoverAbandonedImports ==
    \E S \in SUBSET Processing :
        (\E i \in S : Abandoned(i)) /\ RecoverStaleImportsOf(S)
=============================================================================
