--------------------------- MODULE ImportPipeline ---------------------------
(***************************************************************************)
(* The import pipeline: uploads, outbox publishers, the queue, workers and *)
(* the watchdog, interleaved at the granularity of their transactions and  *)
(* broker calls.                                                           *)
(***************************************************************************)
EXTENDS OutboxPublisher, ImportWorker, StaleImportRecovery

\* CreateImportService.create_import on a new upload: the job and its dispatch
\* intent are committed together.
CreateImport(i) ==
    /\ job[i].status = "NONE"
    /\ job' = [job EXCEPT ![i] = NewJob]
    /\ outbox' = [outbox EXCEPT ![<<i, 0>>] = PendingIntent]
    /\ UNCHANGED <<queue, publisher, worker, disruptions>>

Init ==
    /\ job = [i \in Imports |-> NoJob]
    /\ outbox = [e \in Events |-> NoIntent]
    /\ queue = [i \in Imports |-> [r \in Retries |-> 0]]
    /\ publisher = [p \in Publishers |-> {}]
    /\ worker = [w \in Workers |-> IdleRun]
    /\ disruptions = 0

\* Everything the system had to do is done: the processes only poll.
Quiescent ==
    /\ \A i \in Imports : job[i].status \in {"COMPLETED", "FAILED"}
    /\ \A e \in Events : outbox[e].status \in {"NONE", "PUBLISHED", "FAILED"}
    /\ \A i \in Imports, r \in Retries : queue[i][r] = 0
    /\ \A p \in Publishers : publisher[p] = {}
    /\ \A w \in Workers : worker[w] = IdleRun
    /\ UNCHANGED vars

\* run_outbox_publisher, without the death of the process.
DispatchNext(p) ==
    DispatchAccepted(p) \/ DispatchRefused(p) \/ DispatchConfirmLost(p)
RecordOutcome(p) ==
    RecordPublishSuccess(p) \/ RecordPublishFailure(p) \/ PublisherIndexError(p)
PublisherStep(p) ==
    \/ ClaimDueEvents(p)
    \/ DispatchNext(p)
    \/ RecordOutcome(p)
    \/ RecoverStaleClaims(p)

\* process_import_task, without the death of the process.
ClaimStep(w) ==
    \/ LockImport(w) \/ SkipImport(w) \/ CommitClaim(w)
    \/ LoseDatabaseBeforeClaim(w) \/ FailBeforeClaim(w)
    \/ LoseClaimCommit(w) \/ ClaimCommitApplied(w)
ProcessStep(w) ==
    \/ CompleteImport(w) \/ CompleteCommitApplied(w)
    \/ StopStaleWorker(w) \/ FailProcessing(w) \/ LoseDatabase(w)
HandlerStep(w) ==
    \/ MarkFailed(w) \/ HandleLastAttempt(w) \/ RequeueForRetry(w)
    \/ RequeueCommitApplied(w) \/ LoseHandler(w)
TaskEndStep(w) == RetryTask(w) \/ RetryPublishFails(w) \/ Acknowledge(w)
TaskStep(w) == ClaimStep(w) \/ ProcessStep(w) \/ HandlerStep(w) \/ TaskEndStep(w)

Next ==
    \/ \E i \in Imports : CreateImport(i)
    \/ \E p \in Publishers : PublisherStep(p) \/ PublisherCrash(p)
    \/ \E w \in Workers :
        Receive(w) \/ TaskStep(w) \/ WorkerCrash(w) \/ Redeliver(w)
    \/ RecoverStaleImports
    \/ Quiescent

Spec == Init /\ [][Next]_vars

\* Each live process keeps running, and Celery Beat keeps the watchdog running.
\* Uploads, crashes, stalls and redeliveries need not happen.
Fairness ==
    /\ \A p \in Publishers : WF_vars(PublisherStep(p))
    /\ \A w \in Workers : WF_vars(Receive(w)) /\ WF_vars(TaskStep(w))
    /\ WF_vars(RecoverAbandonedImports)

FairSpec == Spec /\ Fairness

-----------------------------------------------------------------------------
(* Safety.                                                                 *)

\* A PENDING import "is stored and waiting for dispatch or a worker claim"
\* (README, status table): a dispatch intent, a message or a worker still stands
\* for it. If none does, no process will ever look at the row again, because the
\* watchdog only searches PROCESSING imports.
WaitingForDispatch(i) ==
    \E s \in Slots : outbox[<<i, s>>].status \in {"PENDING", "PROCESSING"}
WaitingForWorker(i) ==
    \/ \E r \in Retries : queue[i][r] > 0
    \/ \E w \in Workers : /\ worker[w].import = i
                          /\ worker[w].pc \in {"received", "locked", "retrying"}
NoStrandedImport ==
    \A i \in Imports :
        job[i].status = "PENDING" => WaitingForDispatch(i) \/ WaitingForWorker(i)

\* A PENDING import has an attempt left, so that the claim's WHERE clause does not
\* reject every delivery of it for ever.
PendingIsClaimable ==
    \A i \in Imports :
        job[i].status = "PENDING" => job[i].attempts < ImportMaxAttempts

-----------------------------------------------------------------------------
(* What a step may never do.                                               *)

\* A processed import was completed by the worker of its current attempt: a
\* worker that lost the import to the watchdog, and reports late, is fenced off.
CompletedByCurrentAttempt ==
    [][\A i \in Imports :
        job[i].status # "COMPLETED" /\ job'[i].status = "COMPLETED" =>
            \E w \in Workers :
                /\ At(w, "working", i)
                /\ worker[w].token = job[i].token
                /\ worker[w].attempts = job[i].attempts]_vars

\* A dispatch intent moves PENDING -> PROCESSING -> PUBLISHED, FAILED or back to
\* PENDING: a publisher whose claim was recovered never overwrites the outcome
\* of the publisher that claimed the row after it, and a settled intent stays.
IntentSuccessors ==
    [NONE |-> {"PENDING"}, PENDING |-> {"PROCESSING"},
     PROCESSING |-> {"PENDING", "PUBLISHED", "FAILED"},
     PUBLISHED |-> {}, FAILED |-> {}]
IntentLifecycle ==
    [][\A e \in Events :
        outbox'[e].status # outbox[e].status =>
            outbox'[e].status \in IntentSuccessors[outbox[e].status]]_vars

\* The dispatch attempts of an intent are never forgotten, and each recorded
\* failure adds one: a stalled publisher cannot write back an old count.
DispatchAttemptsNeverRollBack ==
    [][\A e \in Events : outbox'[e].attempts \in
            {outbox[e].attempts, outbox[e].attempts + 1}]_vars

\* A publisher gives up an import only in the step in which an intent of it fails
\* after its last dispatch attempt, and never one that a worker is claiming or
\* processing: the message of a dispatch it takes for failed may have arrived.
GivenUpWithLastDispatch ==
    [][\A i \in Imports :
        job[i].reason # "never_started" /\ job'[i].reason = "never_started" =>
            /\ \E s \in Slots :
                /\ outbox[<<i, s>>].status = "PROCESSING"
                /\ outbox'[<<i, s>>].status = "FAILED"
                /\ outbox'[<<i, s>>].attempts = OutboxMaxAttempts
            /\ \A w \in Workers : worker[w].import = i =>
                worker[w].pc # "locked" /\ ~Owns(w)]_vars

-----------------------------------------------------------------------------
(* The inductive invariants behind the safety properties.                  *)

\* A run has a message's import and a token of its own.
RunsAreTyped ==
    \A w \in Workers : worker[w].pc # "idle" =>
        worker[w].import \in Imports /\ worker[w].token \in Tokens

\* An intent that can still be dispatched has an attempt left.
DispatchableHasAttempts ==
    /\ \A e \in Events :
        outbox[e].status \in {"PENDING", "PROCESSING"} =>
            outbox[e].attempts < OutboxMaxAttempts
    /\ \A p \in Publishers : \A c \in publisher[p] :
        c.attempts < OutboxMaxAttempts

\* The row a claiming worker has locked stays claimable, and only it has it.
LockProtectsRow ==
    /\ \A w \in Workers : worker[w].pc = "locked" => Claimable(worker[w].import)
    /\ \A v, w \in Workers :
        worker[v].pc = "locked" /\ worker[w].pc = "locked" /\ v # w =>
            worker[v].import # worker[w].import

\* Two runs of an import have different tokens, and the token of a run that has
\* not claimed is in no row.
TokensAreFresh ==
    /\ \A v, w \in Workers :
        /\ v # w
        /\ worker[v].pc # "idle" /\ worker[w].pc # "idle"
        /\ worker[v].import = worker[w].import
        => worker[v].token # worker[w].token
    /\ \A w \in Workers : worker[w].pc \in {"received", "locked"} =>
        worker[w].token # job[worker[w].import].token

\* The worker that owns an import knows which attempt it is making.
OwnerKnowsAttempt ==
    \A w \in Workers :
        worker[w].pc \in {"working", "handling", "marking"} /\ Owns(w) =>
            worker[w].attempts = job[worker[w].import].attempts

OwnershipInvariant ==
    /\ TypeOK
    /\ RunsAreTyped
    /\ DispatchableHasAttempts
    /\ LockProtectsRow
    /\ TokensAreFresh
    /\ OwnerKnowsAttempt
    /\ PendingIsClaimable

\* The faults the code does not survive without stranding an import; each one is
\* a finding or a hazard of its own.
StrandingFaults ==
    {"db_before_claim", "error_before_claim", "claim_commit_lost",
     "requeue_commit_applied", "retry_publish", "redeliver", "stale_insert"}

\* The theorems about stranding also ask that Celery retries a task as often as
\* the import may be attempted: the setting was not lowered since the upload.
Survivable ==
    /\ Faults \cap StrandingFaults = {}
    /\ TaskMaxAttempts >= ImportMaxAttempts

\* An import that was not uploaded has no attempts.
UnsubmittedHasNoAttempts ==
    \A i \in Imports : job[i].status = "NONE" => job[i].attempts = 0

\* Celery's retries never run out before the import's attempts: a message is
\* retried at most as often as its import was claimed.
RetriesFollowAttempts ==
    /\ \A i \in Imports, r \in Retries : queue[i][r] > 0 => r <= job[i].attempts
    /\ \A w \in Workers : worker[w].pc # "idle" =>
        worker[w].retries <= job[worker[w].import].attempts
    /\ \A w \in Workers :
        worker[w].pc \in {"working", "handling", "marking", "retrying"} =>
            /\ worker[w].retries < worker[w].attempts
            /\ worker[w].attempts <= job[worker[w].import].attempts
    /\ \A w \in Workers : worker[w].pc = "retrying" =>
        worker[w].attempts < ImportMaxAttempts

\* A running task's message is still unacknowledged.
MessagesAreHeld == \A w \in Workers : worker[w].pc # "idle" => worker[w].held

\* The intent will be dispatched again, or its publisher has yet to send it.
Undelivered(e) ==
    \/ outbox[e].status = "PENDING"
    \/ /\ outbox[e].status = "PROCESSING"
       /\ \A p \in Publishers : \A c \in publisher[p] :
            c.event = e /\ c.token = outbox[e].token => c.outcome # "published"

\* NoStrandedImport, made inductive: an intent whose message was sent no longer
\* counts.
PendingIsCarried ==
    \A i \in Imports :
        job[i].status = "PENDING" =>
            (\E s \in Slots : Undelivered(<<i, s>>)) \/ WaitingForWorker(i)

CarriedInvariant ==
    /\ OwnershipInvariant
    /\ UnsubmittedHasNoAttempts
    /\ RetriesFollowAttempts
    /\ MessagesAreHeld
    /\ PendingIsCarried

-----------------------------------------------------------------------------
(* The pipeline implements the lifecycle it promises.                      *)

\* What a client, or an operator, sees of an import's row.
View(row) == [status |-> row.status, owner |-> row.token, attempts |-> row.attempts]

Lifecycle == INSTANCE ImportLifecycle WITH
    Owners <- Tokens, NoOwner <- NoToken, MaxAttempts <- ImportMaxAttempts,
    import <- [i \in Imports |-> View(job[i])]

\* Every step of every process is a step of ImportLifecycle or leaves all
\* import rows as a client sees them.
LifecycleRefinement == Lifecycle!Spec

-----------------------------------------------------------------------------
(* Liveness, under FairSpec.                                               *)

\* Every accepted import is eventually COMPLETED or FAILED.
EveryImportFinishes ==
    \A i \in Imports :
        job[i].status # "NONE" ~> job[i].status \in {"COMPLETED", "FAILED"}

\* Every dispatch intent is eventually PUBLISHED or FAILED.
EveryIntentSettles ==
    \A e \in Events :
        outbox[e].status # "NONE" ~> outbox[e].status \in {"PUBLISHED", "FAILED"}
=============================================================================
