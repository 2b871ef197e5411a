------------------------ MODULE ImportPipelineProofs ------------------------
(***************************************************************************)
(* OwnershipInvariant holds in every reachable state of the pipeline: one  *)
(* lemma for each kind of step, and the two invariants it contains that    *)
(* the model-checking runs also check.                                     *)
(***************************************************************************)
EXTENDS ImportPipeline, TLAPS

USE ProcessAssumption, SettingsAssumption

\* The empty tables, the empty queue and idle processes satisfy the invariant.
LEMMA OwnershipInit == Init => OwnershipInvariant
<1> SUFFICES ASSUME Init PROVE OwnershipInvariant
    OBVIOUS
<1>1. TypeOK
    BY DEF Init, TypeOK, NoJob, ImportJob, JobStatus, Reasons, NoIntent,
        DispatchIntent, IntentStatus, IdleRun, TaskRun, WorkerPc, Retries,
        MaxRetries
<1>2. RunsAreTyped /\ DispatchableHasAttempts
    BY DEF Init, RunsAreTyped, DispatchableHasAttempts, IdleRun, NoIntent
<1>3. LockProtectsRow /\ TokensAreFresh /\ OwnerKnowsAttempt /\ PendingIsClaimable
    BY DEF Init, LockProtectsRow, TokensAreFresh, OwnerKnowsAttempt,
        PendingIsClaimable, IdleRun, NoJob
<1> QED BY <1>1, <1>2, <1>3 DEF OwnershipInvariant

\* Goto changes the program counter of w and nothing else.
LEMMA GotoEffect ==
    ASSUME TypeOK, NEW w \in Workers, NEW pc \in WorkerPc, Goto(w, pc)
    PROVE  /\ worker' \in [Workers -> TaskRun]
           /\ \A v \in Workers : v # w => worker'[v] = worker[v]
           /\ worker'[w].pc = pc
           /\ worker'[w].import = worker[w].import
           /\ worker'[w].token = worker[w].token
           /\ worker'[w].attempts = worker[w].attempts
           /\ worker'[w].retries = worker[w].retries
           /\ worker'[w].held = worker[w].held
<1>1. worker \in [Workers -> TaskRun] /\ worker[w] \in TaskRun
    BY DEF TypeOK
<1>2. worker' = [worker EXCEPT ![w] = [worker[w] EXCEPT !.pc = pc]]
    BY <1>1 DEF Goto
<1>3. [worker[w] EXCEPT !.pc = pc] \in TaskRun
    BY <1>1 DEF TaskRun
<1>4. worker' \in [Workers -> TaskRun]
    BY <1>1, <1>2, <1>3
<1>5. /\ worker'[w] = [worker[w] EXCEPT !.pc = pc]
      /\ \A v \in Workers : v # w => worker'[v] = worker[v]
    BY <1>1, <1>2
<1> QED BY <1>1, <1>4, <1>5 DEF TaskRun

\* A worker that only moves on keeps the invariant, unless it moves to a state in
\* which it must hold a lock or know its attempt.
LEMMA GotoKeepsOwnership ==
    ASSUME OwnershipInvariant,
           NEW w \in Workers, NEW pc \in WorkerPc,
           worker[w].pc # "idle",
           pc \notin {"idle", "received", "locked"},
           pc \in {"working", "handling", "marking"} =>
               worker[w].pc \in {"working", "handling", "marking"},
           Goto(w, pc),
           queue' \in [Imports -> [Retries -> Nat]],
           UNCHANGED <<job, outbox, publisher, disruptions>>
    PROVE  OwnershipInvariant'
<1> USE DEF OwnershipInvariant
<1>1. /\ worker' \in [Workers -> TaskRun]
      /\ \A v \in Workers : v # w => worker'[v] = worker[v]
      /\ worker'[w].pc = pc
      /\ worker'[w].import = worker[w].import
      /\ worker'[w].token = worker[w].token
      /\ worker'[w].attempts = worker[w].attempts
    BY GotoEffect
<1>2. TypeOK'
    BY <1>1 DEF TypeOK
<1>3. RunsAreTyped'
    BY <1>1 DEF RunsAreTyped
<1>4. DispatchableHasAttempts' /\ PendingIsClaimable'
    BY DEF DispatchableHasAttempts, PendingIsClaimable
<1>5. LockProtectsRow'
    BY <1>1 DEF LockProtectsRow, Claimable
<1>6. TokensAreFresh'
    BY <1>1 DEF TokensAreFresh
<1>7. OwnerKnowsAttempt'
    BY <1>1 DEF OwnerKnowsAttempt, Owns, Owned
<1> QED BY <1>2, <1>3, <1>4, <1>5, <1>6, <1>7

\* A token-checked update by the owner that ends its attempt keeps the invariant.
LEMMA WriteOwnedRowKeepsOwnership ==
    ASSUME OwnershipInvariant,
           NEW w \in Workers, NEW pc \in WorkerPc, NEW row \in ImportJob,
           worker[w].pc \in {"working", "handling", "marking"},
           Owns(w),
           pc \notin {"idle", "received", "locked"},
           row.token = NoToken,
           row.status # "PROCESSING",
           row.status = "PENDING" => row.attempts < ImportMaxAttempts,
           WriteRow(w, row),
           Goto(w, pc),
           UNCHANGED <<outbox, queue, publisher, disruptions>>
    PROVE  OwnershipInvariant'
<1> USE DEF OwnershipInvariant
<1> DEFINE i == worker[w].import
<1>1. /\ worker' \in [Workers -> TaskRun]
      /\ \A v \in Workers : v # w => worker'[v] = worker[v]
      /\ worker'[w].pc = pc
      /\ worker'[w].import = i
      /\ worker'[w].token = worker[w].token
      /\ worker'[w].attempts = worker[w].attempts
    BY GotoEffect
<1>2. /\ i \in Imports
      /\ job' \in [Imports -> ImportJob]
      /\ job'[i] = row
      /\ \A j \in Imports : j # i => job'[j] = job[j]
      /\ job[i].status = "PROCESSING"
    BY DEF WriteRow, TypeOK, RunsAreTyped, Owns, Owned
<1> HIDE DEF i
<1>3. TypeOK'
    BY <1>1, <1>2 DEF TypeOK
<1>4. RunsAreTyped'
    BY <1>1 DEF RunsAreTyped, i
<1>5. DispatchableHasAttempts' /\ PendingIsClaimable'
    BY <1>2 DEF DispatchableHasAttempts, PendingIsClaimable
<1>6. LockProtectsRow'
    BY <1>1, <1>2 DEF LockProtectsRow, Claimable, RunsAreTyped
<1>7. TokensAreFresh'
    BY <1>1, <1>2 DEF TokensAreFresh, RunsAreTyped, i
<1>8. OwnerKnowsAttempt'
    BY <1>1, <1>2 DEF OwnerKnowsAttempt, Owns, Owned, RunsAreTyped, i
<1> QED BY <1>3, <1>4, <1>5, <1>6, <1>7, <1>8

\* Rows that nobody has locked may leave PROCESSING, or be created, under the
\* workers' feet: a worker notices by its token.
LEMMA ReleasedRowsKeepOwnership ==
    ASSUME OwnershipInvariant,
           worker' = worker,
           job' \in [Imports -> ImportJob],
           \A i \in Imports : job'[i] # job[i] =>
               /\ ~RowLocked(i)
               /\ job'[i].token = NoToken
               /\ job'[i].status # "PROCESSING"
               /\ job'[i].status = "PENDING" => job'[i].attempts < ImportMaxAttempts
    PROVE  /\ RunsAreTyped' /\ LockProtectsRow' /\ TokensAreFresh'
           /\ OwnerKnowsAttempt' /\ PendingIsClaimable'
<1> USE DEF OwnershipInvariant
<1>1. RunsAreTyped'
    BY DEF RunsAreTyped
<1>2. PendingIsClaimable'
    BY DEF PendingIsClaimable
<1>3. LockProtectsRow'
  <2>1. ASSUME NEW w \in Workers, worker[w].pc = "locked"
        PROVE  job'[worker[w].import] = job[worker[w].import]
      BY <2>1 DEF RowLocked, RunsAreTyped
  <2> QED BY <2>1 DEF LockProtectsRow, Claimable
<1>4. TokensAreFresh'
    BY DEF TokensAreFresh, RunsAreTyped
<1>5. OwnerKnowsAttempt'
    BY DEF OwnerKnowsAttempt, Owns, Owned, RunsAreTyped
<1> QED BY <1>1, <1>2, <1>3, <1>4, <1>5

\* What the row operations of the repositories leave in import_jobs.
LEMMA FailRowEffect ==
    ASSUME NEW row \in ImportJob, NEW why \in Reasons
    PROVE  /\ FailRow(row, why) \in ImportJob
           /\ FailRow(row, why).status = "FAILED"
           /\ FailRow(row, why).token = NoToken
           /\ FailRow(row, why).attempts = row.attempts
BY DEF FailRow, ImportJob, JobStatus

\* Completing a row, field by field.
LEMMA CompleteRowEffect ==
    ASSUME NEW row \in ImportJob
    PROVE  /\ CompleteRow(row) \in ImportJob
           /\ CompleteRow(row).status = "COMPLETED"
           /\ CompleteRow(row).token = NoToken
           /\ CompleteRow(row).attempts = row.attempts
BY DEF CompleteRow, ImportJob, JobStatus

\* Requeueing a row, field by field.
LEMMA RequeueRowEffect ==
    ASSUME NEW row \in ImportJob
    PROVE  /\ RequeueRow(row) \in ImportJob
           /\ RequeueRow(row).status = "PENDING"
           /\ RequeueRow(row).token = NoToken
           /\ RequeueRow(row).attempts = row.attempts
BY DEF RequeueRow, ImportJob, JobStatus, Reasons

\* Claiming a row, field by field.
LEMMA ClaimRowEffect ==
    ASSUME NEW row \in ImportJob, NEW t \in Tokens
    PROVE  /\ row.attempts < ImportMaxAttempts => ClaimRow(row, t) \in ImportJob
           /\ ClaimRow(row, t).status = "PROCESSING"
           /\ ClaimRow(row, t).token = t
           /\ ClaimRow(row, t).attempts = row.attempts + 1
<1> DEFINE n == row.attempts + 1
           r == [row EXCEPT !.status = "PROCESSING", !.token = t, !.attempts = n]
<1>1. row.attempts < ImportMaxAttempts => n \in 0 .. ImportMaxAttempts
    BY DEF ImportJob
<1>2. r.attempts = n
    BY DEF ImportJob
<1>3. /\ n \in 0 .. ImportMaxAttempts => r \in ImportJob
      /\ r.token = t
      /\ r.status = "PROCESSING"
  <2> HIDE DEF n
  <2> QED BY DEF ImportJob, JobStatus
<1> QED BY <1>1, <1>2, <1>3 DEF ClaimRow

\* Messages are counted by natural numbers.
LEMMA QueueTypes ==
    ASSUME NEW q \in [Imports -> [Retries -> Nat]],
           NEW i \in Imports, NEW r \in Retries
    PROVE  /\ Enqueue(q, i, r) \in [Imports -> [Retries -> Nat]]
           /\ q[i][r] > 0 => Dequeue(q, i, r) \in [Imports -> [Retries -> Nat]]
<1>1. q[i] \in [Retries -> Nat] /\ q[i][r] \in Nat
    OBVIOUS
<1>2. [q[i] EXCEPT ![r] = @ + 1] \in [Retries -> Nat]
    BY <1>1
<1>3. q[i][r] > 0 => [q[i] EXCEPT ![r] = @ - 1] \in [Retries -> Nat]
    BY <1>1
<1> QED BY <1>2, <1>3 DEF Enqueue, Dequeue

\* An upload keeps the invariant: the new row is in its first state.
LEMMA CreateImportKeepsOwnership ==
    ASSUME OwnershipInvariant, NEW i \in Imports, CreateImport(i)
    PROVE  OwnershipInvariant'
<1> USE DEF OwnershipInvariant
<1>1. NewJob \in ImportJob /\ NewJob.status = "PENDING" /\ NewJob.attempts = 0
      /\ NewJob.token = NoToken
    BY DEF NewJob, NoJob, ImportJob, JobStatus, Reasons
<1>2. PendingIntent \in DispatchIntent /\ PendingIntent.attempts = 0
    BY DEF PendingIntent, NoIntent, DispatchIntent, IntentStatus
<1>3. job' \in [Imports -> ImportJob]
    BY <1>1 DEF CreateImport, TypeOK
<1>4. outbox' \in [Events -> DispatchIntent]
    BY <1>2 DEF CreateImport, TypeOK
<1>5. TypeOK'
    BY <1>3, <1>4 DEF TypeOK, CreateImport
<1>6. DispatchableHasAttempts'
    BY <1>2 DEF DispatchableHasAttempts, CreateImport, TypeOK
<1>7. ~RowLocked(i)
    BY DEF CreateImport, RowLocked, LockProtectsRow, Claimable
<1>8. \A j \in Imports : job'[j] # job[j] =>
               /\ ~RowLocked(j)
               /\ job'[j].token = NoToken
               /\ job'[j].status # "PROCESSING"
               /\ job'[j].status = "PENDING" => job'[j].attempts < ImportMaxAttempts
    BY <1>1, <1>7 DEF CreateImport, TypeOK
<1>9. worker' = worker
    BY DEF CreateImport
<1> QED BY <1>3, <1>5, <1>6, <1>8, <1>9, ReleasedRowsKeepOwnership

-----------------------------------------------------------------------------
(* The publisher's steps.                                                  *)

\* Claiming intents keeps the invariant: a PENDING intent has attempts left.
LEMMA ClaimDueEventsKeepsOwnership ==
    ASSUME OwnershipInvariant, NEW p \in Publishers, ClaimDueEvents(p)
    PROVE  OwnershipInvariant'
<1> USE DEF OwnershipInvariant
<1>1. PICK S \in SUBSET {e \in Events : outbox[e].status = "PENDING"} :
        /\ \A e \in S : UnusedClaimTokens(e) # {}
        /\ outbox' = [e \in Events |->
                        IF e \in S THEN ClaimedIntent(e) ELSE outbox[e]]
        /\ publisher' = [publisher EXCEPT ![p] =
                            {[event |-> e, token |-> FreshClaimToken(e),
                              attempts |-> outbox[e].attempts,
                              outcome |-> "claimed"] : e \in S}]
        /\ UNCHANGED <<job, queue, worker, disruptions>>
    BY DEF ClaimDueEvents
<1>2. \A e \in S : FreshClaimToken(e) \in Tokens
    BY <1>1 DEF FreshClaimToken, UnusedClaimTokens
<1>3. \A e \in S : /\ ClaimedIntent(e) \in DispatchIntent
                   /\ ClaimedIntent(e).attempts = outbox[e].attempts
    BY ZenonT(30), <1>2 DEF ClaimedIntent, DispatchIntent, IntentStatus, TypeOK
<1>4. outbox' \in [Events -> DispatchIntent]
    BY <1>1, <1>3 DEF TypeOK
<1>5. ASSUME NEW c \in publisher'[p]
      PROVE  c \in ClaimedEvent /\ c.attempts < OutboxMaxAttempts
  <2>1. PICK e \in S : c = [event |-> e, token |-> FreshClaimToken(e),
                            attempts |-> outbox[e].attempts,
                            outcome |-> "claimed"]
      BY <1>1, <1>5 DEF TypeOK
  <2>2. outbox[e].attempts \in 0 .. OutboxMaxAttempts
        /\ outbox[e].attempts < OutboxMaxAttempts
      BY DEF TypeOK, DispatchIntent, DispatchableHasAttempts
  <2> QED BY <1>2, <2>1, <2>2 DEF ClaimedEvent
<1>6. publisher' \in [Publishers -> SUBSET ClaimedEvent]
    BY <1>1, <1>5 DEF TypeOK
<1>7. TypeOK'
    BY <1>1, <1>4, <1>6 DEF TypeOK
<1>8. DispatchableHasAttempts'
    BY <1>1, <1>3, <1>5 DEF DispatchableHasAttempts, TypeOK
<1> QED BY <1>1, <1>7, <1>8, ReleasedRowsKeepOwnership DEF TypeOK

\* send_task keeps the invariant.
LEMMA DispatchKeepsOwnership ==
    ASSUME OwnershipInvariant, NEW p \in Publishers, NEW c \in publisher[p],
           NEW enqueued \in BOOLEAN, NEW outcome \in {"published", "refused"},
           Dispatch(p, c, enqueued, outcome)
    PROVE  OwnershipInvariant'
<1> USE DEF OwnershipInvariant
<1>1. c \in ClaimedEvent /\ ImportOf(c.event) \in Imports
    BY DEF TypeOK, ClaimedEvent, ImportOf, Events
<1>2. /\ [c EXCEPT !.outcome = outcome] \in ClaimedEvent
      /\ [c EXCEPT !.outcome = outcome].attempts = c.attempts
    BY <1>1 DEF ClaimedEvent
<1>3. /\ publisher' \in [Publishers -> SUBSET ClaimedEvent]
      /\ publisher'[p] = (publisher[p] \ {c}) \cup {[c EXCEPT !.outcome = outcome]}
      /\ \A q \in Publishers : q # p => publisher'[q] = publisher[q]
    BY <1>2 DEF Dispatch, TypeOK
<1>4. queue' \in [Imports -> [Retries -> Nat]]
  <2>1. 0 \in Retries
      BY DEF Retries, MaxRetries
  <2>2. Enqueue(queue, ImportOf(c.event), 0) \in [Imports -> [Retries -> Nat]]
      BY <1>1, <2>1, QueueTypes DEF TypeOK
  <2> QED BY <2>2 DEF Dispatch, TypeOK
<1>5. TypeOK'
    BY <1>3, <1>4 DEF TypeOK, Dispatch
<1>6. DispatchableHasAttempts'
    BY <1>2, <1>3 DEF DispatchableHasAttempts, Dispatch
<1> QED BY <1>5, <1>6, ReleasedRowsKeepOwnership DEF TypeOK, Dispatch

\* A publisher that forgets claims, whatever it does to the rows it holds.
LEMMA ForgettingClaims ==
    ASSUME OwnershipInvariant, NEW p \in Publishers, NEW S \in SUBSET publisher[p],
           publisher' = [publisher EXCEPT ![p] = S]
    PROVE  /\ publisher' \in [Publishers -> SUBSET ClaimedEvent]
           /\ \A q \in Publishers : publisher'[q] \subseteq publisher[q]
BY DEF OwnershipInvariant, TypeOK

\* Recording a publication keeps the invariant.
LEMMA RecordPublishSuccessKeepsOwnership ==
    ASSUME OwnershipInvariant, NEW p \in Publishers, RecordPublishSuccess(p)
    PROVE  OwnershipInvariant'
<1> USE DEF OwnershipInvariant
<1>1. PICK c \in Unrecorded(p) :
        /\ publisher' = [publisher EXCEPT ![p] = @ \ {c}]
        /\ outbox' = IF HoldsClaim(c.event, c.token)
                     THEN [outbox EXCEPT ![c.event].status = "PUBLISHED",
                                         ![c.event].token = NoToken]
                     ELSE outbox
        /\ UNCHANGED <<job, queue, worker, disruptions>>
    BY DEF RecordPublishSuccess
<1>2. /\ publisher' \in [Publishers -> SUBSET ClaimedEvent]
      /\ \A q \in Publishers : publisher'[q] \subseteq publisher[q]
    BY <1>1, ForgettingClaims DEF TypeOK
<1>3. c.event \in Events
    BY DEF Unrecorded, TypeOK, ClaimedEvent
<1>4. /\ outbox' \in [Events -> DispatchIntent]
      /\ \A e \in Events : outbox'[e].status \in {"PENDING", "PROCESSING"} =>
                            outbox'[e] = outbox[e]
    BY <1>1, <1>3 DEF TypeOK, DispatchIntent, IntentStatus
<1>5. TypeOK'
    BY <1>1, <1>2, <1>4 DEF TypeOK
<1>6. DispatchableHasAttempts'
    BY <1>2, <1>4 DEF DispatchableHasAttempts
<1> QED BY <1>1, <1>5, <1>6, ReleasedRowsKeepOwnership DEF TypeOK

\* The rows PublishFailureRow and RecoveredIntent leave.
LEMMA IntentRowTypes ==
    ASSUME NEW row \in DispatchIntent, NEW n \in 0 .. OutboxMaxAttempts
    PROVE  /\ PublishFailureRow(row, n) \in DispatchIntent
           /\ PublishFailureRow(row, n).attempts = n
           /\ PublishFailureRow(row, n).status =
                IF Exhausted(n) THEN "FAILED" ELSE "PENDING"
           /\ RecoveredIntent(row) \in DispatchIntent
           /\ RecoveredIntent(row).attempts = row.attempts
           /\ RecoveredIntent(row).status =
                IF Exhausted(row.attempts) THEN "FAILED" ELSE "PENDING"
<1>1. /\ PublishFailureRow(row, n) \in DispatchIntent
      /\ PublishFailureRow(row, n).attempts = n
      /\ PublishFailureRow(row, n).status =
           IF Exhausted(n) THEN "FAILED" ELSE "PENDING"
    BY DEF PublishFailureRow, DispatchIntent, IntentStatus
<1>2. /\ RecoveredIntent(row) \in DispatchIntent
      /\ RecoveredIntent(row).attempts = row.attempts
      /\ RecoveredIntent(row).status =
           IF Exhausted(row.attempts) THEN "FAILED" ELSE "PENDING"
    BY DEF RecoveredIntent, DispatchIntent, IntentStatus
<1> QED BY <1>1, <1>2

\* What an exhausted dispatch does to its import.
LEMMA FailPendingImportEffect ==
    ASSUME OwnershipInvariant, NEW i \in Imports
    PROVE  /\ FailPendingImport(i) \in ImportJob
           /\ FailPendingImport(i).status # "PENDING"
           /\ FailPendingImport(i) # job[i] =>
                /\ job[i].status = "PENDING"
                /\ FailPendingImport(i).status = "FAILED"
                /\ FailPendingImport(i).token = NoToken
                /\ FailPendingImport(i).attempts = job[i].attempts
<1>1. job[i] \in ImportJob /\ "never_started" \in Reasons
    BY DEF OwnershipInvariant, TypeOK, Reasons
<1>2. /\ FailRow(job[i], "never_started") \in ImportJob
      /\ FailRow(job[i], "never_started").status = "FAILED"
      /\ FailRow(job[i], "never_started").token = NoToken
      /\ FailRow(job[i], "never_started").attempts = job[i].attempts
    BY <1>1, FailRowEffect
<1> QED BY <1>1, <1>2 DEF FailPendingImport

\* Recording a failed publication keeps the invariant: only the last attempt makes
\* the count reach its limit, and then the intent is FAILED.
LEMMA RecordPublishFailureKeepsOwnership ==
    ASSUME OwnershipInvariant, NEW p \in Publishers, RecordPublishFailure(p)
    PROVE  OwnershipInvariant'
<1> USE DEF OwnershipInvariant
<1>1. PICK c \in Unrecorded(p) :
        /\ HoldsClaim(c.event, c.token) /\ Exhausted(c.attempts + 1) =>
             ~RowLocked(ImportOf(c.event))
        /\ publisher' = [publisher EXCEPT ![p] = @ \ {c}]
        /\ outbox' = IF HoldsClaim(c.event, c.token)
                     THEN [outbox EXCEPT
                             ![c.event] = PublishFailureRow(@, c.attempts + 1)]
                     ELSE outbox
        /\ job' = IF HoldsClaim(c.event, c.token) /\ Exhausted(c.attempts + 1)
                  THEN [job EXCEPT ![ImportOf(c.event)] =
                                       FailPendingImport(ImportOf(c.event))]
                  ELSE job
        /\ UNCHANGED <<queue, worker, disruptions>>
    BY DEF RecordPublishFailure
<1> DEFINE e == c.event
           i == ImportOf(e)
           n == c.attempts + 1
<1>2. c \in ClaimedEvent /\ e \in Events /\ i \in Imports
    BY DEF Unrecorded, TypeOK, ClaimedEvent, ImportOf, Events
<1>3. n \in 0 .. OutboxMaxAttempts
    BY <1>2 DEF DispatchableHasAttempts, Unrecorded, ClaimedEvent
<1> HIDE DEF e, i, n
<1>4. /\ publisher' \in [Publishers -> SUBSET ClaimedEvent]
      /\ \A q \in Publishers : publisher'[q] \subseteq publisher[q]
    BY <1>1, ForgettingClaims DEF TypeOK
<1>5. /\ PublishFailureRow(outbox[e], n) \in DispatchIntent
      /\ PublishFailureRow(outbox[e], n).attempts = n
      /\ Exhausted(n) => PublishFailureRow(outbox[e], n).status = "FAILED"
    BY <1>2, <1>3, IntentRowTypes DEF TypeOK
<1>6. outbox' = outbox \/ outbox' = [outbox EXCEPT ![e] = PublishFailureRow(outbox[e], n)]
    BY <1>1, <1>2 DEF e, n, TypeOK
<1>7. outbox' \in [Events -> DispatchIntent]
    BY <1>2, <1>5, <1>6 DEF TypeOK
<1>8. DispatchableHasAttempts'
    BY <1>2, <1>3, <1>4, <1>5, <1>6 DEF DispatchableHasAttempts, TypeOK, Exhausted
<1>9. job' = job \/ (job' = [job EXCEPT ![i] = FailPendingImport(i)] /\ ~RowLocked(i))
    BY <1>1 DEF e, i
<1>10. job' \in [Imports -> ImportJob]
    BY <1>2, <1>9, FailPendingImportEffect DEF TypeOK
<1>11. TypeOK'
    BY <1>1, <1>4, <1>7, <1>10 DEF TypeOK
<1>12. \A j \in Imports : job'[j] # job[j] =>
               /\ ~RowLocked(j)
               /\ job'[j].token = NoToken
               /\ job'[j].status # "PROCESSING"
               /\ job'[j].status = "PENDING" => job'[j].attempts < ImportMaxAttempts
    BY <1>2, <1>9, FailPendingImportEffect DEF TypeOK
<1> QED BY <1>1, <1>8, <1>10, <1>11, <1>12, ReleasedRowsKeepOwnership

\* The publisher dies, of an IndexError or otherwise.
LEMMA PublisherDeathKeepsOwnership ==
    ASSUME OwnershipInvariant, NEW p \in Publishers,
           PublisherIndexError(p) \/ PublisherCrash(p)
    PROVE  OwnershipInvariant'
<1> USE DEF OwnershipInvariant
<1>1. /\ publisher' = [publisher EXCEPT ![p] = {}]
      /\ UNCHANGED <<job, outbox, queue, worker>>
      /\ disruptions' \in 0 .. MaxDisruptions
    BY DEF PublisherIndexError, PublisherCrash, Disrupt, TypeOK
<1>2. /\ publisher' \in [Publishers -> SUBSET ClaimedEvent]
      /\ \A q \in Publishers : publisher'[q] \subseteq publisher[q]
    BY <1>1, ForgettingClaims
<1>3. TypeOK'
    BY <1>1, <1>2 DEF TypeOK
<1>4. DispatchableHasAttempts'
    BY <1>1, <1>2 DEF DispatchableHasAttempts
<1> QED BY <1>1, <1>3, <1>4, ReleasedRowsKeepOwnership DEF TypeOK

\* Recovering stale outbox claims keeps the invariant.
LEMMA RecoverStaleClaimsKeepsOwnership ==
    ASSUME OwnershipInvariant, NEW p \in Publishers, RecoverStaleClaims(p)
    PROVE  OwnershipInvariant'
<1> USE DEF OwnershipInvariant
<1>1. PICK S \in SUBSET {e \in Events : outbox[e].status = "PROCESSING"} :
        RecoverStaleClaimsOf(p, S)
    BY DEF RecoverStaleClaims
<1>2. /\ outbox' = [e \in Events |->
                      IF e \in S THEN RecoveredIntent(outbox[e]) ELSE outbox[e]]
      /\ job' = [i \in Imports |->
                   IF \E e \in S : ImportOf(e) = i /\ Exhausted(outbox[e].attempts)
                   THEN FailPendingImport(i)
                   ELSE job[i]]
      /\ UNCHANGED <<queue, publisher, worker>>
    BY <1>1 DEF RecoverStaleClaimsOf
<1>3. disruptions' \in 0 .. MaxDisruptions
    BY <1>1 DEF RecoverStaleClaimsOf, Disrupt, TypeOK
<1>4. \A e \in S : ~Exhausted(outbox[e].attempts)
    BY DEF DispatchableHasAttempts, Exhausted, TypeOK, DispatchIntent
<1>5. job' = job
    BY <1>2, <1>4 DEF TypeOK
<1>6. \A e \in S : /\ RecoveredIntent(outbox[e]) \in DispatchIntent
                   /\ RecoveredIntent(outbox[e]).attempts = outbox[e].attempts
    BY IntentRowTypes DEF TypeOK
<1>7. outbox' \in [Events -> DispatchIntent]
    BY <1>2, <1>6 DEF TypeOK
<1>8. TypeOK'
    BY <1>2, <1>3, <1>5, <1>7 DEF TypeOK
<1>9. DispatchableHasAttempts'
    BY <1>2, <1>6 DEF DispatchableHasAttempts, TypeOK
<1> QED BY <1>2, <1>5, <1>8, <1>9, ReleasedRowsKeepOwnership DEF TypeOK

-----------------------------------------------------------------------------
(* The worker's steps.                                                     *)

\* A delivery draws a token that no run and no row of the import has.
LEMMA ReceiveKeepsOwnership ==
    ASSUME OwnershipInvariant, NEW w \in Workers, Receive(w)
    PROVE  OwnershipInvariant'
<1> USE DEF OwnershipInvariant
<1>1. PICK i \in Imports, r \in Retries :
        /\ worker[w].pc = "idle"
        /\ queue[i][r] > 0
        /\ UnusedProcessingTokens(i) # {}
        /\ queue' = Dequeue(queue, i, r)
        /\ worker' = [worker EXCEPT ![w] =
                        [pc |-> "received", import |-> i, retries |-> r,
                         held |-> TRUE, token |-> FreshProcessingToken(i),
                         attempts |-> 0]]
        /\ UNCHANGED <<job, outbox, publisher, disruptions>>
    BY DEF Receive
<1> DEFINE t == FreshProcessingToken(i)
<1>2. t \in UnusedProcessingTokens(i)
    BY <1>1 DEF FreshProcessingToken, UnusedProcessingTokens
<1>3. /\ t \in Tokens
      /\ t # job[i].token
      /\ \A v \in Workers : worker[v].import = i => worker[v].token # t
    BY <1>2 DEF UnusedProcessingTokens
<1> HIDE DEF t
<1>4. /\ worker' \in [Workers -> TaskRun]
      /\ \A v \in Workers : v # w => worker'[v] = worker[v]
      /\ worker'[w].pc = "received"
      /\ worker'[w].import = i
      /\ worker'[w].token = t
    BY <1>1, <1>3 DEF TypeOK, TaskRun, WorkerPc, t
<1>5. queue' \in [Imports -> [Retries -> Nat]]
    BY <1>1, QueueTypes DEF TypeOK
<1>6. TypeOK'
    BY <1>1, <1>4, <1>5 DEF TypeOK
<1>7. RunsAreTyped'
    BY <1>3, <1>4 DEF RunsAreTyped
<1>8. DispatchableHasAttempts' /\ PendingIsClaimable'
    BY <1>1 DEF DispatchableHasAttempts, PendingIsClaimable
<1>9. LockProtectsRow'
    BY <1>1, <1>4 DEF LockProtectsRow, Claimable
<1>10. TokensAreFresh'
    BY <1>1, <1>3, <1>4 DEF TokensAreFresh
<1>11. OwnerKnowsAttempt'
    BY <1>1, <1>4 DEF OwnerKnowsAttempt, Owns, Owned
<1> QED BY <1>6, <1>7, <1>8, <1>9, <1>10, <1>11

\* A row lock is granted on a claimable row that nobody has locked.
LEMMA LockImportKeepsOwnership ==
    ASSUME OwnershipInvariant, NEW w \in Workers, LockImport(w)
    PROVE  OwnershipInvariant'
<1> USE DEF OwnershipInvariant
<1>1. PICK i \in Imports :
        /\ worker[w].pc = "received" /\ worker[w].import = i
        /\ Claimable(i)
        /\ ~RowLocked(i)
        /\ Goto(w, "locked")
        /\ UNCHANGED <<job, outbox, queue, publisher, disruptions>>
    BY DEF LockImport, At
<1>2. /\ worker' \in [Workers -> TaskRun]
      /\ \A v \in Workers : v # w => worker'[v] = worker[v]
      /\ worker'[w].pc = "locked"
      /\ worker'[w].import = i
      /\ worker'[w].token = worker[w].token
    BY <1>1, GotoEffect DEF WorkerPc
<1>3. TypeOK'
    BY <1>1, <1>2 DEF TypeOK
<1>4. RunsAreTyped'
    BY <1>1, <1>2 DEF RunsAreTyped
<1>5. DispatchableHasAttempts' /\ PendingIsClaimable'
    BY <1>1 DEF DispatchableHasAttempts, PendingIsClaimable
<1>6. LockProtectsRow'
    BY <1>1, <1>2 DEF LockProtectsRow, Claimable, RowLocked
<1>7. TokensAreFresh'
    BY <1>1, <1>2 DEF TokensAreFresh
<1>8. OwnerKnowsAttempt'
    BY <1>1, <1>2 DEF OwnerKnowsAttempt, Owns, Owned
<1> QED BY <1>3, <1>4, <1>5, <1>6, <1>7, <1>8

\* The run and the row a claim leaves.
LEMMA ClaimedRunEffect ==
    ASSUME OwnershipInvariant, NEW w \in Workers, NEW pc \in WorkerPc,
           worker[w].pc = "locked",
           worker' = [worker EXCEPT ![w] = ClaimedRun(w, pc)]
    PROVE  /\ worker' \in [Workers -> TaskRun]
           /\ \A v \in Workers : v # w => worker'[v] = worker[v]
           /\ worker'[w].pc = pc
           /\ worker'[w].import = worker[w].import
           /\ worker'[w].token = worker[w].token
           /\ worker'[w].retries = worker[w].retries
           /\ worker'[w].held = worker[w].held
           /\ worker'[w].attempts = job[worker[w].import].attempts + 1
<1> DEFINE n == job[worker[w].import].attempts + 1
<1>1. worker \in [Workers -> TaskRun] /\ worker[w] \in TaskRun
    BY DEF OwnershipInvariant, TypeOK
<1>2. n \in 0 .. ImportMaxAttempts
    BY DEF OwnershipInvariant, LockProtectsRow, Claimable, RunsAreTyped, TypeOK,
        ImportJob
<1>3. ClaimedRun(w, pc) = [worker[w] EXCEPT !.pc = pc, !.attempts = n]
    BY DEF ClaimedRun
<1> HIDE DEF n
<1>4. /\ ClaimedRun(w, pc) \in TaskRun
      /\ ClaimedRun(w, pc).pc = pc
      /\ ClaimedRun(w, pc).import = worker[w].import
      /\ ClaimedRun(w, pc).token = worker[w].token
      /\ ClaimedRun(w, pc).retries = worker[w].retries
      /\ ClaimedRun(w, pc).held = worker[w].held
      /\ ClaimedRun(w, pc).attempts = n
    BY <1>1, <1>2, <1>3 DEF TaskRun
<1> QED BY <1>1, <1>4 DEF n

\* The claim took effect, whether or not the worker heard so.
LEMMA ClaimKeepsOwnership ==
    ASSUME OwnershipInvariant, NEW w \in Workers,
           NEW pc \in {"working", "handling"},
           worker[w].pc = "locked",
           WriteRow(w, ClaimedRow(w)),
           worker' = [worker EXCEPT ![w] = ClaimedRun(w, pc)],
           UNCHANGED <<outbox, queue, publisher, disruptions>>
    PROVE  OwnershipInvariant'
<1> USE DEF OwnershipInvariant
<1> DEFINE i == worker[w].import
<1>1. /\ i \in Imports
      /\ worker[w].token \in Tokens
      /\ job[i] \in ImportJob
      /\ Claimable(i)
    BY DEF RunsAreTyped, TypeOK, LockProtectsRow
<1>2. /\ worker' \in [Workers -> TaskRun]
      /\ \A v \in Workers : v # w => worker'[v] = worker[v]
      /\ worker'[w].pc = pc
      /\ worker'[w].import = i
      /\ worker'[w].token = worker[w].token
      /\ worker'[w].attempts = job[i].attempts + 1
    BY ClaimedRunEffect DEF WorkerPc
<1>3. /\ ClaimedRow(w) \in ImportJob
      /\ ClaimedRow(w).status = "PROCESSING"
      /\ ClaimedRow(w).token = worker[w].token
      /\ ClaimedRow(w).attempts = job[i].attempts + 1
    BY <1>1, ClaimRowEffect DEF ClaimedRow, Claimable
<1>4. /\ job' \in [Imports -> ImportJob]
      /\ job'[i] = ClaimedRow(w)
      /\ \A j \in Imports : j # i => job'[j] = job[j]
    BY <1>1, <1>3 DEF WriteRow, TypeOK
<1> HIDE DEF i
<1>5. TypeOK'
    BY <1>2, <1>4 DEF TypeOK
<1>6. RunsAreTyped'
    BY <1>1, <1>2 DEF RunsAreTyped
<1>7. DispatchableHasAttempts' /\ PendingIsClaimable'
    BY <1>3, <1>4 DEF DispatchableHasAttempts, PendingIsClaimable
<1>8. LockProtectsRow'
    BY <1>2, <1>4 DEF LockProtectsRow, Claimable, RunsAreTyped, i
<1>9. TokensAreFresh'
    BY <1>2, <1>3, <1>4 DEF TokensAreFresh, RunsAreTyped, i
<1>10. OwnerKnowsAttempt'
    BY <1>1, <1>2, <1>3, <1>4 DEF OwnerKnowsAttempt, Owns, Owned, RunsAreTyped,
        TokensAreFresh, i
<1> QED BY <1>5, <1>6, <1>7, <1>8, <1>9, <1>10

\* A rolled back claim leaves a worker with a token that owns nothing.
LEMMA LoseClaimCommitKeepsOwnership ==
    ASSUME OwnershipInvariant, NEW w \in Workers, LoseClaimCommit(w)
    PROVE  OwnershipInvariant'
<1> USE DEF OwnershipInvariant
<1>1. /\ worker' \in [Workers -> TaskRun]
      /\ \A v \in Workers : v # w => worker'[v] = worker[v]
      /\ worker'[w].pc = "handling"
      /\ worker'[w].import = worker[w].import
      /\ worker'[w].token = worker[w].token
    BY ClaimedRunEffect DEF LoseClaimCommit, WorkerPc
<1>2. worker[w].pc = "locked" /\ UNCHANGED <<job, outbox, queue, publisher, disruptions>>
    BY DEF LoseClaimCommit
<1>3. TypeOK'
    BY <1>1, <1>2 DEF TypeOK
<1>4. RunsAreTyped'
    BY <1>1, <1>2 DEF RunsAreTyped
<1>5. DispatchableHasAttempts' /\ PendingIsClaimable'
    BY <1>2 DEF DispatchableHasAttempts, PendingIsClaimable
<1>6. LockProtectsRow'
    BY <1>1, <1>2 DEF LockProtectsRow, Claimable
<1>7. TokensAreFresh'
    BY <1>1, <1>2 DEF TokensAreFresh
<1>8. OwnerKnowsAttempt'
    BY <1>1, <1>2 DEF OwnerKnowsAttempt, Owns, Owned, TokensAreFresh
<1> QED BY <1>3, <1>4, <1>5, <1>6, <1>7, <1>8

\* The task ends, by acknowledgement or by a crash.
LEMMA EndOfTaskKeepsOwnership ==
    ASSUME OwnershipInvariant, NEW w \in Workers,
           worker' = [worker EXCEPT ![w] = IdleRun],
           queue' \in [Imports -> [Retries -> Nat]],
           disruptions' \in 0 .. MaxDisruptions,
           UNCHANGED <<job, outbox, publisher>>
    PROVE  OwnershipInvariant'
<1> USE DEF OwnershipInvariant
<1>1. /\ worker' \in [Workers -> TaskRun]
      /\ \A v \in Workers : v # w => worker'[v] = worker[v]
      /\ worker'[w].pc = "idle"
    BY DEF IdleRun, TypeOK, TaskRun, WorkerPc, Retries, MaxRetries
<1>2. TypeOK'
    BY <1>1 DEF TypeOK
<1>3. RunsAreTyped'
    BY <1>1 DEF RunsAreTyped
<1>4. DispatchableHasAttempts' /\ PendingIsClaimable'
    BY DEF DispatchableHasAttempts, PendingIsClaimable
<1>5. LockProtectsRow'
    BY <1>1 DEF LockProtectsRow, Claimable
<1>6. TokensAreFresh'
    BY <1>1 DEF TokensAreFresh
<1>7. OwnerKnowsAttempt'
    BY <1>1 DEF OwnerKnowsAttempt, Owns, Owned
<1> QED BY <1>2, <1>3, <1>4, <1>5, <1>6, <1>7

\* Returning a message keeps the queue typed.
LEMMA ReturnMessageTypes ==
    ASSUME OwnershipInvariant, NEW w \in Workers, worker[w].pc # "idle",
           ReturnMessage(w)
    PROVE  queue' \in [Imports -> [Retries -> Nat]]
<1>1. worker[w].import \in Imports /\ worker[w].retries \in Retries
    BY DEF OwnershipInvariant, RunsAreTyped, TypeOK, TaskRun
<1> QED BY <1>1, QueueTypes DEF ReturnMessage, OwnershipInvariant, TypeOK

\* A redelivery keeps the invariant.
LEMMA RedeliverKeepsOwnership ==
    ASSUME OwnershipInvariant, NEW w \in Workers, Redeliver(w)
    PROVE  OwnershipInvariant'
<1> USE DEF OwnershipInvariant
<1>1. /\ worker' \in [Workers -> TaskRun]
      /\ \A v \in Workers : v # w => worker'[v] = worker[v]
      /\ worker'[w].pc = worker[w].pc
      /\ worker'[w].import = worker[w].import
      /\ worker'[w].token = worker[w].token
      /\ worker'[w].attempts = worker[w].attempts
  <2>1. worker[w] \in TaskRun
      BY DEF TypeOK
  <2>2. [worker[w] EXCEPT !.held = FALSE] \in TaskRun
      BY <2>1 DEF TaskRun
  <2>3. worker' = [worker EXCEPT ![w] = [worker[w] EXCEPT !.held = FALSE]]
      BY DEF Redeliver
  <2> QED BY <2>1, <2>2, <2>3 DEF TypeOK, TaskRun
<1>2. queue' \in [Imports -> [Retries -> Nat]]
    BY ReturnMessageTypes DEF Redeliver
<1>3. disruptions' \in 0 .. MaxDisruptions /\ UNCHANGED <<job, outbox, publisher>>
    BY DEF Redeliver, Disrupt, TypeOK
<1>4. TypeOK'
    BY <1>1, <1>2, <1>3 DEF TypeOK
<1>5. RunsAreTyped'
    BY <1>1 DEF RunsAreTyped
<1>6. DispatchableHasAttempts' /\ PendingIsClaimable'
    BY <1>3 DEF DispatchableHasAttempts, PendingIsClaimable
<1>7. LockProtectsRow'
    BY <1>1, <1>3 DEF LockProtectsRow, Claimable
<1>8. TokensAreFresh'
    BY <1>1, <1>3 DEF TokensAreFresh
<1>9. OwnerKnowsAttempt'
    BY <1>1, <1>3 DEF OwnerKnowsAttempt, Owns, Owned
<1> QED BY <1>4, <1>5, <1>6, <1>7, <1>8, <1>9

\* The steps that only move a worker along.
LEMMA MovingOnKeepsOwnership ==
    ASSUME OwnershipInvariant, NEW w \in Workers,
           \/ SkipImport(w) \/ LoseDatabaseBeforeClaim(w) \/ FailBeforeClaim(w)
           \/ StopStaleWorker(w) \/ FailProcessing(w) \/ LoseDatabase(w)
           \/ LoseHandler(w) \/ RetryPublishFails(w)
    PROVE  OwnershipInvariant'
<1>1. PICK pc \in {"done", "retrying", "marking", "handling"} :
        /\ worker[w].pc # "idle"
        /\ pc \in {"handling", "marking"} => worker[w].pc = "working"
        /\ Goto(w, pc)
        /\ UNCHANGED <<job, outbox, queue, publisher, disruptions>>
  <2>1. CASE SkipImport(w)
      BY <2>1 DEF SkipImport, At
  <2>2. CASE LoseDatabaseBeforeClaim(w)
      BY <2>2 DEF LoseDatabaseBeforeClaim
  <2>3. CASE FailBeforeClaim(w)
      BY <2>3 DEF FailBeforeClaim
  <2>4. CASE StopStaleWorker(w)
      BY <2>4 DEF StopStaleWorker
  <2>5. CASE FailProcessing(w)
      BY <2>5 DEF FailProcessing
  <2>6. CASE LoseDatabase(w)
      BY <2>6 DEF LoseDatabase
  <2>7. CASE LoseHandler(w)
      BY <2>7 DEF LoseHandler
  <2>8. CASE RetryPublishFails(w)
      BY <2>8 DEF RetryPublishFails
  <2> QED BY <2>1, <2>2, <2>3, <2>4, <2>5, <2>6, <2>7, <2>8
<1>2. queue' \in [Imports -> [Retries -> Nat]]
    BY <1>1 DEF OwnershipInvariant, TypeOK
<1> QED BY <1>1, <1>2, GotoKeepsOwnership DEF WorkerPc

\* Celery's retry keeps the invariant.
LEMMA RetryTaskKeepsOwnership ==
    ASSUME OwnershipInvariant, NEW w \in Workers, RetryTask(w)
    PROVE  OwnershipInvariant'
<1>1. worker[w].import \in Imports /\ worker[w].retries \in Retries
    BY DEF OwnershipInvariant, RunsAreTyped, RetryTask, TypeOK, TaskRun
<1>2. worker[w].retries < MaxRetries => worker[w].retries + 1 \in Retries
    BY <1>1 DEF Retries, MaxRetries
<1>3. queue' \in [Imports -> [Retries -> Nat]]
    BY <1>1, <1>2, QueueTypes DEF RetryTask, OwnershipInvariant, TypeOK
<1> QED BY <1>3, GotoKeepsOwnership DEF RetryTask, WorkerPc

\* The steps in which a worker writes the row it owns.
LEMMA OwnedWriteKeepsOwnership ==
    ASSUME OwnershipInvariant, NEW w \in Workers,
           \/ CompleteImport(w) \/ CompleteCommitApplied(w) \/ MarkFailed(w)
           \/ HandleLastAttempt(w) \/ RequeueForRetry(w) \/ RequeueCommitApplied(w)
    PROVE  OwnershipInvariant'
<1> USE DEF OwnershipInvariant
<1> DEFINE row == job[worker[w].import]
<1>1. worker[w].pc \in {"working", "handling", "marking"}
    BY DEF CompleteImport, CompleteCommitApplied, MarkFailed, HandleLastAttempt,
        RequeueForRetry, RequeueCommitApplied
<1>2. row \in ImportJob
    BY <1>1 DEF RunsAreTyped, TypeOK
<1>3. UNCHANGED <<outbox, queue, publisher, disruptions>>
    BY DEF CompleteImport, CompleteCommitApplied, MarkFailed, HandleLastAttempt,
        RequeueForRetry, RequeueCommitApplied, MarkFailedWith
<1>4. CASE CompleteImport(w) \/ CompleteCommitApplied(w)
  <2>1. PICK pc \in {"done", "handling"} :
            Goto(w, pc) /\ Owns(w) /\ WriteRow(w, CompleteRow(row))
      BY <1>4 DEF CompleteImport, CompleteCommitApplied
  <2> QED BY <1>1, <1>2, <1>3, <2>1, CompleteRowEffect, WriteOwnedRowKeepsOwnership
        DEF WorkerPc
<1>5. CASE MarkFailed(w) \/ HandleLastAttempt(w)
  <2>1. PICK why \in Reasons : MarkFailedWith(w, why)
      BY <1>5 DEF MarkFailed, HandleLastAttempt, Reasons
  <2>2. CASE Owns(w)
    <3>1. Goto(w, "done") /\ WriteRow(w, FailRow(row, why))
        BY <2>1, <2>2 DEF MarkFailedWith
    <3> QED BY <1>1, <1>2, <1>3, <2>2, <3>1, FailRowEffect,
            WriteOwnedRowKeepsOwnership DEF WorkerPc
  <2>3. CASE ~Owns(w)
    <3>1. Goto(w, "done") /\ UNCHANGED job
        BY <2>1, <2>3 DEF MarkFailedWith
    <3>2. queue' \in [Imports -> [Retries -> Nat]]
        BY <1>3 DEF TypeOK
    <3> QED BY <1>1, <1>3, <3>1, <3>2, GotoKeepsOwnership DEF WorkerPc
  <2> QED BY <2>2, <2>3
<1>6. CASE RequeueForRetry(w) \/ RequeueCommitApplied(w)
  <2>1. worker[w].pc = "handling" /\ worker[w].attempts < ImportMaxAttempts
      BY <1>6 DEF RequeueForRetry, RequeueCommitApplied
  <2>2. CASE Owns(w)
    <3>1. PICK pc \in {"retrying", "done"} :
            Goto(w, pc) /\ WriteRow(w, RequeueRow(row))
        BY <1>6, <2>2 DEF RequeueForRetry, RequeueCommitApplied
    <3>2. row.attempts < ImportMaxAttempts
        BY <2>1, <2>2 DEF OwnerKnowsAttempt
    <3> QED BY <1>1, <1>2, <1>3, <2>2, <3>1, <3>2, RequeueRowEffect,
            WriteOwnedRowKeepsOwnership DEF WorkerPc
  <2>3. CASE ~Owns(w)
    <3>1. Goto(w, "done") /\ UNCHANGED job
        BY <1>6, <2>3 DEF RequeueForRetry, RequeueCommitApplied
    <3>2. queue' \in [Imports -> [Retries -> Nat]]
        BY <1>3 DEF TypeOK
    <3> QED BY <1>1, <1>3, <3>1, <3>2, GotoKeepsOwnership DEF WorkerPc
  <2> QED BY <2>2, <2>3
<1> QED BY <1>4, <1>5, <1>6

-----------------------------------------------------------------------------
(* The watchdog's step, and all of them together.                          *)

\* What the watchdog leaves of a PROCESSING row.
LEMMA RecoveredRowEffect ==
    ASSUME NEW row \in ImportJob
    PROVE  /\ RecoveredRow(row) \in ImportJob
           /\ RecoveredRow(row).token = NoToken
           /\ RecoveredRow(row).attempts = row.attempts
           /\ RecoveredRow(row).status =
                IF row.attempts >= ImportMaxAttempts THEN "FAILED" ELSE "PENDING"
<1>1. row.attempts \in 0 .. ImportMaxAttempts
    BY DEF ImportJob
<1>2. "max_attempts" \in Reasons
    BY DEF Reasons
<1> QED BY <1>1, <1>2, FailRowEffect, RequeueRowEffect DEF RecoveredRow

\* The watchdog keeps the invariant: it requeues only rows with attempts left.
LEMMA RecoverStaleImportsKeepsOwnership ==
    ASSUME OwnershipInvariant, RecoverStaleImports
    PROVE  OwnershipInvariant'
<1> USE DEF OwnershipInvariant
<1>1. PICK S \in SUBSET Processing : RecoverStaleImportsOf(S)
    BY DEF RecoverStaleImports
<1>2. /\ job' = [i \in Imports |->
                   IF i \in S THEN RecoveredRow(job[i]) ELSE job[i]]
      /\ outbox' = [e \in Events |->
                      IF e \in ReplacementIntents(S) THEN PendingIntent
                      ELSE outbox[e]]
      /\ UNCHANGED <<queue, publisher, worker, disruptions>>
    BY <1>1 DEF RecoverStaleImportsOf
<1>3. PendingIntent \in DispatchIntent /\ PendingIntent.attempts = 0
    BY DEF PendingIntent, NoIntent, DispatchIntent, IntentStatus
<1>4. \A i \in Imports : job[i] \in ImportJob /\ job[i].attempts \in 0 .. ImportMaxAttempts
    BY DEF TypeOK, ImportJob
<1>5. outbox' \in [Events -> DispatchIntent]
    BY <1>2, <1>3 DEF TypeOK
<1>6. job' \in [Imports -> ImportJob]
    BY <1>2, <1>4, RecoveredRowEffect
<1>7. TypeOK'
    BY <1>2, <1>5, <1>6 DEF TypeOK
<1>8. DispatchableHasAttempts'
    BY <1>2, <1>3 DEF DispatchableHasAttempts, TypeOK
<1>9. \A i \in S : ~RowLocked(i)
    BY DEF Processing, RowLocked, LockProtectsRow, Claimable
<1>10. \A i \in Imports : job'[i] # job[i] =>
               /\ ~RowLocked(i)
               /\ job'[i].token = NoToken
               /\ job'[i].status # "PROCESSING"
               /\ job'[i].status = "PENDING" => job'[i].attempts < ImportMaxAttempts
    BY <1>2, <1>4, <1>9, RecoveredRowEffect
<1> QED BY <1>2, <1>6, <1>7, <1>8, <1>10, ReleasedRowsKeepOwnership

\* The invariant is inductive.
LEMMA OwnershipNext == OwnershipInvariant /\ [Next]_vars => OwnershipInvariant'
<1> SUFFICES ASSUME OwnershipInvariant, [Next]_vars PROVE OwnershipInvariant'
    OBVIOUS
<1>1. ASSUME NEW i \in Imports, CreateImport(i) PROVE OwnershipInvariant'
    BY <1>1, CreateImportKeepsOwnership
<1>2. ASSUME NEW p \in Publishers, PublisherStep(p) \/ PublisherCrash(p)
      PROVE  OwnershipInvariant'
  <2>1. CASE ClaimDueEvents(p)
      BY <2>1, ClaimDueEventsKeepsOwnership
  <2>2. CASE DispatchNext(p)
    <3>1. PICK c \in publisher[p], enqueued \in BOOLEAN,
               outcome \in {"published", "refused"} : Dispatch(p, c, enqueued, outcome)
        BY <2>2 DEF DispatchNext, DispatchAccepted, DispatchRefused,
            DispatchConfirmLost
    <3> QED BY <3>1, DispatchKeepsOwnership
  <2>3. CASE RecordOutcome(p)
      BY <2>3, RecordPublishSuccessKeepsOwnership,
        RecordPublishFailureKeepsOwnership, PublisherDeathKeepsOwnership
        DEF RecordOutcome
  <2>4. CASE RecoverStaleClaims(p)
      BY <2>4, RecoverStaleClaimsKeepsOwnership
  <2>5. CASE PublisherCrash(p)
      BY <2>5, PublisherDeathKeepsOwnership
  <2> QED BY <1>2, <2>1, <2>2, <2>3, <2>4, <2>5 DEF PublisherStep
<1>3. ASSUME NEW w \in Workers, TaskStep(w) PROVE OwnershipInvariant'
  <2>1. CASE LockImport(w)
      BY <2>1, LockImportKeepsOwnership
  <2>2. CASE CommitClaim(w) \/ ClaimCommitApplied(w)
      BY <2>2, ClaimKeepsOwnership DEF CommitClaim, ClaimCommitApplied
  <2>3. CASE LoseClaimCommit(w)
      BY <2>3, LoseClaimCommitKeepsOwnership
  <2>4. CASE Acknowledge(w)
      BY <2>4, EndOfTaskKeepsOwnership
        DEF Acknowledge, OwnershipInvariant, TypeOK
  <2> QED BY <1>3, <2>1, <2>2, <2>3, <2>4, MovingOnKeepsOwnership,
        RetryTaskKeepsOwnership, OwnedWriteKeepsOwnership
        DEF TaskStep, ClaimStep, ProcessStep, HandlerStep, TaskEndStep
<1>4. ASSUME NEW w \in Workers, WorkerCrash(w) PROVE OwnershipInvariant'
  <2>1. queue' \in [Imports -> [Retries -> Nat]]
      BY <1>4, ReturnMessageTypes DEF WorkerCrash
  <2>2. disruptions' \in 0 .. MaxDisruptions
      BY <1>4 DEF WorkerCrash, Disrupt, OwnershipInvariant, TypeOK
  <2> QED BY <1>4, <2>1, <2>2, EndOfTaskKeepsOwnership DEF WorkerCrash
<1>5. CASE UNCHANGED vars
    BY <1>5 DEF vars, OwnershipInvariant, TypeOK, RunsAreTyped,
        DispatchableHasAttempts, LockProtectsRow, TokensAreFresh,
        OwnerKnowsAttempt, PendingIsClaimable, Claimable, Owns, Owned
<1> QED BY <1>1, <1>2, <1>3, <1>4, <1>5, ReceiveKeepsOwnership,
        RedeliverKeepsOwnership, RecoverStaleImportsKeepsOwnership
        DEF Next, Quiescent

\* In every reachable state of the pipeline, rows, queue and processes have their
\* types, a locked row stays claimable, tokens of runs are distinct, the owner of
\* an import knows its attempt, and a PENDING import has an attempt left.
THEOREM Ownership == Spec => []OwnershipInvariant
BY OwnershipInit, OwnershipNext, PTL DEF Spec

\* Every table, queue and process of the pipeline holds values of its type; in
\* particular neither attempt_count column exceeds its configured limit.
THEOREM TypeCorrectness == Spec => []TypeOK
<1>1. OwnershipInvariant => TypeOK
    BY DEF OwnershipInvariant
<1> QED BY <1>1, Ownership, PTL

\* A PENDING import always has an attempt left for its next delivery to claim:
\* neither a worker's requeue nor the watchdog's leaves it beyond the limit.
THEOREM PendingImportsAreClaimable == Spec => []PendingIsClaimable
<1>1. OwnershipInvariant => PendingIsClaimable
    BY DEF OwnershipInvariant
<1> QED BY <1>1, Ownership, PTL
=============================================================================
