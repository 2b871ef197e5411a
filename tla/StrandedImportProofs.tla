------------------------ MODULE StrandedImportProofs ------------------------
(***************************************************************************)
(* No import is stranded in PENDING under the faults the code survives.    *)
(***************************************************************************)
EXTENDS ImportLifecycleProofs

USE ProcessAssumption, SettingsAssumption

-----------------------------------------------------------------------------
(* Attempts, messages and what carries an import.                          *)

\* attempt_count never decreases.
LEMMA AttemptsGrow ==
    ASSUME OwnershipInvariant, UnsubmittedHasNoAttempts, RowChange,
           OwnershipInvariant'
    PROVE  /\ \A i \in Imports : job[i].attempts <= job'[i].attempts
           /\ UnsubmittedHasNoAttempts'
<1>1. \A i \in Imports : /\ job[i] \in ImportJob /\ job[i].attempts \in Nat
                         /\ job'[i] \in ImportJob /\ job'[i].attempts \in Nat
    BY DEF OwnershipInvariant, TypeOK, ImportJob
<1>2. CASE job' = job
    BY <1>1, <1>2 DEF UnsubmittedHasNoAttempts
<1>3. ASSUME NEW i \in Imports, job[i].status = "NONE", job' = [job EXCEPT ![i] = NewJob]
      PROVE  /\ \A j \in Imports : job[j].attempts <= job'[j].attempts
             /\ UnsubmittedHasNoAttempts'
    BY <1>1, <1>3 DEF UnsubmittedHasNoAttempts, NewJob, NoJob, OwnershipInvariant, TypeOK
<1>4. ASSUME NEW w \in Workers, worker[w].pc = "locked", WriteRow(w, ClaimedRow(w))
      PROVE  /\ \A j \in Imports : job[j].attempts <= job'[j].attempts
             /\ UnsubmittedHasNoAttempts'
  <2>1. worker[w].import \in Imports /\ worker[w].token \in Tokens
      BY <1>4 DEF OwnershipInvariant, RunsAreTyped
  <2>2. /\ ClaimedRow(w).attempts = job[worker[w].import].attempts + 1
        /\ ClaimedRow(w).status = "PROCESSING"
      BY <1>1, <2>1, ClaimRowEffect DEF ClaimedRow
  <2>3. \A j \in Imports : job'[j] = IF j = worker[w].import THEN ClaimedRow(w) ELSE job[j]
      BY <1>4, <2>1 DEF WriteRow, OwnershipInvariant, TypeOK
  <2> QED BY <1>1, <2>1, <2>2, <2>3 DEF UnsubmittedHasNoAttempts
<1>5. ASSUME NEW w \in Workers, worker[w].pc = "working",
             WriteRow(w, CompleteRow(job[worker[w].import]))
      PROVE  /\ \A j \in Imports : job[j].attempts <= job'[j].attempts
             /\ UnsubmittedHasNoAttempts'
  <2> DEFINE i == worker[w].import
  <2>1. i \in Imports
      BY <1>5 DEF OwnershipInvariant, RunsAreTyped
  <2>2. CompleteRow(job[i]).attempts = job[i].attempts /\ CompleteRow(job[i]).status # "NONE"
      BY <1>1, <2>1, CompleteRowEffect
  <2>3. \A j \in Imports : job'[j] = IF j = i THEN CompleteRow(job[i]) ELSE job[j]
      BY <1>5, <2>1 DEF WriteRow, OwnershipInvariant, TypeOK
  <2> QED BY <1>1, <2>1, <2>2, <2>3 DEF UnsubmittedHasNoAttempts
<1>6. CASE AttemptsEnd
    BY <1>1, <1>6 DEF AttemptsEnd, UnsubmittedHasNoAttempts
<1> QED BY <1>2, <1>3, <1>4, <1>5, <1>6 DEF RowChange

\* Enqueue adds one message of one kind.
LEMMA EnqueueEffect ==
    ASSUME NEW q \in [Imports -> [Retries -> Nat]],
           NEW i \in Imports, NEW r \in Retries
    PROVE  \A j \in Imports, s \in Retries :
             Enqueue(q, i, r)[j][s] = IF j = i /\ s = r THEN q[i][r] + 1 ELSE q[j][s]
BY DEF Enqueue

\* Dequeue removes one message of one kind.
LEMMA DequeueEffect ==
    ASSUME NEW q \in [Imports -> [Retries -> Nat]],
           NEW i \in Imports, NEW r \in Retries
    PROVE  \A j \in Imports, s \in Retries :
             Dequeue(q, i, r)[j][s] = IF j = i /\ s = r THEN q[i][r] - 1 ELSE q[j][s]
BY DEF Dequeue

\* A step that leaves the workers alone and at most adds first deliveries.
LEMMA WorkersUntouched ==
    ASSUME OwnershipInvariant, OwnershipInvariant',
           RetriesFollowAttempts, MessagesAreHeld,
           worker' = worker,
           \A i \in Imports : job[i].attempts <= job'[i].attempts,
           \A i \in Imports, r \in Retries : r # 0 => queue'[i][r] = queue[i][r]
    PROVE  RetriesFollowAttempts' /\ MessagesAreHeld'
<1>1. \A i \in Imports : job[i].attempts \in Nat /\ job'[i].attempts \in Nat
    BY DEF OwnershipInvariant, TypeOK, ImportJob
<1>2. \A w \in Workers : worker[w].retries \in Nat /\ worker[w].attempts \in Nat
    BY DEF OwnershipInvariant, TypeOK, TaskRun, Retries, MaxRetries
<1>3. \A i \in Imports, r \in Retries : queue'[i][r] > 0 => r <= job'[i].attempts
    BY <1>1 DEF RetriesFollowAttempts, Retries, MaxRetries
<1>4. \A w \in Workers : worker[w].pc # "idle" => worker[w].import \in Imports
    BY DEF OwnershipInvariant, RunsAreTyped
<1>5. RetriesFollowAttempts'
    BY <1>1, <1>2, <1>3, <1>4 DEF RetriesFollowAttempts
<1> QED BY <1>5 DEF MessagesAreHeld

\* Such a step keeps every PENDING import carried if it forgets no intent.
LEMMA IntentsKept ==
    ASSUME CarriedInvariant, OwnershipInvariant',
           worker' = worker,
           \A i \in Imports, r \in Retries : queue[i][r] <= queue'[i][r],
           \A i \in Imports : job'[i].status = "PENDING" => job[i].status = "PENDING",
           \A i \in Imports, s \in Slots :
               Undelivered(<<i, s>>) =>
                   \/ Undelivered(<<i, s>>)'
                   \/ job'[i].status # "PENDING"
                   \/ queue'[i][0] > 0
    PROVE  PendingIsCarried'
<1> SUFFICES ASSUME NEW i \in Imports, job'[i].status = "PENDING"
             PROVE  (\E s \in Slots : Undelivered(<<i, s>>)') \/ WaitingForWorker(i)'
    BY DEF PendingIsCarried
<1>1. 0 \in Retries
    BY DEF Retries, MaxRetries
<1>2. \A r \in Retries : queue[i][r] \in Nat /\ queue'[i][r] \in Nat
    BY DEF CarriedInvariant, OwnershipInvariant, TypeOK
<1>3. CASE WaitingForWorker(i)
    BY <1>2, <1>3 DEF WaitingForWorker
<1>4. CASE \E s \in Slots : Undelivered(<<i, s>>)
    BY <1>1, <1>4 DEF WaitingForWorker
<1> QED BY <1>3, <1>4 DEF CarriedInvariant, PendingIsCarried

-----------------------------------------------------------------------------
(* The publisher's steps.                                                  *)

\* An intent whose row is untouched stays undelivered as long as no publisher
\* learns of a new success.
LEMMA UndeliveredKept ==
    ASSUME NEW e \in Events, Undelivered(e), outbox'[e] = outbox[e],
           \A p \in Publishers : \A c \in publisher'[p] :
               c.event = e /\ c.outcome = "published" => c \in publisher[p]
    PROVE  Undelivered(e)'
BY DEF Undelivered

\* An import and a slot name an intent of that import.
LEMMA SlotEvents == \A i \in Imports, s \in Slots :
    <<i, s>> \in Events /\ ImportOf(<<i, s>>) = i
BY DEF Events, ImportOf

\* A claimed intent is still undelivered: its token is new, so no publisher has
\* sent it under that token.
LEMMA ClaimDueEventsCarries ==
    ASSUME CarriedInvariant, OwnershipInvariant', NEW p \in Publishers,
           ClaimDueEvents(p)
    PROVE  PendingIsCarried'
<1> USE DEF CarriedInvariant, OwnershipInvariant
<1>1. PICK S \in SUBSET {e \in Events : outbox[e].status = "PENDING"} :
        /\ \A e \in S : UnusedClaimTokens(e) # {}
        /\ outbox' = [e \in Events |->
                        IF e \in S THEN ClaimedIntent(e) ELSE outbox[e]]
        /\ publisher' = [publisher EXCEPT ![p] =
                            {[event |-> e, token |-> FreshClaimToken(e),
                              attempts |-> outbox[e].attempts,
                              outcome |-> "claimed"] : e \in S}]
        /\ UNCHANGED <<job, queue, worker, disruptions>>
    BY DEF ClaimDueEvents
<1>2. /\ \A c \in publisher'[p] : c.outcome = "claimed"
      /\ \A q \in Publishers : q # p => publisher'[q] = publisher[q]
    BY <1>1 DEF TypeOK
<1>3. ASSUME NEW e \in S PROVE Undelivered(e)'
  <2>1. FreshClaimToken(e) \in UnusedClaimTokens(e)
      BY <1>1 DEF FreshClaimToken, UnusedClaimTokens
  <2>2. \A q \in Publishers : \A c \in publisher[q] :
            c.event = e => c.token # FreshClaimToken(e)
      BY <2>1 DEF UnusedClaimTokens
  <2>3. outbox'[e] = ClaimedIntent(e) /\ outbox[e] \in DispatchIntent
      BY <1>1 DEF TypeOK
  <2>4. /\ ClaimedIntent(e).status = "PROCESSING"
        /\ ClaimedIntent(e).token = FreshClaimToken(e)
      BY <2>3 DEF ClaimedIntent, DispatchIntent
  <2> QED BY <1>2, <2>2, <2>3, <2>4 DEF Undelivered
<1>4. ASSUME NEW e \in Events, Undelivered(e) PROVE Undelivered(e)'
  <2>1. CASE e \in S
      BY <1>3, <2>1
  <2>2. CASE e \notin S
      BY <1>1, <1>2, <1>4, <2>2, UndeliveredKept
  <2> QED BY <2>1, <2>2
<1>5. \A i \in Imports, r \in Retries : queue[i][r] <= queue'[i][r]
    BY <1>1 DEF TypeOK
<1> QED BY <1>1, <1>4, <1>5, SlotEvents, IntentsKept

\* A message that was sent replaces its intent as what carries the import.
LEMMA DispatchCarries ==
    ASSUME CarriedInvariant, OwnershipInvariant', NEW p \in Publishers,
           NEW c \in publisher[p], NEW enqueued \in BOOLEAN,
           NEW outcome \in {"published", "refused"},
           outcome = "published" => enqueued,
           Dispatch(p, c, enqueued, outcome)
    PROVE  /\ PendingIsCarried'
           /\ \A i \in Imports, r \in Retries : r # 0 => queue'[i][r] = queue[i][r]
<1> USE DEF CarriedInvariant, OwnershipInvariant
<1> DEFINE d == [c EXCEPT !.outcome = outcome]
           i == ImportOf(c.event)
<1>1. c \in ClaimedEvent /\ c.event \in Events /\ i \in Imports
    BY DEF TypeOK, ClaimedEvent, ImportOf, Events
<1>2. d.event = c.event /\ d.outcome = outcome
    BY <1>1 DEF ClaimedEvent
<1>3. 0 \in Retries
    BY DEF Retries, MaxRetries
<1> HIDE DEF d, i
<1>4. /\ publisher'[p] = (publisher[p] \ {c}) \cup {d}
      /\ \A q \in Publishers : q # p => publisher'[q] = publisher[q]
      /\ queue' = IF enqueued THEN Enqueue(queue, i, 0) ELSE queue
      /\ UNCHANGED <<job, outbox, worker>>
    BY DEF Dispatch, TypeOK, d, i
<1>5. \A j \in Imports, r \in Retries : queue[j][r] \in Nat
    BY DEF TypeOK
<1>6. /\ \A j \in Imports, r \in Retries : queue[j][r] <= queue'[j][r]
      /\ \A j \in Imports, r \in Retries : r # 0 => queue'[j][r] = queue[j][r]
      /\ enqueued => queue'[i][0] > 0
  <2>1. CASE enqueued
    <3>1. \A j \in Imports, r \in Retries :
            queue'[j][r] = IF j = i /\ r = 0 THEN queue[i][0] + 1 ELSE queue[j][r]
      <4>1. queue' = Enqueue(queue, i, 0)
          BY <1>4, <2>1
      <4>2. queue \in [Imports -> [Retries -> Nat]]
          BY DEF TypeOK
      <4> QED BY <1>1, <1>3, <4>1, <4>2, EnqueueEffect
    <3> QED BY <1>1, <1>3, <1>5, <3>1
  <2>2. CASE ~enqueued
      BY <1>4, <1>5, <2>2
  <2> QED BY <2>1, <2>2
<1>7. ASSUME NEW e \in Events, Undelivered(e)
      PROVE  Undelivered(e)' \/ queue'[ImportOf(e)][0] > 0
  <2>1. CASE e = c.event /\ enqueued
      BY <1>6, <2>1 DEF i
  <2>2. CASE ~(e = c.event /\ enqueued)
    <3>1. \A q \in Publishers : \A b \in publisher'[q] :
             b.event = e /\ b.outcome = "published" => b \in publisher[q]
        BY <1>2, <1>4, <2>2
    <3> QED BY <1>4, <1>7, <3>1, UndeliveredKept
  <2> QED BY <2>1, <2>2
<1>8. PendingIsCarried'
    BY <1>4, <1>6, <1>7, SlotEvents, IntentsKept
<1> QED BY <1>6, <1>8

\* A PUBLISHED intent was already delivered.
LEMMA RecordPublishSuccessCarries ==
    ASSUME CarriedInvariant, OwnershipInvariant', NEW p \in Publishers,
           RecordPublishSuccess(p)
    PROVE  PendingIsCarried'
<1> USE DEF CarriedInvariant, OwnershipInvariant
<1>1. PICK c \in Unrecorded(p) :
        /\ c.outcome = "published"
        /\ publisher' = [publisher EXCEPT ![p] = @ \ {c}]
        /\ outbox' = IF HoldsClaim(c.event, c.token)
                     THEN [outbox EXCEPT ![c.event].status = "PUBLISHED",
                                         ![c.event].token = NoToken]
                     ELSE outbox
        /\ UNCHANGED <<job, queue, worker, disruptions>>
    BY DEF RecordPublishSuccess
<1>2. c \in publisher[p] /\ c.event \in Events
    BY DEF Unrecorded, TypeOK, ClaimedEvent
<1>3. \A q \in Publishers : publisher'[q] \subseteq publisher[q]
    BY <1>1 DEF TypeOK
<1>4. HoldsClaim(c.event, c.token) => ~Undelivered(c.event)
    BY <1>1, <1>2 DEF HoldsClaim, Undelivered
<1>5. ASSUME NEW e \in Events, Undelivered(e) PROVE Undelivered(e)'
  <2>1. outbox'[e] = outbox[e]
      BY <1>1, <1>2, <1>4, <1>5 DEF TypeOK
  <2> QED BY <1>3, <1>5, <2>1, UndeliveredKept
<1>6. \A i \in Imports, r \in Retries : queue[i][r] <= queue'[i][r]
    BY <1>1 DEF TypeOK
<1> QED BY <1>1, <1>5, <1>6, SlotEvents, IntentsKept

\* A failed publication is tried again, or its import is no longer PENDING.
LEMMA RecordPublishFailureCarries ==
    ASSUME CarriedInvariant, OwnershipInvariant', NEW p \in Publishers,
           RecordPublishFailure(p)
    PROVE  PendingIsCarried'
<1> USE DEF CarriedInvariant, OwnershipInvariant
<1>1. PICK c \in Unrecorded(p) :
        /\ publisher' = [publisher EXCEPT ![p] = @ \ {c}]
        /\ outbox' = IF HoldsClaim(c.event, c.token)
                     THEN [outbox EXCEPT
                             ![c.event] = PublishFailureRow(@, c.attempts + 1)]
                     ELSE outbox
        /\ job' = IF HoldsClaim(c.event, c.token) /\ Exhausted(c.attempts + 1)
                  THEN [job EXCEPT ![ImportOf(c.event)] =
                                       FailPendingImport(ImportOf(c.event))]
                  ELSE job
        /\ UNCHANGED <<queue, worker, disruptions>>
    BY DEF RecordPublishFailure
<1> DEFINE i == ImportOf(c.event)
           n == c.attempts + 1
<1>2. c \in ClaimedEvent /\ c.event \in Events /\ i \in Imports
    BY DEF Unrecorded, TypeOK, ClaimedEvent, ImportOf, Events
<1>3. n \in 0 .. OutboxMaxAttempts
    BY <1>2 DEF DispatchableHasAttempts, Unrecorded, ClaimedEvent
<1>4. PublishFailureRow(outbox[c.event], n).status =
        IF Exhausted(n) THEN "FAILED" ELSE "PENDING"
    BY <1>2, <1>3, IntentRowTypes DEF TypeOK
<1>5. \A q \in Publishers : publisher'[q] \subseteq publisher[q]
    BY <1>1 DEF TypeOK
<1>6. /\ \A j \in Imports : job'[j].status = "PENDING" => job[j].status = "PENDING"
      /\ HoldsClaim(c.event, c.token) /\ Exhausted(n) => job'[i].status # "PENDING"
    BY <1>1, <1>2, FailPendingImportEffect DEF TypeOK
<1> HIDE DEF i, n
<1>7. ASSUME NEW e \in Events, Undelivered(e)
      PROVE  Undelivered(e)' \/ job'[ImportOf(e)].status # "PENDING"
  <2>1. CASE e = c.event /\ HoldsClaim(c.event, c.token)
    <3>1. outbox'[e].status = IF Exhausted(n) THEN "FAILED" ELSE "PENDING"
        BY <1>1, <1>2, <1>4, <2>1 DEF TypeOK, n
    <3> QED BY <1>6, <2>1, <3>1 DEF Undelivered, i
  <2>2. CASE ~(e = c.event /\ HoldsClaim(c.event, c.token))
    <3>1. outbox'[e] = outbox[e]
        BY <1>1, <1>2, <2>2 DEF TypeOK
    <3> QED BY <1>5, <1>7, <3>1, UndeliveredKept
  <2> QED BY <2>1, <2>2
<1>8. \A j \in Imports, r \in Retries : queue[j][r] <= queue'[j][r]
    BY <1>1 DEF TypeOK
<1> QED BY <1>1, <1>6, <1>7, <1>8, SlotEvents, IntentsKept

\* The claims of a dead publisher stay in the outbox.
LEMMA PublisherDeathCarries ==
    ASSUME CarriedInvariant, OwnershipInvariant', NEW p \in Publishers,
           PublisherIndexError(p) \/ PublisherCrash(p)
    PROVE  PendingIsCarried'
<1> USE DEF CarriedInvariant, OwnershipInvariant
<1>1. /\ publisher' = [publisher EXCEPT ![p] = {}]
      /\ UNCHANGED <<job, outbox, queue, worker>>
    BY DEF PublisherIndexError, PublisherCrash
<1>2. \A q \in Publishers : publisher'[q] \subseteq publisher[q]
    BY <1>1 DEF TypeOK
<1>3. \A e \in Events : Undelivered(e) => Undelivered(e)'
    BY <1>1, <1>2 DEF Undelivered
<1>4. \A j \in Imports, r \in Retries : queue[j][r] <= queue'[j][r]
    BY <1>1 DEF TypeOK
<1> QED BY <1>1, <1>3, <1>4, SlotEvents, IntentsKept

\* A recovered claim is PENDING again: recovery never finds it exhausted.
LEMMA RecoverStaleClaimsCarries ==
    ASSUME CarriedInvariant, OwnershipInvariant', NEW p \in Publishers,
           RecoverStaleClaims(p)
    PROVE  PendingIsCarried'
<1> USE DEF CarriedInvariant, OwnershipInvariant
<1>1. PICK S \in SUBSET {e \in Events : outbox[e].status = "PROCESSING"} :
        RecoverStaleClaimsOf(p, S)
    BY DEF RecoverStaleClaims
<1>2. \A e \in S : ~Exhausted(outbox[e].attempts)
    BY DEF DispatchableHasAttempts, Exhausted, TypeOK, DispatchIntent
<1>3. /\ outbox' = [e \in Events |->
                      IF e \in S THEN RecoveredIntent(outbox[e]) ELSE outbox[e]]
      /\ UNCHANGED <<queue, publisher, worker>>
    BY <1>1 DEF RecoverStaleClaimsOf
<1>4. job' = job
    BY <1>1, <1>2 DEF RecoverStaleClaimsOf, TypeOK
<1>5. ASSUME NEW e \in S PROVE outbox'[e].status = "PENDING"
  <2>1. outbox[e] \in DispatchIntent /\ 0 \in 0 .. OutboxMaxAttempts
      BY DEF TypeOK
  <2> QED BY <1>2, <1>3, <2>1, IntentRowTypes
<1>6. \A e \in Events : Undelivered(e) => Undelivered(e)'
    BY <1>3, <1>5 DEF Undelivered
<1>7. \A j \in Imports, r \in Retries : queue[j][r] <= queue'[j][r]
    BY <1>3 DEF TypeOK
<1> QED BY <1>3, <1>4, <1>6, <1>7, SlotEvents, IntentsKept

\* An upload is committed together with its intent.
LEMMA CreateImportCarries ==
    ASSUME CarriedInvariant, OwnershipInvariant', NEW i \in Imports, CreateImport(i)
    PROVE  PendingIsCarried'
<1> USE DEF CarriedInvariant, OwnershipInvariant
<1>1. 0 \in Slots
    BY DEF Slots
<1>2. /\ outbox'[<<i, 0>>] = PendingIntent
      /\ \A e \in Events : e # <<i, 0>> => outbox'[e] = outbox[e]
      /\ \A j \in Imports : j # i => job'[j] = job[j]
      /\ UNCHANGED <<queue, publisher, worker>>
    BY <1>1, SlotEvents DEF CreateImport, TypeOK
<1>3. Undelivered(<<i, 0>>)'
    BY <1>2 DEF Undelivered, PendingIntent, NoIntent
<1>4. \A j \in Imports, s \in Slots : j # i /\ Undelivered(<<j, s>>) =>
                                        Undelivered(<<j, s>>)'
    BY <1>2, SlotEvents DEF Undelivered
<1>5. \A j \in Imports : WaitingForWorker(j) => WaitingForWorker(j)'
    BY <1>2 DEF WaitingForWorker
<1> QED BY <1>1, <1>2, <1>3, <1>4, <1>5 DEF PendingIsCarried

\* The watchdog writes a new intent for every import it makes PENDING.
LEMMA RecoverStaleImportsCarries ==
    ASSUME CarriedInvariant, OwnershipInvariant', RecoverStaleImports
    PROVE  PendingIsCarried'
<1> USE DEF CarriedInvariant, OwnershipInvariant
<1>1. PICK S \in SUBSET Processing : RecoverStaleImportsOf(S)
    BY DEF RecoverStaleImports
<1>2. /\ job' = [i \in Imports |->
                   IF i \in S THEN RecoveredRow(job[i]) ELSE job[i]]
      /\ outbox' = [e \in Events |->
                      IF e \in ReplacementIntents(S) THEN PendingIntent
                      ELSE outbox[e]]
      /\ UNCHANGED <<queue, publisher, worker, disruptions>>
    BY <1>1 DEF RecoverStaleImportsOf
<1>3. \A e \in Events : Undelivered(e) => Undelivered(e)'
    BY <1>2 DEF Undelivered, PendingIntent, NoIntent
<1>4. \A j \in Imports : WaitingForWorker(j) => WaitingForWorker(j)'
    BY <1>2 DEF WaitingForWorker
<1>5. ASSUME NEW i \in S, job'[i].status = "PENDING"
      PROVE  \E s \in Slots : Undelivered(<<i, s>>)'
  <2>1. job[i] \in ImportJob /\ job[i].attempts \in 0 .. ImportMaxAttempts
        /\ i \in Imports
      BY DEF TypeOK, ImportJob, Processing
  <2>2. job[i].attempts < ImportMaxAttempts
      BY <1>2, <1>5, <2>1, RecoveredRowEffect
  <2>3. job[i].attempts \in Slots
      BY <2>1, <2>2 DEF Slots
  <2>4. <<i, job[i].attempts>> \in ReplacementIntents(S)
      BY <2>2 DEF ReplacementIntents
  <2>5. outbox'[<<i, job[i].attempts>>] = PendingIntent
      BY <1>2, <2>1, <2>3, <2>4, SlotEvents
  <2> QED BY <2>3, <2>5 DEF Undelivered, PendingIntent, NoIntent
<1>6. ASSUME NEW i \in Imports, job'[i].status = "PENDING"
      PROVE  (\E s \in Slots : Undelivered(<<i, s>>)') \/ WaitingForWorker(i)'
  <2>1. CASE i \in S
      BY <1>5, <1>6, <2>1
  <2>2. CASE i \notin S
      BY <1>2, <1>3, <1>4, <1>6, <2>2, SlotEvents DEF PendingIsCarried
  <2> QED BY <2>1, <2>2
<1> QED BY <1>6 DEF PendingIsCarried

-----------------------------------------------------------------------------
(* The worker's steps.                                                     *)

\* What RetriesFollowAttempts and MessagesAreHeld say of one run.
RunFollows(w) ==
    worker[w].pc # "idle" =>
        /\ worker[w].held
        /\ worker[w].retries <= job[worker[w].import].attempts
        /\ worker[w].pc \in {"working", "handling", "marking", "retrying"} =>
             /\ worker[w].retries < worker[w].attempts
             /\ worker[w].attempts <= job[worker[w].import].attempts
        /\ worker[w].pc = "retrying" => worker[w].attempts < ImportMaxAttempts

\* The invariants of runs, run by run.
LEMMA RunsFollow ==
    ASSUME RetriesFollowAttempts, MessagesAreHeld
    PROVE  \A w \in Workers : RunFollows(w)
BY DEF RetriesFollowAttempts, MessagesAreHeld, RunFollows

\* A step of one worker keeps the invariants of all runs if it keeps its own.
LEMMA OneRunMoves ==
    ASSUME CarriedInvariant, OwnershipInvariant', NEW w \in Workers,
           \A i \in Imports : job[i].attempts <= job'[i].attempts,
           \A v \in Workers : v # w => worker'[v] = worker[v],
           \A i \in Imports, r \in Retries :
               queue'[i][r] > 0 => queue[i][r] > 0 \/ r <= job[i].attempts,
           RunFollows(w)'
    PROVE  RetriesFollowAttempts' /\ MessagesAreHeld'
<1> USE DEF CarriedInvariant
<1>1. \A i \in Imports : job[i].attempts \in Nat /\ job'[i].attempts \in Nat
    BY DEF OwnershipInvariant, TypeOK, ImportJob
<1>2. \A v \in Workers : worker[v].retries \in Nat /\ worker[v].attempts \in Nat
    BY DEF OwnershipInvariant, TypeOK, TaskRun, Retries, MaxRetries
<1>3. \A v \in Workers : worker[v].pc # "idle" => worker[v].import \in Imports
    BY DEF OwnershipInvariant, RunsAreTyped
<1>4. \A i \in Imports, r \in Retries : queue'[i][r] > 0 => r <= job'[i].attempts
  <2>1. \A r \in Retries : r \in Nat
      BY DEF Retries, MaxRetries
  <2> QED BY <1>1, <2>1 DEF RetriesFollowAttempts
<1>5. ASSUME NEW v \in Workers PROVE RunFollows(v)'
  <2>1. CASE v = w
      BY <2>1
  <2>2. CASE v # w
      BY <1>1, <1>2, <1>3, <2>2, RunsFollow DEF RunFollows
  <2> QED BY <2>1, <2>2
<1> QED BY <1>4, <1>5 DEF RetriesFollowAttempts, MessagesAreHeld, RunFollows

\* Moving on keeps the invariants of a run unless it is a claim.
LEMMA GotoFollows ==
    ASSUME CarriedInvariant, NEW w \in Workers, NEW pc \in WorkerPc, Goto(w, pc),
           worker[w].pc # "idle",
           \A i \in Imports : job'[i].attempts = job[i].attempts,
           pc \in {"working", "handling", "marking", "retrying"} =>
               worker[w].pc \in {"working", "handling", "marking"},
           pc = "retrying" => worker[w].attempts < ImportMaxAttempts
    PROVE  RunFollows(w)'
<1>1. worker[w].import \in Imports
    BY DEF CarriedInvariant, OwnershipInvariant, RunsAreTyped
<1> QED BY <1>1, RunsFollow, GotoEffect DEF CarriedInvariant, OwnershipInvariant, RunFollows

\* A step of w on import i: every other import is carried as before.
LEMMA OthersCarried ==
    ASSUME CarriedInvariant, NEW w \in Workers, NEW i \in Imports,
           worker[w].pc = "idle" \/ worker[w].import = i,
           UNCHANGED <<outbox, publisher>>,
           \A v \in Workers : v # w => worker'[v] = worker[v],
           \A j \in Imports : j # i => job'[j] = job[j],
           \A j \in Imports, r \in Retries : j # i => queue'[j][r] = queue[j][r],
           job'[i].status = "PENDING" =>
               (\E s \in Slots : Undelivered(<<i, s>>)) \/ WaitingForWorker(i)'
    PROVE  PendingIsCarried'
<1> SUFFICES ASSUME NEW j \in Imports, job'[j].status = "PENDING"
             PROVE  (\E s \in Slots : Undelivered(<<j, s>>)') \/ WaitingForWorker(j)'
    BY DEF PendingIsCarried
<1>1. \A k \in Imports, s \in Slots : Undelivered(<<k, s>>) => Undelivered(<<k, s>>)'
    BY DEF Undelivered
<1>2. CASE j = i
    BY <1>1, <1>2
<1>3. CASE j # i
  <2>1. WaitingForWorker(j) => WaitingForWorker(j)'
      BY <1>3 DEF WaitingForWorker
  <2> QED BY <1>1, <1>3, <2>1 DEF CarriedInvariant, PendingIsCarried
<1> QED BY <1>2, <1>3

\* A worker that does not itself carry its import moves on.
LEMMA NonCarrierMoves ==
    ASSUME CarriedInvariant, NEW w \in Workers,
           worker[w].pc \notin {"idle", "received", "locked", "retrying"},
           UNCHANGED <<job, outbox, queue, publisher>>,
           \A v \in Workers : v # w => worker'[v] = worker[v]
    PROVE  PendingIsCarried'
<1>1. PICK i \in Imports : worker[w].import = i
    BY DEF CarriedInvariant, OwnershipInvariant, RunsAreTyped
<1>2. WaitingForWorker(i) => WaitingForWorker(i)'
    BY DEF WaitingForWorker
<1>3. job[i].status = "PENDING" =>
        (\E s \in Slots : Undelivered(<<i, s>>)) \/ WaitingForWorker(i)
    BY DEF CarriedInvariant, PendingIsCarried
<1> QED BY <1>1, <1>2, <1>3, OthersCarried

\* A worker that received a message carries the import instead of the queue.
LEMMA ReceiveCarries ==
    ASSUME CarriedInvariant, OwnershipInvariant', NEW w \in Workers, Receive(w)
    PROVE  RetriesFollowAttempts' /\ MessagesAreHeld' /\ PendingIsCarried'
<1> USE DEF CarriedInvariant, OwnershipInvariant
<1>1. PICK i \in Imports, r \in Retries :
        /\ worker[w].pc = "idle"
        /\ queue[i][r] > 0
        /\ queue' = Dequeue(queue, i, r)
        /\ worker' = [worker EXCEPT ![w] =
                        [pc |-> "received", import |-> i, retries |-> r,
                         held |-> TRUE, token |-> FreshProcessingToken(i),
                         attempts |-> 0]]
        /\ UNCHANGED <<job, outbox, publisher, disruptions>>
    BY DEF Receive
<1>2. /\ \A v \in Workers : v # w => worker'[v] = worker[v]
      /\ worker'[w].pc = "received" /\ worker'[w].import = i
      /\ worker'[w].retries = r /\ worker'[w].held
    BY <1>1 DEF TypeOK
<1>3. \A j \in Imports, s \in Retries :
        queue'[j][s] = IF j = i /\ s = r THEN queue[i][r] - 1 ELSE queue[j][s]
  <2>1. queue \in [Imports -> [Retries -> Nat]]
      BY DEF TypeOK
  <2> QED BY <1>1, <2>1, DequeueEffect
<1>4. \A j \in Imports, s \in Retries : queue[j][s] \in Nat /\ job[j].attempts \in Nat
    BY DEF TypeOK, ImportJob
<1>5. \A j \in Imports, s \in Retries :
        queue'[j][s] > 0 => queue[j][s] > 0 \/ s <= job[j].attempts
    BY <1>1, <1>3, <1>4
<1>6. RunFollows(w)'
    BY <1>1, <1>2 DEF RunFollows, RetriesFollowAttempts
<1>7. \A j \in Imports : job[j].attempts <= job'[j].attempts
    BY <1>1, <1>4 DEF Retries, MaxRetries
<1>8. WaitingForWorker(i)'
    BY <1>2 DEF WaitingForWorker
<1>9. PendingIsCarried'
    BY <1>1, <1>2, <1>3, <1>8, OthersCarried
<1> QED BY <1>2, <1>5, <1>6, <1>7, <1>9, OneRunMoves

\* Steps that only move w: the claim's SELECT and the ends of processing.
LEMMA MovingOnCarries ==
    ASSUME CarriedInvariant, OwnershipInvariant', Survivable, NEW w \in Workers,
           \/ LockImport(w) \/ SkipImport(w) \/ LoseDatabaseBeforeClaim(w)
           \/ FailBeforeClaim(w) \/ StopStaleWorker(w) \/ FailProcessing(w)
           \/ LoseDatabase(w) \/ LoseHandler(w) \/ RetryPublishFails(w)
    PROVE  RetriesFollowAttempts' /\ MessagesAreHeld' /\ PendingIsCarried'
<1> USE DEF CarriedInvariant
<1>1. PICK pc \in {"locked", "done", "marking", "handling"} :
        /\ worker[w].pc # "idle"
        /\ pc \in {"handling", "marking"} => worker[w].pc = "working"
        /\ Goto(w, pc)
        /\ UNCHANGED <<job, outbox, queue, publisher>>
        /\ \/ LockImport(w) /\ pc = "locked"
           \/ SkipImport(w)
           \/ worker[w].pc \notin {"idle", "received", "locked", "retrying"}
  <2>1. CASE LockImport(w)
      BY <2>1 DEF LockImport, At
  <2>2. CASE SkipImport(w)
      BY <2>2 DEF SkipImport, At
  <2>3. CASE LoseDatabaseBeforeClaim(w) \/ FailBeforeClaim(w) \/ RetryPublishFails(w)
      BY <2>3 DEF LoseDatabaseBeforeClaim, FailBeforeClaim, RetryPublishFails,
            Survivable, StrandingFaults
  <2>4. CASE StopStaleWorker(w)
      BY <2>4 DEF StopStaleWorker
  <2>5. CASE FailProcessing(w)
      BY <2>5 DEF FailProcessing
  <2>6. CASE LoseDatabase(w)
      BY <2>6 DEF LoseDatabase
  <2>7. CASE LoseHandler(w)
      BY <2>7 DEF LoseHandler
  <2> QED BY <2>1, <2>2, <2>3, <2>4, <2>5, <2>6, <2>7
<1>2. pc \in WorkerPc
    BY DEF WorkerPc
<1>3. /\ \A v \in Workers : v # w => worker'[v] = worker[v]
      /\ worker'[w].pc = pc
      /\ worker'[w].import = worker[w].import
    BY <1>1, <1>2, GotoEffect DEF OwnershipInvariant
<1>4. RunFollows(w)'
    BY <1>1, <1>2, GotoFollows
<1>5. \A j \in Imports : job[j].attempts <= job'[j].attempts
    BY <1>1 DEF OwnershipInvariant, TypeOK, ImportJob
<1>6. RetriesFollowAttempts' /\ MessagesAreHeld'
    BY <1>1, <1>3, <1>4, <1>5, OneRunMoves
<1>7. CASE LockImport(w) /\ pc = "locked"
  <2>1. worker[w].import \in Imports
      BY <1>1 DEF OwnershipInvariant, RunsAreTyped
  <2>2. WaitingForWorker(worker[w].import)'
      BY <1>3, <1>7 DEF WaitingForWorker
  <2>3. PendingIsCarried'
      BY <1>1, <1>3, <2>1, <2>2, OthersCarried
  <2> QED BY <1>6, <2>3
<1>8. CASE SkipImport(w)
  <2>1. PICK i \in Imports : At(w, "received", i) /\ (~Claimable(i) \/ RowLocked(i))
      BY <1>8 DEF SkipImport, StaleInsertLocks, Survivable, StrandingFaults
  <2>2. ASSUME job[i].status = "PENDING" PROVE WaitingForWorker(i)'
    <3>1. Claimable(i)
        BY <2>2 DEF OwnershipInvariant, PendingIsClaimable, Claimable
    <3>2. PICK v \in Workers : worker[v].pc = "locked" /\ worker[v].import = i
        BY <2>1, <3>1 DEF RowLocked
    <3>3. v # w
        BY <2>1, <3>2 DEF At
    <3> QED BY <1>3, <3>2, <3>3 DEF WaitingForWorker
  <2>3. PendingIsCarried'
      BY <1>1, <1>3, <2>1, <2>2, OthersCarried DEF At
  <2> QED BY <1>6, <2>3
<1>9. CASE worker[w].pc \notin {"idle", "received", "locked", "retrying"}
    BY <1>1, <1>3, <1>6, <1>9, NonCarrierMoves
<1> QED BY <1>1, <1>7, <1>8, <1>9

\* A claimed import is not PENDING, and its attempt exceeds the retries so far.
LEMMA ClaimCarries ==
    ASSUME CarriedInvariant, OwnershipInvariant', NEW w \in Workers,
           CommitClaim(w) \/ ClaimCommitApplied(w)
    PROVE  RetriesFollowAttempts' /\ MessagesAreHeld' /\ PendingIsCarried'
<1> USE DEF CarriedInvariant
<1>1. PICK pc \in {"working", "handling"} :
        /\ worker[w].pc = "locked"
        /\ WriteRow(w, ClaimedRow(w))
        /\ worker' = [worker EXCEPT ![w] = ClaimedRun(w, pc)]
        /\ UNCHANGED <<outbox, queue, publisher>>
    BY DEF CommitClaim, ClaimCommitApplied
<1>2. PICK i \in Imports : worker[w].import = i
    BY <1>1 DEF OwnershipInvariant, RunsAreTyped
<1>3. job[i] \in ImportJob /\ worker[w].token \in Tokens
    BY <1>1, <1>2 DEF OwnershipInvariant, RunsAreTyped, TypeOK
<1>4. /\ ClaimedRow(w).status = "PROCESSING"
      /\ ClaimedRow(w).attempts = job[i].attempts + 1
    BY <1>2, <1>3, ClaimRowEffect DEF ClaimedRow
<1>5. \A j \in Imports : job'[j] = IF j = i THEN ClaimedRow(w) ELSE job[j]
    BY <1>1, <1>2 DEF WriteRow, OwnershipInvariant, TypeOK
<1>6. pc \in WorkerPc
    BY DEF WorkerPc
<1>7. /\ \A v \in Workers : v # w => worker'[v] = worker[v]
      /\ worker'[w].pc = pc /\ worker'[w].import = i
      /\ worker'[w].retries = worker[w].retries
      /\ worker'[w].held = worker[w].held
      /\ worker'[w].attempts = job[i].attempts + 1
    BY <1>1, <1>2, <1>6, ClaimedRunEffect
<1>8. \A j \in Imports : job[j].attempts \in Nat
    BY DEF OwnershipInvariant, TypeOK, ImportJob
<1>9. worker[w].retries \in Nat
    BY DEF OwnershipInvariant, TypeOK, TaskRun, Retries, MaxRetries
<1>10. worker[w].held /\ worker[w].retries <= job[i].attempts
    BY <1>1, <1>2, RunsFollow DEF RunFollows
<1>11. job'[i].attempts = job[i].attempts + 1 /\ job'[i].status = "PROCESSING"
    BY <1>4, <1>5
<1>12. RunFollows(w)'
    BY <1>7, <1>8, <1>9, <1>10, <1>11 DEF RunFollows
<1>13. \A j \in Imports : job[j].attempts <= job'[j].attempts
    BY <1>4, <1>5, <1>8
<1>14. RetriesFollowAttempts' /\ MessagesAreHeld'
    BY <1>1, <1>7, <1>12, <1>13, OneRunMoves
<1>15. PendingIsCarried'
    BY <1>1, <1>2, <1>5, <1>7, <1>11, OthersCarried
<1> QED BY <1>14, <1>15

\* The owner of an import writes its outcome, or gives it back and retries.
LEMMA OwnedWriteCarries ==
    ASSUME CarriedInvariant, OwnershipInvariant', NEW w \in Workers,
           NEW pc \in {"handling", "done", "retrying"}, NEW row \in ImportJob,
           worker[w].pc \in {"working", "handling", "marking"},
           WriteRow(w, row),
           Goto(w, pc),
           UNCHANGED <<outbox, queue, publisher>>,
           row.attempts = job[worker[w].import].attempts,
           row.status = "PENDING" => pc = "retrying",
           pc = "retrying" => worker[w].attempts < ImportMaxAttempts
    PROVE  RetriesFollowAttempts' /\ MessagesAreHeld' /\ PendingIsCarried'
<1> USE DEF CarriedInvariant
<1>1. PICK i \in Imports : worker[w].import = i
    BY DEF OwnershipInvariant, RunsAreTyped
<1>2. pc \in WorkerPc
    BY DEF WorkerPc
<1>3. \A j \in Imports : job'[j] = IF j = i THEN row ELSE job[j]
    BY <1>1 DEF WriteRow, OwnershipInvariant, TypeOK
<1>4. /\ \A v \in Workers : v # w => worker'[v] = worker[v]
      /\ worker'[w].pc = pc /\ worker'[w].import = i
    BY <1>1, <1>2, GotoEffect DEF OwnershipInvariant
<1>5. \A j \in Imports : job[j].attempts \in Nat /\ job'[j].attempts = job[j].attempts
    BY <1>1, <1>3 DEF OwnershipInvariant, TypeOK, ImportJob
<1>6. RunFollows(w)'
    BY <1>2, <1>5, GotoFollows
<1>7. \A j \in Imports : job[j].attempts <= job'[j].attempts
    BY <1>5
<1>8. RetriesFollowAttempts' /\ MessagesAreHeld'
    BY <1>4, <1>6, <1>7, OneRunMoves
<1>9. job'[i].status = "PENDING" => WaitingForWorker(i)'
    BY <1>3, <1>4 DEF WaitingForWorker
<1>10. PendingIsCarried'
    BY <1>1, <1>3, <1>4, <1>9, OthersCarried
<1> QED BY <1>8, <1>10

\* A worker that lost its import gives up without touching the row.
LEMMA LostImportCarries ==
    ASSUME CarriedInvariant, OwnershipInvariant', NEW w \in Workers,
           worker[w].pc \in {"handling", "marking"},
           Goto(w, "done"), UNCHANGED <<job, outbox, queue, publisher>>
    PROVE  RetriesFollowAttempts' /\ MessagesAreHeld' /\ PendingIsCarried'
<1> USE DEF CarriedInvariant
<1>1. "done" \in WorkerPc
    BY DEF WorkerPc
<1>2. \A v \in Workers : v # w => worker'[v] = worker[v]
    BY <1>1, GotoEffect DEF OwnershipInvariant
<1>3. RunFollows(w)'
    BY <1>1, GotoFollows
<1>4. \A j \in Imports : job[j].attempts <= job'[j].attempts
    BY DEF OwnershipInvariant, TypeOK, ImportJob
<1>5. RetriesFollowAttempts' /\ MessagesAreHeld'
    BY <1>2, <1>3, <1>4, OneRunMoves
<1> QED BY <1>2, <1>5, NonCarrierMoves

\* The outcomes of an attempt.
LEMMA OutcomeCarries ==
    ASSUME CarriedInvariant, OwnershipInvariant', NEW w \in Workers,
           \/ CompleteImport(w) \/ CompleteCommitApplied(w)
           \/ MarkFailed(w) \/ HandleLastAttempt(w) \/ RequeueForRetry(w)
    PROVE  RetriesFollowAttempts' /\ MessagesAreHeld' /\ PendingIsCarried'
<1> DEFINE row == job[worker[w].import]
<1>1. worker[w].pc \in {"working", "handling", "marking"}
    BY DEF CompleteImport, CompleteCommitApplied, MarkFailed, HandleLastAttempt,
           RequeueForRetry
<1>2. row \in ImportJob
    BY <1>1 DEF CarriedInvariant, OwnershipInvariant, RunsAreTyped, TypeOK
<1>3. CASE CompleteImport(w) \/ CompleteCommitApplied(w)
  <2>1. PICK pc \in {"done", "handling"} :
          /\ WriteRow(w, CompleteRow(row)) /\ Goto(w, pc)
          /\ UNCHANGED <<outbox, queue, publisher>>
      BY <1>3 DEF CompleteImport, CompleteCommitApplied
  <2>2. /\ CompleteRow(row) \in ImportJob /\ CompleteRow(row).attempts = row.attempts
        /\ CompleteRow(row).status = "COMPLETED"
      BY <1>2, CompleteRowEffect
  <2> HIDE DEF row
  <2> QED BY <1>1, <2>1, <2>2, OwnedWriteCarries DEF row
<1>4. CASE MarkFailed(w) \/ HandleLastAttempt(w)
  <2>1. PICK why \in Reasons :
          MarkFailedWith(w, why) /\ worker[w].pc \in {"handling", "marking"}
      BY <1>4 DEF MarkFailed, HandleLastAttempt, Reasons
  <2>2. /\ FailRow(row, why) \in ImportJob /\ FailRow(row, why).attempts = row.attempts
        /\ FailRow(row, why).status = "FAILED"
      BY <1>2, FailRowEffect
  <2>3. CASE Owns(w)
    <3>1. /\ WriteRow(w, FailRow(row, why)) /\ Goto(w, "done")
          /\ UNCHANGED <<outbox, queue, publisher>>
        BY <2>1, <2>3 DEF MarkFailedWith
    <3> HIDE DEF row
    <3> QED BY <1>1, <2>2, <3>1, OwnedWriteCarries DEF row
  <2>4. CASE ~Owns(w)
      BY <2>1, <2>4, LostImportCarries DEF MarkFailedWith
  <2> QED BY <2>3, <2>4
<1>5. CASE RequeueForRetry(w)
  <2>1. /\ RequeueRow(row) \in ImportJob /\ RequeueRow(row).attempts = row.attempts
        /\ RequeueRow(row).status = "PENDING"
      BY <1>2, RequeueRowEffect
  <2>2. CASE Owns(w)
    <3>1. /\ WriteRow(w, RequeueRow(row)) /\ Goto(w, "retrying")
          /\ UNCHANGED <<outbox, queue, publisher>>
          /\ worker[w].attempts < ImportMaxAttempts
        BY <1>5, <2>2 DEF RequeueForRetry
    <3> HIDE DEF row
    <3> QED BY <1>1, <2>1, <3>1, OwnedWriteCarries DEF row
  <2>3. CASE ~Owns(w)
      BY <1>5, <2>3, LostImportCarries DEF RequeueForRetry
  <2> QED BY <2>2, <2>3
<1> QED BY <1>3, <1>4, <1>5

\* A worker at "retrying" has made fewer attempts than the limit, so Celery's
\* retries have not run out and the message is published again.
LEMMA RetryTaskCarries ==
    ASSUME CarriedInvariant, OwnershipInvariant', Survivable, NEW w \in Workers,
           RetryTask(w)
    PROVE  RetriesFollowAttempts' /\ MessagesAreHeld' /\ PendingIsCarried'
<1> USE DEF CarriedInvariant
<1>1. PICK i \in Imports : worker[w].import = i
    BY DEF RetryTask, OwnershipInvariant, RunsAreTyped
<1>2. PICK r \in Retries : worker[w].retries = r
    BY DEF OwnershipInvariant, TypeOK, TaskRun
<1>3. worker[w].attempts \in Nat /\ r \in Nat /\ job[i].attempts \in Nat
    BY DEF OwnershipInvariant, TypeOK, TaskRun, ImportJob, Retries, MaxRetries
<1>4. /\ r < worker[w].attempts /\ worker[w].attempts <= job[i].attempts
      /\ worker[w].attempts < ImportMaxAttempts
    BY <1>1, <1>2, RunsFollow DEF RetryTask, RunFollows
<1>5. r < MaxRetries /\ r + 1 \in Retries /\ r + 1 <= job[i].attempts
    BY <1>3, <1>4, SettingsAssumption DEF MaxRetries, Retries, Survivable
<1>6. /\ worker[w].pc = "retrying" /\ Goto(w, "done")
      /\ queue' = Enqueue(queue, i, r + 1)
      /\ UNCHANGED <<job, outbox, publisher>>
    BY <1>1, <1>2, <1>5 DEF RetryTask
<1>7. \A j \in Imports, s \in Retries :
        queue'[j][s] = IF j = i /\ s = r + 1 THEN queue[i][r + 1] + 1 ELSE queue[j][s]
  <2>1. queue \in [Imports -> [Retries -> Nat]]
      BY DEF OwnershipInvariant, TypeOK
  <2> QED BY <1>5, <1>6, <2>1, EnqueueEffect
<1>8. "done" \in WorkerPc
    BY DEF WorkerPc
<1>9. \A v \in Workers : v # w => worker'[v] = worker[v]
    BY <1>6, <1>8, GotoEffect DEF OwnershipInvariant
<1>10. RunFollows(w)'
    BY <1>6, <1>8, GotoFollows
<1>11. \A j \in Imports : job[j].attempts <= job'[j].attempts
    BY <1>6 DEF OwnershipInvariant, TypeOK, ImportJob
<1>12. RetriesFollowAttempts' /\ MessagesAreHeld'
    BY <1>5, <1>7, <1>9, <1>10, <1>11, OneRunMoves
<1>13. queue[i][r + 1] \in Nat
    BY <1>5 DEF OwnershipInvariant, TypeOK
<1>14. WaitingForWorker(i)'
    BY <1>5, <1>7, <1>13 DEF WaitingForWorker
<1>15. PendingIsCarried'
    BY <1>1, <1>6, <1>7, <1>9, <1>14, OthersCarried
<1> QED BY <1>12, <1>15

\* A finished task carries nothing, so its message may be acknowledged.
LEMMA AcknowledgeCarries ==
    ASSUME CarriedInvariant, OwnershipInvariant', NEW w \in Workers, Acknowledge(w)
    PROVE  RetriesFollowAttempts' /\ MessagesAreHeld' /\ PendingIsCarried'
<1> USE DEF CarriedInvariant
<1>1. /\ \A v \in Workers : v # w => worker'[v] = worker[v]
      /\ worker'[w].pc = "idle"
      /\ worker[w].pc = "done"
      /\ UNCHANGED <<job, outbox, queue, publisher>>
    BY DEF Acknowledge, OwnershipInvariant, TypeOK, IdleRun
<1>2. RunFollows(w)'
    BY <1>1 DEF RunFollows
<1>3. \A j \in Imports : job[j].attempts <= job'[j].attempts
    BY <1>1 DEF OwnershipInvariant, TypeOK, ImportJob
<1>4. RetriesFollowAttempts' /\ MessagesAreHeld'
    BY <1>1, <1>2, <1>3, OneRunMoves
<1> QED BY <1>1, <1>4, NonCarrierMoves

\* The message of a worker that dies is delivered again.
LEMMA WorkerCrashCarries ==
    ASSUME CarriedInvariant, OwnershipInvariant', NEW w \in Workers, WorkerCrash(w)
    PROVE  RetriesFollowAttempts' /\ MessagesAreHeld' /\ PendingIsCarried'
<1> USE DEF CarriedInvariant
<1>1. /\ worker[w].pc # "idle"
      /\ \A v \in Workers : v # w => worker'[v] = worker[v]
      /\ worker'[w].pc = "idle"
      /\ UNCHANGED <<job, outbox, publisher>>
    BY DEF WorkerCrash, OwnershipInvariant, TypeOK, IdleRun
<1>2. PICK i \in Imports : worker[w].import = i
    BY <1>1 DEF OwnershipInvariant, RunsAreTyped
<1>3. PICK r \in Retries : worker[w].retries = r
    BY DEF OwnershipInvariant, TypeOK, TaskRun
<1>4. worker[w].held /\ r <= job[i].attempts
    BY <1>1, <1>2, <1>3, RunsFollow DEF RunFollows
<1>5. queue' = Enqueue(queue, i, r)
    BY <1>2, <1>3, <1>4 DEF WorkerCrash, ReturnMessage
<1>6. \A j \in Imports, s \in Retries :
        queue'[j][s] = IF j = i /\ s = r THEN queue[i][r] + 1 ELSE queue[j][s]
  <2>1. queue \in [Imports -> [Retries -> Nat]]
      BY DEF OwnershipInvariant, TypeOK
  <2> QED BY <1>5, <2>1, EnqueueEffect
<1>7. RunFollows(w)'
    BY <1>1 DEF RunFollows
<1>8. \A j \in Imports : job[j].attempts <= job'[j].attempts
    BY <1>1 DEF OwnershipInvariant, TypeOK, ImportJob
<1>9. RetriesFollowAttempts' /\ MessagesAreHeld'
    BY <1>1, <1>4, <1>6, <1>7, <1>8, OneRunMoves
<1>10. queue[i][r] \in Nat
    BY DEF OwnershipInvariant, TypeOK
<1>11. WaitingForWorker(i)'
    BY <1>6, <1>10 DEF WaitingForWorker
<1>12. PendingIsCarried'
    BY <1>1, <1>2, <1>6, <1>11, OthersCarried
<1> QED BY <1>9, <1>12

\* Every step of a worker, without the faults of StrandingFaults.
LEMMA WorkerStepCarries ==
    ASSUME CarriedInvariant, OwnershipInvariant', Survivable, NEW w \in Workers,
           Receive(w) \/ TaskStep(w) \/ WorkerCrash(w) \/ Redeliver(w)
    PROVE  RetriesFollowAttempts' /\ MessagesAreHeld' /\ PendingIsCarried'
<1>1. ~Redeliver(w) /\ ~LoseClaimCommit(w) /\ ~RequeueCommitApplied(w)
    BY DEF Redeliver, LoseClaimCommit, RequeueCommitApplied, Survivable,
           StrandingFaults
<1>2. CASE ClaimStep(w)
    BY <1>1, <1>2, ClaimCarries, MovingOnCarries DEF ClaimStep
<1>3. CASE ProcessStep(w)
    BY <1>3, OutcomeCarries, MovingOnCarries DEF ProcessStep
<1>4. CASE HandlerStep(w)
    BY <1>1, <1>4, OutcomeCarries, MovingOnCarries DEF HandlerStep
<1>5. CASE TaskEndStep(w)
    BY <1>5, RetryTaskCarries, AcknowledgeCarries, MovingOnCarries DEF TaskEndStep
<1> QED BY <1>1, <1>2, <1>3, <1>4, <1>5, ReceiveCarries, WorkerCrashCarries
        DEF TaskStep

-----------------------------------------------------------------------------
(* The invariant and the theorem.                                          *)

\* Every step of a publisher.
LEMMA PublisherStepCarries ==
    ASSUME CarriedInvariant, OwnershipInvariant', NEW p \in Publishers,
           PublisherStep(p) \/ PublisherCrash(p)
    PROVE  /\ PendingIsCarried'
           /\ worker' = worker
           /\ \A i \in Imports, r \in Retries : r # 0 => queue'[i][r] = queue[i][r]
<1>1. CASE DispatchNext(p)
  <2>1. PICK c \in publisher[p], enqueued \in BOOLEAN, outcome \in {"published", "refused"} :
          /\ outcome = "published" => enqueued
          /\ Dispatch(p, c, enqueued, outcome)
      BY <1>1 DEF DispatchNext, DispatchAccepted, DispatchRefused, DispatchConfirmLost
  <2> QED BY <2>1, DispatchCarries DEF Dispatch
<1>2. CASE ClaimDueEvents(p)
    BY <1>2, ClaimDueEventsCarries DEF ClaimDueEvents
<1>3. CASE RecordPublishSuccess(p)
    BY <1>3, RecordPublishSuccessCarries DEF RecordPublishSuccess
<1>4. CASE RecordPublishFailure(p)
    BY <1>4, RecordPublishFailureCarries DEF RecordPublishFailure
<1>5. CASE PublisherIndexError(p) \/ PublisherCrash(p)
    BY <1>5, PublisherDeathCarries DEF PublisherIndexError, PublisherCrash
<1>6. CASE RecoverStaleClaims(p)
    BY <1>6, RecoverStaleClaimsCarries DEF RecoverStaleClaims, RecoverStaleClaimsOf
<1> QED BY <1>1, <1>2, <1>3, <1>4, <1>5, <1>6 DEF PublisherStep, RecordOutcome

\* Nothing is PENDING initially.
LEMMA CarriedInit == Init => CarriedInvariant
<1> SUFFICES ASSUME Init PROVE CarriedInvariant
    OBVIOUS
<1>1. \A i \in Imports : job[i].status = "NONE" /\ job[i].attempts = 0
    BY DEF Init, NoJob
<1>2. \A i \in Imports, r \in Retries : queue[i][r] = 0
    BY DEF Init
<1>3. \A w \in Workers : worker[w].pc = "idle"
    BY DEF Init, IdleRun
<1> QED BY <1>1, <1>2, <1>3, OwnershipInit DEF CarriedInvariant,
        UnsubmittedHasNoAttempts, RetriesFollowAttempts, MessagesAreHeld,
        PendingIsCarried

\* Under the faults the code survives, every step keeps every PENDING import
\* carried by an intent, a message or a worker.
LEMMA CarriedNext ==
    Survivable /\ CarriedInvariant /\ [Next]_vars => CarriedInvariant'
<1> SUFFICES ASSUME Survivable, CarriedInvariant, [Next]_vars PROVE CarriedInvariant'
    OBVIOUS
<1>1. OwnershipInvariant /\ OwnershipInvariant' /\ RowChange
    BY OwnershipNext, NextRowChange DEF CarriedInvariant
<1>2. /\ \A i \in Imports : job[i].attempts <= job'[i].attempts
      /\ UnsubmittedHasNoAttempts'
    BY <1>1, AttemptsGrow DEF CarriedInvariant
<1>3. ASSUME worker' = worker,
             \A i \in Imports, r \in Retries : r # 0 => queue'[i][r] = queue[i][r]
      PROVE  RetriesFollowAttempts' /\ MessagesAreHeld'
    BY <1>1, <1>2, <1>3, WorkersUntouched DEF CarriedInvariant
<1>4. RetriesFollowAttempts' /\ MessagesAreHeld' /\ PendingIsCarried'
  <2>1. ASSUME NEW i \in Imports, CreateImport(i)
        PROVE  RetriesFollowAttempts' /\ MessagesAreHeld' /\ PendingIsCarried'
      BY <1>1, <1>3, <2>1, CreateImportCarries DEF CreateImport
  <2>2. ASSUME NEW p \in Publishers, PublisherStep(p) \/ PublisherCrash(p)
        PROVE  RetriesFollowAttempts' /\ MessagesAreHeld' /\ PendingIsCarried'
      BY <1>1, <1>3, <2>2, PublisherStepCarries
  <2>3. ASSUME NEW w \in Workers,
               Receive(w) \/ TaskStep(w) \/ WorkerCrash(w) \/ Redeliver(w)
        PROVE  RetriesFollowAttempts' /\ MessagesAreHeld' /\ PendingIsCarried'
      BY <1>1, <2>3, WorkerStepCarries
  <2>4. CASE RecoverStaleImports
      BY <1>1, <1>3, <2>4, RecoverStaleImportsCarries
        DEF RecoverStaleImports, RecoverStaleImportsOf
  <2>5. CASE UNCHANGED vars
    <3>1. \A i \in Imports, s \in Slots : Undelivered(<<i, s>>)' <=> Undelivered(<<i, s>>)
        BY <2>5 DEF vars, Undelivered
    <3>2. \A i \in Imports : WaitingForWorker(i)' <=> WaitingForWorker(i)
        BY <2>5 DEF vars, WaitingForWorker
    <3>3. PendingIsCarried'
        BY <2>5, <3>1, <3>2 DEF vars, CarriedInvariant, PendingIsCarried
    <3> QED BY <1>3, <2>5, <3>3 DEF vars
  <2> QED BY <2>1, <2>2, <2>3, <2>4, <2>5 DEF Next, Quiescent
<1> QED BY <1>1, <1>2, <1>4 DEF CarriedInvariant

\* The argument behind the next theorem: every PENDING import is carried, and
\* Celery's retries (max_retries of tasks.py) never run out before its attempts.
THEOREM ImportsAreCarried ==
    ASSUME Survivable
    PROVE  Spec => []CarriedInvariant
<1>1. CarriedInvariant /\ [Next]_vars => CarriedInvariant'
    BY CarriedNext
<1> QED BY <1>1, CarriedInit, PTL DEF Spec

\* When none of the faults of StrandingFaults happens, and whatever the crashes,
\* publisher stalls and other faults, an import that is PENDING in import_jobs
\* still has a dispatch intent, a queued message or a worker that will claim it.
THEOREM NoImportIsStranded ==
    ASSUME Survivable
    PROVE  Spec => []NoStrandedImport
<1>1. CarriedInvariant => NoStrandedImport
    BY DEF CarriedInvariant, PendingIsCarried, NoStrandedImport,
           WaitingForDispatch, Undelivered
<1>2. Spec => []CarriedInvariant
    BY ImportsAreCarried
<1> QED BY <1>1, <1>2, PTL
=============================================================================
