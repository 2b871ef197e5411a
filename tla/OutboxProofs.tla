----------------------------- MODULE OutboxProofs -----------------------------
(***************************************************************************)
(* The life of a dispatch intent: no publisher, however late, moves a      *)
(* settled intent or takes back one of its dispatch attempts.              *)
(***************************************************************************)
EXTENDS StrandedImportProofs

USE ProcessAssumption, SettingsAssumption

\* Intents are written for the attempts an import has made, and only once: the
\* slots of later attempts, and that of the current attempt, are free.
FreeSlot(i, s) ==
    \/ job[i].status = "NONE"
    \/ s > job[i].attempts
    \/ s = job[i].attempts /\ job[i].status = "PROCESSING"
FreeSlots ==
    \A i \in Imports, s \in Slots : FreeSlot(i, s) => outbox[<<i, s>>] = NoIntent

\* A publisher whose claim still stands knows the attempts its intent has made.
ClaimsAreCurrent ==
    \A p \in Publishers : \A c \in publisher[p] :
        HoldsClaim(c.event, c.token) => c.attempts = outbox[c.event].attempts

OutboxInvariant ==
    /\ OwnershipInvariant
    /\ UnsubmittedHasNoAttempts
    /\ FreeSlots
    /\ ClaimsAreCurrent

\* The intent of slot s was written for the import's upload, or for the attempts
\* it had made when the watchdog released it.
Written(i, s) ==
    /\ FreeSlot(i, s)
    /\ outbox'[<<i, s>>] = PendingIntent
    /\ job'[i].status = "PENDING"
    /\ job'[i].attempts = s

\* Everything a step of the pipeline may do to one intent.
IntentChange(e) ==
    \/ outbox'[e] = outbox[e]
    \/ \E i \in Imports, s \in Slots : e = <<i, s>> /\ Written(i, s)
    \/ /\ outbox[e].status = "PENDING"
       /\ outbox'[e].status = "PROCESSING"
       /\ outbox'[e].attempts = outbox[e].attempts
    \/ /\ outbox[e].status = "PROCESSING"
       /\ outbox'[e].status \in {"PENDING", "PUBLISHED", "FAILED"}
       /\ outbox'[e].attempts \in {outbox[e].attempts, outbox[e].attempts + 1}

-----------------------------------------------------------------------------
(* The publisher.                                                          *)

\* A claim is for another event, under a token nobody has, and with the attempts
\* of the row.
LEMMA ClaimDueEventsKeepsIntents ==
    ASSUME OutboxInvariant, NEW p \in Publishers, ClaimDueEvents(p)
    PROVE  (\A e \in Events : IntentChange(e)) /\ ClaimsAreCurrent'
<1> USE DEF OutboxInvariant, OwnershipInvariant
<1>1. PICK S \in SUBSET {e \in Events : outbox[e].status = "PENDING"} :
        /\ \A e \in S : UnusedClaimTokens(e) # {}
        /\ outbox' = [e \in Events |->
                        IF e \in S THEN ClaimedIntent(e) ELSE outbox[e]]
        /\ publisher' = [publisher EXCEPT ![p] =
                            {[event |-> e, token |-> FreshClaimToken(e),
                              attempts |-> outbox[e].attempts,
                              outcome |-> "claimed"] : e \in S}]
    BY DEF ClaimDueEvents
<1>2. \A e \in S : FreshClaimToken(e) \in UnusedClaimTokens(e)
    BY <1>1 DEF FreshClaimToken, UnusedClaimTokens
<1>3. \A e \in S : /\ ClaimedIntent(e).attempts = outbox[e].attempts
                   /\ ClaimedIntent(e).token = FreshClaimToken(e)
                   /\ ClaimedIntent(e).status = "PROCESSING"
    BY DEF ClaimedIntent, TypeOK, DispatchIntent
<1>4. \A e \in Events : IntentChange(e)
    BY <1>1, <1>3 DEF IntentChange
<1>5. ASSUME NEW q \in Publishers, NEW c \in publisher'[q],
             HoldsClaim(c.event, c.token)'
      PROVE  c.attempts = outbox'[c.event].attempts
  <2>1. CASE q = p
    <3>1. PICK e \in S : c = [event |-> e, token |-> FreshClaimToken(e),
                              attempts |-> outbox[e].attempts,
                              outcome |-> "claimed"]
        BY <1>1, <1>5, <2>1 DEF TypeOK
    <3> QED BY <1>1, <1>3, <3>1
  <2>2. CASE q # p
    <3>1. c \in publisher[q] /\ c.event \in Events
        BY <1>1, <2>2 DEF TypeOK, ClaimedEvent
    <3>2. c.event \notin S
      <4> SUFFICES ASSUME c.event \in S PROVE FALSE
          OBVIOUS
      <4>1. c \in {d \in UNION {publisher[r] : r \in Publishers} : d.event = c.event}
          BY <3>1
      <4>2. c.token \notin UnusedClaimTokens(c.event)
          BY <4>1 DEF UnusedClaimTokens
      <4>3. c.token = FreshClaimToken(c.event)
          BY <1>1, <1>3, <1>5, <3>1 DEF HoldsClaim
      <4> QED BY <1>2, <4>2, <4>3
    <3> QED BY <1>1, <1>5, <3>1, <3>2 DEF HoldsClaim, ClaimsAreCurrent
  <2> QED BY <2>1, <2>2
<1> QED BY <1>4, <1>5 DEF ClaimsAreCurrent

\* send_task touches no row, and leaves what the claim knows of its row.
LEMMA DispatchKeepsIntents ==
    ASSUME OutboxInvariant, NEW p \in Publishers, DispatchNext(p)
    PROVE  (\A e \in Events : IntentChange(e)) /\ ClaimsAreCurrent'
<1> USE DEF OutboxInvariant, OwnershipInvariant
<1>1. PICK c \in publisher[p], outcome \in {"published", "refused"} :
        /\ publisher' = [publisher EXCEPT ![p] =
                            (@ \ {c}) \cup {[c EXCEPT !.outcome = outcome]}]
        /\ outbox' = outbox
    BY DEF DispatchNext, DispatchAccepted, DispatchRefused, DispatchConfirmLost, Dispatch
<1> DEFINE sent == [c EXCEPT !.outcome = outcome]
<1>2. sent.event = c.event /\ sent.token = c.token /\ sent.attempts = c.attempts
    BY DEF TypeOK, ClaimedEvent
<1>3. \A q \in Publishers : \A d \in publisher'[q] :
        d \in publisher[q] \/ (q = p /\ d = sent)
    BY <1>1 DEF TypeOK
<1>4. HoldsClaim(c.event, c.token) => c.attempts = outbox[c.event].attempts
    BY DEF ClaimsAreCurrent
<1> HIDE DEF sent
<1>5. ClaimsAreCurrent'
    BY <1>1, <1>2, <1>3, <1>4 DEF ClaimsAreCurrent, HoldsClaim
<1> QED BY <1>1, <1>5 DEF IntentChange

\* Rows are released or settled, or nothing happens to them; no claim on a released
\* or settled row stands any more.
LEMMA SettledRows ==
    ASSUME OutboxInvariant,
           \A e \in Events :
               outbox'[e] # outbox[e] =>
                   /\ outbox[e].status = "PROCESSING"
                   /\ outbox'[e].status \in {"PENDING", "PUBLISHED", "FAILED"}
                   /\ outbox'[e].attempts \in {outbox[e].attempts, outbox[e].attempts + 1},
           \A q \in Publishers : publisher'[q] \subseteq publisher[q]
    PROVE  (\A e \in Events : IntentChange(e)) /\ ClaimsAreCurrent'
<1>1. \A e \in Events : IntentChange(e)
    BY DEF IntentChange
<1>2. ASSUME NEW q \in Publishers, NEW c \in publisher'[q],
             HoldsClaim(c.event, c.token)'
      PROVE  c.attempts = outbox'[c.event].attempts
  <2>1. c \in publisher[q] /\ c.event \in Events
      BY DEF OutboxInvariant, OwnershipInvariant, TypeOK, ClaimedEvent
  <2>2. outbox'[c.event] = outbox[c.event]
      BY <1>2, <2>1 DEF HoldsClaim
  <2> QED BY <1>2, <2>1, <2>2 DEF HoldsClaim, OutboxInvariant, ClaimsAreCurrent
<1> QED BY <1>1, <1>2 DEF ClaimsAreCurrent

\* Success and failure are recorded under the claim, or not at all; a failure
\* with the attempts of the claim, which are those of the row, plus one.
LEMMA RecordOutcomeKeepsIntents ==
    ASSUME OutboxInvariant, NEW p \in Publishers, RecordOutcome(p)
    PROVE  (\A e \in Events : IntentChange(e)) /\ ClaimsAreCurrent'
<1> USE DEF OutboxInvariant, OwnershipInvariant
<1>1. \A q \in Publishers : publisher'[q] \subseteq publisher[q]
    BY ZenonT(60) DEF RecordOutcome, RecordPublishSuccess, RecordPublishFailure,
           PublisherIndexError, TypeOK
<1>2. CASE outbox' = outbox
    BY <1>1, <1>2, SettledRows
<1>3. CASE RecordPublishSuccess(p) /\ outbox' # outbox
  <2>1. PICK c \in Unrecorded(p) :
          /\ HoldsClaim(c.event, c.token)
          /\ outbox' = [outbox EXCEPT ![c.event].status = "PUBLISHED",
                                      ![c.event].token = NoToken]
      BY <1>3 DEF RecordPublishSuccess
  <2>2. c.event \in Events /\ outbox[c.event] \in DispatchIntent
      BY DEF Unrecorded, TypeOK, ClaimedEvent
  <2>3. /\ \A e \in Events \ {c.event} : outbox'[e] = outbox[e]
        /\ outbox'[c.event].status = "PUBLISHED"
        /\ outbox'[c.event].attempts = outbox[c.event].attempts
      BY <2>1, <2>2 DEF TypeOK, DispatchIntent
  <2> QED BY <1>1, <2>1, <2>2, <2>3, SettledRows DEF HoldsClaim
<1>4. CASE RecordPublishFailure(p) /\ outbox' # outbox
  <2>1. PICK c \in Unrecorded(p) :
          /\ HoldsClaim(c.event, c.token)
          /\ outbox' = [outbox EXCEPT ![c.event] =
                                        PublishFailureRow(@, c.attempts + 1)]
      BY <1>4 DEF RecordPublishFailure
  <2>2. /\ c \in publisher[p]
        /\ c.event \in Events
        /\ outbox[c.event] \in DispatchIntent
        /\ c.attempts \in Nat
        /\ c.attempts + 1 \in 0 .. OutboxMaxAttempts
      BY DEF Unrecorded, TypeOK, ClaimedEvent, DispatchableHasAttempts
  <2>3. c.attempts = outbox[c.event].attempts
      BY <2>1, <2>2 DEF ClaimsAreCurrent
  <2>4. \A e \in Events : outbox'[e] = IF e = c.event
                                       THEN PublishFailureRow(outbox[e], c.attempts + 1)
                                       ELSE outbox[e]
      BY <2>1 DEF TypeOK
  <2> DEFINE row == PublishFailureRow(outbox[c.event], c.attempts + 1)
  <2>5. row.status \in {"PENDING", "FAILED"} /\ row.attempts = c.attempts + 1
      BY <2>2, IntentRowTypes
  <2>6. /\ outbox'[c.event].status \in {"PENDING", "FAILED"}
        /\ outbox'[c.event].attempts = outbox[c.event].attempts + 1
    <3> HIDE DEF row
    <3>1. outbox'[c.event] = row
        BY <2>2, <2>4 DEF row
    <3> QED BY <2>3, <2>5, <3>1
  <2> QED BY <1>1, <2>1, <2>2, <2>4, <2>6, SettledRows DEF HoldsClaim
<1>5. CASE PublisherIndexError(p)
    BY <1>2, <1>5 DEF PublisherIndexError
<1> QED BY <1>2, <1>3, <1>4, <1>5 DEF RecordOutcome

\* Recovered claims stand for nobody; the attempts stay.
LEMMA RecoverStaleClaimsKeepsIntents ==
    ASSUME OutboxInvariant, NEW p \in Publishers, RecoverStaleClaims(p)
    PROVE  (\A e \in Events : IntentChange(e)) /\ ClaimsAreCurrent'
<1>1. PICK S \in SUBSET {e \in Events : outbox[e].status = "PROCESSING"} :
        /\ outbox' = [e \in Events |->
                        IF e \in S THEN RecoveredIntent(outbox[e]) ELSE outbox[e]]
        /\ publisher' = publisher
    BY DEF RecoverStaleClaims, RecoverStaleClaimsOf
<1>2. \A e \in Events : outbox[e] \in DispatchIntent /\ 0 \in 0 .. OutboxMaxAttempts
    BY DEF OutboxInvariant, OwnershipInvariant, TypeOK
<1>3. \A e \in Events : /\ RecoveredIntent(outbox[e]).status \in {"PENDING", "FAILED"}
                        /\ RecoveredIntent(outbox[e]).attempts = outbox[e].attempts
    BY <1>2, IntentRowTypes
<1> QED BY <1>1, <1>3, SettledRows

-----------------------------------------------------------------------------
(* New intents.                                                            *)

\* New intents are in free slots, and nobody has claimed them.
LEMMA WrittenRows ==
    ASSUME OutboxInvariant, publisher' = publisher,
           \A i \in Imports, s \in Slots :
               outbox'[<<i, s>>] = outbox[<<i, s>>] \/ Written(i, s)
    PROVE  (\A e \in Events : IntentChange(e)) /\ ClaimsAreCurrent'
<1>1. \A e \in Events : \E i \in Imports, s \in Slots : e = <<i, s>>
    BY DEF Events
<1>2. \A e \in Events : IntentChange(e)
    BY <1>1 DEF IntentChange
<1>3. \A i \in Imports, s \in Slots :
        outbox'[<<i, s>>] = outbox[<<i, s>>] \/ outbox'[<<i, s>>].status = "PENDING"
  <2>1. PendingIntent.status = "PENDING"
      BY DEF PendingIntent, NoIntent
  <2> QED BY <2>1 DEF Written
<1>4. \A q \in Publishers : \A c \in publisher[q] : c.event \in Events
    BY DEF OutboxInvariant, OwnershipInvariant, TypeOK, ClaimedEvent
<1>5. \A q \in Publishers : \A c \in publisher[q] :
        outbox'[c.event] = outbox[c.event] \/ outbox'[c.event].status = "PENDING"
    BY <1>1, <1>3, <1>4
<1>6. ClaimsAreCurrent'
    BY <1>5 DEF ClaimsAreCurrent, HoldsClaim, OutboxInvariant
<1> QED BY <1>2, <1>6

\* The upload's intent.
LEMMA CreateImportKeepsIntents ==
    ASSUME OutboxInvariant, NEW j \in Imports, CreateImport(j)
    PROVE  (\A e \in Events : IntentChange(e)) /\ ClaimsAreCurrent'
<1>1. 0 \in Slots
    BY DEF Slots
<1>2. ASSUME NEW i \in Imports, NEW s \in Slots
      PROVE  outbox'[<<i, s>>] = outbox[<<i, s>>] \/ Written(i, s)
  <2>1. <<i, s>> \in Events /\ <<j, 0>> \in Events
      BY <1>1 DEF Events
  <2>2. outbox'[<<i, s>>] = IF <<i, s>> = <<j, 0>> THEN PendingIntent ELSE outbox[<<i, s>>]
      BY <2>1 DEF CreateImport, OutboxInvariant, OwnershipInvariant, TypeOK
  <2>3. job'[j] = NewJob /\ job[j].status = "NONE"
      BY DEF CreateImport, OutboxInvariant, OwnershipInvariant, TypeOK
  <2> QED BY <2>2, <2>3 DEF Written, FreeSlot, NewJob, NoJob
<1> QED BY <1>2, WrittenRows DEF CreateImport

\* The watchdog's intents: one per import it releases, for its current attempt.
LEMMA WatchdogKeepsIntents ==
    ASSUME OutboxInvariant, RecoverStaleImports
    PROVE  (\A e \in Events : IntentChange(e)) /\ ClaimsAreCurrent'
<1>1. PICK S \in SUBSET Processing :
        /\ job' = [i \in Imports |-> IF i \in S THEN RecoveredRow(job[i]) ELSE job[i]]
        /\ outbox' = [e \in Events |->
                        IF e \in ReplacementIntents(S) THEN PendingIntent ELSE outbox[e]]
        /\ publisher' = publisher
    BY DEF RecoverStaleImports, RecoverStaleImportsOf
<1>2. ASSUME NEW i \in Imports, NEW s \in Slots,
             outbox'[<<i, s>>] # outbox[<<i, s>>]
      PROVE  Written(i, s)
  <2>1. <<i, s>> \in ReplacementIntents(S) /\ outbox'[<<i, s>>] = PendingIntent
      BY <1>1, <1>2 DEF Events
  <2>2. i \in S /\ s = job[i].attempts /\ job[i].attempts < ImportMaxAttempts
      BY <2>1 DEF ReplacementIntents
  <2>3. job[i].status = "PROCESSING" /\ job'[i] = RecoveredRow(job[i])
      BY <1>1, <2>2 DEF Processing
  <2>4. job[i] \in ImportJob /\ job[i].attempts \in Nat /\ ImportMaxAttempts \in Nat
      BY DEF OutboxInvariant, OwnershipInvariant, TypeOK, ImportJob
  <2>5. /\ RecoveredRow(job[i]).attempts = job[i].attempts
        /\ RecoveredRow(job[i]).status = "PENDING"
      BY <2>2, <2>4, RecoveredRowEffect
  <2> QED BY <2>1, <2>2, <2>3, <2>5 DEF Written, FreeSlot
<1> QED BY <1>1, <1>2, WrittenRows

-----------------------------------------------------------------------------
(* All steps.                                                              *)

\* Every step changes intents as IntentChange says, and keeps claims current.
LEMMA IntentsNext ==
    ASSUME OutboxInvariant, [Next]_vars
    PROVE  (\A e \in Events : IntentChange(e)) /\ ClaimsAreCurrent'
<1>1. CASE outbox' = outbox /\ \A q \in Publishers : publisher'[q] \subseteq publisher[q]
    BY <1>1, SettledRows
<1>2. ASSUME NEW w \in Workers,
             Receive(w) \/ TaskStep(w) \/ WorkerCrash(w) \/ Redeliver(w)
      PROVE  outbox' = outbox /\ publisher' = publisher
    BY <1>2 DEF TaskStep, ClaimStep, ProcessStep, HandlerStep, TaskEndStep, Receive,
       LockImport, SkipImport, CommitClaim, ClaimCommitApplied, LoseDatabaseBeforeClaim,
       FailBeforeClaim, LoseClaimCommit, CompleteImport, CompleteCommitApplied,
       StopStaleWorker, FailProcessing, LoseDatabase, MarkFailed, HandleLastAttempt,
       MarkFailedWith, RequeueForRetry, RequeueCommitApplied, LoseHandler, RetryTask,
       RetryPublishFails, Acknowledge, WorkerCrash, Redeliver
<1>3. ASSUME NEW p \in Publishers, PublisherCrash(p)
      PROVE  outbox' = outbox /\ \A q \in Publishers : publisher'[q] \subseteq publisher[q]
    BY <1>3 DEF PublisherCrash, OutboxInvariant, OwnershipInvariant, TypeOK
<1>4. CASE UNCHANGED vars
    BY <1>1, <1>4 DEF vars
<1> QED BY <1>1, <1>2, <1>3, <1>4, CreateImportKeepsIntents, WatchdogKeepsIntents,
        ClaimDueEventsKeepsIntents, DispatchKeepsIntents, RecordOutcomeKeepsIntents,
        RecoverStaleClaimsKeepsIntents DEF Next, Quiescent, PublisherStep

\* A slot that is free after a step was free before, and is not written by it.
LEMMA FreeSlotsNext ==
    ASSUME OutboxInvariant, RowChange, OwnershipInvariant', UnsubmittedHasNoAttempts',
           \A e \in Events : IntentChange(e)
    PROVE  FreeSlots'
<1> SUFFICES ASSUME NEW i \in Imports, NEW s \in Slots, FreeSlot(i, s)'
             PROVE  outbox'[<<i, s>>] = NoIntent
    BY DEF FreeSlots
<1>1. /\ job[i].attempts \in Nat /\ job'[i].attempts \in Nat /\ s \in Nat
      /\ job[i] \in ImportJob
    BY DEF OutboxInvariant, OwnershipInvariant, TypeOK, ImportJob, Slots
<1>2. FreeSlot(i, s)
  <2>1. CASE job' = job
      BY <2>1 DEF FreeSlot
  <2>2. ASSUME NEW j \in Imports, job[j].status = "NONE", job' = [job EXCEPT ![j] = NewJob]
        PROVE  FreeSlot(i, s)
      BY <2>2 DEF FreeSlot, OutboxInvariant, OwnershipInvariant, TypeOK
  <2>3. ASSUME NEW w \in Workers, worker[w].pc = "locked", WriteRow(w, ClaimedRow(w))
        PROVE  FreeSlot(i, s)
    <3>1. /\ worker[w].import \in Imports /\ worker[w].token \in Tokens
          /\ job[worker[w].import] \in ImportJob
        BY <2>3 DEF OutboxInvariant, OwnershipInvariant, RunsAreTyped, TypeOK
    <3>2. /\ ClaimedRow(w).attempts = job[worker[w].import].attempts + 1
          /\ ClaimedRow(w).status = "PROCESSING"
        BY <3>1, ClaimRowEffect DEF ClaimedRow
    <3>3. job'[i] = IF i = worker[w].import THEN ClaimedRow(w) ELSE job[i]
        BY <2>3, <3>1 DEF WriteRow, OutboxInvariant, OwnershipInvariant, TypeOK
    <3> QED BY <1>1, <3>2, <3>3 DEF FreeSlot
  <2>4. ASSUME NEW w \in Workers, worker[w].pc = "working",
               WriteRow(w, CompleteRow(job[worker[w].import]))
        PROVE  FreeSlot(i, s)
    <3>1. worker[w].import \in Imports /\ job[worker[w].import] \in ImportJob
        BY <2>4 DEF OutboxInvariant, OwnershipInvariant, RunsAreTyped, TypeOK
    <3>2. /\ CompleteRow(job[worker[w].import]).attempts = job[worker[w].import].attempts
          /\ CompleteRow(job[worker[w].import]).status = "COMPLETED"
        BY <3>1, CompleteRowEffect
    <3>3. job'[i] = IF i = worker[w].import THEN CompleteRow(job[i]) ELSE job[i]
        BY <2>4, <3>1 DEF WriteRow, OutboxInvariant, OwnershipInvariant, TypeOK
    <3> QED BY <1>1, <3>2, <3>3 DEF FreeSlot
  <2>5. CASE AttemptsEnd
      BY <1>1, <2>5 DEF AttemptsEnd, FreeSlot
  <2> QED BY <2>1, <2>2, <2>3, <2>4, <2>5 DEF RowChange
<1>3. outbox[<<i, s>>] = NoIntent /\ <<i, s>> \in Events
    BY <1>2 DEF OutboxInvariant, FreeSlots, Events
<1>4. ~Written(i, s)
    BY <1>1 DEF Written, FreeSlot
<1> QED BY <1>3, <1>4 DEF IntentChange, NoIntent

\* Before the first upload all slots are free and nothing is claimed.
LEMMA OutboxInit == Init => OutboxInvariant
<1> SUFFICES ASSUME Init PROVE OutboxInvariant
    OBVIOUS
<1>1. OwnershipInvariant
    BY OwnershipInit
<1>2. UnsubmittedHasNoAttempts
    BY DEF Init, NoJob, UnsubmittedHasNoAttempts
<1>3. FreeSlots
    BY DEF Init, FreeSlots, Events
<1>4. ClaimsAreCurrent
    BY DEF Init, ClaimsAreCurrent
<1> QED BY <1>1, <1>2, <1>3, <1>4 DEF OutboxInvariant

\* Every step keeps the invariant.
LEMMA OutboxNext == OutboxInvariant /\ [Next]_vars => OutboxInvariant'
<1> SUFFICES ASSUME OutboxInvariant, [Next]_vars PROVE OutboxInvariant'
    OBVIOUS
<1>1. OwnershipInvariant' /\ RowChange
    BY OwnershipNext, NextRowChange DEF OutboxInvariant
<1>2. UnsubmittedHasNoAttempts'
    BY <1>1, AttemptsGrow DEF OutboxInvariant
<1>3. (\A e \in Events : IntentChange(e)) /\ ClaimsAreCurrent'
    BY IntentsNext
<1>4. FreeSlots'
    BY <1>1, <1>2, <1>3, FreeSlotsNext
<1> QED BY <1>1, <1>2, <1>3, <1>4 DEF OutboxInvariant

\* The invariant behind both theorems holds in every reachable state.
LEMMA OutboxInvariance == Spec => []OutboxInvariant
BY OutboxInit, OutboxNext, PTL DEF Spec

\* An intent is PENDING, then claimed, then settled or PENDING again: a publisher
\* whose claim was recovered never overwrites the row, the watchdog never reuses one.
THEOREM IntentsFollowTheirLifecycle == Spec => IntentLifecycle
<1> DEFINE Lives == \A e \in Events :
                        outbox'[e].status # outbox[e].status =>
                            outbox'[e].status \in IntentSuccessors[outbox[e].status]
<1>1. OutboxInvariant /\ [Next]_vars => [Lives]_vars
  <2> SUFFICES ASSUME OutboxInvariant, NEW e \in Events, IntentChange(e),
                      outbox'[e].status # outbox[e].status
               PROVE  outbox'[e].status \in IntentSuccessors[outbox[e].status]
      BY IntentsNext
  <2>1. ASSUME NEW i \in Imports, NEW s \in Slots, e = <<i, s>>, Written(i, s)
        PROVE  outbox[e].status = "NONE" /\ outbox'[e].status = "PENDING"
      BY <2>1 DEF Written, OutboxInvariant, FreeSlots, NoIntent, PendingIntent
  <2> QED BY <2>1 DEF IntentChange, IntentSuccessors
<1> QED BY <1>1, OutboxInvariance, PTL DEF Spec, IntentLifecycle

\* No stalled publisher writes back an old count of dispatch attempts.
THEOREM DispatchAttemptsOnlyGrow == Spec => DispatchAttemptsNeverRollBack
<1> DEFINE Grow == \A e \in Events :
                       outbox'[e].attempts \in {outbox[e].attempts, outbox[e].attempts + 1}
<1>1. OutboxInvariant /\ [Next]_vars => [Grow]_vars
  <2> SUFFICES ASSUME OutboxInvariant, NEW e \in Events, IntentChange(e)
               PROVE  outbox'[e].attempts \in {outbox[e].attempts, outbox[e].attempts + 1}
      BY IntentsNext
  <2>1. ASSUME NEW i \in Imports, NEW s \in Slots, e = <<i, s>>, Written(i, s)
        PROVE  outbox[e].attempts = 0 /\ outbox'[e].attempts = 0
      BY <2>1 DEF Written, OutboxInvariant, FreeSlots, NoIntent, PendingIntent
  <2> QED BY <2>1 DEF IntentChange
<1> QED BY <1>1, OutboxInvariance, PTL DEF Spec, DispatchAttemptsNeverRollBack

\* With one dispatch attempt more than there are delays, or fewer, no publisher ever
\* dies of an IndexError: the delay after the last attempt is never asked for. The
\* default of five attempts is the largest that is safe.
THEOREM DelaysSuffice ==
    ASSUME OutboxMaxAttempts <= RetryDelayCount + 1
    PROVE  Spec => [][\A p \in Publishers : ~PublisherIndexError(p)]_vars
<1>1. ASSUME OwnershipInvariant, NEW p \in Publishers, PublisherIndexError(p)
      PROVE  FALSE
  <2>1. PICK c \in publisher[p] :
          ~Exhausted(c.attempts + 1) /\ c.attempts + 1 > RetryDelayCount
      BY <1>1 DEF PublisherIndexError, Unrecorded
  <2>2. c.attempts \in Nat /\ OutboxMaxAttempts \in Nat
      BY <1>1 DEF OwnershipInvariant, TypeOK, ClaimedEvent
  <2> QED BY <2>1, <2>2 DEF Exhausted, RetryDelayCount
<1>2. OwnershipInvariant => [\A p \in Publishers : ~PublisherIndexError(p)]_vars
    BY <1>1
<1> QED BY <1>2, Ownership, PTL

-----------------------------------------------------------------------------
(* Only a publisher gives up an import that was never processed.           *)

\* A step that gives up no import as never started.
NothingGivenUp ==
    \A i \in Imports : job'[i].reason \in
        {job[i].reason, "none", "processing_failed", "max_attempts"}

\* The failure reason each row operation leaves.
LEMMA RowReasons ==
    ASSUME NEW row \in ImportJob, NEW why \in Reasons, NEW t \in Tokens
    PROVE  /\ FailRow(row, why).reason = why
           /\ RequeueRow(row).reason = "none"
           /\ CompleteRow(row).reason = row.reason
           /\ ClaimRow(row, t).reason = row.reason
BY DEF FailRow, RequeueRow, CompleteRow, ClaimRow, ImportJob

\* A worker writes the row of its own import, if any.
LEMMA WrittenReason ==
    ASSUME OwnershipInvariant, NEW w \in Workers, worker[w].pc # "idle",
           NEW row, WriteRow(w, row),
           row.reason \in {job[worker[w].import].reason, "none",
                           "processing_failed", "max_attempts"}
    PROVE  NothingGivenUp
<1>1. worker[w].import \in Imports
    BY DEF OwnershipInvariant, RunsAreTyped
<1> QED BY <1>1 DEF WriteRow, NothingGivenUp, OwnershipInvariant, TypeOK

\* A worker that fails an import says that its processing failed.
LEMMA WorkersGiveUpNothing ==
    ASSUME OwnershipInvariant, NEW w \in Workers,
           Receive(w) \/ TaskStep(w) \/ WorkerCrash(w) \/ Redeliver(w)
    PROVE  NothingGivenUp
<1>1. worker[w].pc # "idle" =>
        job[worker[w].import] \in ImportJob /\ worker[w].token \in Tokens
    BY DEF OwnershipInvariant, RunsAreTyped, TypeOK
<1>2. CASE CommitClaim(w) \/ ClaimCommitApplied(w)
  <2>1. worker[w].pc = "locked" /\ WriteRow(w, ClaimedRow(w))
      BY <1>2 DEF CommitClaim, ClaimCommitApplied
  <2>2. ClaimedRow(w).reason = job[worker[w].import].reason
      BY <1>1, <2>1, RowReasons DEF ClaimedRow, Reasons
  <2> QED BY <2>1, <2>2, WrittenReason
<1>3. CASE CompleteImport(w) \/ CompleteCommitApplied(w)
  <2>1. worker[w].pc = "working" /\ WriteRow(w, CompleteRow(job[worker[w].import]))
      BY <1>3 DEF CompleteImport, CompleteCommitApplied
  <2>2. CompleteRow(job[worker[w].import]).reason = job[worker[w].import].reason
      BY <1>1, <2>1, RowReasons DEF Reasons
  <2> QED BY <2>1, <2>2, WrittenReason
<1>4. CASE MarkFailed(w) \/ HandleLastAttempt(w)
  <2>1. PICK why \in {"processing_failed", "max_attempts"} :
          MarkFailedWith(w, why) /\ worker[w].pc # "idle"
      BY <1>4 DEF MarkFailed, HandleLastAttempt
  <2>2. FailRow(job[worker[w].import], why).reason = why
      BY <1>1, <2>1, RowReasons DEF Reasons
  <2> QED BY <2>1, <2>2, WrittenReason DEF MarkFailedWith, NothingGivenUp
<1>5. CASE RequeueForRetry(w) \/ RequeueCommitApplied(w)
  <2>1. /\ worker[w].pc # "idle"
        /\ job' = job \/ WriteRow(w, RequeueRow(job[worker[w].import]))
      BY <1>5 DEF RequeueForRetry, RequeueCommitApplied
  <2>2. RequeueRow(job[worker[w].import]).reason = "none"
      BY <1>1, <2>1, RowReasons DEF Reasons
  <2> QED BY <2>1, <2>2, WrittenReason DEF NothingGivenUp
<1> QED BY <1>2, <1>3, <1>4, <1>5 DEF TaskStep, ClaimStep, ProcessStep, HandlerStep,
        TaskEndStep, Receive, LockImport, SkipImport, LoseDatabaseBeforeClaim,
        FailBeforeClaim, LoseClaimCommit, StopStaleWorker, FailProcessing,
        LoseDatabase, LoseHandler, RetryTask, RetryPublishFails, Acknowledge,
        WorkerCrash, Redeliver, NothingGivenUp

\* The watchdog fails an import because its attempts are used up.
LEMMA WatchdogGivesUpNothing ==
    ASSUME OwnershipInvariant, RecoverStaleImports
    PROVE  NothingGivenUp
<1>1. PICK S \in SUBSET Processing :
        job' = [i \in Imports |-> IF i \in S THEN RecoveredRow(job[i]) ELSE job[i]]
    BY DEF RecoverStaleImports, RecoverStaleImportsOf
<1>2. ASSUME NEW row \in ImportJob
      PROVE  RecoveredRow(row).reason \in {"none", "max_attempts"}
  <2>1. /\ FailRow(row, "max_attempts").reason = "max_attempts"
        /\ RequeueRow(row).reason = "none"
      BY DEF FailRow, RequeueRow, ImportJob
  <2> QED BY <2>1 DEF RecoveredRow
<1> QED BY <1>1, <1>2 DEF NothingGivenUp, OwnershipInvariant, TypeOK

\* An intent with a claim to recover has a dispatch attempt left, so the recovery
\* fails no import: the limit is only reached by recording a failed dispatch.
LEMMA RecoveryGivesUpNothing ==
    ASSUME OwnershipInvariant, NEW p \in Publishers, RecoverStaleClaims(p)
    PROVE  NothingGivenUp
<1>1. PICK S \in SUBSET {e \in Events : outbox[e].status = "PROCESSING"} :
        job' = [i \in Imports |->
                 IF \E e \in S : ImportOf(e) = i /\ Exhausted(outbox[e].attempts)
                 THEN FailPendingImport(i)
                 ELSE job[i]]
    BY DEF RecoverStaleClaims, RecoverStaleClaimsOf
<1>2. \A e \in S : ~Exhausted(outbox[e].attempts)
  <2> SUFFICES ASSUME NEW e \in S PROVE ~Exhausted(outbox[e].attempts)
      OBVIOUS
  <2>1. outbox[e].attempts < OutboxMaxAttempts /\ outbox[e].attempts \in Nat
      BY DEF OwnershipInvariant, DispatchableHasAttempts, TypeOK, DispatchIntent
  <2> QED BY <2>1 DEF Exhausted
<1> QED BY <1>1, <1>2 DEF NothingGivenUp

\* What recording a failed dispatch may do to the rows of the two tables.
LEMMA FailureGivesUp ==
    ASSUME OwnershipInvariant, NEW p \in Publishers, RecordPublishFailure(p),
           NEW i \in Imports, job'[i] # job[i]
    PROVE  /\ \E s \in Slots :
                /\ outbox[<<i, s>>].status = "PROCESSING"
                /\ outbox'[<<i, s>>].status = "FAILED"
                /\ outbox'[<<i, s>>].attempts = OutboxMaxAttempts
           /\ job[i].status = "PENDING"
           /\ ~RowLocked(i)
<1>1. PICK c \in Unrecorded(p) :
        /\ HoldsClaim(c.event, c.token) /\ Exhausted(c.attempts + 1)
        /\ ~RowLocked(ImportOf(c.event))
        /\ outbox' = [outbox EXCEPT
                        ![c.event] = PublishFailureRow(@, c.attempts + 1)]
        /\ job' = [job EXCEPT ![ImportOf(c.event)] =
                                  FailPendingImport(ImportOf(c.event))]
    BY DEF RecordPublishFailure
<1> DEFINE e == c.event
           n == c.attempts + 1
<1>2. c \in ClaimedEvent /\ e \in Events /\ ImportOf(e) \in Imports
    BY DEF Unrecorded, OwnershipInvariant, TypeOK, ClaimedEvent, ImportOf, Events
<1>3. n \in 0 .. OutboxMaxAttempts /\ n = OutboxMaxAttempts
    BY <1>1, <1>2 DEF OwnershipInvariant, DispatchableHasAttempts, Unrecorded,
       ClaimedEvent, Exhausted
<1>4. /\ i = ImportOf(e)
      /\ job'[i] = FailPendingImport(i)
    BY <1>1, <1>2 DEF OwnershipInvariant, TypeOK
<1>5. PICK s \in Slots : e = <<i, s>>
    BY <1>2, <1>4 DEF Events, ImportOf
<1>6. outbox[e].status = "PROCESSING"
    BY <1>1 DEF HoldsClaim
<1>7. outbox[e] \in DispatchIntent /\ outbox'[e] = PublishFailureRow(outbox[e], n)
    BY <1>1, <1>2 DEF OwnershipInvariant, TypeOK
<1>8. outbox'[e].status = "FAILED" /\ outbox'[e].attempts = OutboxMaxAttempts
  <2>1. Exhausted(n)
      BY <1>1
  <2> HIDE DEF e, n
  <2>2. /\ PublishFailureRow(outbox[e], n).attempts = n
        /\ PublishFailureRow(outbox[e], n).status = "FAILED"
      BY <2>1, <1>3, <1>7, IntentRowTypes
  <2> QED BY <2>2, <1>3, <1>7
<1>9. job[i].status = "PENDING"
    BY <1>4, FailPendingImportEffect
<1> QED BY <1>1, <1>4, <1>5, <1>6, <1>8, <1>9

\* An import is given up with the last dispatch of an intent that waits for it, and
\* while no worker claims or processes it: a dispatch that is taken for failed, but
\* whose message arrived, takes no import from the worker that received it.
THEOREM ImportsAreGivenUpLast == Spec => GivenUpWithLastDispatch
<1> DEFINE Last(i) == \E s \in Slots :
                        /\ outbox[<<i, s>>].status = "PROCESSING"
                        /\ outbox'[<<i, s>>].status = "FAILED"
                        /\ outbox'[<<i, s>>].attempts = OutboxMaxAttempts
           Unattended(i) == \A w \in Workers : worker[w].import = i =>
                              worker[w].pc # "locked" /\ ~Owns(w)
           GivenUpLast ==
             \A i \in Imports :
               job[i].reason # "never_started" /\ job'[i].reason = "never_started" =>
                 /\ Last(i)
                 /\ Unattended(i)
<1>1. NothingGivenUp => GivenUpLast
    BY DEF NothingGivenUp
<1>2. ASSUME OwnershipInvariant, NEW p \in Publishers, RecordPublishFailure(p)
      PROVE  GivenUpLast
  <2> SUFFICES ASSUME NEW i \in Imports, job'[i] # job[i]
               PROVE  Last(i) /\ Unattended(i)
      OBVIOUS
  <2>1. Last(i) /\ job[i].status = "PENDING" /\ ~RowLocked(i)
      BY <1>2, FailureGivesUp
  <2>2. Unattended(i)
      BY <2>1 DEF RowLocked, Owns, Owned
  <2> QED BY <2>1, <2>2
<1>3. job' = job => NothingGivenUp
    BY DEF NothingGivenUp
<1>4. ASSUME OwnershipInvariant, NEW i \in Imports, CreateImport(i)
      PROVE  NothingGivenUp
    BY <1>4 DEF CreateImport, NothingGivenUp, NewJob, NoJob, OwnershipInvariant, TypeOK
<1>5. ASSUME OwnershipInvariant, NEW p \in Publishers, PublisherStep(p) \/ PublisherCrash(p)
      PROVE  GivenUpLast
  <2>1. CASE RecordPublishFailure(p)
      BY <1>2, <1>5, <2>1
  <2>2. CASE RecoverStaleClaims(p)
      BY <1>1, <1>5, <2>2, RecoveryGivesUpNothing
  <2> HIDE DEF GivenUpLast
  <2>3. CASE job' = job
      BY <1>1, <1>3, <2>3
  <2> QED BY <1>5, <2>1, <2>2, <2>3 DEF PublisherStep, DispatchNext, RecordOutcome,
          ClaimDueEvents, DispatchAccepted, DispatchRefused, DispatchConfirmLost, Dispatch,
          RecordPublishSuccess, PublisherIndexError, PublisherCrash
<1>6. OwnershipInvariant /\ [Next]_vars => [GivenUpLast]_vars
  <2> SUFFICES ASSUME OwnershipInvariant, Next PROVE GivenUpLast \/ UNCHANGED vars
      OBVIOUS
  <2>1. CASE Quiescent
      BY <2>1 DEF Quiescent
  <2> HIDE DEF GivenUpLast
  <2> QED BY <1>1, <1>4, <1>5, <2>1, WorkersGiveUpNothing, WatchdogGivesUpNothing DEF Next
<1> QED BY <1>6, Ownership, PTL DEF Spec, GivenUpWithLastDispatch
=============================================================================
