------------------------ MODULE ImportLifecycleProofs ------------------------
(***************************************************************************)
(* The pipeline implements ImportLifecycle, and fences off stale workers.  *)
(* Both follow from a classification of what a step may do to import_jobs. *)
(***************************************************************************)
EXTENDS ImportPipelineProofs

USE ProcessAssumption, SettingsAssumption

\* Attempts that end early: rows given up, or released with attempts left.
AttemptsEnd ==
    \A i \in Imports : job'[i] # job[i] =>
        /\ job'[i].token = NoToken
        /\ job'[i].attempts = job[i].attempts
        /\ \/ /\ job'[i].status = "FAILED"
              /\ job[i].status \in {"PENDING", "PROCESSING"}
           \/ /\ job'[i].status = "PENDING"
              /\ job[i].status = "PROCESSING"
              /\ job[i].attempts < ImportMaxAttempts

\* Everything a step of the pipeline may do to import_jobs.
RowChange ==
    \/ job' = job
    \/ \E i \in Imports : job[i].status = "NONE" /\ job' = [job EXCEPT ![i] = NewJob]
    \/ \E w \in Workers : worker[w].pc = "locked" /\ WriteRow(w, ClaimedRow(w))
    \/ \E w \in Workers : /\ worker[w].pc = "working"
                          /\ Owns(w)
                          /\ WriteRow(w, CompleteRow(job[worker[w].import]))
    \/ AttemptsEnd

\* A publisher changes import_jobs only to give up PENDING imports.
LEMMA PublisherRowChange ==
    ASSUME OwnershipInvariant, NEW p \in Publishers, PublisherStep(p) \/ PublisherCrash(p)
    PROVE  RowChange
<1>1. CASE RecordPublishFailure(p)
  <2>1. PICK c \in Unrecorded(p) :
            \/ job' = job
            \/ job' = [job EXCEPT ![ImportOf(c.event)] =
                                      FailPendingImport(ImportOf(c.event))]
      BY <1>1 DEF RecordPublishFailure
  <2>2. ImportOf(c.event) \in Imports
      BY DEF Unrecorded, OwnershipInvariant, TypeOK, ClaimedEvent, ImportOf, Events
  <2>3. CASE job' # job
      BY <2>1, <2>2, <2>3, FailPendingImportEffect
        DEF RowChange, AttemptsEnd, OwnershipInvariant, TypeOK
  <2> QED BY <2>3 DEF RowChange
<1>2. CASE RecoverStaleClaims(p)
  <2>1. PICK S \in SUBSET {e \in Events : outbox[e].status = "PROCESSING"} :
          job' = [i \in Imports |->
                   IF \E e \in S : ImportOf(e) = i /\ Exhausted(outbox[e].attempts)
                   THEN FailPendingImport(i)
                   ELSE job[i]]
      BY <1>2 DEF RecoverStaleClaims, RecoverStaleClaimsOf
  <2> QED BY <2>1, FailPendingImportEffect DEF RowChange, AttemptsEnd
<1> QED BY <1>1, <1>2 DEF PublisherStep, DispatchNext, RecordOutcome, ClaimDueEvents,
        DispatchAccepted, DispatchRefused, DispatchConfirmLost, Dispatch,
        RecordPublishSuccess, PublisherIndexError, PublisherCrash, RowChange

\* The owner of an import ends its attempt early.
LEMMA GivenUpRow ==
    ASSUME OwnershipInvariant, NEW w \in Workers, NEW row \in ImportJob,
           worker[w].pc # "idle",
           Owns(w),
           WriteRow(w, row),
           row.token = NoToken,
           row.attempts = job[worker[w].import].attempts,
           \/ row.status = "FAILED"
           \/ row.status = "PENDING" /\ row.attempts < ImportMaxAttempts
    PROVE  AttemptsEnd
<1>1. worker[w].import \in Imports /\ job[worker[w].import].status = "PROCESSING"
    BY DEF OwnershipInvariant, RunsAreTyped, Owns, Owned
<1> QED BY <1>1 DEF AttemptsEnd, WriteRow, OwnershipInvariant, TypeOK

\* A worker claims, completes, fails or releases one import, or none.
LEMMA WorkerRowChange ==
    ASSUME OwnershipInvariant, NEW w \in Workers,
           Receive(w) \/ TaskStep(w) \/ WorkerCrash(w) \/ Redeliver(w)
    PROVE  RowChange
<1>1. CASE CommitClaim(w) \/ ClaimCommitApplied(w)
    BY <1>1 DEF CommitClaim, ClaimCommitApplied, RowChange
<1>2. CASE CompleteImport(w) \/ CompleteCommitApplied(w)
    BY <1>2 DEF CompleteImport, CompleteCommitApplied, RowChange
<1>3. CASE MarkFailed(w) \/ HandleLastAttempt(w)
  <2>1. PICK why \in Reasons : MarkFailedWith(w, why) /\ worker[w].pc # "idle"
      BY <1>3 DEF MarkFailed, HandleLastAttempt, Reasons
  <2>2. job[worker[w].import] \in ImportJob
      BY <2>1 DEF OwnershipInvariant, RunsAreTyped, TypeOK
  <2> QED BY <2>1, <2>2, FailRowEffect, GivenUpRow DEF MarkFailedWith, RowChange
<1>4. CASE RequeueForRetry(w) \/ RequeueCommitApplied(w)
  <2>1. worker[w].pc = "handling" /\ worker[w].attempts < ImportMaxAttempts
      BY <1>4 DEF RequeueForRetry, RequeueCommitApplied
  <2>2. job[worker[w].import] \in ImportJob
      BY <2>1 DEF OwnershipInvariant, RunsAreTyped, TypeOK
  <2>3. job' = job \/ (Owns(w) /\ WriteRow(w, RequeueRow(job[worker[w].import])))
      BY <1>4 DEF RequeueForRetry, RequeueCommitApplied
  <2>4. Owns(w) => job[worker[w].import].attempts < ImportMaxAttempts
      BY <2>1 DEF OwnershipInvariant, OwnerKnowsAttempt
  <2> QED BY <2>1, <2>2, <2>3, <2>4, RequeueRowEffect, GivenUpRow DEF RowChange
<1> QED BY <1>1, <1>2, <1>3, <1>4 DEF TaskStep, ClaimStep, ProcessStep, HandlerStep,
        TaskEndStep, Receive, LockImport, SkipImport, LoseDatabaseBeforeClaim,
        FailBeforeClaim, LoseClaimCommit, StopStaleWorker, FailProcessing,
        LoseDatabase, LoseHandler, RetryTask, RetryPublishFails, Acknowledge,
        WorkerCrash, Redeliver, RowChange

\* The watchdog ends attempts that had an owner.
LEMMA WatchdogRowChange ==
    ASSUME OwnershipInvariant, RecoverStaleImports
    PROVE  RowChange
<1>1. PICK S \in SUBSET Processing :
        job' = [i \in Imports |-> IF i \in S THEN RecoveredRow(job[i]) ELSE job[i]]
    BY DEF RecoverStaleImports, RecoverStaleImportsOf
<1>2. \A i \in Imports : job[i] \in ImportJob /\ job[i].attempts \in 0 .. ImportMaxAttempts
    BY DEF OwnershipInvariant, TypeOK, ImportJob
<1>3. ASSUME NEW i \in Imports, job'[i] # job[i]
      PROVE  /\ job'[i].token = NoToken
             /\ job'[i].attempts = job[i].attempts
             /\ job[i].status = "PROCESSING"
             /\ \/ job'[i].status = "FAILED"
                \/ job'[i].status = "PENDING" /\ job[i].attempts < ImportMaxAttempts
  <2>1. i \in S /\ job'[i] = RecoveredRow(job[i])
      BY <1>1, <1>3
  <2>2. /\ RecoveredRow(job[i]).token = NoToken
        /\ RecoveredRow(job[i]).attempts = job[i].attempts
        /\ RecoveredRow(job[i]).status =
             IF job[i].attempts >= ImportMaxAttempts THEN "FAILED" ELSE "PENDING"
      BY <1>2, RecoveredRowEffect
  <2>3. job[i].status = "PROCESSING"
      BY <2>1 DEF Processing
  <2>4. job[i].attempts < ImportMaxAttempts \/ job[i].attempts >= ImportMaxAttempts
      BY <1>2
  <2> QED BY <2>1, <2>2, <2>3, <2>4
<1> QED BY <1>3 DEF RowChange, AttemptsEnd

\* Every step is one of the changes of RowChange.
LEMMA NextRowChange == OwnershipInvariant /\ [Next]_vars => RowChange
<1> SUFFICES ASSUME OwnershipInvariant, [Next]_vars PROVE RowChange
    OBVIOUS
<1>1. ASSUME NEW i \in Imports, CreateImport(i) PROVE RowChange
    BY <1>1 DEF CreateImport, RowChange
<1>2. CASE UNCHANGED vars
    BY <1>2 DEF vars, RowChange
<1> QED BY <1>1, <1>2, PublisherRowChange, WorkerRowChange, WatchdogRowChange
        DEF Next, Quiescent

\* A processed import was completed by the worker of its current attempt; a late
\* report of a worker that lost the import changes nothing.
THEOREM StaleWorkersAreFenced == Spec => CompletedByCurrentAttempt
<1> DEFINE Fenced ==
        \A i \in Imports :
            job[i].status # "COMPLETED" /\ job'[i].status = "COMPLETED" =>
                \E w \in Workers :
                    /\ At(w, "working", i)
                    /\ worker[w].token = job[i].token
                    /\ worker[w].attempts = job[i].attempts
<1>1. OwnershipInvariant /\ [Next]_vars => [Fenced]_vars
  <2> SUFFICES ASSUME OwnershipInvariant, RowChange, NEW i \in Imports,
                      job[i].status # "COMPLETED", job'[i].status = "COMPLETED"
               PROVE  \E w \in Workers :
                        /\ At(w, "working", i)
                        /\ worker[w].token = job[i].token
                        /\ worker[w].attempts = job[i].attempts
      BY NextRowChange
  <2>1. PICK w \in Workers : /\ worker[w].pc = "working"
                             /\ Owns(w)
                             /\ WriteRow(w, CompleteRow(job[worker[w].import]))
    <3>1. CASE job' = job
        BY <3>1
    <3>2. ASSUME NEW j \in Imports, job' = [job EXCEPT ![j] = NewJob] PROVE FALSE
        BY <3>2 DEF NewJob, NoJob, OwnershipInvariant, TypeOK
    <3>3. ASSUME NEW v \in Workers, worker[v].pc = "locked",
                 WriteRow(v, ClaimedRow(v))
          PROVE  FALSE
      <4>1. /\ worker[v].import \in Imports
            /\ worker[v].token \in Tokens
            /\ job[worker[v].import] \in ImportJob
          BY <3>3 DEF OwnershipInvariant, RunsAreTyped, TypeOK
      <4>2. ClaimedRow(v).status = "PROCESSING"
          BY <4>1, ClaimRowEffect DEF ClaimedRow
      <4> QED BY <3>3, <4>1, <4>2 DEF WriteRow, OwnershipInvariant, TypeOK
    <3>4. ~AttemptsEnd
        BY DEF AttemptsEnd
    <3> QED BY <3>1, <3>2, <3>3, <3>4 DEF RowChange
  <2>2. worker[w].import = i
      BY <2>1 DEF WriteRow, OwnershipInvariant, TypeOK
  <2> QED BY <2>1, <2>2 DEF At, Owns, Owned, OwnershipInvariant, OwnerKnowsAttempt
<1> QED BY <1>1, Ownership, PTL DEF Spec, CompletedByCurrentAttempt

-----------------------------------------------------------------------------
(* Refinement.                                                             *)

\* No import has been uploaded yet, in both specifications.
LEMMA LifecycleInit == Init => Lifecycle!Init
BY DEF Init, Lifecycle!Init, Lifecycle!Unsubmitted, View, NoJob

\* A record of the abstract rows' shape is determined by its fields.
LEMMA LifecycleSubmit ==
    ASSUME OwnershipInvariant, NEW i \in Imports,
           job[i].status = "NONE", job' = [job EXCEPT ![i] = NewJob]
    PROVE  Lifecycle!Submit(i)
<1>1. View(NewJob) = Lifecycle!Submitted
    BY DEF View, NewJob, NoJob, Lifecycle!Submitted
<1>2. [j \in Imports |-> View(job'[j])] =
        [[j \in Imports |-> View(job[j])] EXCEPT ![i] = Lifecycle!Submitted]
    BY <1>1 DEF OwnershipInvariant, TypeOK
<1> QED BY <1>2 DEF Lifecycle!Submit, View

\* A worker's claim is a Claim of the lifecycle.
LEMMA LifecycleClaim ==
    ASSUME OwnershipInvariant, NEW w \in Workers,
           worker[w].pc = "locked", WriteRow(w, ClaimedRow(w))
    PROVE  Lifecycle!Claim(worker[w].import, worker[w].token)
<1> DEFINE i == worker[w].import
           row == [status |-> "PROCESSING", owner |-> worker[w].token,
                   attempts |-> job[i].attempts + 1]
<1>1. /\ i \in Imports
      /\ worker[w].token \in Tokens
      /\ job[i] \in ImportJob
      /\ Claimable(i)
    BY DEF OwnershipInvariant, RunsAreTyped, TypeOK, LockProtectsRow
<1>2. View(ClaimedRow(w)) = row
    BY <1>1, ClaimRowEffect DEF ClaimedRow, View
<1> HIDE DEF i
<1>3. [j \in Imports |-> View(job'[j])] =
        [[j \in Imports |-> View(job[j])] EXCEPT ![i] = row]
    BY <1>1, <1>2 DEF WriteRow, OwnershipInvariant, TypeOK, i
<1> QED BY <1>1, <1>3 DEF Lifecycle!Claim, View, Claimable, i

\* The owner's completion is a Complete of the lifecycle.
LEMMA LifecycleComplete ==
    ASSUME OwnershipInvariant, NEW w \in Workers,
           worker[w].pc = "working", Owns(w),
           WriteRow(w, CompleteRow(job[worker[w].import]))
    PROVE  Lifecycle!Complete(worker[w].import)
<1> DEFINE i == worker[w].import
           row == [status |-> "COMPLETED", owner |-> NoToken,
                   attempts |-> job[i].attempts]
<1>1. i \in Imports /\ job[i] \in ImportJob /\ job[i].status = "PROCESSING"
    BY DEF OwnershipInvariant, RunsAreTyped, TypeOK, Owns, Owned
<1>2. View(CompleteRow(job[i])) = row
    BY <1>1, CompleteRowEffect DEF View
<1>3. Lifecycle!Ended(View(job[i]), "COMPLETED") = row
    BY DEF View, Lifecycle!Ended
<1> HIDE DEF i, row
<1>4. [j \in Imports |-> View(job'[j])] =
        [[j \in Imports |-> View(job[j])] EXCEPT ![i] = row]
    BY <1>1, <1>2 DEF WriteRow, OwnershipInvariant, TypeOK, i
<1> QED BY <1>1, <1>3, <1>4 DEF Lifecycle!Complete, View, i

\* Failing and releasing imports is one EndAttempts of the lifecycle.
LEMMA LifecycleEndAttempts ==
    ASSUME OwnershipInvariant, AttemptsEnd, job' \in [Imports -> ImportJob]
    PROVE  Lifecycle!EndAttempts
<1> DEFINE S == {i \in Imports : job'[i] # job[i]}
           F == {i \in S : job'[i].status = "FAILED"}
           view == [i \in Imports |-> View(job[i])]
<1>1. \A i \in F : Lifecycle!MayFail(view[i])
    BY DEF AttemptsEnd, Lifecycle!MayFail, View
<1>2. \A i \in S \ F : Lifecycle!MayRelease(view[i])
    BY DEF AttemptsEnd, Lifecycle!MayRelease, View
<1>3. \A i \in F : View(job'[i]) = Lifecycle!Ended(view[i], "FAILED")
    BY DEF AttemptsEnd, Lifecycle!Ended, View
<1>4. \A i \in S \ F : View(job'[i]) = Lifecycle!Ended(view[i], "PENDING")
    BY DEF AttemptsEnd, Lifecycle!Ended, View
<1>5. [i \in Imports |-> View(job'[i])] =
        [i \in Imports |-> IF i \in F THEN Lifecycle!Ended(view[i], "FAILED")
                           ELSE IF i \in S THEN Lifecycle!Ended(view[i], "PENDING")
                           ELSE view[i]]
    BY <1>3, <1>4
<1> QED BY <1>1, <1>2, <1>5 DEF Lifecycle!EndAttempts

\* Every behaviour of the pipeline, under every fault, is one of ImportLifecycle.
THEOREM PipelineImplementsLifecycle == Spec => LifecycleRefinement
<1>1. OwnershipInvariant /\ [Next]_vars /\ OwnershipInvariant' =>
        [Lifecycle!Next]_[i \in Imports |-> View(job[i])]
  <2> SUFFICES ASSUME OwnershipInvariant, RowChange, OwnershipInvariant'
               PROVE  Lifecycle!Next \/ UNCHANGED [i \in Imports |-> View(job[i])]
      BY NextRowChange
  <2>1. CASE job' = job
      BY <2>1
  <2>2. ASSUME NEW w \in Workers, worker[w].pc \in {"locked", "working"}
        PROVE  worker[w].import \in Imports /\ worker[w].token \in Tokens
      BY <2>2 DEF OwnershipInvariant, RunsAreTyped
  <2>3. job' \in [Imports -> ImportJob]
      BY DEF OwnershipInvariant, TypeOK
  <2> QED BY <2>1, <2>2, <2>3, LifecycleSubmit, LifecycleClaim, LifecycleComplete,
            LifecycleEndAttempts DEF RowChange, Lifecycle!Next
<1> QED BY <1>1, LifecycleInit, Ownership, PTL
        DEF Spec, LifecycleRefinement, Lifecycle!Spec

-----------------------------------------------------------------------------
(* What the lifecycle promises.                                            *)

\* Nothing happens to a finished import in the lifecycle.
LEMMA LifecycleFinishes ==
    ASSUME [Lifecycle!Next]_[i \in Imports |-> View(job[i])],
           NEW i \in Imports, job[i].status \in {"COMPLETED", "FAILED"}
    PROVE  View(job'[i]) = View(job[i])
<1> DEFINE view == [j \in Imports |-> View(job[j])]
<1>1. view[i] = View(job[i]) /\ view'[i] = View(job'[i])
    OBVIOUS
<1>2. view[i].status \in {"COMPLETED", "FAILED"}
    BY DEF View
<1> HIDE DEF view
<1>3. ASSUME NEW j \in Imports, view[j].status \in {"NONE", "PENDING", "PROCESSING"},
             NEW row, view' = [view EXCEPT ![j] = row]
      PROVE  view'[i] = view[i]
    BY <1>2, <1>3 DEF view
<1>4. CASE Lifecycle!EndAttempts
    BY <1>2, <1>4 DEF Lifecycle!EndAttempts, Lifecycle!MayFail, Lifecycle!MayRelease, view
<1>5. ASSUME NEW j \in Imports,
             \/ Lifecycle!Submit(j) \/ Lifecycle!Complete(j)
             \/ \E o \in Tokens : Lifecycle!Claim(j, o)
      PROVE  view'[i] = view[i]
    BY <1>3, <1>5 DEF Lifecycle!Submit, Lifecycle!Complete, Lifecycle!Claim, view
<1>6. CASE view' = view
    BY <1>1, <1>6
<1> QED BY <1>1, <1>4, <1>5, <1>6 DEF Lifecycle!Next, view

\* A client that polls an import and sees it COMPLETED or FAILED may stop: no late
\* worker, publisher or watchdog changes its status or its attempts any more.
THEOREM FinishedImportsStay ==
    Spec => [][\A i \in Imports : job[i].status \in {"COMPLETED", "FAILED"} =>
                 View(job'[i]) = View(job[i])]_vars
<1>1. [Lifecycle!Next]_[i \in Imports |-> View(job[i])] =>
        [\A i \in Imports : job[i].status \in {"COMPLETED", "FAILED"} =>
            View(job'[i]) = View(job[i])]_vars
    BY LifecycleFinishes
<1> QED BY <1>1, PipelineImplementsLifecycle, PTL DEF LifecycleRefinement, Lifecycle!Spec

\* A row carries a processing token exactly while an attempt is being made.
TokensMarkAttempts ==
    \A i \in Imports : job[i].token # NoToken <=> job[i].status = "PROCESSING"

\* Claims write status and token together, and so does whatever ends an attempt: no
\* token of an old attempt is left that a late worker could still match.
THEOREM TokensEndWithAttempts == Spec => []TokensMarkAttempts
<1>1. Init => TokensMarkAttempts
    BY DEF Init, TokensMarkAttempts, NoJob
<1>2. OwnershipInvariant /\ TokensMarkAttempts /\ [Next]_vars => TokensMarkAttempts'
  <2> SUFFICES ASSUME OwnershipInvariant, TokensMarkAttempts, RowChange
               PROVE  TokensMarkAttempts'
      BY NextRowChange
  <2> USE DEF TokensMarkAttempts, OwnershipInvariant, TypeOK
  <2>1. ASSUME NEW i \in Imports, job' = [job EXCEPT ![i] = NewJob]
        PROVE  TokensMarkAttempts'
      BY <2>1 DEF NewJob, NoJob
  <2>2. ASSUME NEW w \in Workers, worker[w].pc = "locked", WriteRow(w, ClaimedRow(w))
        PROVE  TokensMarkAttempts'
    <3>1. /\ worker[w].import \in Imports /\ worker[w].token \in Tokens
          /\ job[worker[w].import] \in ImportJob
        BY <2>2 DEF RunsAreTyped
    <3>2. ClaimedRow(w).status = "PROCESSING" /\ ClaimedRow(w).token # NoToken
        BY <3>1, ClaimRowEffect DEF ClaimedRow
    <3> QED BY <2>2, <3>1, <3>2 DEF WriteRow
  <2>3. ASSUME NEW w \in Workers, worker[w].pc = "working",
               WriteRow(w, CompleteRow(job[worker[w].import]))
        PROVE  TokensMarkAttempts'
    <3>1. worker[w].import \in Imports /\ job[worker[w].import] \in ImportJob
        BY <2>3 DEF RunsAreTyped
    <3>2. /\ CompleteRow(job[worker[w].import]).status = "COMPLETED"
          /\ CompleteRow(job[worker[w].import]).token = NoToken
        BY <3>1, CompleteRowEffect
    <3> QED BY <2>3, <3>1, <3>2 DEF WriteRow
  <2>4. CASE AttemptsEnd
      BY <2>4 DEF AttemptsEnd
  <2>5. CASE job' = job
      BY <2>5
  <2> QED BY <2>1, <2>2, <2>3, <2>4, <2>5 DEF RowChange
<1> QED BY <1>1, <1>2, Ownership, PTL DEF Spec
=============================================================================
