------------------------ MODULE ChunkProgressProofs ------------------------
(***************************************************************************)
(* Proofs about the steps of chunk processing: they are steps of           *)
(* ImportLifecycle, and every step of a run brings it nearer to its end.   *)
(***************************************************************************)
EXTENDS ChunkProcessingProofs

-----------------------------------------------------------------------------
(* The lifecycle.                                                          *)

\* The watchdog and the failure handlers end one attempt of an import.
LEMMA EndOneAttempt ==
    ASSUME ChunkInvariant, NEW i \in Imports, job[i].status = "PROCESSING",
           NEW status \in {"PENDING", "FAILED"}, SetStatus(i, status),
           status = "PENDING" => job[i].attempts < MaxAttempts
    PROVE  Lifecycle!EndAttempts
<1> DEFINE failed == {j \in {i} : status = "FAILED"}
<1>1. /\ \A j \in failed : Lifecycle!MayFail(Lifecycles[j])
      /\ \A j \in {i} \ failed : Lifecycle!MayRelease(Lifecycles[j])
  BY DEF Lifecycles, Lifecycle!MayFail, Lifecycle!MayRelease
<1>2. Lifecycles' = [j \in Imports |->
        IF j \in failed THEN Lifecycle!Ended(Lifecycles[j], "FAILED")
        ELSE IF j \in {i} THEN Lifecycle!Ended(Lifecycles[j], "PENDING")
        ELSE Lifecycles[j]]
  <2>1. /\ job'[i].status = status /\ job'[i].attempts = job[i].attempts
        /\ \A j \in Imports \ {i} : job'[j] = job[j]
    BY DEF SetStatus, ChunkInvariant, TypeOK, Job
  <2> QED  BY <2>1 DEF Lifecycles, Lifecycle!Ended
<1> QED  BY <1>1, <1>2 DEF Lifecycle!EndAttempts

\* A retry is only asked for while there are attempts left.
LEMMA RetryHasAttempts ==
    ASSUME ChunkInvariant, NEW i \in Imports
    PROVE  /\ RetryStatus(i) \in {"PENDING", "FAILED"}
           /\ RetryStatus(i) = "PENDING" => job[i].attempts < MaxAttempts
<1>1. job[i].attempts \in Nat /\ MaxAttempts \in Nat
  BY ChunkAssumption DEF ChunkInvariant, TypeOK, Job
<1> QED  BY <1>1 DEF RetryStatus

\* A claim begins an attempt with the next number, which owns the import.
LEMMA ClaimBegins ==
    ASSUME ChunkInvariant, NEW w \in Workers, Claim(w)
    PROVE  \E i \in Imports : \E o \in 1 .. MaxAttempts : Lifecycle!Claim(i, o)
<1>1. PICK i \in Imports :
        /\ job[i].status = "PENDING" /\ job[i].attempts < MaxAttempts
        /\ job' = [job EXCEPT ![i].status = "PROCESSING",
                              ![i].attempts = job[i].attempts + 1]
  BY DEF Claim
<1>2. PICK o \in 1 .. MaxAttempts : o = job[i].attempts + 1
  BY <1>1, ChunkAssumption DEF ChunkInvariant, TypeOK, Job
<1>3. /\ job'[i].status = "PROCESSING" /\ job'[i].attempts = o
      /\ \A j \in Imports \ {i} : job'[j] = job[j]
  BY <1>1, <1>2 DEF ChunkInvariant, TypeOK, Job
<1>4. Lifecycles' = [Lifecycles EXCEPT ![i] =
        [status |-> "PROCESSING", owner |-> o, attempts |-> Lifecycles[i].attempts + 1]]
  BY <1>2, <1>3 DEF Lifecycles
<1>5. Lifecycle!Claim(i, o)
  BY <1>1, <1>4 DEF Lifecycle!Claim, Lifecycles
<1> QED  BY <1>5

\* complete() ends an attempt that is still the current one.
LEMMA CompleteEnds ==
    ASSUME ChunkInvariant, NEW w \in Workers, CompleteImport(w)
    PROVE  Lifecycle!Complete(run[w].import)
<1>1. run[w].pc = "complete" /\ Owns(w)
  BY DEF CompleteImport
<1>2. PICK i \in Imports : i = run[w].import
  BY <1>1, WriterState DEF Prepared
<1>3. job[i].status = "PROCESSING"
  BY <1>1, <1>2 DEF Owns
<1>4. /\ job'[i].status = "COMPLETED" /\ job'[i].attempts = job[i].attempts
      /\ \A j \in Imports \ {i} : job'[j] = job[j]
  BY <1>2 DEF CompleteImport, ChunkInvariant, TypeOK, Job
<1>5. Lifecycles' = [Lifecycles EXCEPT ![i] = Lifecycle!Ended(Lifecycles[i], "COMPLETED")]
  BY <1>4 DEF Lifecycles, Lifecycle!Ended
<1> QED  BY <1>2, <1>3, <1>5 DEF Lifecycle!Complete, Lifecycles

\* The reset and the chunks write counters only.
LEMMA CountersAreHidden ==
    ASSUME ChunkInvariant, NEW w \in Workers, PrepareForReprocessing(w) \/ PersistChunk(w)
    PROVE  UNCHANGED Lifecycles
<1>1. PICK i \in Imports : i = run[w].import
  BY DEF ChunkInvariant, RunsAreTyped, PrepareForReprocessing, PersistChunk
<1>2. \E c : job' = [job EXCEPT ![i].counts = c]
  BY <1>1 DEF PrepareForReprocessing, PersistChunk
<1>3. \A j \in Imports : job'[j].status = job[j].status /\ job'[j].attempts = job[j].attempts
  BY <1>2 DEF ChunkInvariant, TypeOK, Job
<1> QED  BY <1>3 DEF Lifecycles

\* A step of a run is one of these changes, or none.
LEMMA RunStepOfLifecycle ==
    ASSUME ChunkInvariant, NEW w \in Workers, RunStep(w)
    PROVE  Lifecycle!Next \/ UNCHANGED Lifecycles
<1>1. Owns(w) /\ run[w].pc # "idle" =>
        run[w].import \in Imports /\ job[run[w].import].status = "PROCESSING"
  BY DEF ChunkInvariant, RunsAreTyped, Owns
<1>2. CASE PrepareForReprocessing(w) \/ PersistChunk(w)
  BY <1>2, CountersAreHidden
<1>3. CASE CompleteImport(w)
  BY <1>1, <1>3, CompleteEnds DEF Lifecycle!Next, CompleteImport
<1>4. CASE MarkFailed(w)
  BY <1>1, <1>4, EndOneAttempt DEF Lifecycle!Next, MarkFailed
<1>5. CASE HandleOperationalFailure(w)
  BY <1>1, <1>5, EndOneAttempt, RetryHasAttempts DEF Lifecycle!Next, HandleOperationalFailure
<1>6. CASE \/ ValidateNextChunk(w) \/ ReachEndOfFile(w) \/ CatchIntegrityError(w)
           \/ CatchDataError(w) \/ ReclassifyDuplicates(w) \/ RaiseOriginalError(w)
           \/ StopStaleWorker(w)
  BY <1>6 DEF Lifecycles, ValidateNextChunk, ReachEndOfFile, CatchIntegrityError,
        CatchDataError, ReclassifyDuplicates, RaiseOriginalError, StopStaleWorker
<1> QED  BY <1>2, <1>3, <1>4, <1>5, <1>6 DEF RunStep

\* The updates of import_jobs by workers and the watchdog are, whatever fails and
\* whoever is late, claims, completions and ends of attempts of ImportLifecycle.
THEOREM ChunksImplementLifecycle == Spec => ImplementsLifecycle
<1>1. ChunkInvariant /\ [Next]_vars => [Lifecycle!Next]_Lifecycles
  <2> SUFFICES ASSUME ChunkInvariant, [Next]_vars
               PROVE  Lifecycle!Next \/ UNCHANGED Lifecycles
    OBVIOUS
  <2>1. ASSUME NEW w \in Workers, Claim(w)
        PROVE  Lifecycle!Next
    BY <2>1, ClaimBegins DEF Lifecycle!Next
  <2>2. ASSUME NEW w \in Workers, FailProcessing(w) \/ LoseDatabase(w) \/ CrashWorker(w)
        PROVE  UNCHANGED Lifecycles
    BY <2>2 DEF FailProcessing, LoseDatabase, CrashWorker, Lifecycles
  <2>3. ASSUME NEW i \in Imports, RecoverStaleImport(i)
        PROVE  Lifecycle!Next
    BY <2>3, EndOneAttempt, RetryHasAttempts DEF RecoverStaleImport, Lifecycle!Next
  <2>4. CASE UNCHANGED vars
    BY <2>4 DEF vars, Lifecycles
  <2> QED  BY <2>1, <2>2, <2>3, <2>4, RunStepOfLifecycle DEF Next, Quiescent
<1> QED  BY <1>1, ChunkInvariantHolds, PTL DEF Spec, ImplementsLifecycle

-----------------------------------------------------------------------------
(* Progress.                                                               *)

\* A run holds finitely many rows and has read no more than there are.
LEMMA MeasureIsTyped ==
    ASSUME ChunkInvariant, NEW w \in Workers, run[w].pc # "idle"
    PROVE  /\ IsFiniteSet(run[w].accepted)
           /\ Cardinality(run[w].accepted) \in Nat
           /\ RowsLeft(w) \in Nat
<1>1. PICK i \in Imports : i = run[w].import
  BY DEF ChunkInvariant, RunsAreTyped
<1>2. Len(file[i]) \in Nat /\ DOMAIN file[i] = 1 .. Len(file[i])
  BY FileType DEF ChunkInvariant
<1>3. run[w].accepted \subseteq 1 .. Len(file[i])
  BY <1>1, <1>2 DEF ChunkInvariant, ShipmentsAreFirstRows, FirstRow
<1>4. IsFiniteSet(1 .. Len(file[i]))
  BY <1>2, FirstRowsAreFinite
<1>5. IsFiniteSet(run[w].accepted)
  BY <1>2, <1>3, <1>4, FS_Subset
<1>6. run[w].read \in Nat /\ run[w].read <= Len(file[i])
  BY <1>1 DEF ChunkInvariant, TypeOK, Run, RunsAreTyped
<1> QED  BY <1>1, <1>2, <1>5, <1>6, FS_CardinalityType DEF RowsLeft

\* A run starts with four steps for every row of its file and four more.
LEMMA StepsOfNewRun ==
    ASSUME ChunkInvariant, NEW w \in Workers, run[w].pc = "claimed"
    PROVE  StepsLeft(w) = 4 * Len(file[run[w].import]) + 4
<1>1. run[w].read = 0 /\ Cardinality(run[w].accepted) = 0
  BY FS_EmptySet DEF ChunkInvariant, ClaimedRunsAreFresh
<1>2. Len(file[run[w].import]) \in Nat
  BY FileType DEF ChunkInvariant, RunsAreTyped
<1> QED  BY <1>1, <1>2 DEF StepsLeft, RowsLeft

\* What a step of the run w has to do.
Advances(w) == StepsLeft(w)' \in Nat /\ StepsLeft(w)' < StepsLeft(w)

\* No run is at its end before it is over.
LEMMA StepsRemain ==
    ASSUME ChunkInvariant, NEW w \in Workers, run[w].pc # "idle"
    PROVE  /\ StepsLeft(w) \in Nat /\ StepsLeft(w) >= 1
           /\ run[w].pc \in Processing => StepsLeft(w) >= 2
           /\ run[w].pc \in Processing \ {"complete"} => StepsLeft(w) >= 3
<1>1. run[w].pc \in RunPc
  BY DEF ChunkInvariant, TypeOK, Run
<1> QED  BY <1>1, MeasureIsTyped DEF StepsLeft, RunPc, Processing

\* A run that ends.
LEMMA EndAdvances ==
    ASSUME ChunkInvariant, NEW w \in Workers, run[w].pc # "idle", EndRun(w)
    PROVE  Advances(w)
<1>1. run'[w].pc = "idle"
  BY EndRunEffect DEF ChunkInvariant, IdleRun
<1>2. StepsLeft(w)' = 0
  BY <1>1 DEF StepsLeft
<1> QED  BY <1>2, StepsRemain DEF Advances

\* A run that goes to its failure handlers, or to the end of its loop.
LEMMA LeavingAdvances ==
    ASSUME ChunkInvariant, NEW w \in Workers, run[w].pc \in Processing,
           NEW pc, SetPc(w, pc),
           \/ pc \in {"unresolved", "failing", "handling"}
           \/ pc = "complete" /\ run[w].pc = "next"
    PROVE  Advances(w)
<1>1. run[w].pc # "idle" /\ pc \in RunPc
  BY DEF Processing, RunPc
<1>2. run'[w].pc = pc
  BY <1>1, SetPcEffect DEF ChunkInvariant
<1>3. StepsLeft(w)' = IF pc = "complete" THEN 2 ELSE 1
  BY <1>2 DEF StepsLeft
<1> QED  BY <1>1, <1>3, StepsRemain DEF Advances, Processing

\* A chunk is read: four steps for each of its rows pay for two for each accepted.
LEMMA ValidateAdvances ==
    ASSUME ChunkInvariant, NEW w \in Workers, ValidateNextChunk(w)
    PROVE  Advances(w)
<1>1. run[w].pc = "next" /\ Owns(w)
  BY DEF ValidateNextChunk
<1>2. PICK i \in Imports : i = run[w].import
  BY <1>1, WriterState DEF Prepared
<1>3. PICK n \in Nat : n = run[w].read
  BY <1>1, WriterState DEF Prepared
<1>4. n <= Len(file[i]) /\ Len(file[i]) \in Nat
  BY <1>1, <1>2, <1>3, FileType DEF ChunkInvariant, RunsAreTyped
<1> DEFINE chunk == NextChunk(i, n)
<1>5. chunk # {} /\ IsFiniteSet(chunk) /\ Cardinality(chunk) \in Nat
      /\ n + Cardinality(chunk) <= Len(file[i]) /\ Cardinality(chunk) >= 1
  <2>1. chunk \subseteq 1 .. Len(file[i])
    BY <1>4, FileType DEF NextChunk, ChunkInvariant
  <2>2. \A m \in Nat : IsFiniteSet(1 .. m)
    BY FirstRowsAreFinite
  <2>3. IsFiniteSet(chunk)
    BY <2>1, <2>2, <1>4, FS_Subset
  <2>4. chunk # {}
    BY <1>2, <1>3 DEF ValidateNextChunk
  <2>5. Cardinality(chunk) \in Nat /\ Cardinality(chunk) # 0
    BY <2>3, <2>4, FS_CardinalityType, FS_EmptySet
  <2>6. n + Cardinality(chunk) <= Len(file[i])
    BY <1>4, ChunkBounds DEF ChunkInvariant
  <2> HIDE DEF chunk
  <2> QED  BY <2>3, <2>4, <2>5, <2>6
<1>6. /\ run'[w].pc = "persist" /\ run'[w].import = i /\ file' = file
      /\ run'[w].read = n + Cardinality(chunk) /\ run'[w].accepted = AcceptedRows(i, n)
  BY <1>2, <1>3 DEF ValidateNextChunk, ChunkInvariant, TypeOK, Run
<1>7. PICK a \in Nat : a = Cardinality(run'[w].accepted) /\ a <= Cardinality(chunk)
  <2>1. AcceptedRows(i, n) \subseteq chunk
    BY DEF AcceptedRows
  <2> HIDE DEF chunk
  <2> QED  BY <1>5, <1>6, <2>1, FS_Subset, FS_CardinalityType
<1>8. RowsLeft(w)' = Len(file[i]) - (n + Cardinality(chunk)) /\ RowsLeft(w) = Len(file[i]) - n
  BY <1>2, <1>3, <1>6 DEF RowsLeft
<1>9. Cardinality(run[w].accepted) \in Nat
  BY <1>1, MeasureIsTyped
<1> HIDE DEF chunk
<1>10. /\ StepsLeft(w) = 3 + 4 * RowsLeft(w) + 2 * Cardinality(run[w].accepted)
       /\ StepsLeft(w)' = 4 + 4 * RowsLeft(w)' + 2 * a
  BY <1>1, <1>6, <1>7 DEF StepsLeft
<1>11. /\ StepsLeft(w) \in Nat /\ RowsLeft(w)' \in Nat
       /\ RowsLeft(w)' = RowsLeft(w) - Cardinality(chunk) /\ RowsLeft(w) \in Int
  BY <1>1, <1>4, <1>5, <1>8, StepsRemain
<1>12. StepsLeft(w)' \in Nat
  BY <1>7, <1>10, <1>11
<1>13. \A b, c, d, r \in Nat : b <= c /\ c >= 1 =>
         4 + 4 * (r - c) + 2 * b < 3 + 4 * r + 2 * d
  OBVIOUS
<1>14. RowsLeft(w) \in Nat
  BY <1>5, <1>11
<1>15. 4 + 4 * (RowsLeft(w) - Cardinality(chunk)) + 2 * a
          < 3 + 4 * RowsLeft(w) + 2 * Cardinality(run[w].accepted)
  BY <1>5, <1>7, <1>9, <1>13, <1>14, Zenon
<1> QED  BY <1>10, <1>11, <1>12, <1>15, Zenon DEF Advances

\* Steps of a run that keep its place in the file, with as many accepted rows or
\* fewer.
LEMMA StayingAdvances ==
    ASSUME ChunkInvariant, NEW w \in Workers, file' = file,
           run'[w].import = run[w].import, run'[w].read = run[w].read,
           run'[w].accepted \subseteq run[w].accepted,
           \/ /\ run[w].pc = "racing" /\ run'[w].pc = "persist"
              /\ run'[w].accepted # run[w].accepted
           \/ run[w].pc = "persist" /\ run'[w].pc \in {"racing", "next"}
           \/ run[w].pc = "claimed" /\ run'[w].pc = "next"
    PROVE  Advances(w)
<1>1. /\ IsFiniteSet(run[w].accepted) /\ Cardinality(run[w].accepted) \in Nat
      /\ RowsLeft(w) \in Nat
  BY MeasureIsTyped
<1>2. PICK a \in Nat :
        /\ a = Cardinality(run'[w].accepted)
        /\ a <= Cardinality(run[w].accepted)
        /\ run'[w].accepted # run[w].accepted => a < Cardinality(run[w].accepted)
  BY <1>1, FS_Subset, FS_CardinalityType
<1>3. RowsLeft(w)' = RowsLeft(w)
  BY DEF RowsLeft
<1> QED  BY <1>1, <1>2, <1>3 DEF Advances, StepsLeft

\* Every action of a run advances it.
LEMMA RunStepAdvances ==
    ASSUME ChunkInvariant, NEW w \in Workers, RunStep(w)
    PROVE  Advances(w)
<1>1. run \in [Workers -> Run]
  BY DEF ChunkInvariant, TypeOK
<1>2. CASE PrepareForReprocessing(w)
  BY <1>1, <1>2, SetPcEffect, StayingAdvances
    DEF PrepareForReprocessing, ChunkInvariant, RunPc, Processing
<1>3. CASE ValidateNextChunk(w)
  BY <1>3, ValidateAdvances
<1>4. CASE ReachEndOfFile(w) \/ CatchDataError(w) \/ RaiseOriginalError(w)
  BY <1>4, LeavingAdvances DEF ReachEndOfFile, CatchDataError, RaiseOriginalError, Processing
<1>5. CASE CatchIntegrityError(w)
  BY <1>1, <1>5, SetPcEffect, StayingAdvances
    DEF CatchIntegrityError, ChunkInvariant, RunPc, Processing
<1>6. CASE ReclassifyDuplicates(w)
  <2>1. /\ run[w].pc = "racing" /\ RetainedRows(w) # run[w].accepted /\ file' = file
        /\ run'[w].pc = "persist" /\ run'[w].accepted = RetainedRows(w)
        /\ run'[w].import = run[w].import /\ run'[w].read = run[w].read
    BY <1>1, <1>6 DEF ReclassifyDuplicates, Run
  <2> QED  BY <2>1, StayingAdvances DEF RetainedRows
<1>7. CASE PersistChunk(w)
  <2>1. PICK pc \in {"next", "handling"} :
          /\ run[w].pc = "persist" /\ file' = file
          /\ run'[w].pc = pc /\ run'[w].accepted = {}
          /\ run'[w].import = run[w].import /\ run'[w].read = run[w].read
    BY <1>1, <1>7 DEF PersistChunk, Run
  <2>2. CASE pc = "next"
    BY <2>1, <2>2, StayingAdvances
  <2>3. CASE pc = "handling"
    <3>1. StepsLeft(w)' = 1
      BY <2>1, <2>3 DEF StepsLeft
    <3> QED  BY <2>1, <3>1, StepsRemain DEF Advances, Processing
  <2> QED  BY <2>2, <2>3
<1>8. CASE CompleteImport(w)
  BY <1>8, EndAdvances, LeavingAdvances DEF CompleteImport, Processing
<1>9. CASE StopStaleWorker(w) \/ MarkFailed(w) \/ HandleOperationalFailure(w)
  BY <1>9, EndAdvances DEF StopStaleWorker, MarkFailed, HandleOperationalFailure
<1> QED  BY <1>2, <1>3, <1>4, <1>5, <1>6, <1>7, <1>8, <1>9 DEF RunStep

\* A step of a worker leaves the runs of the others.
LEMMA OneRunMoves ==
    ASSUME ChunkInvariant, NEW v \in Workers, NEW w \in Workers, v # w,
           RunStep(v) \/ FailProcessing(v) \/ LoseDatabase(v) \/ CrashWorker(v)
    PROVE  run'[w] = run[w]
<1>1. run \in [Workers -> Run]
  BY DEF ChunkInvariant, TypeOK
<1>2. ASSUME NEW pc, SetPc(v, pc)
      PROVE  \E new : run' = [run EXCEPT ![v] = new]
  <2>1. run' = [run EXCEPT ![v] = [run[v] EXCEPT !.pc = pc]]
    BY <1>2 DEF SetPc
  <2> QED  BY <2>1
<1>3. ASSUME EndRun(v)
      PROVE  \E new : run' = [run EXCEPT ![v] = new]
  BY <1>3 DEF EndRun
<1>4. CASE PrepareForReprocessing(v) \/ ReachEndOfFile(v) \/ CatchIntegrityError(v)
           \/ CatchDataError(v) \/ RaiseOriginalError(v) \/ FailProcessing(v)
           \/ LoseDatabase(v) \/ CompleteImport(v) \/ StopStaleWorker(v)
           \/ MarkFailed(v) \/ HandleOperationalFailure(v) \/ CrashWorker(v)
  BY <1>1, <1>2, <1>3, <1>4 DEF PrepareForReprocessing, ReachEndOfFile, CatchIntegrityError,
     CatchDataError, RaiseOriginalError, FailProcessing, LoseDatabase, CompleteImport,
     StopStaleWorker, MarkFailed, HandleOperationalFailure, CrashWorker
<1>5. CASE ValidateNextChunk(v) \/ ReclassifyDuplicates(v) \/ PersistChunk(v)
  BY <1>1, <1>5 DEF ValidateNextChunk, ReclassifyDuplicates, PersistChunk
<1> QED  BY <1>4, <1>5 DEF RunStep

\* A step that changes a run, other than its beginning, is a step of that worker.
LEMMA OthersLeaveRuns ==
    ASSUME ChunkInvariant, [Next]_vars, NEW w \in Workers,
           run[w].pc # "idle", run'[w] # run[w]
    PROVE  RunStep(w) \/ FailProcessing(w) \/ LoseDatabase(w) \/ CrashWorker(w)
<1>1. ASSUME NEW v \in Workers, Claim(v)
      PROVE  FALSE
  BY <1>1 DEF Claim, ChunkInvariant, TypeOK
<1>2. ASSUME NEW v \in Workers, v # w,
             RunStep(v) \/ FailProcessing(v) \/ LoseDatabase(v) \/ CrashWorker(v)
      PROVE  FALSE
  BY <1>2, OneRunMoves
<1> QED  BY <1>1, <1>2 DEF Next, RecoverStaleImport, Quiescent, vars

\* A run on n rows takes at most 4n + 4 steps, whatever happens between them: the
\* retries of a chunk that lost a race are as many as its rows at most.
THEOREM EveryStepCounts == Spec => RunsMakeProgress
<1>1. ChunkInvariant /\ [Next]_vars =>
        [\A w \in Workers : run[w].pc # "idle" /\ run'[w] # run[w] =>
           StepsLeft(w)' \in Nat /\ StepsLeft(w)' < StepsLeft(w)]_vars
  <2> SUFFICES ASSUME ChunkInvariant, [Next]_vars, NEW w \in Workers,
                      run[w].pc # "idle", run'[w] # run[w]
               PROVE  Advances(w)
    BY DEF Advances
  <2>1. CASE FailProcessing(w) \/ LoseDatabase(w)
    BY <2>1, LeavingAdvances DEF FailProcessing, LoseDatabase
  <2>2. CASE CrashWorker(w)
    BY <2>2, EndAdvances DEF CrashWorker
  <2> QED  BY <2>1, <2>2, OthersLeaveRuns, RunStepAdvances
<1> QED  BY <1>1, ChunkInvariantHolds, PTL DEF Spec, RunsMakeProgress

-----------------------------------------------------------------------------
(* When an INSERT fails a whole import.                                    *)

\* A step of a worker that has no run is a claim.
LEMMA IdleWorkersClaim ==
    ASSUME ChunkInvariant, [Next]_vars, NEW w \in Workers,
           run[w].pc = "idle", run'[w] # run[w]
    PROVE  run'[w].pc = "claimed"
<1>1. run \in [Workers -> Run]
  BY DEF ChunkInvariant, TypeOK
<1>2. CASE Claim(w)
  BY <1>1, <1>2 DEF Claim, IdleRun
<1>3. ASSUME NEW v \in Workers, v # w, Claim(v)
      PROVE  FALSE
  BY <1>1, <1>3 DEF Claim
<1>4. ~(RunStep(w) \/ FailProcessing(w) \/ LoseDatabase(w) \/ CrashWorker(w))
  BY DEF RunStep, PrepareForReprocessing, ValidateNextChunk, ReachEndOfFile, PersistChunk,
     CatchIntegrityError, CatchDataError, ReclassifyDuplicates, RaiseOriginalError,
     CompleteImport, StopStaleWorker, MarkFailed, HandleOperationalFailure,
     FailProcessing, LoseDatabase, CrashWorker, Processing
<1>5. ASSUME NEW v \in Workers,
             RunStep(v) \/ FailProcessing(v) \/ LoseDatabase(v) \/ CrashWorker(v)
      PROVE  FALSE
  BY <1>4, <1>5, OneRunMoves
<1> QED  BY <1>2, <1>3, <1>5 DEF Next, RecoverStaleImport, Quiescent, vars

\* With one attempt for each import there is nothing to reset.
LEMMA ShipmentsStay ==
    ASSUME MaxAttempts = 1, ChunkInvariant, [Next]_vars
    PROVE  shipments \subseteq shipments'
<1>1. ASSUME NEW w \in Workers, PrepareForReprocessing(w)
      PROVE  shipments' = shipments
  <2>1. PICK i \in Imports : i = run[w].import
    BY <1>1 DEF PrepareForReprocessing, ChunkInvariant, RunsAreTyped
  <2>2. \A s \in ShipmentsOf(i) : s.attempt < run[w].attempt
    BY <1>1, <2>1 DEF PrepareForReprocessing, ChunkInvariant, OutputIsOld
  <2>3. \A s \in ShipmentsOf(i) : s.attempt \in 1 .. 1
    BY DEF ShipmentsOf, ChunkInvariant, TypeOK
  <2>4. run[w].attempt \in 1 .. 1
    BY <1>1 DEF PrepareForReprocessing, ChunkInvariant, RunsAreTyped
  <2>5. ShipmentsOf(i) = {}
    BY <2>2, <2>3, <2>4
  <2> QED  BY <1>1, <2>1, <2>5 DEF PrepareForReprocessing
<1>2. ASSUME NEW w \in Workers, RunStep(w)
      PROVE  shipments \subseteq shipments'
  BY <1>1, <1>2 DEF RunStep, ValidateNextChunk, ReachEndOfFile, PersistChunk,
     CatchIntegrityError, CatchDataError, ReclassifyDuplicates, RaiseOriginalError,
     CompleteImport, StopStaleWorker, MarkFailed, HandleOperationalFailure
<1> QED  BY <1>2 DEF Next, Claim, FailProcessing, LoseDatabase, CrashWorker,
         RecoverStaleImport, Quiescent, vars

\* A chunk that is reclassified has a conflict, and an import that is given up
\* because of its INSERT a row that the table cannot hold.
ConflictsAreReal ==
    \A w \in Workers :
        /\ run[w].pc = "racing" => ViolatesConstraint(w)
        /\ run[w].pc = "unresolved" => ~AcceptedIsStorable(w)

\* A conflict stays one as long as no shipments are deleted.
LEMMA ConflictsStayReal ==
    ASSUME ChunkInvariant, ConflictsAreReal, [Next]_vars, shipments \subseteq shipments'
    PROVE  ConflictsAreReal'
<1> SUFFICES ASSUME NEW w \in Workers
             PROVE  /\ run'[w].pc = "racing" => ViolatesConstraint(w)'
                    /\ run'[w].pc = "unresolved" => ~AcceptedIsStorable(w)'
  BY DEF ConflictsAreReal
<1>1. file' = file
  BY DEF Next, RunStep, PrepareForReprocessing, ValidateNextChunk, ReachEndOfFile,
     PersistChunk, CatchIntegrityError, CatchDataError, ReclassifyDuplicates,
     RaiseOriginalError, CompleteImport, StopStaleWorker, MarkFailed,
     HandleOperationalFailure, FailProcessing, LoseDatabase, CrashWorker, Claim,
     RecoverStaleImport, Quiescent, vars
<1>2. /\ run'[w].import = run[w].import /\ run'[w].accepted = run[w].accepted =>
           (ViolatesConstraint(w) => ViolatesConstraint(w)')
      /\ run'[w].import = run[w].import /\ run'[w].accepted = run[w].accepted =>
           (AcceptedIsStorable(w)' <=> AcceptedIsStorable(w))
  BY <1>1 DEF ViolatesConstraint, AcceptedIsStorable, ExistingCodes, CodeOf
<1>3. CASE run'[w] = run[w]
  BY <1>2, <1>3 DEF ConflictsAreReal
<1>4. ASSUME NEW pc \in RunPc, SetPc(w, pc)
      PROVE  /\ run'[w].pc = pc /\ run'[w].import = run[w].import
             /\ run'[w].accepted = run[w].accepted
  BY <1>4, SetPcEffect DEF ChunkInvariant
<1>5. ASSUME EndRun(w)
      PROVE  run'[w].pc = "idle"
  BY <1>5, EndRunEffect DEF ChunkInvariant, IdleRun
<1>6. CASE CatchIntegrityError(w)
  BY <1>2, <1>4, <1>6 DEF CatchIntegrityError, RunPc, Processing
<1>7. CASE CatchDataError(w)
  <2>1. ~AcceptedIsStorable(w)
    BY <1>7 DEF CatchDataError, ExceedsColumn, AcceptedIsStorable, Storable
  <2> QED  BY <1>2, <1>4, <1>7, <2>1 DEF CatchDataError, RunPc
<1>8. CASE RaiseOriginalError(w)
  <2>1. ViolatesConstraint(w) /\ RetainedRows(w) = run[w].accepted
    BY <1>8 DEF RaiseOriginalError, ConflictsAreReal
  <2>2. ~AcceptedIsStorable(w)
    BY <2>1 DEF ViolatesConstraint, RetainedRows, AcceptedIsStorable, Storable
  <2> QED  BY <1>2, <1>4, <1>8, <2>2 DEF RaiseOriginalError, RunPc
<1>9. CASE \/ PrepareForReprocessing(w) \/ ReachEndOfFile(w) \/ CompleteImport(w)
           \/ StopStaleWorker(w) \/ MarkFailed(w) \/ HandleOperationalFailure(w)
           \/ FailProcessing(w) \/ LoseDatabase(w) \/ CrashWorker(w)
  BY <1>4, <1>5, <1>9 DEF PrepareForReprocessing, ReachEndOfFile, CompleteImport,
     StopStaleWorker, MarkFailed, HandleOperationalFailure, FailProcessing, LoseDatabase,
     CrashWorker, RunPc, Processing
<1>10. CASE ValidateNextChunk(w) \/ ReclassifyDuplicates(w) \/ PersistChunk(w)
  BY <1>10 DEF ValidateNextChunk, ReclassifyDuplicates, PersistChunk, ChunkInvariant, TypeOK, Run
<1> QED  BY <1>3, <1>6, <1>7, <1>8, <1>9, <1>10, OthersLeaveRuns, IdleWorkersClaim DEF RunStep

\* Where imports are processed once, a race over a shipment code rejects rows and
\* never an import: it takes the reset of another attempt to delete, between the
\* failed INSERT and the second lookup, the shipment it conflicts with.
THEOREM OnlyResetsFailRaces ==
    ASSUME MaxAttempts = 1
    PROVE  Spec => []DuplicateRaceIsRowError
<1>1. Init => ConflictsAreReal
  BY DEF Init, ConflictsAreReal, IdleRun
<1>2. ChunkInvariant /\ ConflictsAreReal /\ [Next]_vars => ConflictsAreReal'
  BY ShipmentsStay, ConflictsStayReal
<1>3. ConflictsAreReal => DuplicateRaceIsRowError
  BY DEF ConflictsAreReal, DuplicateRaceIsRowError
<1> QED  BY <1>1, <1>2, <1>3, ChunkInvariantHolds, PTL DEF Spec

\* What the columns of table shipments hold of a row that was accepted.
Fits(row) ==
    /\ row.weight_kg >= 5
    /\ Rounded(row.weight_kg) <= MaxWeight
    /\ Rounded(row.price) <= MaxPrice
    /\ CodeLength[row.shipment_code] <= 128
    /\ row.origin_city <= 255 /\ row.destination_city <= 255

\* A value fails its whole import only if validation accepts it and its column
\* cannot hold it: these six bounds are all that validation would have to check.
THEOREM OnlyMisfitsFailImports ==
    ASSUME \A u \in Uploads : \A i \in Imports : \A r \in DOMAIN u[i] :
             RowIssues(u[i][r]) = {} => Fits(u[i][r])
    PROVE  Spec => []BadValueIsRowError
<1>1. ASSUME ChunkInvariant, NEW w \in Workers, run[w].pc # "idle", NEW r \in run[w].accepted
      PROVE  Storable(file[run[w].import][r])
  <2>1. PICK i \in Imports : i = run[w].import
    BY <1>1 DEF ChunkInvariant, RunsAreTyped
  <2>2. r \in DOMAIN file[i] /\ RowIssues(file[i][r]) = {}
    BY <1>1, <2>1 DEF ChunkInvariant, ShipmentsAreFirstRows, FirstRow
  <2>3. file[i][r] \in WorkbookRow
    BY <1>1, <2>2, FileType DEF ChunkInvariant
  <2>4. Fits(file[i][r])
    BY <1>1, <2>2 DEF ChunkInvariant, TypeOK
  <2> QED  BY <2>1, <2>2, <2>3, <2>4, AcceptedRowStorable DEF Fits
<1>2. ChunkInvariant => BadValueIsRowError
  BY <1>1 DEF BadValueIsRowError, AcceptedIsStorable
<1> QED  BY <1>2, ChunkInvariantHolds, PTL
=============================================================================
