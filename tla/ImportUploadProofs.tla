------------------------- MODULE ImportUploadProofs -------------------------
(***************************************************************************)
(* What holds of uploads for any requests, files, keys, hash function and  *)
(* pool, under all faults. The heart is what a transaction knows under its *)
(* advisory lock: nobody else can commit the file it has looked up.        *)
(***************************************************************************)
EXTENDS ImportUpload, FiniteSetTheorems, TLAPS

USE UploadAssumption DEF Locking, Connected, Pending, Pc,
    NoReply, Rejected, ServerError, Conflict, Duplicate, Accepted

-----------------------------------------------------------------------------
(* Types.                                                                  *)

\* A step of a request, by the part of the handler it belongs to.
SavingStep(r) ==
    \/ RejectRequest(r) \/ StartSaving(r) \/ FinishSaving(r) \/ FailSaving(r)
    \/ RejectContent(r) \/ AcceptContent(r)
LookupStep(r) ==
    \/ Connect(r) \/ AcquireFingerprintLock(r) \/ FindByKey(r) \/ FindByFile(r)
WriteStep(r) ==
    \/ InsertImport(r) \/ LoseKeyRace(r) \/ RereadWinner(r)
    \/ CommitImport(r) \/ RefreshImport(r) \/ DiscardFile(r)

\* A step of the system is one of a request, or changes nothing.
LEMMA RequestSteps ==
    ASSUME [Next]_vars
    PROVE  \/ \E r \in Requests : SavingStep(r) \/ LookupStep(r) \/ WriteStep(r) \/ Fail(r)
           \/ UNCHANGED vars
BY DEF Next, Handle, SavingStep, LookupStep, WriteStep, Quiescent

\* Every step keeps the types.
LEMMA TypeOKStep ==
    ASSUME TypeOK, [Next]_vars
    PROVE  TypeOK'
<1> USE DEF TypeOK, Replies, SetPc, SetFile, Answer, DecideAndDiscard
<1>1. ASSUME NEW r \in Requests, SavingStep(r)
      PROVE  TypeOK'
    BY <1>1 DEF SavingStep, RejectRequest, StartSaving, FinishSaving, FailSaving,
         RejectContent, AcceptContent
<1>2. ASSUME NEW r \in Requests, LookupStep(r)
      PROVE  TypeOK'
    BY <1>2 DEF LookupStep, Connect, AcquireFingerprintLock, FindByKey, FindByFile, ReplyForKey
<1>3. ASSUME NEW r \in Requests, WriteStep(r)
      PROVE  TypeOK'
    BY <1>3 DEF WriteStep, InsertImport, LoseKeyRace, RereadWinner, CommitImport,
         RefreshImport, DiscardFile, ReplyForKey
<1>4. ASSUME NEW r \in Requests, Fail(r)
      PROVE  TypeOK'
    BY <1>4 DEF Fail, FailBeforeInsert, CommitRaises, RefreshFails, Crash
<1>5. CASE UNCHANGED vars
    BY <1>5 DEF vars
<1> QED BY <1>1, <1>2, <1>3, <1>4, <1>5, RequestSteps

\* Requests, files, imports and replies keep their types.
THEOREM UploadTypeCorrectness == Spec => []TypeOK
<1>1. Init => TypeOK
    BY DEF Init, TypeOK, Replies
<1> QED BY <1>1, TypeOKStep, PTL DEF Spec

-----------------------------------------------------------------------------
(* The inductive invariant.                                                *)

\* The advisory lock excludes transactions of files with its hash.
LockExcludes ==
    \A r, s \in Requests :
        /\ pc[r] \in Locking /\ pc[s] \in Locking
        /\ HashText[upload[r].content] = HashText[upload[s].content]
        => r = s

\* What the lookups under the lock found is still so.
LookedUp ==
    \A r \in Requests : \A i \in imports : SameFile(r, i) =>
        /\ pc[r] \notin {"insert", "commit"}
        /\ pc[r] = "find_file" => ~SameKey(r, i)

\* An inserted row keeps its key to itself.
KeyReserved ==
    \A r \in Requests : pc[r] = "commit" =>
        /\ \A i \in imports : ~SameKey(r, i)
        /\ \A s \in Requests : pc[s] = "commit" /\ SameKey(r, s) => r = s

\* Up to its decision a request has its file and no reply. It is committed when its
\* import is refreshed, and a committed import is discarded only with a 500.
RequestProgress ==
    \A r \in Requests :
        /\ pc[r] \in Pending \cup {"received", "saving"} => reply[r] = NoReply
        /\ pc[r] \in Pending => file[r] = "stored"
        /\ pc[r] = "received" => file[r] = "none"
        /\ pc[r] = "refresh" => r \in imports
        /\ r \in imports => pc[r] \in {"refresh", "discard", "answered", "dead"}
        /\ r \in imports /\ pc[r] = "discard" => reply[r] = ServerError

UploadInvariant ==
    /\ TypeOK
    /\ LockExcludes
    /\ LookedUp
    /\ KeyReserved
    /\ RequestProgress
    /\ OneImportPerFile
    /\ CommittedFileKept
    /\ NoOrphanFiles

\* What a step does to the lock: at most one request takes it, when it is free.
LEMMA LockExcludesStep ==
    ASSUME UploadInvariant, [Next]_vars
    PROVE  LockExcludes'
<1> USE DEF UploadInvariant, TypeOK, SetPc, SetFile, Answer, DecideAndDiscard
<1>1. ASSUME NEW r \in Requests, AcquireFingerprintLock(r)
      PROVE  LockExcludes'
    BY <1>1 DEF AcquireFingerprintLock, Locked, LockExcludes
<1>2. ASSUME NEW r \in Requests, upload' = upload,
             NEW next \in Pc, pc' = [pc EXCEPT ![r] = next],
             next \in Locking => pc[r] \in Locking
      PROVE  LockExcludes'
    BY <1>2 DEF LockExcludes
<1>3. ASSUME NEW r \in Requests, SavingStep(r)
      PROVE  LockExcludes'
    BY <1>2, <1>3 DEF SavingStep, RejectRequest, StartSaving, FinishSaving, FailSaving,
         RejectContent, AcceptContent
<1>4. ASSUME NEW r \in Requests, LookupStep(r)
      PROVE  LockExcludes'
    BY <1>1, <1>2, <1>4 DEF LookupStep, Connect, FindByKey, FindByFile
<1>5. ASSUME NEW r \in Requests, WriteStep(r)
      PROVE  LockExcludes'
    BY <1>2, <1>5 DEF WriteStep, InsertImport, LoseKeyRace, RereadWinner, CommitImport,
         RefreshImport, DiscardFile
<1>6. ASSUME NEW r \in Requests, Fail(r)
      PROVE  LockExcludes'
    BY <1>2, <1>6 DEF Fail, FailBeforeInsert, CommitRaises, RefreshFails, Crash
<1>7. CASE UNCHANGED vars
    BY <1>7 DEF vars, LockExcludes
<1> QED BY <1>3, <1>4, <1>5, <1>6, <1>7, RequestSteps

\* A commit comes from a request that is at its commit; its import is new.
LEMMA ImportsStep ==
    ASSUME UploadInvariant, [Next]_vars
    PROVE  /\ upload' = upload
           /\ \/ imports' = imports
              \/ \E r \in Requests : /\ pc[r] = "commit"
                                     /\ imports' = imports \cup {r}
                                     /\ pc' \in {[pc EXCEPT ![r] = "refresh"],
                                                 [pc EXCEPT ![r] = "discard"]}
BY RequestSteps DEF vars, SetPc, DecideAndDiscard,
   SavingStep, RejectRequest, StartSaving, FinishSaving, FailSaving, RejectContent,
   AcceptContent, LookupStep, Connect, AcquireFingerprintLock, FindByKey, FindByFile,
   WriteStep, InsertImport, LoseKeyRace, RereadWinner, CommitImport, RefreshImport,
   DiscardFile, Fail, FailBeforeInsert, CommitRaises, RefreshFails, Crash

\* A transaction goes on to the next lookup, to its insert and to its commit only
\* with nothing found.
LEMMA LookupsStep ==
    ASSUME UploadInvariant, [Next]_vars, NEW r \in Requests
    PROVE  /\ pc'[r] \in {"find_file", "insert", "commit"} =>
                pc[r] \in {"find_key", "find_file", "insert", "commit"}
           /\ pc'[r] = "find_file" /\ pc[r] # "find_file" =>
                ~\E i \in imports : SameKey(r, i)
           /\ pc'[r] = "insert" /\ pc[r] # "insert" =>
                ~\E i \in imports : SameFile(r, i)
           /\ pc'[r] = "commit" /\ pc[r] # "commit" =>
                /\ pc[r] = "insert"
                /\ ~\E i \in imports : SameKey(r, i)
                /\ ~\E s \in Requests : pc[s] = "commit" /\ SameKey(r, s)
<1> USE DEF UploadInvariant, TypeOK, SetPc, SetFile, Answer, DecideAndDiscard
<1>1. ASSUME NEW q \in Requests, SavingStep(q)
      PROVE  pc'[r] \notin {"find_file", "insert", "commit"} \/ pc'[r] = pc[r]
    BY <1>1 DEF SavingStep, RejectRequest, StartSaving, FinishSaving, FailSaving,
         RejectContent, AcceptContent
<1>2. ASSUME NEW q \in Requests, Fail(q)
      PROVE  pc'[r] \notin {"find_file", "insert", "commit"} \/ pc'[r] = pc[r]
    BY <1>2 DEF Fail, FailBeforeInsert, CommitRaises, RefreshFails, Crash
<1>3. ASSUME NEW q \in Requests, Connect(q) \/ AcquireFingerprintLock(q) \/ LoseKeyRace(q)
                 \/ RereadWinner(q) \/ CommitImport(q) \/ RefreshImport(q) \/ DiscardFile(q)
      PROVE  pc'[r] \notin {"find_file", "insert", "commit"} \/ pc'[r] = pc[r]
    BY <1>3 DEF Connect, AcquireFingerprintLock, LoseKeyRace, RereadWinner, CommitImport,
         RefreshImport, DiscardFile
<1>4. ASSUME NEW q \in Requests, FindByKey(q) \/ FindByFile(q) \/ InsertImport(q)
      PROVE  \/ pc'[r] = pc[r]
             \/ pc'[r] \notin {"find_file", "insert", "commit"}
             \/ q = r
    BY <1>4 DEF FindByKey, FindByFile, InsertImport
<1>5. CASE UNCHANGED vars
    BY <1>5 DEF vars
<1>6. CASE FindByKey(r) \/ FindByFile(r) \/ InsertImport(r)
    BY <1>6 DEF FindByKey, FindByFile, InsertImport
<1> QED BY <1>1, <1>2, <1>3, <1>4, <1>5, <1>6, RequestSteps DEF LookupStep, WriteStep

\* A step is a step of one request.
LEMMA OneRequestMoves ==
    ASSUME UploadInvariant, [Next]_vars, NEW r \in Requests, NEW s \in Requests, r # s
    PROVE  \/ pc'[r] = pc[r] /\ reply'[r] = reply[r] /\ file'[r] = file[r]
           \/ pc'[s] = pc[s] /\ reply'[s] = reply[s] /\ file'[s] = file[s]
<1> USE DEF UploadInvariant, TypeOK, SetPc, SetFile, Answer, DecideAndDiscard
<1>1. ASSUME NEW q \in Requests, SavingStep(q) \/ LookupStep(q) \/ WriteStep(q) \/ Fail(q)
      PROVE  \A p \in Requests \ {q} :
                pc'[p] = pc[p] /\ reply'[p] = reply[p] /\ file'[p] = file[p]
    BY <1>1 DEF SavingStep, RejectRequest, StartSaving, FinishSaving, FailSaving,
       RejectContent, AcceptContent, LookupStep, Connect, AcquireFingerprintLock, FindByKey,
       FindByFile, WriteStep, InsertImport, LoseKeyRace, RereadWinner, CommitImport,
       RefreshImport, DiscardFile, Fail, FailBeforeInsert, CommitRaises, RefreshFails, Crash
<1> QED BY <1>1, RequestSteps DEF vars

\* Under its lock, what a transaction has looked up stays true.
LEMMA LookedUpStep ==
    ASSUME UploadInvariant, [Next]_vars
    PROVE  LookedUp'
<1> SUFFICES ASSUME NEW r \in Requests, NEW i \in imports', SameFile(r, i)'
             PROVE  /\ pc'[r] \notin {"insert", "commit"}
                    /\ pc'[r] = "find_file" => ~SameKey(r, i)
    BY ImportsStep DEF LookedUp, SameFile, SameKey
<1>1. SameFile(r, i)
    BY ImportsStep DEF SameFile
<1>2. CASE i \in imports
    BY <1>1, <1>2, LookupsStep DEF UploadInvariant, LookedUp
<1>3. CASE i \notin imports
  <2>1. pc[i] = "commit" /\ i \in Requests /\ pc'[i] \notin Locking
      BY <1>3, ImportsStep DEF UploadInvariant, TypeOK
  <2>2. pc[r] \in Locking => r = i
      BY <1>1, <2>1 DEF UploadInvariant, LockExcludes, SameFile
  <2> QED BY <2>1, <2>2, LookupsStep
<1> QED BY <1>2, <1>3

\* A key is reserved from the insert to the commit.
LEMMA KeyReservedStep ==
    ASSUME UploadInvariant, [Next]_vars
    PROVE  KeyReserved'
<1> SUFFICES ASSUME NEW r \in Requests, pc'[r] = "commit"
             PROVE  /\ \A i \in imports' : ~SameKey(r, i)
                    /\ \A s \in Requests : pc'[s] = "commit" /\ SameKey(r, s) => r = s
    BY ImportsStep DEF KeyReserved, SameKey
<1>1. ASSUME NEW i \in imports', SameKey(r, i)
      PROVE  FALSE
  <2>1. CASE i \in imports
      BY <1>1, <2>1, LookupsStep DEF UploadInvariant, KeyReserved
  <2>2. CASE i \notin imports
    <3>1. pc[i] = "commit" /\ i \in Requests /\ pc'[i] # "commit"
        BY <2>2, ImportsStep DEF UploadInvariant, TypeOK
    <3> QED BY <1>1, <3>1, LookupsStep DEF UploadInvariant, KeyReserved
  <2> QED BY <2>1, <2>2
<1>2. ASSUME NEW s \in Requests, pc'[s] = "commit", SameKey(r, s), r # s
      PROVE  FALSE
  <2>1. SameKey(s, r)
      BY <1>2 DEF SameKey
  <2>2. pc[r] = "commit" \/ pc[s] = "commit"
      BY <1>2, OneRequestMoves
  <2> QED BY <1>2, <2>1, <2>2, LookupsStep DEF UploadInvariant, KeyReserved
<1> QED BY <1>1, <1>2

\* No other request's step touches a request's file, reply or import.
LEMMA RequestProgressStep ==
    ASSUME UploadInvariant, [Next]_vars
    PROVE  RequestProgress'
<1> USE DEF UploadInvariant, TypeOK, RequestProgress, SetPc, SetFile, Answer, DecideAndDiscard
<1>1. ASSUME NEW r \in Requests, SavingStep(r)
      PROVE  RequestProgress'
    BY <1>1 DEF SavingStep, RejectRequest, StartSaving, FinishSaving, FailSaving,
         RejectContent, AcceptContent
<1>2. ASSUME NEW r \in Requests, LookupStep(r)
      PROVE  RequestProgress'
    BY <1>2 DEF LookupStep, Connect, AcquireFingerprintLock, FindByKey, FindByFile
<1>3. ASSUME NEW r \in Requests, WriteStep(r)
      PROVE  RequestProgress'
    BY <1>3 DEF WriteStep, InsertImport, LoseKeyRace, RereadWinner, CommitImport,
         RefreshImport, DiscardFile
<1>4. ASSUME NEW r \in Requests, Fail(r)
      PROVE  RequestProgress'
    BY <1>4 DEF Fail, FailBeforeInsert, CommitRaises, RefreshFails, Crash
<1>5. CASE UNCHANGED vars
    BY <1>5 DEF vars
<1> QED BY <1>1, <1>2, <1>3, <1>4, <1>5, RequestSteps

\* The request that commits has looked its file up under the lock.
LEMMA OneImportPerFileStep ==
    ASSUME UploadInvariant, [Next]_vars
    PROVE  OneImportPerFile'
BY ImportsStep DEF UploadInvariant, OneImportPerFile, LookedUp, SameFile, TypeOK

\* Files are deleted, and replies decided, only as RequestProgress allows.
LEMMA FilesStep ==
    ASSUME UploadInvariant, [Next]_vars
    PROVE  CommittedFileKept' /\ NoOrphanFiles'
<1> USE DEF UploadInvariant, TypeOK, RequestProgress, CommittedFileKept, NoOrphanFiles,
        SetPc, SetFile, Answer, DecideAndDiscard
<1>1. ASSUME NEW r \in Requests, SavingStep(r)
      PROVE  CommittedFileKept' /\ NoOrphanFiles'
    BY <1>1 DEF SavingStep, RejectRequest, StartSaving, FinishSaving, FailSaving,
         RejectContent, AcceptContent
<1>2. ASSUME NEW r \in Requests, LookupStep(r)
      PROVE  CommittedFileKept' /\ NoOrphanFiles'
    BY <1>2 DEF LookupStep, Connect, AcquireFingerprintLock, FindByKey, FindByFile
<1>3. ASSUME NEW r \in Requests, WriteStep(r)
      PROVE  CommittedFileKept' /\ NoOrphanFiles'
    BY <1>3 DEF WriteStep, InsertImport, LoseKeyRace, RereadWinner, CommitImport,
         RefreshImport, DiscardFile
<1>4. ASSUME NEW r \in Requests, Fail(r)
      PROVE  CommittedFileKept' /\ NoOrphanFiles'
    BY <1>4 DEF Fail, FailBeforeInsert, CommitRaises, RefreshFails, Crash
<1>5. CASE UNCHANGED vars
    BY <1>5 DEF vars
<1> QED BY <1>1, <1>2, <1>3, <1>4, <1>5, RequestSteps

\* The invariant holds of every behaviour.
LEMMA UploadInvariance == Spec => []UploadInvariant
<1>1. Init => UploadInvariant
    BY DEF Init, UploadInvariant, TypeOK, Replies, LockExcludes, LookedUp, KeyReserved,
       RequestProgress, OneImportPerFile, CommittedFileKept, NoOrphanFiles
<1>2. UploadInvariant /\ [Next]_vars => UploadInvariant'
    BY TypeOKStep, LockExcludesStep, LookedUpStep, KeyReservedStep, RequestProgressStep,
       OneImportPerFileStep, FilesStep DEF UploadInvariant
<1> QED BY <1>1, <1>2, PTL DEF Spec

-----------------------------------------------------------------------------
(* The theorems.                                                           *)

\* Concurrent uploads of one file never create two imports, for any number of
\* requests and any collisions of hashtext: the lookup under the advisory lock is
\* enough, without a unique constraint on the fingerprint.
THEOREM NoFileIsImportedTwice == Spec => []OneImportPerFile
BY UploadInvariance, PTL DEF UploadInvariant

\* Only a request that ends with a 500 deletes the file of a committed import.
THEOREM ImportsKeepTheirFiles == Spec => []CommittedFileKept
BY UploadInvariance, PTL DEF UploadInvariant

\* Requests that were answered leave no file behind but that of their import.
THEOREM AnsweredRequestsCleanUp == Spec => []NoOrphanFiles
BY UploadInvariance, PTL DEF UploadInvariant

-----------------------------------------------------------------------------
(* Waiting.                                                                *)

\* A request that lost the race for its key finds the import that won it.
WinnersAreThere ==
    \A r \in Requests : pc[r] = "reread" => \E i \in imports : SameKey(r, i)

\* Imports stay, and a race is only lost to one of them.
LEMMA WinnersStay ==
    ASSUME UploadInvariant, WinnersAreThere, [Next]_vars
    PROVE  WinnersAreThere'
<1> USE DEF UploadInvariant, TypeOK, SetPc, SetFile, Answer, DecideAndDiscard
<1>1. imports \subseteq imports' /\ upload' = upload
    BY ImportsStep
<1>2. \A r \in Requests : (\E i \in imports : SameKey(r, i)) =>
        \E i \in imports' : SameKey(r, i)'
    BY <1>1 DEF SameKey
<1>3. ASSUME NEW r \in Requests, NEW q \in Requests,
             \/ SavingStep(q) \/ LookupStep(q) \/ Fail(q) \/ InsertImport(q) \/ RereadWinner(q)
             \/ CommitImport(q) \/ RefreshImport(q) \/ DiscardFile(q)
      PROVE  pc'[r] = "reread" => pc[r] = "reread"
    BY <1>3 DEF SavingStep, RejectRequest, StartSaving, FinishSaving, FailSaving,
       RejectContent, AcceptContent, LookupStep, Connect, AcquireFingerprintLock, FindByKey,
       FindByFile, InsertImport, RereadWinner, CommitImport, RefreshImport, DiscardFile,
       Fail, FailBeforeInsert, CommitRaises, RefreshFails, Crash
<1>4. ASSUME NEW r \in Requests, NEW q \in Requests, LoseKeyRace(q)
      PROVE  pc'[r] = "reread" => pc[r] = "reread" \/ \E i \in imports : SameKey(r, i)
    BY <1>4 DEF LoseKeyRace
<1>5. CASE UNCHANGED vars
    BY <1>2, <1>5 DEF vars, WinnersAreThere
<1> QED BY <1>2, <1>3, <1>4, <1>5, RequestSteps DEF WriteStep, WinnersAreThere

\* The retry transaction after a lost race never comes back empty-handed.
THEOREM LostRacesHaveWinners == Spec => []WinnersAreThere
<1>1. Init => WinnersAreThere
    BY DEF Init, WinnersAreThere
<1>2. UploadInvariant /\ WinnersAreThere /\ [Next]_vars => WinnersAreThere'
    BY WinnersStay
<1> QED BY <1>1, <1>2, UploadInvariance, PTL DEF Spec

\* Transactions wait for the lock, which those have who wait for a key, which those
\* have who wait for nothing; and without a transaction the pool is free.
LEMMA SomebodyGoesOn ==
    ASSUME UploadInvariant, NEW r \in Requests, ~Ended(r)
    PROVE  \E s \in Requests : ~Ended(s) /\ ~Waits(s)
<1> USE DEF Ended, Waits
<1>1. \A s \in Requests : pc[s] \in Pc
    BY DEF UploadInvariant, TypeOK
<1>2. CASE \E s \in Requests : pc[s] \in {"received", "saving", "signature", "discard"}
    BY <1>2
<1>3. CASE \E s \in Requests : pc[s] \in {"find_key", "find_file", "commit"}
    BY <1>3
<1>4. CASE /\ \E s \in Requests : pc[s] \in Locking
           /\ ~\E s \in Requests : pc[s] \in {"find_key", "find_file", "commit"}
    BY <1>4
<1>5. CASE /\ ~\E s \in Requests : pc[s] \in Locking
           /\ \E s \in Requests : pc[s] = "lock"
    BY <1>5 DEF Locked
<1>6. CASE ~\E s \in Requests : pc[s] \in Connected
  <2>1. HasFreeConnection
    <3>1. {s \in Requests : pc[s] \in Connected} = {}
        BY <1>6
    <3>2. Cardinality({s \in Requests : pc[s] \in Connected}) = 0
      <4> HIDE DEF Connected
      <4> QED BY <3>1, FS_EmptySet
    <3>3. 0 < PoolSize
        OBVIOUS
    <3> HIDE DEF Connected
    <3> QED BY <3>2, <3>3 DEF HasFreeConnection
  <2>2. pc[r] \in {"received", "saving", "signature", "discard", "connect", "reread", "refresh"}
      BY <1>1, <1>6
  <2> QED BY <2>1, <2>2
<1> QED BY <1>2, <1>3, <1>4, <1>5, <1>6

\* Whatever the size of the pool, requests never all wait for each other: not for
\* connections, advisory locks or keys, and not until a timeout expires.
THEOREM NobodyWaitsInACircle == Spec => []NoCircularWait
<1>1. UploadInvariant => NoCircularWait
    BY SomebodyGoesOn DEF NoCircularWait
<1> QED BY <1>1, UploadInvariance, PTL

-----------------------------------------------------------------------------
(* Replies.                                                                *)

\* A reply that names an import names one of the request's file.
RepliesNameImports ==
    \A r \in Requests : reply[r].import # NoRequest =>
        reply[r].import \in imports /\ SameFile(r, reply[r].import)

\* Replies are given for what the lookups have found, or for the request's own import.
LEMMA RepliesNameImportsStep ==
    ASSUME UploadInvariant, RepliesNameImports, [Next]_vars
    PROVE  RepliesNameImports'
<1> USE DEF UploadInvariant, TypeOK, RequestProgress, SetPc, SetFile, Answer, DecideAndDiscard
<1>1. imports \subseteq imports' /\ upload' = upload
    BY ImportsStep
<1>2. ASSUME NEW r \in Requests, NEW decision \in Replies,
             reply' = reply \/ reply' = [reply EXCEPT ![r] = decision],
             decision.import # NoRequest =>
                decision.import \in imports /\ SameFile(r, decision.import)
      PROVE  RepliesNameImports'
    BY <1>1, <1>2 DEF RepliesNameImports, SameFile
<1>3. NoReply \in Replies /\ Rejected \in Replies /\ ServerError \in Replies
    BY DEF Replies
<1>4. ASSUME NEW r \in Requests, SavingStep(r)
      PROVE  RepliesNameImports'
    BY <1>2, <1>3, <1>4 DEF SavingStep, RejectRequest, StartSaving, FinishSaving, FailSaving,
       RejectContent, AcceptContent
<1>5. ASSUME NEW r \in Requests, Fail(r)
      PROVE  RepliesNameImports'
    BY <1>2, <1>3, <1>5 DEF Fail, FailBeforeInsert, CommitRaises, RefreshFails, Crash
<1>6. ASSUME NEW r \in Requests, NEW i \in imports, SameKey(r, i),
             reply' = [reply EXCEPT ![r] = ReplyForKey(r, i)]
      PROVE  RepliesNameImports'
  <2>1. ReplyForKey(r, i) \in Replies
      BY DEF Replies, ReplyForKey
  <2>2. ReplyForKey(r, i).import # NoRequest =>
          ReplyForKey(r, i).import = i /\ SameFile(r, i)
      BY DEF ReplyForKey
  <2> QED BY <1>2, <1>6, <2>1, <2>2
<1>7. ASSUME NEW r \in Requests, NEW i \in imports, SameFile(r, i),
             NEW decision \in {Duplicate(i), Accepted(i)},
             reply' = [reply EXCEPT ![r] = decision]
      PROVE  RepliesNameImports'
  <2>1. decision \in Replies /\ decision.import = i
      BY DEF Replies
  <2> QED BY <1>2, <1>7, <2>1
<1>8. ASSUME NEW r \in Requests, RefreshImport(r)
      PROVE  RepliesNameImports'
  <2>1. r \in imports /\ SameFile(r, r)
      BY <1>8 DEF RefreshImport, SameFile
  <2> QED BY <1>7, <1>8, <2>1 DEF RefreshImport
<1>9. ASSUME NEW r \in Requests, LookupStep(r) \/ RereadWinner(r)
      PROVE  RepliesNameImports'
    BY <1>2, <1>3, <1>6, <1>7, <1>9 DEF LookupStep, Connect, AcquireFingerprintLock,
       FindByKey, FindByFile, RereadWinner
<1>10. ASSUME NEW r \in Requests, WriteStep(r)
       PROVE  RepliesNameImports'
    BY <1>2, <1>3, <1>8, <1>9, <1>10 DEF WriteStep, InsertImport, LoseKeyRace, CommitImport,
       DiscardFile
<1>11. CASE UNCHANGED vars
    BY <1>2, <1>3, <1>11 DEF vars, RepliesNameImports
<1> QED BY <1>4, <1>5, <1>9, <1>10, <1>11, RequestSteps

\* No reply names an import before there is one.
LEMMA RepliesNameImportsAlways == Spec => []RepliesNameImports
<1>1. Init => RepliesNameImports
    BY DEF Init, RepliesNameImports
<1> QED BY <1>1, RepliesNameImportsStep, UploadInvariance, PTL DEF Spec

\* Whoever uploads a file is referred to its one import, now and later: under one
\* key or several, in whatever order their transactions come.
THEOREM RepliesAlwaysAgree == Spec => []RepliesAgree
<1>1. UploadInvariant /\ RepliesNameImports => RepliesAgree
  <2> SUFFICES ASSUME UploadInvariant, RepliesNameImports, NEW r \in Requests, NEW s \in Requests,
                      SameFile(r, s), NoRequest \notin {reply[r].import, reply[s].import}
               PROVE  reply[r].import = reply[s].import
      BY DEF RepliesAgree, RepliesNameImports
  <2>1. SameFile(reply[r].import, reply[s].import)
      BY DEF RepliesNameImports, SameFile
  <2> QED BY <2>1 DEF RepliesNameImports, UploadInvariant, OneImportPerFile
<1> QED BY <1>1, RepliesNameImportsAlways, UploadInvariance, PTL

-----------------------------------------------------------------------------
(* Where accepted imports lose their files.                                *)

\* No request that has an import was told of an error.
CreatorsHearOfIt == \A r \in imports : reply[r] # ServerError

\* Only an exception after a COMMIT that took effect says otherwise.
LEMMA CreatorsStillHear ==
    ASSUME {"commit_applied", "refresh_error"} \cap Faults = {},
           UploadInvariant, CreatorsHearOfIt, [Next]_vars
    PROVE  CreatorsHearOfIt'
<1> USE DEF UploadInvariant, TypeOK, RequestProgress, CreatorsHearOfIt,
        SetPc, SetFile, Answer, DecideAndDiscard
<1>1. ASSUME NEW r \in Requests, SavingStep(r)
      PROVE  CreatorsHearOfIt'
    BY <1>1 DEF SavingStep, RejectRequest, StartSaving, FinishSaving, FailSaving,
       RejectContent, AcceptContent
<1>2. ASSUME NEW r \in Requests, LookupStep(r)
      PROVE  CreatorsHearOfIt'
    BY <1>2 DEF LookupStep, Connect, AcquireFingerprintLock, FindByKey, FindByFile, ReplyForKey
<1>3. ASSUME NEW r \in Requests, WriteStep(r)
      PROVE  CreatorsHearOfIt'
    BY <1>3 DEF WriteStep, InsertImport, LoseKeyRace, RereadWinner, CommitImport,
       RefreshImport, DiscardFile, ReplyForKey
<1>4. ASSUME NEW r \in Requests, Fail(r)
      PROVE  CreatorsHearOfIt'
    BY <1>4 DEF Fail, FailBeforeInsert, CommitRaises, RefreshFails, Crash
<1>5. CASE UNCHANGED vars
    BY <1>5 DEF vars
<1> QED BY <1>1, <1>2, <1>3, <1>4, <1>5, RequestSteps

\* The import a 202 names has its file, unless an answer to a COMMIT was lost or
\* the refresh behind it failed: these two are all that is wrong with lost uploads.
THEOREM AcceptedImportsHaveFiles ==
    ASSUME {"commit_applied", "refresh_error"} \cap Faults = {}
    PROVE  Spec => []AcceptedImportHasFile
<1>1. Init => CreatorsHearOfIt
    BY DEF Init, CreatorsHearOfIt
<1>2. UploadInvariant /\ CreatorsHearOfIt /\ [Next]_vars => CreatorsHearOfIt'
    BY CreatorsStillHear
<1>3. UploadInvariant /\ RepliesNameImports /\ CreatorsHearOfIt => AcceptedImportHasFile
  <2> SUFFICES ASSUME UploadInvariant, RepliesNameImports, CreatorsHearOfIt,
                      NEW r \in Requests, reply[r].code = "accepted"
               PROVE  file[reply[r].import] = "stored"
      BY DEF AcceptedImportHasFile
  <2>1. reply[r].import \in Requests
      BY DEF UploadInvariant, TypeOK, Replies
  <2>2. PICK i \in imports : i = reply[r].import
      BY <2>1 DEF RepliesNameImports
  <2> QED BY <2>2 DEF UploadInvariant, CommittedFileKept, CreatorsHearOfIt
<1> QED BY <1>1, <1>2, <1>3, RepliesNameImportsAlways, UploadInvariance, PTL DEF Spec

-----------------------------------------------------------------------------
(* Refinement of the contract.                                             *)

\* What the contract's decision about a request is.
LEMMA DecisionOf ==
    ASSUME UploadInvariant, NEW r \in Requests
    PROVE  /\ r \in imports => Decision[r] = Accepted(r)
           /\ pc[r] \in Pending \cup {"received", "saving"} /\ r \notin imports =>
                Decision[r] = NoReply
BY DEF Decision, UploadInvariant, RequestProgress

\* A commit is the contract's Create.
LEMMA CommitCreates ==
    ASSUME UploadInvariant, NEW r \in Requests, pc[r] = "commit",
           upload' = upload, imports' = imports \cup {r},
           \/ reply' = reply
           \/ reply' = [reply EXCEPT ![r] = ServerError]
    PROVE  Contract!Create(r)
<1>1. r \notin imports /\ Decision[r] = NoReply
    BY DecisionOf DEF UploadInvariant, RequestProgress
<1>2. \A i \in imports : ~SameFile(r, i) /\ ~SameKey(r, i)
    BY DEF UploadInvariant, LookedUp, KeyReserved
<1>3. Decision' = [Decision EXCEPT ![r] = Accepted(r)]
    BY DEF Decision, UploadInvariant, TypeOK
<1> QED BY <1>1, <1>2, <1>3 DEF Contract!Create, Contract!Decide, Contract!Undecided,
      Contract!Accepted, Contract!SameFile, Contract!SameKey, SameFile, SameKey

\* A decision found by a lookup is one the contract takes.
LEMMA LookupDecides ==
    ASSUME UploadInvariant, NEW r \in Requests, NEW i \in imports,
           pc[r] \in {"find_key", "find_file", "reread"},
           upload' = upload, imports' = imports,
           NEW decision \in {Accepted(i), Conflict, Duplicate(i)},
           reply' = [reply EXCEPT ![r] = decision],
           \/ SameKey(r, i) /\ decision = ReplyForKey(r, i)
           \/ ~SameKey(r, i) /\ SameFile(r, i) /\ decision = Duplicate(i)
    PROVE  Contract!Replay(r) \/ Contract!RefuseKey(r) \/ Contract!RefuseFile(r)
<1>1. r \notin imports /\ Decision[r] = NoReply
    BY DecisionOf DEF UploadInvariant, RequestProgress
<1>2. decision \notin {Rejected, ServerError}
    OBVIOUS
<1>3. Decision' = [Decision EXCEPT ![r] = decision]
  <2> HIDE DEF Rejected, ServerError, NoReply, Accepted, Conflict, Duplicate
  <2> QED BY <1>1, <1>2 DEF Decision, UploadInvariant, TypeOK
<1> QED BY <1>1, <1>3 DEF Contract!Replay, Contract!RefuseKey, Contract!RefuseFile,
      Contract!Decide, Contract!Undecided, Contract!Accepted, Contract!Conflict,
      Contract!Duplicate, Contract!SameFile, Contract!SameKey, SameFile, SameKey, ReplyForKey

\* Any other step decides nothing: it leaves the imports alone, and the reply as
\* well, or settles it with an answer the contract does not know.
LEMMA OtherStepsDecideNothing ==
    ASSUME UploadInvariant, upload' = upload, imports' = imports,
           \/ reply' = reply
           \/ \E r \in Requests :
                /\ reply[r] = NoReply
                /\ \/ reply' = [reply EXCEPT ![r] = Rejected]
                   \/ reply' = [reply EXCEPT ![r] = ServerError]
                   \/ r \in imports /\ reply' = [reply EXCEPT ![r] = Accepted(r)]
    PROVE  UNCHANGED <<upload, imports, Decision>>
BY DEF Decision, UploadInvariant, TypeOK

\* Every step is one of the contract, or nothing to it.
LEMMA StepMeetsContract ==
    ASSUME UploadInvariant, [Next]_vars
    PROVE  Contract!Next \/ UNCHANGED <<upload, imports, Decision>>
<1> USE DEF SetPc, SetFile, Answer, DecideAndDiscard
<1>1. ASSUME NEW r \in Requests, SavingStep(r)
      PROVE  UNCHANGED <<upload, imports, Decision>>
    BY <1>1, OtherStepsDecideNothing DEF UploadInvariant, RequestProgress,
       SavingStep, RejectRequest, StartSaving, FinishSaving, FailSaving, RejectContent,
       AcceptContent
<1>2. ASSUME NEW r \in Requests, FindByKey(r)
      PROVE  Contract!Next \/ UNCHANGED <<upload, imports, Decision>>
    BY <1>2, LookupDecides, OtherStepsDecideNothing DEF FindByKey, ReplyForKey, Contract!Next
<1>3. ASSUME NEW r \in Requests, FindByFile(r)
      PROVE  Contract!Next \/ UNCHANGED <<upload, imports, Decision>>
  <2>1. \A i \in imports : SameFile(r, i) => ~SameKey(r, i)
      BY <1>3 DEF FindByFile, UploadInvariant, LookedUp
  <2> QED BY <1>3, <2>1, LookupDecides, OtherStepsDecideNothing DEF FindByFile, Contract!Next
<1>4. ASSUME NEW r \in Requests, RereadWinner(r)
      PROVE  Contract!Next
    BY <1>4, LookupDecides DEF RereadWinner, ReplyForKey, Contract!Next
<1>5. ASSUME NEW r \in Requests, CommitImport(r) \/ CommitRaises(r)
      PROVE  Contract!Next \/ UNCHANGED <<upload, imports, Decision>>
    BY <1>5, CommitCreates, OtherStepsDecideNothing DEF CommitImport, CommitRaises,
       Contract!Next, UploadInvariant, RequestProgress
<1>6. ASSUME NEW r \in Requests,
             \/ Connect(r) \/ AcquireFingerprintLock(r) \/ InsertImport(r) \/ LoseKeyRace(r)
             \/ RefreshImport(r) \/ DiscardFile(r)
             \/ FailBeforeInsert(r) \/ RefreshFails(r) \/ Crash(r)
      PROVE  UNCHANGED <<upload, imports, Decision>>
    BY <1>6, OtherStepsDecideNothing DEF UploadInvariant, RequestProgress, Connect,
       AcquireFingerprintLock, InsertImport, LoseKeyRace, RefreshImport, DiscardFile,
       FailBeforeInsert, RefreshFails, Crash
<1>7. CASE UNCHANGED vars
    BY <1>7, OtherStepsDecideNothing DEF vars
<1> QED BY <1>1, <1>2, <1>3, <1>4, <1>5, <1>6, <1>7, RequestSteps
      DEF LookupStep, WriteStep, Fail

\* Uploads that run at the same time, and fail at any point, behave as if each took
\* effect in one step by the README's table.
THEOREM UploadsMeetContract == Spec => ContractRefinement
<1>1. Init => Contract!Init
    BY DEF Init, Contract!Init, Decision, Contract!Undecided
<1>2. UploadInvariant /\ [Next]_vars => [Contract!Next]_<<upload, imports, Decision>>
    BY StepMeetsContract
<1> QED BY <1>1, <1>2, UploadInvariance, PTL DEF Spec, ContractRefinement, Contract!Spec
=============================================================================
