---------------------------- MODULE ImportUpload ----------------------------
(***************************************************************************)
(* POST /api/v1/imports: the upload handler, the file it stores, and the   *)
(* transaction that creates the import (create_import of api/v1/imports,   *)
(* LocalFileStorage, CreateImportService, ImportRepository).               *)
(*                                                                         *)
(* Requests run side by side, in one API process or in several. Each       *)
(* SELECT of the transaction reads its own snapshot (READ COMMITTED), so   *)
(* each is a step. A file is named by a fresh uuid4, and an import by its  *)
(* own: both are named here by the request they belong to. An import's row *)
(* and its dispatch intent are written by the same transaction, so that    *)
(* "imports" stands for the rows of both tables. No import is ever deleted.*)
(***************************************************************************)
EXTENDS Integers, FiniteSets

CONSTANTS
    Requests,
    NoRequest,      \* the import of a reply that names none
    Contents,       \* file contents, which stand for their SHA-256 as well
    TooLarge,       \* contents of more than MAX_UPLOAD_SIZE_BYTES
    Unsigned,       \* contents that do not start with a ZIP signature
    Keys,           \* values of the Idempotency-Key header
    NoKey,          \* a request without the header
    HashText,       \* PostgreSQL's hashtext: the advisory lock of a fingerprint
    PoolSize,       \* DB_POOL_SIZE + DB_MAX_OVERFLOW
    Uploads,        \* what the requests may send
    Faults          \* the failures that happen

\* What a request sends. "named": its file name and key pass their validation.
Upload == [content : Contents, key : Keys \cup {NoKey}, named : BOOLEAN]

FaultKinds ==
    { "crash",              \* the API process dies
      "save_error",         \* the file cannot be read or written
      "db_error",           \* a statement fails, or the pool's timeout expires
      "commit_rejected",    \* COMMIT raises, rolled back
      "commit_applied",     \* COMMIT raises, but took effect
      "refresh_error" }     \* the refresh after the COMMIT fails likewise

ASSUME UploadAssumption ==
    /\ NoRequest \notin Requests
    /\ NoKey \notin Keys
    /\ TooLarge \subseteq Contents
    /\ Unsigned \subseteq Contents
    /\ PoolSize \in Nat \ {0}
    /\ Uploads \subseteq [Requests -> Upload]
    /\ Faults \subseteq FaultKinds

VARIABLES
    upload,     \* upload[r]: what request r sends, fixed
    file,       \* file[r]: the file stored for request r
    imports,    \* the requests whose import and intent are committed
    reply,      \* what has been decided for request r
    pc          \* how far request r is

vars == <<upload, file, imports, reply, pc>>

NoReply == [code |-> "none", import |-> NoRequest]
Rejected == [code |-> "rejected", import |-> NoRequest]     \* a 4xx about the file
ServerError == [code |-> "error", import |-> NoRequest]     \* a 500
Conflict == [code |-> "conflict", import |-> NoRequest]     \* IDEMPOTENCY_CONFLICT
Duplicate(i) == [code |-> "duplicate", import |-> i]        \* DUPLICATE_IMPORT

\* Mutant: the response does not say which import it accepted.
AcceptedSomething(i) == [code |-> "accepted", import |-> NoRequest]

Accepted(i) == [code |-> "accepted", import |-> i]          \* 202

Replies ==
    {NoReply, Rejected, ServerError, Conflict}
        \cup [code : {"accepted", "duplicate"}, import : Requests]

\* In a transaction that has taken the advisory lock.
Locking == {"find_key", "find_file", "insert", "commit"}

\* With a connection of the pool, which the session keeps from its first
\* statement to the end of the transaction.
Connected == Locking \cup {"lock"}

\* With a stored file, and nothing decided yet.
Pending == Connected \cup {"signature", "connect", "reread", "refresh"}

Pc == Pending \cup {"received", "saving", "discard", "answered", "dead"}

\* Requests, files and imports hold values of their types.
TypeOK ==
    /\ upload \in [Requests -> Upload]
    /\ file \in [Requests -> {"none", "temporary", "stored"}]
    /\ imports \subseteq Requests
    /\ reply \in [Requests -> Replies]
    /\ pc \in [Requests -> Pc]

-----------------------------------------------------------------------------
SetPc(r, next) == pc' = [pc EXCEPT ![r] = next]
SetFile(r, state) == file' = [file EXCEPT ![r] = state]

\* The handler has decided and now deletes the stored file, which it does for
\* every decision but that a new import was created.
DecideAndDiscard(r, decision) ==
    /\ reply' = [reply EXCEPT ![r] = decision]
    /\ SetPc(r, "discard")

\* The reply is sent at once.
Answer(r, decision) ==
    /\ reply' = [reply EXCEPT ![r] = decision]
    /\ SetPc(r, "answered")

SameFile(r, i) == upload[r].content = upload[i].content
SameKey(r, i) == upload[r].key # NoKey /\ upload[r].key = upload[i].key

-----------------------------------------------------------------------------
(* Storing the file.                                                       *)

\* The file name or the key is malformed, or there is no file.
RejectRequest(r) ==
    /\ pc[r] = "received"
    /\ ~upload[r].named
    /\ Answer(r, Rejected)
    /\ UNCHANGED <<upload, file, imports>>

StartSaving(r) ==
    /\ pc[r] = "received"
    /\ upload[r].named
    /\ SetFile(r, "temporary")
    /\ SetPc(r, "saving")
    /\ UNCHANGED <<upload, imports, reply>>

\* The last chunk is written, and the temporary file gets its final name.
FinishSaving(r) ==
    /\ pc[r] = "saving"
    /\ upload[r].content \notin TooLarge
    /\ SetFile(r, "stored")
    /\ SetPc(r, "signature")
    /\ UNCHANGED <<upload, imports, reply>>

\* save_upload deletes both names before it raises.
FailSaving(r) ==
    /\ pc[r] = "saving"
    /\ \/ upload[r].content \in TooLarge /\ Answer(r, Rejected)
       \/ "save_error" \in Faults /\ Answer(r, ServerError)
    /\ SetFile(r, "none")
    /\ UNCHANGED <<upload, imports>>

RejectContent(r) ==
    /\ pc[r] = "signature"
    /\ upload[r].content \in Unsigned
    /\ SetFile(r, "none")
    /\ Answer(r, Rejected)
    /\ UNCHANGED <<upload, imports>>

AcceptContent(r) ==
    /\ pc[r] = "signature"
    /\ upload[r].content \notin Unsigned
    /\ SetPc(r, "connect")
    /\ UNCHANGED <<upload, file, imports, reply>>

-----------------------------------------------------------------------------
(* The transaction.                                                        *)

HasFreeConnection == Cardinality({r \in Requests : pc[r] \in Connected}) < PoolSize

\* The session's first statement takes a connection.
Connect(r) ==
    /\ pc[r] = "connect"
    /\ HasFreeConnection
    /\ SetPc(r, "lock")
    /\ UNCHANGED <<upload, file, imports, reply>>

\* Mutant: a lock of the session, which it keeps until it is closed.
SessionLocked(r) ==
    \E s \in Requests :
        /\ pc[s] \in Locking \cup {"refresh", "reread"}
        /\ HashText[upload[s].content] = HashText[upload[r].content]

\* Mutant: the lock is taken on the idempotency key.
KeyLocked(r) == \E s \in Requests : pc[s] \in Locking /\ SameKey(s, r)

\* Another transaction holds the advisory lock.
Locked(r) ==
    \E s \in Requests :
        /\ pc[s] \in Locking
        /\ HashText[upload[s].content] = HashText[upload[r].content]

\* pg_advisory_xact_lock waits for the lock.
AcquireFingerprintLock(r) ==
    /\ pc[r] = "lock"
    /\ ~Locked(r)
    /\ SetPc(r, "find_key")
    /\ UNCHANGED <<upload, file, imports, reply>>

\* Mutant: a key is enough to recognise a repeated request.
ReplyByKey(r, i) == Accepted(i)

\* The request's key belongs to import i.
ReplyForKey(r, i) == IF SameFile(r, i) THEN Accepted(i) ELSE Conflict

FindByKey(r) ==
    /\ pc[r] = "find_key"
    /\ \/ \E i \in imports :
            SameKey(r, i) /\ DecideAndDiscard(r, ReplyForKey(r, i))
       \/ /\ ~\E i \in imports : SameKey(r, i)
          /\ SetPc(r, "find_file")
          /\ UNCHANGED reply
    /\ UNCHANGED <<upload, file, imports>>

\* Also an import that FAILED keeps its file from being imported again.
FindByFile(r) ==
    /\ pc[r] = "find_file"
    /\ \/ \E i \in imports :
            SameFile(r, i) /\ DecideAndDiscard(r, Duplicate(i))
       \/ /\ ~\E i \in imports : SameFile(r, i)
          /\ SetPc(r, "insert")
          /\ UNCHANGED reply
    /\ UNCHANGED <<upload, file, imports>>

\* The INSERT of import and intent. A row with the same key that is not yet
\* committed makes it wait for that transaction's end.
InsertImport(r) ==
    /\ pc[r] = "insert"
    /\ ~\E i \in imports : SameKey(r, i)
    /\ ~\E s \in Requests : pc[s] = "commit" /\ SameKey(r, s)
    /\ SetPc(r, "commit")
    /\ UNCHANGED <<upload, file, imports, reply>>

\* IntegrityError on the key: rollback, which gives up lock and connection.
LoseKeyRace(r) ==
    /\ pc[r] = "insert"
    /\ \E i \in imports : SameKey(r, i)
    /\ SetPc(r, "reread")
    /\ UNCHANGED <<upload, file, imports, reply>>

RereadWinner(r) ==
    /\ pc[r] = "reread"
    /\ HasFreeConnection
    /\ \E i \in imports : SameKey(r, i) /\ DecideAndDiscard(r, ReplyForKey(r, i))
    /\ UNCHANGED <<upload, file, imports>>

CommitImport(r) ==
    /\ pc[r] = "commit"
    /\ imports' = imports \cup {r}
    /\ SetPc(r, "refresh")
    /\ UNCHANGED <<upload, file, reply>>

\* Mutant: the file is deleted although it was not a repeated request.
RefreshAndDiscard(r) ==
    /\ pc[r] = "refresh"
    /\ HasFreeConnection
    /\ DecideAndDiscard(r, Accepted(r))
    /\ UNCHANGED <<upload, file, imports>>

\* The refresh takes a connection again; then the 202 is sent.
RefreshImport(r) ==
    /\ pc[r] = "refresh"
    /\ HasFreeConnection
    /\ Answer(r, Accepted(r))
    /\ UNCHANGED <<upload, file, imports>>

\* Mutant: a repeated request leaves its copy of the file behind.
DiscardRefused(r) ==
    /\ pc[r] = "discard"
    /\ IF reply[r].code = "accepted" THEN UNCHANGED file ELSE SetFile(r, "none")
    /\ SetPc(r, "answered")
    /\ UNCHANGED <<upload, imports, reply>>

DiscardFile(r) ==
    /\ pc[r] = "discard"
    /\ SetFile(r, "none")
    /\ SetPc(r, "answered")
    /\ UNCHANGED <<upload, imports, reply>>

-----------------------------------------------------------------------------
(* Failures.                                                               *)

\* An exception before the import is inserted: nothing is committed.
FailBeforeInsert(r) ==
    /\ \/ "save_error" \in Faults /\ pc[r] = "signature"
       \/ /\ "db_error" \in Faults
          /\ pc[r] \in {"connect", "lock", "find_key", "find_file", "insert", "reread"}
    /\ DecideAndDiscard(r, ServerError)
    /\ UNCHANGED <<upload, file, imports>>

\* COMMIT raises: DatabaseWriteError, whether or not it took effect.
CommitRaises(r) ==
    /\ pc[r] = "commit"
    /\ \/ "commit_rejected" \in Faults /\ UNCHANGED imports
       \/ "commit_applied" \in Faults /\ imports' = imports \cup {r}
    /\ DecideAndDiscard(r, ServerError)
    /\ UNCHANGED <<upload, file>>

\* The exception of the refresh reaches the handler like any other.
RefreshFails(r) ==
    /\ "refresh_error" \in Faults
    /\ pc[r] = "refresh"
    /\ DecideAndDiscard(r, ServerError)
    /\ UNCHANGED <<upload, file, imports>>

\* Its transaction is rolled back and its connection closed. No reply is sent.
Crash(r) ==
    /\ "crash" \in Faults
    /\ pc[r] \in Pc \ {"received", "answered", "dead"}
    /\ SetPc(r, "dead")
    /\ UNCHANGED <<upload, file, imports, reply>>

-----------------------------------------------------------------------------
Init ==
    /\ upload \in Uploads
    /\ file = [r \in Requests |-> "none"]
    /\ imports = {}
    /\ reply = [r \in Requests |-> NoReply]
    /\ pc = [r \in Requests |-> "received"]

\* What the handler does unless something fails.
Handle(r) ==
    \/ RejectRequest(r) \/ StartSaving(r) \/ FinishSaving(r) \/ FailSaving(r)
    \/ RejectContent(r) \/ AcceptContent(r)
    \/ Connect(r) \/ AcquireFingerprintLock(r) \/ FindByKey(r) \/ FindByFile(r)
    \/ InsertImport(r) \/ LoseKeyRace(r) \/ RereadWinner(r)
    \/ CommitImport(r) \/ RefreshImport(r) \/ DiscardFile(r)

Fail(r) == FailBeforeInsert(r) \/ CommitRaises(r) \/ RefreshFails(r) \/ Crash(r)

Ended(r) == pc[r] \in {"answered", "dead"}

\* All requests have ended.
Quiescent == (\A r \in Requests : Ended(r)) /\ UNCHANGED vars

Next == (\E r \in Requests : Handle(r) \/ Fail(r)) \/ Quiescent

Spec == Init /\ [][Next]_vars

\* A handler that can go on does, until it ends or its process dies.
FairSpec == Spec /\ \A r \in Requests : WF_vars(Handle(r))

-----------------------------------------------------------------------------
(* Properties.                                                             *)

\* Uploads of the same file never create two imports, however they interleave
\* and whatever their keys are. No constraint of the tables says so: only the
\* advisory lock and the lookup under it do.
OneImportPerFile == \A i, j \in imports : SameFile(i, j) => i = j

\* The file of a committed import is only ever lost by the request that created
\* it, and only when that was answered, or is being answered, with a 500.
CommittedFileKept ==
    \A i \in imports : file[i] = "stored" \/ reply[i] = ServerError

\* A request that was answered leaves a file behind only if an import uses it:
\* refused, repeated and failed uploads do not fill the disk. Crashes do.
NoOrphanFiles ==
    \A r \in Requests : pc[r] = "answered" /\ file[r] # "none" => r \in imports

\* All replies about one file name one import, which is an import of that file: a
\* client that repeats its upload, with whatever key and at whatever time, polls the
\* same import as before.
RepliesAgree ==
    \A r, s \in Requests :
        /\ reply[r].import # NoRequest => SameFile(r, reply[r].import)
        /\ SameFile(r, s) /\ NoRequest \notin {reply[r].import, reply[s].import} =>
             reply[r].import = reply[s].import

\* The contract decides an upload when its import is committed or its refusal
\* is found. A failure that commits nothing decides nothing.
Decision ==
    [r \in Requests |->
        IF r \in imports THEN Accepted(r)
        ELSE IF reply[r] \in {Rejected, ServerError} THEN NoReply
        ELSE reply[r]]

Contract == INSTANCE UploadContract WITH answer <- Decision

\* Concurrent uploads behave as if each were handled in one step by the README's
\* table of duplicate and idempotent uploads.
ContractRefinement == Contract!Spec

\* What a handler may have to wait for: a connection of the pool, the advisory lock,
\* the end of a transaction that inserts its key.
Waits(r) ==
    \/ pc[r] \in {"connect", "reread", "refresh"} /\ ~HasFreeConnection
    \/ pc[r] = "lock" /\ Locked(r)
    \/ /\ pc[r] = "insert"
       /\ \E s \in Requests : pc[s] = "commit" /\ SameKey(r, s)

\* Somebody can always go on, or all are done. Waiters for the lock hold connections
\* and those who hold the lock wait for a key, but nobody who has either of them
\* waits for the pool: not even with one connection does it take a timeout to go on.
NoCircularWait ==
    (\E r \in Requests : ~Ended(r)) => \E r \in Requests : ~Ended(r) /\ ~Waits(r)

\* Waiting for the advisory lock, for another transaction's key and for the
\* connection pool, at its limit, never block each other for good.
EveryRequestEnds == \A r \in Requests : <>Ended(r)

\* The import that a 202 names still has its file, so a worker can process it.
AcceptedImportHasFile ==
    \A r \in Requests :
        pc[r] = "answered" /\ reply[r].code = "accepted" => file[reply[r].import] = "stored"
=============================================================================
