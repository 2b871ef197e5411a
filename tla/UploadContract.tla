--------------------------- MODULE UploadContract ---------------------------
(***************************************************************************)
(* What POST /api/v1/imports promises: the README's table "Duplicate       *)
(* upload and idempotency behavior", one action per row. Each request      *)
(* takes effect in one step, however many uploads run at the same time.    *)
(* An import is named by the request that created it.                      *)
(***************************************************************************)
CONSTANTS
    Requests,
    NoRequest,      \* the import of an answer that names none
    Contents,       \* file contents, which stand for their SHA-256 as well
    Keys,           \* values of the Idempotency-Key header
    NoKey,          \* a request without the header
    Uploads         \* what the requests may send

VARIABLES
    upload,         \* upload[r]: the content and key that request r sends
    imports,        \* the committed imports
    answer          \* what has been decided for each request

SameFile(r, i) == upload[r].content = upload[i].content
SameKey(r, i) == upload[r].key # NoKey /\ upload[r].key = upload[i].key

Undecided == [code |-> "none", import |-> NoRequest]
Accepted(i) == [code |-> "accepted", import |-> i]
Duplicate(i) == [code |-> "duplicate", import |-> i]
Conflict == [code |-> "conflict", import |-> NoRequest]

Decide(r, decision) ==
    /\ answer[r] = Undecided
    /\ answer' = [answer EXCEPT ![r] = decision]
    /\ UNCHANGED upload

\* First upload of a new file, under a new key or none: 202.
Create(r) ==
    /\ Decide(r, Accepted(r))
    /\ \A i \in imports : ~SameFile(r, i) /\ ~SameKey(r, i)
    /\ imports' = imports \cup {r}

\* Same key, same file: 202 with the existing import.
Replay(r) ==
    /\ \E i \in imports : SameKey(r, i) /\ SameFile(r, i) /\ Decide(r, Accepted(i))
    /\ UNCHANGED imports

\* Same key, different file: IDEMPOTENCY_CONFLICT.
RefuseKey(r) ==
    /\ \E i \in imports : SameKey(r, i) /\ ~SameFile(r, i)
    /\ Decide(r, Conflict)
    /\ UNCHANGED imports

\* Same file with no key or a different key: DUPLICATE_IMPORT.
RefuseFile(r) ==
    /\ \E i \in imports : ~SameKey(r, i) /\ SameFile(r, i) /\ Decide(r, Duplicate(i))
    /\ UNCHANGED imports

Init ==
    /\ upload \in Uploads
    /\ imports = {}
    /\ answer = [r \in Requests |-> Undecided]

Next == \E r \in Requests : Create(r) \/ Replay(r) \/ RefuseKey(r) \/ RefuseFile(r)

Spec == Init /\ [][Next]_<<upload, imports, answer>>
=============================================================================
