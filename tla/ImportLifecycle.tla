--------------------------- MODULE ImportLifecycle ---------------------------
(***************************************************************************)
(* What the pipeline promises the client that polls an import's status,    *)
(* whatever happens to publishers, workers, the broker and the database:   *)
(* an import is worked on by one owner at a time, at most MaxAttempts      *)
(* times, and once COMPLETED or FAILED it never changes again.             *)
(***************************************************************************)
EXTENDS Integers

CONSTANTS Imports, Owners, NoOwner, MaxAttempts

VARIABLE import   \* what a reader of import_jobs may rely on

Unsubmitted == [status |-> "NONE", owner |-> NoOwner, attempts |-> 0]
Submitted == [status |-> "PENDING", owner |-> NoOwner, attempts |-> 0]

Init == import = [i \in Imports |-> Unsubmitted]

Submit(i) ==
    /\ import[i].status = "NONE"
    /\ import' = [import EXCEPT ![i] = Submitted]

\* A new attempt: one more than before, under an owner of its own.
Claim(i, o) ==
    /\ import[i].status = "PENDING"
    /\ import[i].attempts < MaxAttempts
    /\ import' = [import EXCEPT ![i] = [status |-> "PROCESSING", owner |-> o,
                                        attempts |-> import[i].attempts + 1]]

\* The row of an import that nobody works on any more, or not for now.
Ended(row, status) ==
    [status |-> status, owner |-> NoOwner, attempts |-> row.attempts]

Complete(i) ==
    /\ import[i].status = "PROCESSING"
    /\ import' = [import EXCEPT ![i] = Ended(import[i], "COMPLETED")]

\* An attempt that ended early leaves the import PENDING while it has others.
MayRelease(row) == row.status = "PROCESSING" /\ row.attempts < MaxAttempts

\* An import is given up during an attempt or before one.
MayFail(row) == row.status \in {"PENDING", "PROCESSING"}

\* One transaction of a recovery service may end several attempts.
EndAttempts ==
    \E S \in SUBSET Imports : \E F \in SUBSET S :
        /\ \A i \in F : MayFail(import[i])
        /\ \A i \in S \ F : MayRelease(import[i])
        /\ import' = [i \in Imports |->
                        IF i \in F THEN Ended(import[i], "FAILED")
                        ELSE IF i \in S THEN Ended(import[i], "PENDING")
                        ELSE import[i]]

Next ==
    \/ \E i \in Imports : Submit(i) \/ Complete(i) \/ \E o \in Owners : Claim(i, o)
    \/ EndAttempts

Spec == Init /\ [][Next]_import
=============================================================================
