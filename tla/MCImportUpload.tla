--------------------------- MODULE MCImportUpload ---------------------------
(***************************************************************************)
(* The upload handler on small instances, for TLC.                         *)
(***************************************************************************)
EXTENDS ImportUpload

CONSTANTS r1, r2, r3, a, b, k1, k2, long, text

\* Different files take different locks, so that two uploads may race for a key. A
\* collision would only keep them apart.
MCHashText == [c \in Contents |-> c]

Send(c, k) == [content |-> c, key |-> k, named |-> TRUE]

\* Every mix of two files, one key or none; the third request with any key.
MCUploads ==
    {f \in [Requests -> Upload] :
        /\ f[r1] = Send(a, k1)
        /\ f[r2] \in {Send(c, k) : c \in {a, b}, k \in {k1, NoKey}}
        /\ f[r3] \in {Send(c, k) : c \in {a, b}, k \in {k1, k2, NoKey}}
                       \cup {Send(long, k1), Send(text, NoKey),
                             [content |-> a, key |-> k1, named |-> FALSE]}}
=============================================================================
