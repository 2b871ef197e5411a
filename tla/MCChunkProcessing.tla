------------------------- MODULE MCChunkProcessing -------------------------
(***************************************************************************)
(* Chunk processing on small instances, for TLC.                           *)
(***************************************************************************)
EXTENDS ChunkProcessing

CONSTANTS i1, i2, c1, c2

MCCodeLength == [c \in Codes |-> 8]

\* The lightest row that can be stored: half a gram.
Good(c) ==
    [shipment_code |-> c, customer_name |-> 150, origin_city |-> 255,
     destination_city |-> 6, weight_kg |-> 5, price |-> 0, status |-> "PENDING",
     delivery_date |-> "empty"]

\* Rows that validation rejects, for one field and for two.
Weightless(c) == [Good(c) EXCEPT !.weight_kg = 0, !.status = "OTHER"]
Nameless == [Good(NoCode) EXCEPT !.delivery_date = "date"]

\* Rows that only the database rejects.
TooLight(c) == [Good(c) EXCEPT !.weight_kg = 4]
TooLong(c) == [Good(c) EXCEPT !.origin_city = 256]

\* Two workbooks of two chunks of at most two rows. i1 inserts both codes in its
\* first chunk, so that a conflict over one leaves the other. i2 has them in
\* different chunks, one of them again after a rejected row.
RacingUploads ==
    { [i \in Imports |-> IF i = i1 THEN <<Good(c1), Good(c2), Nameless>>
                        ELSE <<Good(c2), Weightless(c1), Good(c1)>>] }

\* One chunk each. i2's second row is a duplicate within the chunk, or one that
\* only the database rejects, after a first row that i1 may have inserted.
EndingWith(row) ==
    [i \in Imports |-> IF i = i1 THEN <<Good(c1)>> ELSE <<Good(c1), row>>]
TooLightUploads == {EndingWith(TooLight(c2))}

MCUploads ==
    RacingUploads \cup TooLightUploads \cup
        {EndingWith(Good(c1)), EndingWith(TooLong(c2))}
=============================================================================
