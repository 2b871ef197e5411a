----------------------------- MODULE MCListings -----------------------------
(***************************************************************************)
(* The listings on small instances, for TLC.                               *)
(***************************************************************************)
EXTENDS Listings, TLC

CONSTANTS i1, i2, c1, c2

MCCodeLength == [c \in Codes |-> 8]
MCIdRank ==
    [f \in Fields |-> CASE f = "status" -> 1 [] f = "weight_kg" -> 2
                        [] f = "shipment_code" -> 3 [] f = "price" -> 4
                        [] f = "origin_city" -> 5 [] f = "customer_name" -> 6
                        [] f = "destination_city" -> 7 [] OTHER -> 8]
MCImportRank == [i \in Imports |-> IF i = i1 THEN 1 ELSE 2]

Good(c) ==
    [shipment_code |-> c, customer_name |-> 5, origin_city |-> 6,
     destination_city |-> 6, weight_kg |-> 10, price |-> 0, status |-> "PENDING",
     delivery_date |-> "empty"]
Priceless == [Good(NoCode) EXCEPT !.price = -1]
Nameless(c) == [Good(c) EXCEPT !.customer_name = Unreadable]

\* i1 has errors in two chunks: one that depends on i2, one, and two in a row.
MCUploads ==
    { [i \in Imports |->
        IF i = i1 THEN <<Good(c2), Nameless(c1), Priceless>> ELSE <<Good(c2), Good(c1)>>] }

MCLists == { [kind |-> "errors", import |-> i1],
             [kind |-> "shipments", filter |-> Codes] }

WorkerSymmetry == Permutations(Workers)
=============================================================================
