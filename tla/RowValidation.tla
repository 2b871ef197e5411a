---------------------------- MODULE RowValidation ----------------------------
(***************************************************************************)
(* A workbook row on its own: the cells that RowValidationService parses,  *)
(* the rules it checks (domain/shipment_rules), and what the columns and   *)
(* constraints of table shipments accept, which is not the same.           *)
(*                                                                         *)
(* Texts, stripped, stand for their lengths, codes excepted. Weights and   *)
(* prices are integers with one decimal digit more than their columns:     *)
(* tenths of a gram, and thousandths.                                      *)
(***************************************************************************)
EXTENDS Integers

CONSTANTS
    Codes,          \* shipment codes
    NoCode,         \* an empty shipment_code cell, or one that is not a text
    CodeLength,     \* the length of each code
    Unreadable,     \* an empty required cell, or one its type does not parse
    MaxWeight,      \* what NUMERIC(12, 3) holds, in grams
    MaxPrice        \* what NUMERIC(18, 2) holds, in hundredths

ASSUME RowAssumption ==
    /\ NoCode \notin Codes
    /\ Unreadable \notin Int \cup STRING
    /\ CodeLength \in [Codes -> Nat \ {0}]
    /\ MaxWeight \in Nat /\ MaxPrice \in Nat

ALLOWED_SHIPMENT_STATUSES == {"PENDING", "IN_TRANSIT", "DELIVERED", "CANCELED"}
CUSTOMER_NAME_MAX_LENGTH == 150

Text == (Nat \ {0}) \cup {Unreadable}

\* delivery_date may be empty. "OTHER" is any status that is not allowed.
WorkbookRow ==
    [shipment_code : Codes \cup {NoCode},
     customer_name : Text, origin_city : Text, destination_city : Text,
     weight_kg : Int \cup {Unreadable}, price : Int \cup {Unreadable},
     status : ALLOWED_SHIPMENT_STATUSES \cup {"OTHER", Unreadable},
     delivery_date : {"empty", "date", Unreadable}]

Fields == {"shipment_code", "customer_name", "origin_city", "destination_city",
           "weight_kg", "price", "status", "delivery_date"}

UnparsedFields(row) == {f \in Fields : row[f] \in {NoCode, Unreadable}}

\* validate_partial_shipment_draft: rules of the values that were parsed.
BreaksRule(row, f) ==
    \/ f = "status" /\ row[f] \notin ALLOWED_SHIPMENT_STATUSES
    \/ f = "customer_name" /\ row[f] > CUSTOMER_NAME_MAX_LENGTH
    \/ f = "weight_kg" /\ row[f] <= 0
    \/ f = "price" /\ row[f] < 0

\* _parse_row: the fields with an issue. Each has at most one.
RowIssues(row) ==
    UnparsedFields(row)
        \cup {f \in Fields \ UnparsedFields(row) : BreaksRule(row, f)}

\* PostgreSQL rounds a NUMERIC to the column's scale, half away from zero.
Rounded(n) == IF n >= 0 THEN (n + 5) \div 10 ELSE -((5 - n) \div 10)

\* The CHECK constraints, which see the rounded values.
BreaksCheck(row) ==
    \/ row.status \notin ALLOWED_SHIPMENT_STATUSES
    \/ Rounded(row.weight_kg) <= 0
    \/ Rounded(row.price) < 0

\* A text longer than its column, or a number with too many digits: DataError.
OverflowsColumn(row) ==
    \/ CodeLength[row.shipment_code] > 128
    \/ row.customer_name > 150
    \/ row.origin_city > 255
    \/ row.destination_city > 255
    \/ Rounded(row.weight_kg) > MaxWeight
    \/ Rounded(row.price) > MaxPrice

Storable(row) == ~BreaksCheck(row) /\ ~OverflowsColumn(row)
=============================================================================
