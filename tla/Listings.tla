------------------------------ MODULE Listings ------------------------------
(***************************************************************************)
(* The read endpoints: GET /imports/{id}, /imports/{id}/errors and         *)
(* /shipments, used by a client that polls an import's status and then     *)
(* fetches a listing page by page (GetImportStatusService,                 *)
(* ListImportErrorsService, ListShipmentsService, common/pagination), while *)
(* the workers of ChunkProcessing write the tables.                        *)
(*                                                                         *)
(* Each SELECT is a step: a page's total and its items come from two       *)
(* snapshots (READ COMMITTED), and pages from different requests.          *)
(***************************************************************************)
EXTENDS ChunkProcessing

CONSTANTS
    Lists,          \* the lists clients ask for
    PageSizes,      \* the page sizes clients ask for, up to MAX_PAGE_SIZE
    IdRank,         \* how the random ids of one row's errors are ordered
    ImportRank      \* which imports' shipments are newer

\* A list has the errors of an import, or the shipments that match a filter,
\* which is the set of codes of the rows it matches.
ErrorLists == [kind : {"errors"}, import : Imports]
ShipmentLists == [kind : {"shipments"}, filter : SUBSET Codes]

ASSUME ListingAssumption ==
    /\ Lists \subseteq ErrorLists \cup ShipmentLists
    /\ PageSizes \subseteq Nat \ {0}
    /\ IdRank \in [Fields -> Nat]
    /\ ImportRank \in [Imports -> Nat]
    /\ \A f, g \in Fields : IdRank[f] = IdRank[g] => f = g
    /\ \A i, j \in Imports : ImportRank[i] = ImportRank[j] => i = j

VARIABLE client     \* one client, its request and what it got

listingVars == <<vars, client>>

\* "waits": the client polls until the list's imports have finished.
NoRequest == [pc |-> "idle", list |-> [kind |-> "none"], waits |-> FALSE, size |-> 0,
              status |-> [status |-> "none"], page |-> 0, total |-> 0, items |-> <<>>]

-----------------------------------------------------------------------------
(* The queries.                                                            *)

\* The rows of a list.
Listed(list) ==
    IF list.kind = "errors" THEN ErrorsOf(list.import)
    ELSE {s \in shipments : s.code \in list.filter}

\* Mutant: ORDER BY id.
ErrorIdBefore(e, f) ==
    \/ IdRank[e.field] < IdRank[f.field]
    \/ e.field = f.field /\ e.row < f.row

\* ORDER BY row_number, id.
ErrorBefore(e, f) ==
    \/ e.row < f.row
    \/ e.row = f.row /\ IdRank[e.field] < IdRank[f.field]

\* ORDER BY created_at DESC, id DESC. In tables at rest any order would do.
ShipmentBefore(s, t) ==
    \/ ImportRank[s.import] > ImportRank[t.import]
    \/ s.import = t.import /\ s.row > t.row

Before(list, x, y) ==
    IF list.kind = "errors" THEN ErrorBefore(x, y) ELSE ShipmentBefore(x, y)

\* A row's place in the ORDER BY, counted from 1.
Position(list, x) == Cardinality({y \in Listed(list) : Before(list, y, x)}) + 1

\* Mutant: pages are counted from 0.
OffsetFromZero(page, size) == page * size

\* PageRequest.offset, and build_pagination_metadata's total_pages.
Offset(page, size) == (page - 1) * size

\* Mutant: the last page counts only if it is full.
FullPages(total, size) == total \div size

TotalPages(total, size) == (total + size - 1) \div size

\* LIMIT size OFFSET offset.
Page(list, page, size) ==
    LET offset == Offset(page, size)
    IN  [k \in {n \in 1 .. size : offset + n <= Cardinality(Listed(list))} |->
            CHOOSE x \in Listed(list) : Position(list, x) = offset + k]

-----------------------------------------------------------------------------
(* The client.                                                             *)

AskFor(list, waits, size) ==
    client' = [NoRequest EXCEPT !.pc = IF waits THEN "polling" ELSE "counting",
                                !.list = list, !.waits = waits, !.size = size,
                                !.page = 1]

Ask ==
    /\ client.pc = "idle"
    /\ \E size \in PageSizes :
        \/ \E list \in Lists \cap ErrorLists, waits \in BOOLEAN : AskFor(list, waits, size)
        \/ \E list \in Lists \cap ShipmentLists : AskFor(list, TRUE, size)
    /\ UNCHANGED vars

\* get_status_read_model, one SELECT, when it finds the import finished. A client
\* that lists shipments waits for all imports.
SeeFinished ==
    /\ client.pc = "polling"
    /\ \/ /\ client.list.kind = "errors"
          /\ Finished(client.list.import)
          /\ client' = [client EXCEPT !.pc = "counting",
                                      !.status = job[client.list.import]]
       \/ /\ client.list.kind = "shipments"
          /\ \A i \in Imports : Finished(i)
          /\ client' = [client EXCEPT !.pc = "counting"]
    /\ UNCHANGED vars

\* The first statement of list_page.
CountItems ==
    /\ client.pc = "counting"
    /\ client' = [client EXCEPT !.pc = "reading",
                                !.total = Cardinality(Listed(client.list))]
    /\ UNCHANGED vars

\* The second. The client asks for the next page if the response names one.
ReadPage ==
    /\ client.pc = "reading"
    /\ LET last == client.page >= TotalPages(client.total, client.size)
       IN  client' = [client EXCEPT !.pc = IF last THEN "done" ELSE "counting",
                                    !.page = IF last THEN @ ELSE @ + 1,
                                    !.items = @ \o Page(client.list, client.page, client.size)]
    /\ UNCHANGED vars

ListingInit == Init /\ client = NoRequest

ListingNext ==
    \/ Next /\ UNCHANGED client
    \/ Ask \/ SeeFinished \/ CountItems \/ ReadPage

ListingSpec == ListingInit /\ [][ListingNext]_listingVars

-----------------------------------------------------------------------------
(* Properties.                                                             *)

\* A client that saw its import finish and then fetched all pages has got every
\* error once, in row order, and from as many rows as failed_count said, whatever
\* late workers and other imports did in between. Likewise for shipments.
ListingIsComplete ==
    client.pc = "done" /\ client.waits =>
        /\ {client.items[k] : k \in DOMAIN client.items} = Listed(client.list)
        /\ \A j, k \in DOMAIN client.items :
            j < k => Before(client.list, client.items[j], client.items[k])
        /\ client.list.kind = "errors" =>
            client.status.counts.failed = Cardinality(RowsOf(Listed(client.list)))

\* Also a client that does not wait never gets an error of one attempt twice, and
\* gets them in row order: errors are only ever added behind those it has read,
\* chunk by chunk, unless a new attempt removes all of them.
ErrorsAreNotRepeated ==
    client.list.kind = "errors" =>
        \A j, k \in DOMAIN client.items :
            j < k /\ client.items[j].attempt = client.items[k].attempt =>
                ErrorBefore(client.items[j], client.items[k])
=============================================================================
