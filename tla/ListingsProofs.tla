--------------------------- MODULE ListingsProofs ---------------------------
(***************************************************************************)
(* Proofs about Listings, for any lists, page sizes, tables and workers:   *)
(* what a page holds, that a client which waits gets a whole list in       *)
(* order, and that one which does not is never served an error twice.      *)
(***************************************************************************)
EXTENDS Listings, ChunkProcessingProofs

-----------------------------------------------------------------------------
(* Lists and their order.                                                  *)

AllLists == ErrorLists \cup ShipmentLists

\* The order of a list compares any two of its rows, one way.
Ordered(list) ==
    /\ \A x \in Listed(list) : ~Before(list, x, x)
    /\ \A x, y \in Listed(list) : x = y \/ Before(list, x, y) \/ Before(list, y, x)
    /\ \A x, y, z \in Listed(list) :
         Before(list, x, y) /\ Before(list, y, z) => Before(list, x, z)

\* Chunks are finite, so the table is, even with infinitely many imports.
ShipmentsAreFinite == IsFiniteSet(shipments)

\* The columns of a workbook.
LEMMA FieldsAreFinite == IsFiniteSet(Fields)
<1> DEFINE names == <<"shipment_code", "customer_name", "origin_city", "destination_city",
                      "weight_kg", "price", "status", "delivery_date">>
<1>1. names \in Surjection(1 .. 8, Fields)
  <2>1. names \in [1 .. 8 -> Fields]
    BY DEF Fields
  <2>2. \A f \in Fields : \E k \in 1 .. 8 : names[k] = f
    <3>1. /\ names[1] = "shipment_code" /\ names[2] = "customer_name"
          /\ names[3] = "origin_city" /\ names[4] = "destination_city"
          /\ names[5] = "weight_kg" /\ names[6] = "price"
          /\ names[7] = "status" /\ names[8] = "delivery_date"
      OBVIOUS
    <3>2. \A k \in {1, 2, 3, 4, 5, 6, 7, 8} : k \in 1 .. 8
      OBVIOUS
    <3> HIDE DEF names
    <3> QED  BY <3>1, <3>2 DEF Fields
  <2> HIDE DEF names
  <2> QED  BY <2>1, <2>2 DEF Surjection
<1> HIDE DEF names
<1>2. IsFiniteSet(1 .. 8)
  <2>1. 8 \in Nat
    OBVIOUS
  <2> QED  BY <2>1, FirstRowsAreFinite
<1> QED  BY <1>1, <1>2, FS_Surjection

\* An error of an import is known by its row and field.
LEMMA ErrorIdentity ==
    ASSUME ChunkInvariant, NEW i \in Imports, NEW x \in ErrorsOf(i), NEW y \in ErrorsOf(i),
           x.row = y.row, x.field = y.field
    PROVE  x = y
<1>1. x.attempt = y.attempt /\ x.import = y.import
  BY DEF ChunkInvariant, OutputOfOneAttempt, ErrorsOf
<1>2. /\ x \in [import : Imports, row : Nat, field : Fields, attempt : 1 .. MaxAttempts]
      /\ y \in [import : Imports, row : Nat, field : Fields, attempt : 1 .. MaxAttempts]
  BY DEF ChunkInvariant, TypeOK, ErrorsOf
<1> QED  BY <1>1, <1>2

\* A shipment is known by its import and row.
LEMMA ShipmentIdentity ==
    ASSUME ChunkInvariant, NEW x \in shipments, NEW y \in shipments,
           x.row = y.row, x.import = y.import
    PROVE  x = y
<1>1. x.code = y.code
  BY DEF ChunkInvariant, ShipmentsAreFirstRows
<1>2. /\ x \in [import : Imports, row : Nat, code : Codes, attempt : 1 .. MaxAttempts]
      /\ y \in [import : Imports, row : Nat, code : Codes, attempt : 1 .. MaxAttempts]
  BY DEF ChunkInvariant, TypeOK
<1>3. x.attempt = y.attempt
  <2>1. PICK i \in Imports : i = x.import
    BY <1>2
  <2>2. x \in ShipmentsOf(i) /\ y \in ShipmentsOf(i)
    BY <2>1 DEF ShipmentsOf
  <2> QED  BY <2>2 DEF ChunkInvariant, OutputOfOneAttempt
<1> QED  BY <1>1, <1>2, <1>3

\* The errors of an import are finitely many: those of finitely many rows.
LEMMA ErrorsAreFinite ==
    ASSUME ChunkInvariant, NEW i \in Imports
    PROVE  IsFiniteSet(ErrorsOf(i))
<1> DEFINE R == RowsOf(ErrorsOf(i))
           f == [x \in ErrorsOf(i) |-> <<x.row, x.field>>]
<1>1. f \in Injection(ErrorsOf(i), R \X Fields)
  <2>1. \A x \in ErrorsOf(i) : x.row \in R /\ x.field \in Fields
    BY DEF RowsOf, ErrorsOf, ChunkInvariant, TypeOK
  <2>2. f \in [ErrorsOf(i) -> R \X Fields]
    BY <2>1
  <2>3. \A x, y \in ErrorsOf(i) : f[x] = f[y] => x = y
    BY ErrorIdentity
  <2> QED  BY <2>2, <2>3 DEF Injection, IsInjective
<1>2. IsFiniteSet(R)
  BY DEF ChunkInvariant, TablesAreFinite
<1>3. IsFiniteSet(R \X Fields)
  BY <1>2, FieldsAreFinite, FS_Product
<1> QED  BY <1>1, <1>3, FS_Injection

\* Row number and id order the errors of an import; creation time and id order
\* shipments.
LEMMA ListsAreOrdered ==
    ASSUME ChunkInvariant, ShipmentsAreFinite, NEW list \in AllLists
    PROVE  IsFiniteSet(Listed(list)) /\ Ordered(list)
<1>1. CASE list \in ErrorLists
  <2>1. PICK i \in Imports : i = list.import
    BY <1>1 DEF ErrorLists
  <2>2. Listed(list) = ErrorsOf(i) /\ list.kind = "errors"
    BY <1>1, <2>1 DEF ErrorLists, Listed
  <2>3. \A x \in ErrorsOf(i) : x.row \in Nat /\ x.field \in Fields /\ IdRank[x.field] \in Nat
    BY ListingAssumption DEF ErrorsOf, ChunkInvariant, TypeOK
  <2>4. \A x, y \in ErrorsOf(i) :
          x.row = y.row /\ IdRank[x.field] = IdRank[y.field] => x = y
    BY <2>3, ErrorIdentity, ListingAssumption
  <2>5. Ordered(list)
    BY <2>2, <2>3, <2>4 DEF Ordered, Before, ErrorBefore
  <2> QED  BY <2>2, <2>5, ErrorsAreFinite
<1>2. CASE list \in ShipmentLists
  <2>1. list.kind # "errors"
    BY <1>2 DEF ShipmentLists
  <2>2. Listed(list) \in SUBSET shipments
    BY <2>1 DEF Listed
  <2>3. \A x \in shipments : x.row \in Nat /\ x.import \in Imports /\ ImportRank[x.import] \in Nat
    BY ListingAssumption DEF ChunkInvariant, TypeOK
  <2>4. \A x, y \in shipments :
          /\ ImportRank[x.import] = ImportRank[y.import] => x.import = y.import
          /\ x.row = y.row /\ x.import = y.import => x = y
    BY <2>3, ShipmentIdentity, ListingAssumption
  <2>5. Ordered(list)
    BY <2>1, <2>2, <2>3, <2>4 DEF Ordered, Before, ShipmentBefore
  <2>6. IsFiniteSet(Listed(list))
    BY <2>2, FS_Subset DEF ShipmentsAreFinite
  <2> QED  BY <2>5, <2>6
<1> QED  BY <1>1, <1>2 DEF AllLists

\* The rows of a list take the places from 1 to its length, each one, in order.
LEMMA Positions ==
    ASSUME NEW list, IsFiniteSet(Listed(list)), Ordered(list)
    PROVE  /\ \A x \in Listed(list) : Position(list, x) \in 1 .. Cardinality(Listed(list))
           /\ \A x, y \in Listed(list) :
                Before(list, x, y) <=> Position(list, x) < Position(list, y)
           /\ \A x, y \in Listed(list) : Position(list, x) = Position(list, y) => x = y
           /\ \A k \in 1 .. Cardinality(Listed(list)) :
                \E x \in Listed(list) : Position(list, x) = k
<1> DEFINE S == Listed(list)
           N == Cardinality(S)
           Earlier(x) == {y \in S : Before(list, y, x)}
<1>1. N \in Nat
  BY FS_CardinalityType
<1>2. \A x \in S : Position(list, x) = Cardinality(Earlier(x)) + 1
  BY DEF Position
<1>3. ASSUME NEW x \in S
      PROVE  /\ IsFiniteSet(Earlier(x)) /\ Cardinality(Earlier(x)) \in Nat
             /\ Cardinality(Earlier(x)) < N
  <2>1. Earlier(x) \in SUBSET S /\ x \notin Earlier(x)
    BY DEF Ordered
  <2>2. /\ IsFiniteSet(Earlier(x)) /\ Cardinality(Earlier(x)) <= N
        /\ N = Cardinality(Earlier(x)) => S = Earlier(x)
    BY <2>1, FS_Subset
  <2>3. Cardinality(Earlier(x)) \in Nat
    BY <2>2, FS_CardinalityType
  <2> QED  BY <1>1, <2>1, <2>2, <2>3
<1>4. ASSUME NEW x \in S, NEW y \in S, Before(list, x, y)
      PROVE  Cardinality(Earlier(x)) < Cardinality(Earlier(y))
  <2>1. Earlier(x) \in SUBSET Earlier(y) /\ x \in Earlier(y) /\ x \notin Earlier(x)
    BY <1>4 DEF Ordered
  <2>2. /\ Cardinality(Earlier(x)) <= Cardinality(Earlier(y))
        /\ Cardinality(Earlier(y)) = Cardinality(Earlier(x)) => Earlier(y) = Earlier(x)
    BY <1>3, <2>1, FS_Subset
  <2>3. Cardinality(Earlier(x)) \in Nat /\ Cardinality(Earlier(y)) \in Nat
    BY <1>3
  <2> HIDE DEF Earlier
  <2> QED  BY <2>1, <2>2, <2>3
<1>5. \A x \in S : Position(list, x) \in 1 .. N
  <2> HIDE DEF Earlier, N
  <2> QED  BY <1>1, <1>2, <1>3
<1>6. \A x, y \in S : Before(list, x, y) => Position(list, x) < Position(list, y)
  <2> HIDE DEF Earlier
  <2> QED  BY <1>2, <1>3, <1>4
<1>7. \A x, y \in S : x = y \/ Before(list, x, y) \/ Before(list, y, x)
  BY DEF Ordered
<1>8. \A x, y \in S : Position(list, x) \in Nat
  BY <1>1, <1>5
<1>9. /\ \A x, y \in S : Before(list, x, y) <=> Position(list, x) < Position(list, y)
      /\ \A x, y \in S : Position(list, x) = Position(list, y) => x = y
  BY <1>6, <1>7, <1>8
<1>10. \A k \in 1 .. N : \E x \in S : Position(list, x) = k
  <2> DEFINE place == [x \in S |-> Position(list, x)]
  <2>1. place \in Injection(S, 1 .. N)
    <3> HIDE DEF S, N
    <3>1. place \in [S -> 1 .. N]
      BY <1>5
    <3>2. \A x, y \in S : place[x] = place[y] => x = y
      BY <1>9
    <3> QED  BY <3>1, <3>2 DEF Injection, IsInjective
  <2>2. IsFiniteSet(1 .. N) /\ Cardinality(1 .. N) = N
    BY <1>1, FirstRowsAreFinite
  <2>3. place \in Surjection(S, 1 .. N)
    <3> HIDE DEF place
    <3> QED  BY <2>1, <2>2, FS_Injection
  <2>4. \A k \in 1 .. N : \E x \in S : place[x] = k
    <3> HIDE DEF place, S, N
    <3> QED  BY <2>3 DEF Surjection
  <2> QED  BY <2>4
<1> QED  BY <1>5, <1>9, <1>10

\* The last page is the first one whose end reaches the total: page >= total_pages
\* exactly when nothing is left behind it.
LEMMA LastPage ==
    ASSUME NEW page \in Nat, NEW size \in Nat \ {0}, NEW total \in Nat
    PROVE  page >= TotalPages(total, size) <=> page * size >= total
BY DEF TotalPages

\* Pages follow each other.
LEMMA NextOffset ==
    ASSUME NEW page \in Nat \ {0}, NEW size \in Nat \ {0}
    PROVE  /\ Offset(page, size) \in Nat /\ page * size \in Nat
           /\ Offset(page + 1, size) = page * size
           /\ page * size = Offset(page, size) + size
<1>1. Offset(page, size) \in Nat /\ page * size \in Nat
  BY DEF Offset
<1>2. page * size = (page - 1) * size + size
  OBVIOUS
<1>3. (page + 1) - 1 = page
  OBVIOUS
<1> QED  BY <1>1, <1>2, <1>3 DEF Offset

\* A page holds the rows at the places behind its offset, as many as there are.
LEMMA PageItems ==
    ASSUME NEW list, IsFiniteSet(Listed(list)), Ordered(list),
           NEW page \in Nat \ {0}, NEW size \in Nat \ {0}
    PROVE  LET items == Page(list, page, size)
               length == Cardinality(Listed(list))
               offset == Offset(page, size)
           IN  /\ items \in Seq(Listed(list))
               /\ Len(items) = IF offset + size <= length THEN size
                              ELSE IF offset <= length THEN length - offset ELSE 0
               /\ \A k \in 1 .. Len(items) :
                    items[k] \in Listed(list) /\ Position(list, items[k]) = offset + k
<1> DEFINE N == Cardinality(Listed(list))
           offset == Offset(page, size)
           n == IF offset + size <= N THEN size
                ELSE IF offset <= N THEN N - offset ELSE 0
           At(k) == CHOOSE x \in Listed(list) : Position(list, x) = offset + k
<1>1. N \in Nat /\ offset \in Nat
  BY FS_CardinalityType, NextOffset
<1> HIDE DEF N, offset
<1>2. n \in Nat /\ {k \in 1 .. size : offset + k <= N} = 1 .. n
  BY <1>1
<1>3. \A k \in 1 .. n : offset + k \in 1 .. N
  BY <1>1
<1>4. \A k \in 1 .. n : At(k) \in Listed(list) /\ Position(list, At(k)) = offset + k
  <2>1. \A k \in 1 .. n : \E x \in Listed(list) : Position(list, x) = offset + k
    BY <1>3, Positions DEF N
  <2> QED  BY <2>1
<1> HIDE DEF At, n
<1>5. Page(list, page, size) = [k \in 1 .. n |-> At(k)]
  BY <1>2 DEF Page, At, N, offset
<1>6. /\ Page(list, page, size) \in [1 .. n -> Listed(list)]
      /\ \A k \in 1 .. n : Page(list, page, size)[k] = At(k)
  BY <1>4, <1>5
<1>7. Page(list, page, size) \in Seq(Listed(list)) /\ Len(Page(list, page, size)) = n
  BY <1>2, <1>6
<1> QED  BY <1>4, <1>6, <1>7 DEF n, N, offset

-----------------------------------------------------------------------------
(* What a client has got.                                                  *)

Rows == [import : Imports, row : Nat, code : Codes, attempt : 1 .. MaxAttempts]
        \cup [import : Imports, row : Nat, field : Fields, attempt : 1 .. MaxAttempts]

Reading == {"counting", "reading", "done"}

Client == [pc : {"idle", "polling"} \cup Reading,
           list : AllLists \cup {[kind |-> "none"]}, waits : BOOLEAN, size : Nat,
           status : Job \cup {[status |-> "none"]}, page : Nat, total : Nat, items : Seq(Rows)]

\* A client that asked has a list, a page size and a page; while it polls, nothing
\* else.
ClientTyped ==
    /\ client \in Client
    /\ client.pc # "idle" =>
         /\ client.list \in AllLists
         /\ client.size \in Nat \ {0} /\ client.page \in Nat \ {0}
    /\ client.pc = "polling" => client.items = <<>> /\ client.page = 1

\* A list to which nothing can be added.
Settled(list) ==
    IF list.kind = "errors" THEN Finished(list.import) ELSE \A i \in Imports : Finished(i)

\* A client that waited reads a settled list from the front, without a gap.
ReadsInOrder ==
    client.waits /\ client.pc \in Reading =>
        /\ Settled(client.list)
        /\ client.list.kind = "errors" => client.status = job[client.list.import]
        /\ client.pc = "reading" => client.total = Cardinality(Listed(client.list))
        /\ IF client.pc = "done"
           THEN Len(client.items) = Cardinality(Listed(client.list))
           ELSE /\ Len(client.items) = Offset(client.page, client.size)
                /\ Len(client.items) <= Cardinality(Listed(client.list))
        /\ \A k \in 1 .. Len(client.items) :
             /\ client.items[k] \in Listed(client.list)
             /\ Position(client.list, client.items[k]) = k

\* An error x of list is at one of the first n places, or it was deleted for good.
SeenOrGone(list, x, n) ==
    \/ x \in Listed(list) /\ Position(list, x) <= n
    \/ /\ x.attempt < job[list.import].attempts
       /\ \A e \in Listed(list) : e.attempt # x.attempt

\* What a client has of a list of errors lies before the page it asks for next.
PagesMoveOn ==
    client.list.kind = "errors" /\ client.pc \in {"counting", "reading"} =>
        \A k \in 1 .. Len(client.items) :
            SeenOrGone(client.list, client.items[k], Offset(client.page, client.size))

ListingInvariant ==
    /\ ChunkInvariant
    /\ ShipmentsAreFinite
    /\ ClientTyped
    /\ ReadsInOrder
    /\ PagesMoveOn
    /\ ErrorsAreNotRepeated

-----------------------------------------------------------------------------
(* Steps of the workers.                                                   *)

\* Errors are appended behind those of the import, or all removed by a newer attempt.
OnlyAppended(i) ==
    /\ ErrorsOf(i) \subseteq ErrorsOf(i)'
    /\ \A e \in ErrorsOf(i)' \ ErrorsOf(i) :
         e.attempt = job[i].attempts /\ \A x \in ErrorsOf(i) : x.row < e.row
AllRemoved(i) ==
    /\ ErrorsOf(i)' = {}
    /\ \A x \in ErrorsOf(i) : x.attempt < job[i].attempts

\* A step that leaves the errors alone.
LEMMA ErrorsUntouched ==
    ASSUME ChunkInvariant, NEW i \in Imports, errors' = errors
    PROVE  OnlyAppended(i)
BY DEF OnlyAppended, ErrorsOf

\* A chunk's errors belong to rows behind all earlier ones.
LEMMA ErrorsOfChunk ==
    ASSUME ChunkInvariant, NEW w \in Workers, PersistChunk(w), NEW i \in Imports
    PROVE  OnlyAppended(i)
<1>1. /\ run[w].pc = "persist" /\ Owns(w)
      /\ errors' = errors \cup
             {[import |-> run[w].import, row |-> e.row, field |-> e.field,
               attempt |-> run[w].attempt] : e \in run[w].rejected}
  BY DEF PersistChunk
<1>2. run[w].import \in Imports /\ Sound(w)
  BY <1>1, WriterState DEF Prepared
<1>3. CASE run[w].import # i
  <2>1. ErrorsOf(i)' = ErrorsOf(i)
    BY <1>1, <1>3 DEF ErrorsOf
  <2> QED  BY <2>1 DEF OnlyAppended
<1>4. CASE run[w].import = i
  <2>1. \A q \in RowsOf(ErrorsOf(i)), r \in RowsOf(run[w].rejected) : q < r
    BY <1>2, <1>4 DEF Sound, RowsAreAccountedFor, CommittedRows, ChunkRows
  <2>2. job[i].attempts = run[w].attempt
    BY <1>1, <1>4 DEF Owns
  <2>3. ASSUME NEW e \in ErrorsOf(i)' \ ErrorsOf(i)
        PROVE  e.attempt = job[i].attempts /\ \A x \in ErrorsOf(i) : x.row < e.row
    <3>1. e \in errors' /\ e \notin errors
      BY <2>3 DEF ErrorsOf
    <3>2. PICK g \in run[w].rejected :
            e = [import |-> run[w].import, row |-> g.row, field |-> g.field,
                 attempt |-> run[w].attempt]
      BY <1>1, <3>1
    <3>3. e.row \in RowsOf(run[w].rejected) /\ e.attempt = job[i].attempts
      BY <2>2, <3>2 DEF RowsOf
    <3>4. \A x \in ErrorsOf(i) : x.row \in RowsOf(ErrorsOf(i))
      BY DEF RowsOf
    <3> QED  BY <2>1, <3>3, <3>4
  <2>4. ErrorsOf(i) \subseteq ErrorsOf(i)'
    BY <1>1 DEF ErrorsOf
  <2> QED  BY <2>3, <2>4 DEF OnlyAppended
<1> QED  BY <1>3, <1>4

\* The reset removes the errors of the run's own import, all of earlier attempts.
LEMMA ErrorsOfReset ==
    ASSUME ChunkInvariant, NEW w \in Workers, PrepareForReprocessing(w), NEW i \in Imports
    PROVE  OnlyAppended(i) \/ AllRemoved(i)
<1>1. /\ run[w].pc = "claimed" /\ Owns(w)
      /\ errors' = errors \ ErrorsOf(run[w].import)
  BY DEF PrepareForReprocessing
<1>2. CASE run[w].import # i
  <2>1. ErrorsOf(i)' = ErrorsOf(i)
    BY <1>1, <1>2 DEF ErrorsOf
  <2> QED  BY <2>1 DEF OnlyAppended
<1>3. CASE run[w].import = i
  <2>1. ErrorsOf(i)' = {}
    BY <1>1, <1>3 DEF ErrorsOf
  <2>2. \A x \in ErrorsOf(i) : x.attempt < job[i].attempts
    BY <1>1, <1>3 DEF ChunkInvariant, OutputIsOld, Owns
  <2> QED  BY <2>1, <2>2 DEF AllRemoved
<1> QED  BY <1>2, <1>3

\* No step inserts an error among those a client may have read, takes a part of
\* them away, or counts an attempt back.
LEMMA ErrorsStep ==
    ASSUME ChunkInvariant, [Next]_vars, NEW i \in Imports
    PROVE  /\ OnlyAppended(i) \/ AllRemoved(i)
           /\ job'[i].attempts >= job[i].attempts
<1>1. OnlyAppended(i) \/ AllRemoved(i)
  <2>1. ASSUME NEW w \in Workers, RunStep(w)
        PROVE  OnlyAppended(i) \/ AllRemoved(i)
    <3>1. CASE PrepareForReprocessing(w)
      BY <3>1, ErrorsOfReset
    <3>2. CASE PersistChunk(w)
      BY <3>2, ErrorsOfChunk
    <3>3. CASE ~PrepareForReprocessing(w) /\ ~PersistChunk(w)
      BY <2>1, <3>3, ErrorsUntouched DEF RunStep, ValidateNextChunk, ReachEndOfFile,
         CatchIntegrityError, CatchDataError, ReclassifyDuplicates, RaiseOriginalError,
         CompleteImport, StopStaleWorker, MarkFailed, HandleOperationalFailure
    <3> QED  BY <3>1, <3>2, <3>3
  <2>2. ASSUME NEW w \in Workers,
               Claim(w) \/ FailProcessing(w) \/ LoseDatabase(w) \/ CrashWorker(w)
        PROVE  OnlyAppended(i)
    BY <2>2, ErrorsUntouched DEF Claim, FailProcessing, LoseDatabase, CrashWorker
  <2>3. ASSUME NEW j \in Imports, RecoverStaleImport(j)
        PROVE  OnlyAppended(i)
    BY <2>3, ErrorsUntouched DEF RecoverStaleImport
  <2>4. CASE UNCHANGED vars
    BY <2>4, ErrorsUntouched DEF vars
  <2> QED  BY <2>1, <2>2, <2>3, <2>4 DEF Next, Quiescent
<1>2. job'[i].attempts >= job[i].attempts
  <2>1. job \in [Imports -> Job] /\ \A j \in Imports : job[j].attempts \in Nat
    BY DEF ChunkInvariant, TypeOK, Job
  <2>2. ASSUME NEW w \in Workers, RunStep(w)
        PROVE  job'[i].attempts >= job[i].attempts
    <3>1. CASE \/ ValidateNextChunk(w) \/ ReachEndOfFile(w) \/ CatchIntegrityError(w)
               \/ CatchDataError(w) \/ ReclassifyDuplicates(w) \/ RaiseOriginalError(w)
               \/ StopStaleWorker(w)
      BY <2>1, <3>1 DEF ValidateNextChunk, ReachEndOfFile, CatchIntegrityError,
         CatchDataError, ReclassifyDuplicates, RaiseOriginalError, StopStaleWorker
    <3>2. CASE PrepareForReprocessing(w) \/ PersistChunk(w)
      BY <2>1, <3>2 DEF PrepareForReprocessing, PersistChunk, Job
    <3>3. CASE CompleteImport(w) \/ MarkFailed(w) \/ HandleOperationalFailure(w)
      BY <2>1, <3>3 DEF CompleteImport, MarkFailed, HandleOperationalFailure, SetStatus, Job
    <3> QED  BY <2>2, <3>1, <3>2, <3>3 DEF RunStep
  <2>3. ASSUME NEW w \in Workers,
               Claim(w) \/ FailProcessing(w) \/ LoseDatabase(w) \/ CrashWorker(w)
        PROVE  job'[i].attempts >= job[i].attempts
    <3>1. CASE Claim(w)
      <4>1. PICK j \in Imports :
              job' = [job EXCEPT ![j].status = "PROCESSING",
                                 ![j].attempts = job[j].attempts + 1]
        BY <3>1 DEF Claim
      <4>2. job'[i].attempts = IF i = j THEN job[i].attempts + 1 ELSE job[i].attempts
        BY <2>1, <4>1 DEF Job
      <4> QED  BY <2>1, <4>2
    <3>2. CASE ~Claim(w)
      BY <2>1, <2>3, <3>2 DEF FailProcessing, LoseDatabase, CrashWorker
    <3> QED  BY <3>1, <3>2
  <2>4. ASSUME NEW j \in Imports, RecoverStaleImport(j)
        PROVE  job'[i].attempts >= job[i].attempts
    BY <2>1, <2>4 DEF RecoverStaleImport, SetStatus, Job
  <2>5. CASE UNCHANGED vars
    BY <2>1, <2>5 DEF vars
  <2> QED  BY <2>2, <2>3, <2>4, <2>5 DEF Next, Quiescent
<1> QED  BY <1>1, <1>2

\* An error that a client has read keeps its place, or is gone for good.
LEMMA SeenOrGoneStays ==
    ASSUME ChunkInvariant, [Next]_vars, NEW list \in ErrorLists, NEW n \in Nat,
           NEW x \in Rows, SeenOrGone(list, x, n)
    PROVE  SeenOrGone(list, x, n)'
<1>1. PICK i \in Imports : i = list.import
  BY DEF ErrorLists
<1>2. /\ Listed(list) = ErrorsOf(i) /\ Listed(list)' = ErrorsOf(i)'
      /\ \A y, z : Before(list, y, z) <=> ErrorBefore(y, z)
  BY <1>1 DEF ErrorLists, Listed, Before
<1>3. /\ OnlyAppended(i) \/ AllRemoved(i)
      /\ job'[i].attempts >= job[i].attempts
      /\ job[i].attempts \in Nat /\ job'[i].attempts \in Nat
  BY ErrorsStep, ChunkInvariantStep DEF ChunkInvariant, TypeOK, Job
<1>4. x.attempt \in Nat
  BY DEF Rows
<1>5. CASE OnlyAppended(i)
  <2>1. CASE x \in ErrorsOf(i) /\ Position(list, x) <= n
    <3>1. /\ \A y \in ErrorsOf(i)' : y.row \in Nat
          /\ x \in ErrorsOf(i)'
      BY <1>5, <2>1, ChunkInvariantStep DEF OnlyAppended, ChunkInvariant, TypeOK, ErrorsOf
    <3>2. \A y \in ErrorsOf(i)' \ ErrorsOf(i) : ~ErrorBefore(y, x)
      BY <1>5, <2>1, <3>1 DEF OnlyAppended, ErrorBefore
    <3>3. {y \in ErrorsOf(i)' : ErrorBefore(y, x)} = {y \in ErrorsOf(i) : ErrorBefore(y, x)}
      BY <1>5, <3>2 DEF OnlyAppended
    <3>4. Position(list, x)' = Position(list, x)
      <4>1. /\ {y \in Listed(list) : Before(list, y, x)} = {y \in ErrorsOf(i) : ErrorBefore(y, x)}
            /\ {y \in Listed(list)' : Before(list, y, x)}
                 = {y \in ErrorsOf(i)' : ErrorBefore(y, x)}
        BY <1>2
      <4> QED  BY <3>3, <4>1 DEF Position
    <3> QED  BY <1>2, <2>1, <3>1, <3>4 DEF SeenOrGone
  <2>2. CASE x.attempt < job[i].attempts /\ \A e \in ErrorsOf(i) : e.attempt # x.attempt
    <3>1. \A e \in ErrorsOf(i)' : e.attempt # x.attempt
      BY <1>3, <1>4, <1>5, <2>2 DEF OnlyAppended
    <3>2. x.attempt < job'[i].attempts
      BY <1>3, <1>4, <2>2
    <3> QED  BY <1>1, <1>2, <3>1, <3>2 DEF SeenOrGone
  <2> QED  BY <1>1, <1>2, <2>1, <2>2 DEF SeenOrGone
<1>6. CASE AllRemoved(i)
  <2>1. x.attempt < job[i].attempts
    BY <1>1, <1>2, <1>6 DEF SeenOrGone, AllRemoved
  <2>2. x.attempt < job'[i].attempts
    BY <1>3, <1>4, <2>1
  <2> QED  BY <1>1, <1>2, <1>6, <2>2 DEF SeenOrGone, AllRemoved
<1> QED  BY <1>3, <1>5, <1>6

\* A settled list stays as it is.
LEMMA SettledStays ==
    ASSUME ChunkInvariant, [Next]_vars, NEW list \in AllLists, Settled(list)
    PROVE  /\ Settled(list)'
           /\ Listed(list)' = Listed(list)
           /\ list.kind = "errors" => job'[list.import] = job[list.import]
           /\ \A x : Position(list, x)' = Position(list, x)
<1>1. \A i \in Imports : Finished(i) => Stays(i) /\ Finished(i)'
  BY FinishedStays DEF Stays, Finished
<1>2. CASE list \in ErrorLists
  <2>1. PICK i \in Imports : i = list.import /\ list.kind = "errors"
    BY <1>2 DEF ErrorLists
  <2>2. Finished(i)
    BY <2>1 DEF Settled
  <2>3. Stays(i) /\ Finished(i)'
    BY <1>1, <2>2
  <2>4. Listed(list)' = Listed(list)
    BY <2>1, <2>3 DEF Stays, Listed
  <2>5. \A x : Position(list, x)' = Position(list, x)
    BY <2>4 DEF Position
  <2> QED  BY <2>1, <2>3, <2>4, <2>5 DEF Settled, Stays
<1>3. CASE list \in ShipmentLists
  <2>1. list.kind = "shipments"
    BY <1>3 DEF ShipmentLists
  <2>2. \A i \in Imports : Stays(i) /\ Finished(i)'
    BY <1>1, <2>1 DEF Settled
  <2>3. /\ \A s \in shipments : s.import \in Imports
        /\ \A s \in shipments' : s.import \in Imports
    BY ChunkInvariantStep DEF ChunkInvariant, TypeOK
  <2>4. \A s : s \in shipments' <=> s \in shipments
    <3>1. \A i \in Imports : ShipmentsOf(i)' = ShipmentsOf(i)
      BY <2>2 DEF Stays
    <3> QED  BY <2>3, <3>1 DEF ShipmentsOf
  <2>5. Listed(list)' = Listed(list)
    BY <2>1, <2>4 DEF Listed
  <2>6. \A x : Position(list, x)' = Position(list, x)
    BY <2>5 DEF Position
  <2> QED  BY <2>1, <2>2, <2>5, <2>6 DEF Settled
<1> QED  BY <1>2, <1>3 DEF AllLists

\* At most one chunk's shipments are added in a step.
LEMMA ShipmentsStayFinite ==
    ASSUME ChunkInvariant, ShipmentsAreFinite, [Next]_vars
    PROVE  ShipmentsAreFinite'
<1>1. ASSUME shipments' \in SUBSET shipments
      PROVE  ShipmentsAreFinite'
  BY <1>1, FS_Subset DEF ShipmentsAreFinite
<1>2. ASSUME NEW w \in Workers, PersistChunk(w)
      PROVE  ShipmentsAreFinite'
  <2>1. run[w].import \in Imports
    BY <1>2 DEF PersistChunk, ChunkInvariant, RunsAreTyped
  <2>2. PICK i \in Imports : i = run[w].import
    BY <2>1
  <2>3. shipments' = shipments \cup ShipmentRecords(i, run[w].attempt, run[w].accepted)
    BY <1>2, <2>2 DEF PersistChunk, ShipmentRecords
  <2>4. run[w].accepted \in SUBSET (1 .. Len(file[i])) /\ Len(file[i]) \in Nat
    BY <2>2, FileType DEF ChunkInvariant, ShipmentsAreFirstRows, FirstRow
  <2>5. IsFiniteSet(run[w].accepted)
    <3>1. IsFiniteSet(1 .. Len(file[i]))
      BY <2>4, FirstRowsAreFinite
    <3> QED  BY <2>4, <3>1, FS_Subset
  <2> QED  BY <2>3, <2>5, ShipmentPerRow, FS_Union DEF ShipmentsAreFinite
<1>3. ASSUME NEW w \in Workers, RunStep(w), ~PersistChunk(w)
      PROVE  shipments' \in SUBSET shipments
  BY <1>3 DEF RunStep, PrepareForReprocessing, ValidateNextChunk, ReachEndOfFile,
     CatchIntegrityError, CatchDataError, ReclassifyDuplicates, RaiseOriginalError,
     CompleteImport, StopStaleWorker, MarkFailed, HandleOperationalFailure
<1>4. ASSUME NEW w \in Workers,
             Claim(w) \/ FailProcessing(w) \/ LoseDatabase(w) \/ CrashWorker(w)
      PROVE  shipments' \in SUBSET shipments
  BY <1>4 DEF Claim, FailProcessing, LoseDatabase, CrashWorker
<1>5. ASSUME NEW i \in Imports, RecoverStaleImport(i)
      PROVE  shipments' \in SUBSET shipments
  BY <1>5 DEF RecoverStaleImport
<1>6. CASE UNCHANGED vars
  BY <1>1, <1>6 DEF vars
<1> QED  BY <1>1, <1>2, <1>3, <1>4, <1>5, <1>6 DEF Next, Quiescent

-----------------------------------------------------------------------------
(* Steps of the client.                                                    *)

\* A client that has not asked has nothing.
LEMMA ListingInvariantInit == ListingInit => ListingInvariant
<1> SUFFICES ASSUME ListingInit  PROVE  ListingInvariant
  OBVIOUS
<1>1. ChunkInvariant
  BY ChunkInvariantInit DEF ListingInit
<1>2. ShipmentsAreFinite
  BY FS_EmptySet DEF ListingInit, Init, ShipmentsAreFinite
<1>3. /\ client.pc = "idle" /\ client.items = <<>> /\ client.waits = FALSE
      /\ client.list = [kind |-> "none"] /\ client.size = 0 /\ client.page = 0
      /\ client.total = 0 /\ client.status = [status |-> "none"]
      /\ client \in Client
  BY DEF ListingInit, NoRequest, Client
<1>4. ClientTyped /\ ReadsInOrder /\ PagesMoveOn
  BY <1>3 DEF ClientTyped, ReadsInOrder, PagesMoveOn, Reading
<1>5. ErrorsAreNotRepeated
  BY <1>3 DEF ErrorsAreNotRepeated
<1> QED  BY <1>1, <1>2, <1>4, <1>5 DEF ListingInvariant

\* Whatever the workers do between two requests.
LEMMA WorkersKeepListing ==
    ASSUME ListingInvariant, [Next]_vars, client' = client
    PROVE  ListingInvariant'
<1> USE DEF ListingInvariant
<1>1. ChunkInvariant' /\ ShipmentsAreFinite'
  BY ChunkInvariantStep, ShipmentsStayFinite
<1>2. ClientTyped' /\ ErrorsAreNotRepeated'
  BY DEF ClientTyped, ErrorsAreNotRepeated
<1>3. ReadsInOrder'
  <2> SUFFICES ASSUME client.waits, client.pc \in Reading
               PROVE  ReadsInOrder'
    BY DEF ReadsInOrder
  <2>1. PICK list \in AllLists : list = client.list
    BY DEF ClientTyped, Reading
  <2>2. Settled(list)
    BY <2>1 DEF ReadsInOrder
  <2>3. /\ Settled(list)' /\ Listed(list)' = Listed(list)
        /\ list.kind = "errors" => job'[list.import] = job[list.import]
        /\ \A x : Position(list, x)' = Position(list, x)
    BY <2>2, SettledStays
  <2>4. /\ Settled(client.list)' /\ Listed(client.list)' = Listed(list)
        /\ \A x : Position(client.list, x)' = Position(list, x)
    BY <2>1, <2>3 DEF Settled, Finished, Listed, ErrorsOf, Position
  <2> QED  BY <2>1, <2>3, <2>4 DEF ReadsInOrder
<1>4. PagesMoveOn'
  <2> SUFFICES ASSUME client.list.kind = "errors", client.pc \in {"counting", "reading"}
               PROVE  PagesMoveOn'
    BY DEF PagesMoveOn
  <2>1. PICK list \in AllLists : list = client.list
    BY DEF ClientTyped
  <2>2. list \in ErrorLists
    BY <2>1 DEF AllLists, ErrorLists, ShipmentLists
  <2>3. PICK n \in Nat : n = Offset(client.page, client.size)
    BY NextOffset DEF ClientTyped
  <2>4. \A k \in 1 .. Len(client.items) : client.items[k] \in Rows
    BY DEF ClientTyped, Client
  <2>5. \A k \in 1 .. Len(client.items) : SeenOrGone(list, client.items[k], n)
    BY <2>1, <2>3 DEF PagesMoveOn
  <2>6. \A x \in Rows : SeenOrGone(list, x, n) => SeenOrGone(list, x, n)'
    BY <2>2, SeenOrGoneStays
  <2>7. \A x : SeenOrGone(list, x, n)' => SeenOrGone(client.list, x, Offset(client.page, client.size))'
    BY <2>1, <2>3 DEF SeenOrGone, Listed, ErrorsOf, Position, Offset
  <2> QED  BY <2>4, <2>5, <2>6, <2>7 DEF PagesMoveOn
<1> QED  BY <1>1, <1>2, <1>3, <1>4

\* Requests change no table.
LEMMA TablesUnchanged ==
    ASSUME UNCHANGED vars
    PROVE  /\ \A list : Listed(list)' = Listed(list) /\ (Settled(list)' <=> Settled(list))
           /\ \A list, x : Position(list, x)' = Position(list, x)
           /\ \A list, x, n : SeenOrGone(list, x, n)' <=> SeenOrGone(list, x, n)
           /\ (ChunkInvariant => ChunkInvariant') /\ (ShipmentsAreFinite => ShipmentsAreFinite')
<1> USE DEF vars
<1>1. \A list : Listed(list)' = Listed(list) /\ (Settled(list)' <=> Settled(list))
  BY DEF Listed, Settled, Finished, ErrorsOf
<1>2. \A list, x : Position(list, x)' = Position(list, x)
  BY DEF Position, Listed, ErrorsOf
<1>3. \A list, x, n : SeenOrGone(list, x, n)' <=> SeenOrGone(list, x, n)
  BY <1>1, <1>2 DEF SeenOrGone
<1>4. ChunkInvariant => ChunkInvariant'
  BY ChunkInvariantStep
<1>5. ShipmentsAreFinite => ShipmentsAreFinite'
  BY DEF ShipmentsAreFinite
<1> QED  BY <1>1, <1>2, <1>3, <1>4, <1>5

\* A new request starts at the first page with nothing.
LEMMA AskKeepsListing ==
    ASSUME ListingInvariant, Ask
    PROVE  ListingInvariant'
<1> USE DEF ListingInvariant
<1>1. ChunkInvariant' /\ ShipmentsAreFinite'
  BY TablesUnchanged DEF Ask
<1>2. PICK list \in Lists, waits \in BOOLEAN, size \in PageSizes :
        /\ client' = [NoRequest EXCEPT !.pc = IF waits THEN "polling" ELSE "counting",
                                       !.list = list, !.waits = waits, !.size = size,
                                       !.page = 1]
  BY DEF Ask, AskFor
<1>3. list \in AllLists /\ size \in Nat \ {0}
  BY ListingAssumption DEF AllLists
<1>4. /\ client'.pc = (IF waits THEN "polling" ELSE "counting")
      /\ client'.list = list /\ client'.waits = waits
      /\ client'.size = size /\ client'.page = 1 /\ client'.items = <<>>
      /\ client' \in Client
  <2>1. client' = [pc |-> IF waits THEN "polling" ELSE "counting", list |-> list,
                   waits |-> waits, size |-> size, status |-> [status |-> "none"],
                   page |-> 1, total |-> 0, items |-> <<>>]
    BY <1>2 DEF NoRequest
  <2>2. <<>> \in Seq(Rows)
    OBVIOUS
  <2> QED  BY <1>3, <2>1, <2>2 DEF Client, Reading
<1>5. ClientTyped'
  BY <1>3, <1>4 DEF ClientTyped
<1>6. ReadsInOrder'
  BY <1>4 DEF ReadsInOrder, Reading
<1>7. PagesMoveOn' /\ ErrorsAreNotRepeated'
  BY <1>4 DEF PagesMoveOn, ErrorsAreNotRepeated
<1> QED  BY <1>1, <1>5, <1>6, <1>7

\* The client stops polling when its list is settled.
LEMMA PollKeepsListing ==
    ASSUME ListingInvariant, SeeFinished
    PROVE  ListingInvariant'
<1> USE DEF ListingInvariant
<1>1. ChunkInvariant' /\ ShipmentsAreFinite' /\ UNCHANGED vars
  BY TablesUnchanged DEF SeeFinished
<1>2. client.pc = "polling" /\ client.list \in AllLists /\ client \in Client
  BY DEF SeeFinished, ClientTyped
<1>3. /\ Settled(client.list)
      /\ client'.pc = "counting" /\ client' \in Client
      /\ client'.list = client.list /\ client'.waits = client.waits
      /\ client'.size = client.size /\ client'.page = client.page
      /\ client'.items = client.items
      /\ client.list.kind = "errors" => client'.status = job[client.list.import]
  <2>1. CASE client.list.kind = "errors"
    <3>1. /\ Finished(client.list.import)
          /\ client' = [client EXCEPT !.pc = "counting", !.status = job[client.list.import]]
      BY <2>1 DEF SeeFinished
    <3>2. client.list.import \in Imports
      BY <1>2, <2>1 DEF AllLists, ErrorLists, ShipmentLists
    <3>3. job[client.list.import] \in Job
      BY <3>2 DEF ChunkInvariant, TypeOK
    <3> QED  BY <1>2, <2>1, <3>1, <3>3 DEF Client, Reading, Settled
  <2>2. CASE client.list.kind # "errors"
    <3>1. /\ \A i \in Imports : Finished(i)
          /\ client' = [client EXCEPT !.pc = "counting"]
      BY <2>2 DEF SeeFinished
    <3> QED  BY <1>2, <2>2, <3>1 DEF Client, Reading, Settled
  <2> QED  BY <2>1, <2>2
<1>4. ClientTyped'
  BY <1>2, <1>3 DEF ClientTyped
<1>5. client.items = <<>> /\ Offset(client.page, client.size) = 0
  BY <1>2 DEF ClientTyped, Offset
<1>6. ReadsInOrder'
  <2>1. PICK list \in AllLists : list = client.list
    BY <1>2
  <2>2. Settled(list)' /\ job' = job
    BY <1>1, <1>3, <2>1, TablesUnchanged DEF vars
  <2>3. Settled(client.list)'
    BY <1>3, <2>1, <2>2 DEF Settled, Finished
  <2>4. Cardinality(Listed(client.list))' \in Nat
    <3>1. IsFiniteSet(Listed(list))'
      BY <1>1, <2>1, ListsAreOrdered, TablesUnchanged
    <3>2. Listed(client.list)' = Listed(list)'
      BY <1>3, <2>1 DEF Listed, ErrorsOf
    <3> QED  BY <3>1, <3>2, FS_CardinalityType
  <2>5. Len(client'.items) = 0 /\ Offset(client'.page, client'.size) = 0
    BY <1>3, <1>5 DEF Offset
  <2> QED  BY <1>3, <2>2, <2>3, <2>4, <2>5 DEF ReadsInOrder
<1>7. PagesMoveOn' /\ ErrorsAreNotRepeated'
  BY <1>3, <1>5 DEF PagesMoveOn, ErrorsAreNotRepeated
<1> QED  BY <1>1, <1>4, <1>6, <1>7

\* A page's total is what the list holds when it is counted.
LEMMA CountKeepsListing ==
    ASSUME ListingInvariant, CountItems
    PROVE  ListingInvariant'
<1> USE DEF ListingInvariant
<1>1. ChunkInvariant' /\ ShipmentsAreFinite' /\ UNCHANGED vars
  BY TablesUnchanged DEF CountItems
<1>2. PICK list \in AllLists : list = client.list
  BY DEF CountItems, ClientTyped
<1>3. Cardinality(Listed(list)) \in Nat
  BY ListsAreOrdered, FS_CardinalityType
<1>4. /\ client.pc = "counting" /\ client'.pc = "reading" /\ client' \in Client
      /\ client'.list = list /\ client'.waits = client.waits
      /\ client'.size = client.size /\ client'.page = client.page
      /\ client'.items = client.items /\ client'.status = client.status
      /\ client'.total = Cardinality(Listed(list))
  BY <1>2, <1>3 DEF CountItems, ClientTyped, Client, Reading
<1>5. ClientTyped' /\ ErrorsAreNotRepeated'
  BY <1>2, <1>4 DEF ClientTyped, ErrorsAreNotRepeated
<1>6. /\ Listed(client.list)' = Listed(list) /\ (Settled(client.list)' <=> Settled(list))
      /\ \A x : Position(client.list, x)' = Position(list, x)
      /\ job' = job
  <2>1. /\ Listed(list)' = Listed(list) /\ (Settled(list)' <=> Settled(list))
        /\ \A x : Position(list, x)' = Position(list, x)
        /\ job' = job
    BY <1>1, TablesUnchanged DEF vars
  <2> QED  BY <1>4, <2>1 DEF Settled, Finished, Listed, ErrorsOf, Position
<1>7. ReadsInOrder'
  <2> SUFFICES ASSUME client.waits  PROVE  ReadsInOrder'
    BY <1>4 DEF ReadsInOrder
  <2> QED  BY <1>2, <1>4, <1>6 DEF ReadsInOrder, Reading
<1>8. PagesMoveOn'
  <2> SUFFICES ASSUME list.kind = "errors"  PROVE  PagesMoveOn'
    BY <1>4 DEF PagesMoveOn
  <2>1. PICK n \in Nat : n = Offset(client.page, client.size)
    BY <1>4, NextOffset DEF ClientTyped
  <2>2. \A k \in 1 .. Len(client.items) : SeenOrGone(list, client.items[k], n)
    BY <1>2, <1>4, <2>1 DEF PagesMoveOn
  <2>3. \A x : SeenOrGone(list, x, n) => SeenOrGone(client.list, x, n)'
    BY <1>4, <1>6 DEF SeenOrGone
  <2> QED  BY <1>4, <2>1, <2>2, <2>3 DEF PagesMoveOn, Offset
<1> QED  BY <1>1, <1>5, <1>7, <1>8

\* Appending keeps the items there were and puts the new ones behind them.
LEMMA Appended ==
    ASSUME NEW S, NEW s \in Seq(S), NEW t \in Seq(S), NEW m, m = Len(s), NEW r, r = Len(t)
    PROVE  /\ s \o t \in Seq(S)
           /\ Len(s \o t) = m + r
           /\ \A k \in 1 .. m : (s \o t)[k] = s[k]
           /\ \A k \in (m + 1) .. (m + r) : (s \o t)[k] = t[k - m]
  OBVIOUS

\* The effect of reading a page: its rows, at the places behind its offset, are
\* added to what the client has.
LEMMA ReadPageEffect ==
    ASSUME ListingInvariant, ReadPage, NEW list \in AllLists, list = client.list,
           NEW n \in Nat, n = Offset(client.page, client.size),
           NEW m, m = Len(client.items)
    PROVE  LET N == Cardinality(Listed(list))
               rows == IF n + client.size <= N THEN client.size
                       ELSE IF n <= N THEN N - n ELSE 0
               last == client.page * client.size >= client.total
           IN  /\ N \in Nat /\ m \in Nat
               /\ client'.list = list /\ client'.waits = client.waits
               /\ client'.size = client.size /\ client'.status = client.status
               /\ client'.pc = (IF last THEN "done" ELSE "counting")
               /\ client'.page = (IF last THEN client.page ELSE client.page + 1)
               /\ client'.items \in Seq(Rows) /\ Len(client'.items) = m + rows
               /\ \A k \in 1 .. m : client'.items[k] = client.items[k]
               /\ \A k \in (m + 1) .. (m + rows) :
                    /\ client'.items[k] \in Listed(list)
                    /\ Position(list, client'.items[k]) = n + (k - m)
               /\ client' \in Client
<1> USE DEF ListingInvariant
<1> DEFINE N == Cardinality(Listed(list))
           rows == IF n + client.size <= N THEN client.size
                   ELSE IF n <= N THEN N - n ELSE 0
           last == client.page * client.size >= client.total
           items == Page(list, client.page, client.size)
<1>1. /\ client \in Client /\ client.pc = "reading" /\ client.items \in Seq(Rows)
      /\ client.page \in Nat \ {0} /\ client.size \in Nat \ {0} /\ client.total \in Nat
  BY DEF ReadPage, ClientTyped, Client
<1>2. IsFiniteSet(Listed(list)) /\ Ordered(list) /\ N \in Nat
  BY ListsAreOrdered, FS_CardinalityType
<1>3. /\ items \in Seq(Listed(list)) /\ Len(items) = rows
      /\ \A k \in 1 .. Len(items) :
           items[k] \in Listed(list) /\ Position(list, items[k]) = n + k
  BY ZenonT(60), <1>1, <1>2, PageItems
<1>4. Listed(list) \subseteq Rows
  BY DEF Listed, ErrorsOf, Rows, ChunkInvariant, TypeOK
<1>5. items \in Seq(Rows)
  <2> HIDE DEF items
  <2> QED  BY <1>3, <1>4
<1>6. last <=> client.page >= TotalPages(client.total, client.size)
  BY <1>1, LastPage
<1> HIDE DEF items, N, last
<1>7. client' = [client EXCEPT !.pc = IF last THEN "done" ELSE "counting",
                               !.page = IF last THEN client.page ELSE client.page + 1,
                               !.items = client.items \o items]
  BY <1>6 DEF ReadPage, items
<1>8. /\ client.items \o items \in Seq(Rows)
      /\ Len(client.items \o items) = m + rows
      /\ \A k \in 1 .. m : (client.items \o items)[k] = client.items[k]
      /\ \A k \in (m + 1) .. (m + rows) : (client.items \o items)[k] = items[k - m]
      /\ m \in Nat /\ rows \in Nat
  <2>1. rows \in Nat /\ m \in Nat
    BY <1>1, <1>2
  <2>2. rows = Len(items)
    BY <1>3
  <2> HIDE DEF rows
  <2> QED  BY <1>1, <1>5, <2>1, <2>2, Appended
<1> HIDE DEF rows
<1>9. \A k \in (m + 1) .. (m + rows) : k - m \in 1 .. Len(items)
  BY <1>3, <1>8
<1>10. \A k \in (m + 1) .. (m + rows) :
         /\ (client.items \o items)[k] \in Listed(list)
         /\ Position(list, (client.items \o items)[k]) = n + (k - m)
  BY <1>3, <1>8, <1>9
<1>11. /\ client'.list = list /\ client'.waits = client.waits
       /\ client'.size = client.size /\ client'.status = client.status
       /\ client'.pc = (IF last THEN "done" ELSE "counting")
       /\ client'.page = (IF last THEN client.page ELSE client.page + 1)
       /\ client'.items = client.items \o items
       /\ client' \in Client
  <2>1. PICK pc \in Reading : pc = IF last THEN "done" ELSE "counting"
    BY DEF Reading
  <2>2. PICK page \in Nat : page = IF last THEN client.page ELSE client.page + 1
    BY <1>1
  <2>3. PICK got \in Seq(Rows) : got = client.items \o items
    BY <1>8
  <2>4. client' = [client EXCEPT !.pc = pc, !.page = page, !.items = got]
    BY <1>7, <2>1, <2>2, <2>3
  <2>5. /\ client'.list = client.list /\ client'.waits = client.waits
        /\ client'.size = client.size /\ client'.status = client.status
        /\ client'.pc = pc /\ client'.page = page /\ client'.items = got
        /\ client' \in Client
    BY <1>1, <2>4 DEF Client
  <2> QED  BY <2>1, <2>2, <2>3, <2>5
<1> QED  BY <1>2, <1>8, <1>10, <1>11 DEF N, rows, last

\* Reading a page goes on from the place where the last one ended.
LEMMA ReadKeepsListing ==
    ASSUME ListingInvariant, ReadPage
    PROVE  ListingInvariant'
<1> USE DEF ListingInvariant
<1>1. ChunkInvariant' /\ ShipmentsAreFinite' /\ UNCHANGED vars
  BY TablesUnchanged DEF ReadPage
<1>2. PICK list \in AllLists : list = client.list
  BY DEF ReadPage, ClientTyped
<1>3. /\ client.page \in Nat \ {0} /\ client.size \in Nat \ {0} /\ client.pc = "reading"
      /\ client.items \in Seq(Rows) /\ client.total \in Nat
  BY DEF ReadPage, ClientTyped, Client
<1>4. PICK n \in Nat : n = Offset(client.page, client.size)
  BY <1>3, NextOffset
<1>5. PICK m \in Nat : m = Len(client.items)
  BY <1>3
<1> DEFINE N == Cardinality(Listed(list))
           rows == IF n + client.size <= N THEN client.size
                   ELSE IF n <= N THEN N - n ELSE 0
           last == client.page * client.size >= client.total
<1>6. /\ N \in Nat
      /\ client'.list = list /\ client'.waits = client.waits
      /\ client'.size = client.size /\ client'.status = client.status
      /\ client'.pc = (IF last THEN "done" ELSE "counting")
      /\ client'.page = (IF last THEN client.page ELSE client.page + 1)
      /\ client'.items \in Seq(Rows) /\ Len(client'.items) = m + rows
      /\ \A k \in 1 .. m : client'.items[k] = client.items[k]
      /\ \A k \in (m + 1) .. (m + rows) :
           /\ client'.items[k] \in Listed(list)
           /\ Position(list, client'.items[k]) = n + (k - m)
      /\ client' \in Client
  BY <1>2, <1>4, <1>5, ReadPageEffect, SMTT(30)
<1>7. /\ n + client.size = client.page * client.size
      /\ ~last => Offset(client'.page, client'.size) = n + client.size
  BY <1>3, <1>4, <1>6, NextOffset
<1>8. /\ Listed(list)' = Listed(list) /\ (Settled(list)' <=> Settled(list))
      /\ \A x : Position(list, x)' = Position(list, x)
      /\ \A x, k : SeenOrGone(list, x, k)' <=> SeenOrGone(list, x, k)
      /\ job' = job
  BY <1>1, TablesUnchanged DEF vars
<1>9. /\ Listed(client.list)' = Listed(list) /\ (Settled(client.list)' <=> Settled(list))
      /\ \A x : Position(client.list, x)' = Position(list, x)
      /\ \A x, k : SeenOrGone(client.list, x, k)' <=> SeenOrGone(list, x, k)
  BY <1>6, <1>8 DEF Settled, Finished, Listed, ErrorsOf, Position, SeenOrGone
<1>10. rows \in Nat /\ client.size \in Nat
  BY <1>3, <1>6
<1>11. ClientTyped'
  BY <1>2, <1>3, <1>6 DEF ClientTyped
\* A client that waited: the places up to the end of this page.
<1>12. ReadsInOrder'
  <2> SUFFICES ASSUME client.waits  PROVE  ReadsInOrder'
    BY <1>6 DEF ReadsInOrder
  <2>1. /\ Settled(list) /\ client.total = N /\ m = n /\ n <= N
        /\ list.kind = "errors" => client.status = job[list.import]
        /\ \A k \in 1 .. m : client.items[k] \in Listed(list)
                             /\ Position(list, client.items[k]) = k
    BY <1>2, <1>3, <1>4, <1>5 DEF ReadsInOrder, Reading
  <2> HIDE DEF N
  <2>2. IF last THEN m + rows = N ELSE m + rows = n + client.size /\ m + rows <= N
    BY <1>3, <1>6, <1>7, <2>1
  <2> HIDE DEF rows, last
  <2>3. \A k \in 1 .. (m + rows) :
          /\ client'.items[k] \in Listed(list) /\ Position(list, client'.items[k]) = k
    BY <1>6, <1>10, <2>1
  <2>4. IF client'.pc = "done"
        THEN Len(client'.items) = N
        ELSE /\ Len(client'.items) = Offset(client'.page, client'.size)
             /\ Len(client'.items) <= N
    BY <1>6, <1>7, <2>2
  <2> QED  BY <1>6, <1>8, <1>9, <2>1, <2>3, <2>4 DEF ReadsInOrder, N
\* A client of an error list: what it had lies before this page, or is gone.
<1>13. ASSUME list.kind = "errors"
       PROVE  \A k \in 1 .. m : SeenOrGone(list, client.items[k], n)
  BY <1>2, <1>3, <1>4, <1>5, <1>13 DEF PagesMoveOn
<1>14. PagesMoveOn'
  <2> SUFFICES ASSUME list.kind = "errors", ~last  PROVE  PagesMoveOn'
    BY <1>6 DEF PagesMoveOn
  <2>1. \A x \in Listed(list) : Position(list, x) \in Nat
    BY ListsAreOrdered, Positions, <1>6
  <2>2. rows <= client.size
    BY <1>3, <1>6
  <2> HIDE DEF rows, N, last
  <2>3. ASSUME NEW k \in 1 .. (m + rows)
        PROVE  SeenOrGone(list, client'.items[k], n + client.size)
    <3>1. CASE k <= m
      BY SMTT(30), <1>3, <1>6, <1>13, <2>1, <3>1 DEF SeenOrGone
    <3>2. CASE k > m
      <4>1. k \in (m + 1) .. (m + rows) /\ n + (k - m) <= n + client.size
        BY <1>10, <2>2, <3>2
      <4> QED  BY <1>6, <4>1 DEF SeenOrGone
    <3> QED  BY <1>10, <3>1, <3>2
  <2> QED  BY <1>6, <1>7, <1>9, <2>3 DEF PagesMoveOn
<1>15. ErrorsAreNotRepeated'
  <2> SUFFICES ASSUME list.kind = "errors",
                      NEW j \in 1 .. (m + rows), NEW k \in 1 .. (m + rows),
                      j < k, client'.items[j].attempt = client'.items[k].attempt
               PROVE  ErrorBefore(client'.items[j], client'.items[k])
    <3>1. DOMAIN client'.items = 1 .. (m + rows)
      BY <1>6
    <3> QED  BY <1>6, <3>1 DEF ErrorsAreNotRepeated
  <2>1. /\ \A x, y \in Listed(list) :
             Position(list, x) < Position(list, y) => ErrorBefore(x, y)
        /\ \A x \in Listed(list) : Position(list, x) \in Nat
    BY ListsAreOrdered, Positions, <1>6 DEF Before
  <2> HIDE DEF rows, N, last
  <2>2. CASE k <= m
    <3>1. DOMAIN client.items = 1 .. m
      BY <1>3, <1>5
    <3>2. /\ j \in 1 .. m /\ k \in 1 .. m
          /\ client'.items[j] = client.items[j] /\ client'.items[k] = client.items[k]
      BY <1>6, <1>10, <2>2
    <3> QED  BY <1>2, <3>1, <3>2 DEF ErrorsAreNotRepeated
  <2>3. CASE k > m
    <3>1. /\ client'.items[k] \in Listed(list)
          /\ Position(list, client'.items[k]) = n + (k - m)
      BY <1>6, <1>10, <2>3
    <3>2. CASE j <= m
      <4>1. SeenOrGone(list, client'.items[j], n)
        BY <1>6, <1>10, <1>13, <3>2
      <4>2. client'.items[j] \in Listed(list) /\ Position(list, client'.items[j]) <= n
        BY <3>1, <4>1 DEF SeenOrGone
      <4> QED  BY <1>10, <2>1, <2>3, <3>1, <4>2
    <3>3. CASE j > m
      <4>1. /\ client'.items[j] \in Listed(list)
            /\ Position(list, client'.items[j]) = n + (j - m)
        BY <1>6, <1>10, <3>3
      <4> QED  BY <1>10, <2>1, <3>1, <4>1
    <3> QED  BY <1>10, <3>2, <3>3
  <2> QED  BY <1>10, <2>2, <2>3
<1> QED  BY <1>1, <1>11, <1>12, <1>14, <1>15

-----------------------------------------------------------------------------
(* What the listings promise.                                              *)

\* Every step keeps the invariant.
LEMMA ListingInvariantStep ==
    ASSUME ListingInvariant, [ListingNext]_listingVars
    PROVE  ListingInvariant'
<1>1. CASE Next /\ UNCHANGED client
  BY <1>1, WorkersKeepListing
<1>2. CASE UNCHANGED listingVars
  BY <1>2, WorkersKeepListing DEF listingVars
<1> QED
  BY <1>1, <1>2, AskKeepsListing, PollKeepsListing, CountKeepsListing, ReadKeepsListing
  DEF ListingNext

\* The inductive invariant: what a client has got, against the tables as they are.
THEOREM ListingInvariantHolds == ListingSpec => []ListingInvariant
BY ListingInvariantInit, ListingInvariantStep, PTL DEF ListingSpec

\* A client that saw an import finish and then fetched page after page, up to
\* total_pages, has got its errors exactly once and in order, and failed_count is
\* the number of their rows; likewise for shipments once all imports have
\* finished. It holds for every page size (PageRequest.offset, total_pages).
THEOREM WaitingClientGetsAll == ListingSpec => []ListingIsComplete
<1>1. ASSUME ListingInvariant  PROVE  ListingIsComplete
  <2> USE <1>1 DEF ListingInvariant
  <2> SUFFICES ASSUME client.pc = "done", client.waits
               PROVE  /\ {client.items[k] : k \in DOMAIN client.items} = Listed(client.list)
                      /\ \A j, k \in DOMAIN client.items :
                           j < k => Before(client.list, client.items[j], client.items[k])
                      /\ client.list.kind = "errors" =>
                           client.status.counts.failed
                             = Cardinality(RowsOf(Listed(client.list)))
    BY DEF ListingIsComplete
  <2>1. PICK list \in AllLists : list = client.list
    BY DEF ClientTyped
  <2> DEFINE N == Cardinality(Listed(list))
  <2>2. /\ Settled(list) /\ Len(client.items) = N
        /\ list.kind = "errors" => client.status = job[list.import]
        /\ \A k \in 1 .. N : client.items[k] \in Listed(list)
                             /\ Position(list, client.items[k]) = k
    BY <2>1 DEF ReadsInOrder, Reading
  <2>3. DOMAIN client.items = 1 .. N
    BY <2>2 DEF ClientTyped, Client
  <2>4. IsFiniteSet(Listed(list)) /\ Ordered(list) /\ N \in Nat
    BY ListsAreOrdered, FS_CardinalityType
  <2>5. {client.items[k] : k \in 1 .. N} = Listed(list)
    <3>1. ASSUME NEW x \in Listed(list)
          PROVE  \E k \in 1 .. N : client.items[k] = x
      BY <2>2, <2>4, Positions
    <3> QED  BY <2>2, <3>1
  <2>6. \A j, k \in 1 .. N : j < k => Before(list, client.items[j], client.items[k])
    BY <2>2, <2>4, Positions
  <2>7. ASSUME list.kind = "errors"
        PROVE  client.status.counts.failed = Cardinality(RowsOf(Listed(list)))
    <3>1. list.import \in Imports /\ Listed(list) = ErrorsOf(list.import)
      BY <2>7 DEF AllLists, ErrorLists, ShipmentLists, Listed
    <3> QED  BY <2>2, <2>7, <3>1 DEF ChunkInvariant, CountersMatchRows
  <2> QED  BY <2>1, <2>3, <2>5, <2>6, <2>7
<1> QED  BY <1>1, ListingInvariantHolds, PTL

\* While an import is still processed, retried or recovered, a client never gets
\* an error of one attempt twice, nor out of row order.
THEOREM ErrorsAreServedOnce == ListingSpec => []ErrorsAreNotRepeated
<1>1. ListingInvariant => ErrorsAreNotRepeated
  BY DEF ListingInvariant
<1> QED  BY <1>1, ListingInvariantHolds, PTL
=============================================================================
