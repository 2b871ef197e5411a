----------------------- MODULE ChunkProcessingProofs -----------------------
(***************************************************************************)
(* Proofs about RowValidation and ChunkProcessing, for any imports,        *)
(* workers, workbooks, chunk size and number of attempts.                  *)
(***************************************************************************)
EXTENDS ChunkProcessing, FiniteSetTheorems, TLAPS

-----------------------------------------------------------------------------
(* The inductive invariant.                                                *)

\* A run knows its import and the number of its attempt, and reads no further than
\* the end of the file.
RunsAreTyped ==
    \A w \in Workers : run[w].pc # "idle" =>
        /\ run[w].import \in Imports
        /\ run[w].attempt \in 1 .. MaxAttempts
        /\ run[w].attempt <= job[run[w].import].attempts
        /\ run[w].read <= Len(file[run[w].import])

\* No two runs make the same attempt.
AttemptsAreDistinct ==
    \A v, w \in Workers :
        /\ run[v].pc # "idle" /\ run[w].pc # "idle"
        /\ run[v].import = run[w].import
        /\ run[v].attempt = run[w].attempt
        => v = w

\* A run that has just been claimed starts from nothing.
ClaimedRunsAreFresh ==
    \A w \in Workers : run[w].pc = "claimed" =>
        /\ run[w].read = 0 /\ run[w].counts = NoCounts
        /\ run[w].accepted = {} /\ run[w].rejected = {}

\* No row is from an attempt still to come, and a run that has just been claimed
\* finds only rows of earlier attempts.
OutputIsOld ==
    /\ \A i \in Imports : \A x \in ShipmentsOf(i) \cup ErrorsOf(i) :
         x.attempt <= job[i].attempts
    /\ \A w \in Workers : run[w].pc = "claimed" /\ Owns(w) =>
         \A x \in ShipmentsOf(run[w].import) \cup ErrorsOf(run[w].import) :
           x.attempt < run[w].attempt

\* Cardinalities mean something.
TablesAreFinite ==
    \A i \in Imports :
        IsFiniteSet(ShipmentsOf(i)) /\ IsFiniteSet(RowsOf(ErrorsOf(i)))

\* A row without an issue that is the first one of import i's file with its code.
FirstRow(i, r) ==
    /\ r \in DOMAIN file[i]
    /\ RowIssues(file[i][r]) = {}
    /\ CodeOf(i, r) \in Codes
    /\ \A q \in DOMAIN file[i] : q < r => CodeOf(i, q) # CodeOf(i, r)

\* Only such rows become shipments.
ShipmentsAreFirstRows ==
    /\ \A s \in shipments : FirstRow(s.import, s.row) /\ s.code = CodeOf(s.import, s.row)
    /\ \A w \in Workers : \A r \in run[w].accepted : FirstRow(run[w].import, r)

\* A run that still owns its import and has reset its output.
Prepared == {"next", "persist", "racing", "complete"}
Writing(w) == run[w].pc \in Prepared /\ Owns(w)

\* Everything committed for its import is its own, was counted, and comes from
\* the rows it has read, but for those of the chunk at hand, which come last. No
\* row counts twice.
OutputIsOwn(w) ==
    \A x \in ShipmentsOf(run[w].import) \cup ErrorsOf(run[w].import) :
        x.attempt = run[w].attempt
TotalsAreCommitted(w) == run[w].counts = job[run[w].import].counts
CommittedRows(i) == RowsOf(ShipmentsOf(i)) \cup RowsOf(ErrorsOf(i))
ChunkRows(w) == run[w].accepted \cup RowsOf(run[w].rejected)
RowsAreAccountedFor(w) ==
    LET i == run[w].import
    IN  /\ run[w].read <= Len(file[i])
        /\ CommittedRows(i) \cup ChunkRows(w) = 1 .. run[w].read
        /\ CommittedRows(i) \cap ChunkRows(w) = {}
        /\ \A q \in CommittedRows(i), r \in ChunkRows(w) : q < r
        /\ RowsOf(ShipmentsOf(i)) \cap RowsOf(ErrorsOf(i)) = {}
        /\ run[w].accepted \cap RowsOf(run[w].rejected) = {}
        /\ run[w].pc \in {"next", "complete"} => ChunkRows(w) = {}
        /\ run[w].pc = "complete" => run[w].read = Len(file[i])

Sound(w) == OutputIsOwn(w) /\ TotalsAreCommitted(w) /\ RowsAreAccountedFor(w)
WritersAreSound == \A w \in Workers : Writing(w) => Sound(w)

\* Import i is COMPLETED, or its writer has decided on row r and has nothing of it
\* left to insert.
Passed(i, r) ==
    \/ job[i].status = "COMPLETED"
    \/ \E w \in Workers : /\ Writing(w) /\ run[w].import = i
                          /\ r <= run[w].read /\ r \notin run[w].accepted

\* A code that has been passed over is in the table, or some import has yet to
\* decide on it: an import whose shipments are deleted reads its file again.
CodesAreKept ==
    \A i \in Imports : \A r \in DOMAIN file[i] :
        FirstRow(i, r) /\ Passed(i, r) =>
            \/ CodeOf(i, r) \in ExistingCodes
            \/ \E j \in Imports : \E q \in DOMAIN file[j] :
                 FirstRow(j, q) /\ CodeOf(j, q) = CodeOf(i, r) /\ ~Passed(j, q)

ChunkInvariant ==
    /\ TypeOK
    /\ RunsAreTyped
    /\ AttemptsAreDistinct
    /\ ClaimedRunsAreFresh
    /\ OutputIsOld
    /\ TablesAreFinite
    /\ ShipmentsAreFirstRows
    /\ WritersAreSound
    /\ OutputOfOneAttempt
    /\ CountersMatchRows
    /\ CompletedAccountsForRows

-----------------------------------------------------------------------------
(* Rows: what validation accepts.                                          *)

\* A row without an issue has a code and values that were parsed.
LEMMA AcceptedValues ==
    ASSUME NEW row \in WorkbookRow, RowIssues(row) = {}
    PROVE  /\ row.shipment_code \in Codes
           /\ row.customer_name \in Nat /\ row.customer_name <= 150
           /\ row.origin_city \in Nat /\ row.destination_city \in Nat
           /\ row.weight_kg \in Int /\ row.weight_kg > 0
           /\ row.price \in Int /\ row.price >= 0
           /\ row.status \in ALLOWED_SHIPMENT_STATUSES
<1>1. /\ UnparsedFields(row) = {}
      /\ \A f \in Fields : ~BreaksRule(row, f)
  BY DEF RowIssues
<1>2. /\ "shipment_code" \in Fields /\ "customer_name" \in Fields
      /\ "origin_city" \in Fields /\ "destination_city" \in Fields
      /\ "weight_kg" \in Fields /\ "price" \in Fields /\ "status" \in Fields
  BY DEF Fields
<1>3. /\ row.shipment_code # NoCode /\ row.customer_name # Unreadable
      /\ row.origin_city # Unreadable /\ row.destination_city # Unreadable
      /\ row.weight_kg # Unreadable /\ row.price # Unreadable
  <2>1. \A f \in Fields : row[f] # NoCode /\ row[f] # Unreadable
    BY <1>1 DEF UnparsedFields
  <2> QED  BY <2>1, <1>2
<1>4. /\ row.status \in ALLOWED_SHIPMENT_STATUSES
      /\ ~(row.customer_name > 150) /\ ~(row.weight_kg <= 0) /\ ~(row.price < 0)
  BY <1>1, <1>2 DEF BreaksRule, CUSTOMER_NAME_MAX_LENGTH
<1>5. /\ row.shipment_code \in Codes /\ row.customer_name \in Nat
      /\ row.origin_city \in Nat /\ row.destination_city \in Nat
      /\ row.weight_kg \in Int /\ row.price \in Int
  BY <1>3 DEF WorkbookRow, Text
<1> QED  BY <1>4, <1>5

\* Exactly the gap between validation and table shipments: an accepted row can be
\* stored if and only if its weight is at least half a gram, its numbers fit
\* their columns, and so do its code and its cities. Name, status and price's
\* sign are never the reason (shipment_rules.py against the columns and CHECK
\* constraints of shipment.py).
THEOREM AcceptedRowStorable ==
    ASSUME NEW row \in WorkbookRow, RowIssues(row) = {}
    PROVE  Storable(row) <=>
             /\ row.weight_kg >= 5
             /\ Rounded(row.weight_kg) <= MaxWeight
             /\ Rounded(row.price) <= MaxPrice
             /\ CodeLength[row.shipment_code] <= 128
             /\ row.origin_city <= 255 /\ row.destination_city <= 255
<1>1. /\ row.shipment_code \in Codes
      /\ row.customer_name \in Nat /\ row.customer_name <= 150
      /\ row.origin_city \in Nat /\ row.destination_city \in Nat
      /\ row.weight_kg \in Int /\ row.weight_kg > 0
      /\ row.price \in Int /\ row.price >= 0
      /\ row.status \in ALLOWED_SHIPMENT_STATUSES
  BY AcceptedValues
<1>2. Rounded(row.weight_kg) \in Int /\ (Rounded(row.weight_kg) > 0 <=> row.weight_kg >= 5)
  BY <1>1 DEF Rounded
<1>3. Rounded(row.price) \in Int /\ Rounded(row.price) >= 0
  BY <1>1 DEF Rounded
<1>4. CodeLength[row.shipment_code] \in Nat
  BY <1>1, RowAssumption
<1>5. BreaksCheck(row) <=> ~(row.weight_kg >= 5)
  BY <1>1, <1>2, <1>3 DEF BreaksCheck
<1>6. OverflowsColumn(row) <=>
        ~(/\ Rounded(row.weight_kg) <= MaxWeight
          /\ Rounded(row.price) <= MaxPrice
          /\ CodeLength[row.shipment_code] <= 128
          /\ row.origin_city <= 255 /\ row.destination_city <= 255)
  BY <1>1, <1>2, <1>3, <1>4, RowAssumption DEF OverflowsColumn
<1> QED  BY <1>5, <1>6 DEF Storable

-----------------------------------------------------------------------------
(* Chunks.                                                                 *)

\* The first rows of a file, however many, are finitely many.
LEMMA FirstRowsAreFinite ==
    ASSUME NEW n \in Nat
    PROVE  IsFiniteSet(1 .. n) /\ Cardinality(1 .. n) = n
<1>1. 1 \in Int /\ n \in Int
  OBVIOUS
<1>2. /\ IsFiniteSet(1 .. n)
      /\ Cardinality(1 .. n) = IF 1 > n THEN 0 ELSE n - 1 + 1
  BY <1>1, FS_Interval, Zenon
<1> QED  BY <1>2

\* Workbooks are sequences of rows.
LEMMA FileType ==
    ASSUME TypeOK, NEW i \in Imports
    PROVE  /\ file[i] \in Seq(WorkbookRow)
           /\ Len(file[i]) \in Nat
           /\ DOMAIN file[i] = 1 .. Len(file[i])
<1>1. file \in [Imports -> Seq(WorkbookRow)]
  BY ChunkAssumption DEF TypeOK
<1> QED  BY <1>1

\* A chunk continues the rows read before it, and is empty at the end of the file.
LEMMA ChunkBounds ==
    ASSUME TypeOK, NEW i \in Imports, NEW n \in Nat, n <= Len(file[i])
    PROVE  LET chunk == NextChunk(i, n)
               m == n + Cardinality(chunk)
           IN  /\ m \in Nat /\ m <= Len(file[i])
               /\ chunk \subseteq Nat
               /\ chunk \cap (1 .. n) = {}
               /\ (1 .. n) \cup chunk = 1 .. m
               /\ chunk = {} => n = Len(file[i])
<1> DEFINE k == n + ChunkSize
           last == IF k <= Len(file[i]) THEN k ELSE Len(file[i])
<1>1. Len(file[i]) \in Nat /\ DOMAIN file[i] = 1 .. Len(file[i])
  BY FileType
<1>2. last \in Nat /\ n <= last /\ last <= Len(file[i]) /\ (last = n => n = Len(file[i]))
  BY <1>1, ChunkAssumption
<1>3. NextChunk(i, n) = (n + 1) .. last
  BY <1>1, ChunkAssumption DEF NextChunk
<1> HIDE DEF last
<1>4. Cardinality(NextChunk(i, n)) = last - n
  <2>1. Cardinality((n + 1) .. last) = IF n + 1 > last THEN 0 ELSE last - (n + 1) + 1
    BY <1>2, FS_Interval
  <2> QED  BY <2>1, <1>2, <1>3
<1>5. n + Cardinality(NextChunk(i, n)) = last
  BY <1>2, <1>4
<1>6. /\ NextChunk(i, n) \subseteq Nat
      /\ NextChunk(i, n) \cap (1 .. n) = {}
      /\ (1 .. n) \cup NextChunk(i, n) = 1 .. last
      /\ NextChunk(i, n) = {} => last = n
  BY <1>2, <1>3
<1> QED  BY <1>2, <1>5, <1>6

\* validate_chunk divides the chunk, and accepts only first rows with their code.
LEMMA ChunkIsDivided ==
    ASSUME TypeOK, NEW i \in Imports, NEW n \in Nat
    PROVE  /\ AcceptedRows(i, n) \cup RowsOf(RejectedIssues(i, n)) = NextChunk(i, n)
           /\ AcceptedRows(i, n) \cap RowsOf(RejectedIssues(i, n)) = {}
           /\ RejectedIssues(i, n) \subseteq [row : Nat, field : Fields]
           /\ \A r \in AcceptedRows(i, n) : FirstRow(i, r)
<1>1. file[i] \in Seq(WorkbookRow) /\ DOMAIN file[i] = 1 .. Len(file[i])
      /\ Len(file[i]) \in Nat
  BY FileType
<1>2. \A r \in NextChunk(i, n) : IssuesOf(i, n, r) \subseteq Fields
  BY DEF IssuesOf, RowIssues, UnparsedFields, Fields
<1>3. NextChunk(i, n) \subseteq Nat
  BY <1>1 DEF NextChunk
<1>4. RejectedIssues(i, n) =
        {e \in [row : Nat, field : Fields] :
            e.row \in NextChunk(i, n) /\ e.field \in IssuesOf(i, n, e.row)}
  <2>1. \A e : e \in RejectedIssues(i, n) <=>
          \E r \in NextChunk(i, n) : e \in [row : {r}, field : IssuesOf(i, n, r)]
    BY DEF RejectedIssues
  <2> QED  BY <2>1, <1>2, <1>3
<1>5. \A r \in NextChunk(i, n) :
        r \in RowsOf(RejectedIssues(i, n)) <=> IssuesOf(i, n, r) # {}
  <2> SUFFICES ASSUME NEW r \in NextChunk(i, n)
               PROVE  r \in RowsOf(RejectedIssues(i, n)) <=> IssuesOf(i, n, r) # {}
    OBVIOUS
  <2>1. ASSUME NEW f \in IssuesOf(i, n, r)
        PROVE  r \in RowsOf(RejectedIssues(i, n))
    <3>1. [row |-> r, field |-> f] \in RejectedIssues(i, n)
      BY <1>2, <1>3, <1>4
    <3> QED  BY <3>1 DEF RowsOf
  <2>2. r \in RowsOf(RejectedIssues(i, n)) => IssuesOf(i, n, r) # {}
    BY <1>4 DEF RowsOf
  <2> QED  BY <2>1, <2>2
<1>6. RowsOf(RejectedIssues(i, n)) \subseteq NextChunk(i, n)
  BY <1>4 DEF RowsOf
<1>7. ASSUME NEW r \in AcceptedRows(i, n)
      PROVE  FirstRow(i, r)
  <2>1. r \in NextChunk(i, n) /\ RowIssues(file[i][r]) = {} /\ ~DuplicateInFile(i, n, r)
    BY DEF AcceptedRows, IssuesOf, Unavailable
  <2>2. r \in DOMAIN file[i] /\ file[i][r] \in WorkbookRow /\ r <= n + ChunkSize
    BY <2>1, <1>1 DEF NextChunk
  <2>3. CodeOf(i, r) \in Codes /\ CodeOf(i, r) # NoCode
    BY <2>1, <2>2, AcceptedValues, RowAssumption DEF CodeOf
  <2>4. ASSUME NEW q \in DOMAIN file[i], q < r
        PROVE  CodeOf(i, q) # CodeOf(i, r)
    <3>1. q \in 1 .. n \/ q \in NextChunk(i, n)
      BY <2>2, <2>4, <1>1, ChunkAssumption DEF NextChunk
    <3> QED  BY <3>1, <2>1, <2>3, <2>4 DEF DuplicateInFile
  <2> QED  BY <2>1, <2>2, <2>3, <2>4 DEF FirstRow
<1> QED  BY <1>4, <1>5, <1>6, <1>7 DEF AcceptedRows

-----------------------------------------------------------------------------
(* The steps.                                                              *)

\* Nothing is written before the first claim.
LEMMA ChunkInvariantInit == Init => ChunkInvariant
<1> SUFFICES ASSUME Init  PROVE  ChunkInvariant
  OBVIOUS
<1> USE DEF Init, IdleRun, NoCounts, Counters
<1>1. TypeOK
  <2>1. \A w \in Workers : run[w] \in Run
    BY ChunkAssumption DEF Run, RunPc
  <2>2. run \in [Workers -> Run]
    BY <2>1
  <2>3. job \in [Imports -> Job]
    BY ChunkAssumption DEF Job
  <2> QED  BY <2>2, <2>3 DEF TypeOK
<1>2. \A w \in Workers : run[w].pc = "idle" /\ run[w].accepted = {}
  OBVIOUS
<1>3. RunsAreTyped /\ AttemptsAreDistinct /\ ClaimedRunsAreFresh /\ WritersAreSound
  BY <1>2 DEF RunsAreTyped, AttemptsAreDistinct, ClaimedRunsAreFresh,
              WritersAreSound, Writing, Prepared
<1>4. \A i \in Imports : ShipmentsOf(i) = {} /\ ErrorsOf(i) = {} /\ RowsOf(ErrorsOf(i)) = {}
  BY DEF ShipmentsOf, ErrorsOf, RowsOf
<1>5. TablesAreFinite /\ CountersMatchRows
  BY <1>4, FS_EmptySet DEF TablesAreFinite, CountersMatchRows
<1>6. ShipmentsAreFirstRows
  BY <1>2 DEF ShipmentsAreFirstRows
<1>7. OutputOfOneAttempt /\ CompletedAccountsForRows /\ OutputIsOld
  BY <1>2, <1>4 DEF OutputOfOneAttempt, CompletedAccountsForRows, OutputIsOld
<1> QED  BY <1>1, <1>3, <1>5, <1>6, <1>7 DEF ChunkInvariant

\* Two runs never own the same import.
LEMMA OneOwner ==
    ASSUME AttemptsAreDistinct,
           NEW v \in Workers, NEW w \in Workers,
           run[v].pc # "idle", run[w].pc # "idle", Owns(v), Owns(w),
           run[v].import = run[w].import
    PROVE  v = w
BY DEF AttemptsAreDistinct, Owns

\* A run is not disturbed by steps that leave its import alone.
LEMMA WriterStays ==
    ASSUME NEW v \in Workers, WritersAreSound, file' = file, run'[v] = run[v],
           run[v].pc \in Prepared =>
             /\ run[v].import \in Imports
             /\ \A i \in Imports : i = run[v].import =>
                  /\ job'[i] = job[i]
                  /\ ShipmentsOf(i)' = ShipmentsOf(i) /\ ErrorsOf(i)' = ErrorsOf(i)
    PROVE  Writing(v)' => Sound(v)'
<1> SUFFICES ASSUME Writing(v)'  PROVE  Sound(v)'
  OBVIOUS
<1> DEFINE i == run[v].import
<1>1. i \in Imports /\ (run[v].import)' = i /\ run[v].pc \in Prepared /\ job'[i] = job[i]
  BY DEF Writing
<1>2. ShipmentsOf(i)' = ShipmentsOf(i) /\ ErrorsOf(i)' = ErrorsOf(i)
  BY <1>1
<1>3. Sound(v)
  BY <1>1 DEF WritersAreSound, Writing, Owns
<1>4. OutputIsOwn(v)'
  BY <1>1, <1>2, <1>3 DEF Sound, OutputIsOwn
<1>5. TotalsAreCommitted(v)'
  BY <1>1, <1>3 DEF Sound, TotalsAreCommitted
<1>6. CommittedRows(i)' = CommittedRows(i) /\ ChunkRows(v)' = ChunkRows(v)
  BY <1>1, <1>2 DEF CommittedRows, ChunkRows, RowsOf
<1>7. RowsAreAccountedFor(v)'
  BY <1>1, <1>2, <1>3, <1>6 DEF Sound, RowsAreAccountedFor, RowsOf
<1> QED  BY <1>4, <1>5, <1>7 DEF Sound

\* Workbooks do not change.
LEMMA FirstRowsStay ==
    ASSUME file' = file,
           \A s \in shipments' : FirstRow(s.import, s.row) /\ s.code = CodeOf(s.import, s.row),
           \A v \in Workers : \A r \in run'[v].accepted : FirstRow(run'[v].import, r)
    PROVE  ShipmentsAreFirstRows'
<1>1. \A i, r : FirstRow(i, r)' <=> FirstRow(i, r)
  BY DEF FirstRow, CodeOf
<1>2. \A i, r : CodeOf(i, r)' = CodeOf(i, r)
  BY DEF CodeOf
<1>3. \A s \in shipments' : FirstRow(s.import, s.row)' /\ s.code = CodeOf(s.import, s.row)'
  BY <1>1, <1>2
<1>4. ASSUME NEW v \in Workers, NEW r \in run'[v].accepted
      PROVE  FirstRow(run[v].import, r)'
  <2>1. FirstRow(run'[v].import, r)
    BY <1>4
  <2> QED  BY <1>1, <2>1
<1> QED  BY <1>3, <1>4 DEF ShipmentsAreFirstRows

\* A step that adds no output, claims nothing and makes no attempt.
LEMMA OldOutputStays ==
    ASSUME OutputIsOld, RunsAreTyped,
           \A i \in Imports :
             /\ job'[i].attempts = job[i].attempts
             /\ job'[i].status = "PROCESSING" => job[i].status = "PROCESSING"
             /\ ShipmentsOf(i)' \subseteq ShipmentsOf(i) /\ ErrorsOf(i)' \subseteq ErrorsOf(i),
           \A v \in Workers : run'[v].pc = "claimed" => run'[v] = run[v]
    PROVE  OutputIsOld'
<1>1. ASSUME NEW v \in Workers, run'[v].pc = "claimed", Owns(v)'
      PROVE  \A x \in (ShipmentsOf(run[v].import) \cup ErrorsOf(run[v].import))' :
               x.attempt < run'[v].attempt
  <2>1. run'[v] = run[v] /\ run[v].import \in Imports
    BY <1>1 DEF RunsAreTyped
  <2>2. Owns(v)
    BY <1>1, <2>1 DEF Owns
  <2>3. /\ ShipmentsOf(run[v].import)' \subseteq ShipmentsOf(run[v].import)
        /\ ErrorsOf(run[v].import)' \subseteq ErrorsOf(run[v].import)
    <3> DEFINE i == run[v].import
    <3>1. i' = i /\ i \in Imports
      BY <2>1
    <3>2. ShipmentsOf(i)' \subseteq ShipmentsOf(i) /\ ErrorsOf(i)' \subseteq ErrorsOf(i)
      <4> HIDE DEF i
      <4> QED  BY <3>1 DEF ShipmentsOf, ErrorsOf
    <3> QED  BY <3>2
  <2> QED  BY <1>1, <2>1, <2>2, <2>3 DEF OutputIsOld
<1> QED  BY <1>1 DEF OutputIsOld

\* A step that moves one run and writes nothing.
LEMMA RunMoves ==
    ASSUME ChunkInvariant, NEW w \in Workers,
           UNCHANGED <<file, job, shipments, errors>>,
           run' \in [Workers -> Run],
           \A v \in Workers \ {w} : run'[v] = run[v],
           \/ run'[w].pc = "idle"
           \/ /\ run[w].pc # "idle"
              /\ run'[w].import = run[w].import
              /\ run'[w].attempt = run[w].attempt
              /\ run'[w].read <= Len(file[run[w].import]),
           run'[w].pc # "claimed",
           \A r \in run'[w].accepted : FirstRow(run'[w].import, r),
           Writing(w)' => Sound(w)'
    PROVE  ChunkInvariant'
<1> USE DEF ChunkInvariant
<1>1. TypeOK'
  BY DEF TypeOK
<1>2. RunsAreTyped'
  BY DEF RunsAreTyped
<1>3. AttemptsAreDistinct'
  BY DEF AttemptsAreDistinct
<1>4. ClaimedRunsAreFresh'
  BY DEF ClaimedRunsAreFresh
<1>5. TablesAreFinite'
  BY DEF TablesAreFinite, ShipmentsOf, ErrorsOf, RowsOf
<1>6. ShipmentsAreFirstRows'
  <2>1. ASSUME NEW v \in Workers, NEW r \in run'[v].accepted
        PROVE  FirstRow(run'[v].import, r)
    BY <2>1 DEF ShipmentsAreFirstRows
  <2> QED  BY <2>1, FirstRowsStay DEF ShipmentsAreFirstRows
<1>7. WritersAreSound'
  <2>1. ASSUME NEW v \in Workers, v # w
        PROVE  Writing(v)' => Sound(v)'
    <3>1. run'[v] = run[v]
      BY <2>1
    <3>2. run[v].pc \in Prepared => run[v].import \in Imports
      BY DEF RunsAreTyped, Prepared
    <3>3. \A i \in Imports : ShipmentsOf(i)' = ShipmentsOf(i) /\ ErrorsOf(i)' = ErrorsOf(i)
      BY DEF ShipmentsOf, ErrorsOf
    <3> QED  BY <3>1, <3>2, <3>3, WriterStays
  <2> SUFFICES ASSUME NEW v \in Workers  PROVE  Writing(v)' => Sound(v)'
    BY DEF WritersAreSound
  <2>2. CASE v = w
    BY <2>2
  <2> QED  BY <2>1, <2>2
<1>8. OutputOfOneAttempt'
  BY DEF OutputOfOneAttempt, ShipmentsOf, ErrorsOf
<1>9. CountersMatchRows'
  BY DEF CountersMatchRows, ShipmentsOf, ErrorsOf, RowsOf
<1>10. CompletedAccountsForRows'
  BY DEF CompletedAccountsForRows, ShipmentsOf, ErrorsOf, RowsOf
<1>11. OutputIsOld'
  <2>1. \A i \in Imports : ShipmentsOf(i)' = ShipmentsOf(i) /\ ErrorsOf(i)' = ErrorsOf(i)
    BY DEF ShipmentsOf, ErrorsOf
  <2>2. \A v \in Workers : run'[v].pc = "claimed" => run'[v] = run[v]
    OBVIOUS
  <2> QED  BY <2>1, <2>2, OldOutputStays
<1> QED
  BY <1>1, <1>2, <1>3, <1>4, <1>5, <1>6, <1>7, <1>8, <1>9, <1>10, <1>11

\* Updates of one run.
LEMMA IdleRunType == IdleRun \in Run
BY ChunkAssumption DEF IdleRun, Run, RunPc, NoCounts, Counters

\* A run that ends leaves an idle worker and all other runs as they are.
LEMMA EndRunEffect ==
    ASSUME TypeOK, NEW w \in Workers, EndRun(w)
    PROVE  /\ run' \in [Workers -> Run]
           /\ run'[w] = IdleRun
           /\ \A v \in Workers \ {w} : run'[v] = run[v]
BY IdleRunType DEF TypeOK, EndRun

\* A run that only moves on keeps what it holds.
LEMMA SetPcEffect ==
    ASSUME TypeOK, NEW w \in Workers, NEW pc \in RunPc, SetPc(w, pc)
    PROVE  /\ run' \in [Workers -> Run]
           /\ \A v \in Workers \ {w} : run'[v] = run[v]
           /\ run'[w].pc = pc
           /\ run'[w].import = run[w].import /\ run'[w].attempt = run[w].attempt
           /\ run'[w].read = run[w].read /\ run'[w].counts = run[w].counts
           /\ run'[w].accepted = run[w].accepted /\ run'[w].rejected = run[w].rejected
BY DEF TypeOK, SetPc, Run

\* A run that is given up.
LEMMA RunEnds ==
    ASSUME ChunkInvariant, NEW w \in Workers, EndRun(w),
           UNCHANGED <<file, job, shipments, errors>>
    PROVE  ChunkInvariant'
<1>1. /\ run' \in [Workers -> Run] /\ run'[w] = IdleRun
      /\ \A v \in Workers \ {w} : run'[v] = run[v]
  BY EndRunEffect DEF ChunkInvariant
<1>2. run'[w].pc = "idle" /\ run'[w].accepted = {}
  BY <1>1 DEF IdleRun
<1>3. ~Writing(w)'
  BY <1>2 DEF Writing, Prepared
<1> QED  BY <1>1, <1>2, <1>3, RunMoves

\* A run that goes to its failure handlers.
LEMMA RunFails ==
    ASSUME ChunkInvariant, NEW w \in Workers, run[w].pc # "idle",
           NEW pc \in {"unresolved", "failing", "handling"}, SetPc(w, pc),
           UNCHANGED <<file, job, shipments, errors>>
    PROVE  ChunkInvariant'
<1>1. /\ run' \in [Workers -> Run] /\ run'[w].pc = pc
      /\ run'[w].import = run[w].import /\ run'[w].attempt = run[w].attempt
      /\ run'[w].accepted = run[w].accepted
      /\ \A v \in Workers \ {w} : run'[v] = run[v]
  BY SetPcEffect DEF ChunkInvariant, RunPc
<1>2. ~Writing(w)'
  BY <1>1 DEF Writing, Prepared
<1>3. \A r \in run'[w].accepted : FirstRow(run'[w].import, r)
  BY <1>1 DEF ChunkInvariant, ShipmentsAreFirstRows
<1>4. run'[w].read <= Len(file[run[w].import])
  BY SetPcEffect DEF ChunkInvariant, RunPc, RunsAreTyped
<1> QED  BY <1>1, <1>2, <1>3, <1>4, RunMoves

\* A writer that only changes its pc.
LEMMA WriterMoves ==
    ASSUME ChunkInvariant, NEW w \in Workers, Sound(w),
           NEW pc \in {"racing", "complete"}, SetPc(w, pc),
           run[w].import \in Imports, run[w].pc # "idle",
           pc = "complete" => ChunkRows(w) = {} /\ run[w].read = Len(file[run[w].import]),
           UNCHANGED <<file, job, shipments, errors>>
    PROVE  ChunkInvariant'
<1>a. PICK i \in Imports : i = run[w].import
  OBVIOUS
<1>1. /\ run' \in [Workers -> Run] /\ run'[w].pc = pc
      /\ run'[w].import = i /\ run'[w].attempt = run[w].attempt
      /\ run'[w].read = run[w].read /\ run'[w].counts = run[w].counts
      /\ run'[w].accepted = run[w].accepted /\ run'[w].rejected = run[w].rejected
      /\ \A v \in Workers \ {w} : run'[v] = run[v]
  BY <1>a, SetPcEffect DEF ChunkInvariant, RunPc, Processing
<1>2. /\ ShipmentsOf(i)' = ShipmentsOf(i) /\ ErrorsOf(i)' = ErrorsOf(i)
      /\ CommittedRows(i)' = CommittedRows(i) /\ ChunkRows(w)' = ChunkRows(w)
  BY <1>1 DEF ShipmentsOf, ErrorsOf, CommittedRows, ChunkRows, RowsOf
<1>3. OutputIsOwn(w)'
  BY <1>a, <1>1, <1>2 DEF Sound, OutputIsOwn
<1>4. TotalsAreCommitted(w)'
  BY <1>a, <1>1 DEF Sound, TotalsAreCommitted
<1>5. RowsAreAccountedFor(w)'
  BY <1>a, <1>1, <1>2 DEF Sound, RowsAreAccountedFor, RowsOf
<1>6. \A r \in run'[w].accepted : FirstRow(run'[w].import, r)
  BY <1>a, <1>1 DEF ChunkInvariant, ShipmentsAreFirstRows
<1>7. run'[w].read <= Len(file[run[w].import])
  BY <1>1 DEF ChunkInvariant, RunsAreTyped
<1> QED  BY <1>a, <1>1, <1>3, <1>4, <1>5, <1>6, <1>7, RunMoves DEF Sound

\* Every step of a writer starts from its guards and the invariant.
LEMMA WriterState ==
    ASSUME ChunkInvariant, NEW w \in Workers, run[w].pc \in Prepared, Owns(w)
    PROVE  /\ run[w].import \in Imports /\ run[w].attempt \in 1 .. MaxAttempts
           /\ run[w] \in Run /\ run[w].read \in Nat /\ Sound(w)
BY DEF ChunkInvariant, RunsAreTyped, WritersAreSound, Writing, Prepared, TypeOK, Run

\* At the end of the file the totals cover all rows.
LEMMA ReachEndKeeps ==
    ASSUME ChunkInvariant, NEW w \in Workers, ReachEndOfFile(w)
    PROVE  ChunkInvariant'
<1>1. run[w].pc = "next" /\ Owns(w) /\ NextChunk(run[w].import, run[w].read) = {}
  BY DEF ReachEndOfFile
<1>2. run[w].import \in Imports /\ run[w].read \in Nat /\ Sound(w)
  BY <1>1, WriterState DEF Prepared
<1>3. run[w].read = Len(file[run[w].import]) /\ ChunkRows(w) = {}
  BY <1>1, <1>2, ChunkBounds DEF Sound, RowsAreAccountedFor, ChunkInvariant
<1> QED  BY <1>1, <1>2, <1>3, WriterMoves DEF ReachEndOfFile

\* CatchIntegrityError is not guarded by ownership.
LEMMA CatchKeeps ==
    ASSUME ChunkInvariant, NEW w \in Workers, CatchIntegrityError(w)
    PROVE  ChunkInvariant'
<1>1. /\ run[w].pc = "persist" /\ SetPc(w, "racing")
      /\ UNCHANGED <<file, job, shipments, errors>>
  BY DEF CatchIntegrityError
<1>2. CASE Owns(w)
  BY <1>1, <1>2, WriterState, WriterMoves DEF Prepared
<1>3. CASE ~Owns(w)
  <2>1. /\ run' \in [Workers -> Run] /\ run'[w].pc = "racing"
        /\ run'[w].import = run[w].import /\ run'[w].attempt = run[w].attempt
        /\ run'[w].accepted = run[w].accepted
        /\ run'[w].read <= Len(file[run[w].import])
        /\ \A v \in Workers \ {w} : run'[v] = run[v]
    BY <1>1, SetPcEffect DEF ChunkInvariant, RunPc, Processing, RunsAreTyped
  <2>2. ~Writing(w)'
    BY <1>1, <1>3, <2>1 DEF Writing, Owns
  <2>3. \A r \in run'[w].accepted : FirstRow(run'[w].import, r)
    BY <2>1 DEF ChunkInvariant, ShipmentsAreFirstRows
  <2> QED  BY <1>1, <2>1, <2>2, <2>3, RunMoves
<1> QED  BY <1>2, <1>3

\* The next chunk starts behind the rows read, and its rows are accepted or rejected.
LEMMA ValidateKeeps ==
    ASSUME ChunkInvariant, NEW w \in Workers, ValidateNextChunk(w)
    PROVE  ChunkInvariant'
<1>a. run[w].import \in Imports
  BY DEF ValidateNextChunk, ChunkInvariant, RunsAreTyped
<1>b. PICK i \in Imports : i = run[w].import
  BY <1>a
<1> DEFINE n == run[w].read
           chunk == NextChunk(i, n)
<1>1. /\ run[w].pc = "next" /\ Owns(w)
      /\ UNCHANGED <<file, job, shipments, errors>>
      /\ run' = [run EXCEPT ![w].pc = "persist",
                            ![w].read = n + Cardinality(chunk),
                            ![w].accepted = AcceptedRows(i, n),
                            ![w].rejected = RejectedIssues(i, n)]
  BY <1>b DEF ValidateNextChunk
<1>2. n \in Nat /\ run[w] \in Run /\ Sound(w)
  BY <1>1 DEF ChunkInvariant, RunsAreTyped, WritersAreSound, Writing, Prepared, TypeOK, Run
<1>3. n <= Len(file[i]) /\ CommittedRows(i) \cup ChunkRows(w) = 1 .. n /\ ChunkRows(w) = {}
      /\ RowsOf(ShipmentsOf(i)) \cap RowsOf(ErrorsOf(i)) = {}
  BY <1>b, <1>1, <1>2 DEF Sound, RowsAreAccountedFor
<1>4. /\ n + Cardinality(chunk) \in Nat /\ n + Cardinality(chunk) <= Len(file[i])
      /\ chunk \subseteq Nat /\ chunk \cap (1 .. n) = {}
      /\ (1 .. n) \cup chunk = 1 .. (n + Cardinality(chunk))
      /\ \A q \in 1 .. n, r \in chunk : q < r
  <2>1. \A q \in 1 .. n, r \in chunk : q < r
    BY <1>2, FileType DEF NextChunk, ChunkInvariant
  <2> QED  BY <2>1, <1>2, <1>3, ChunkBounds DEF ChunkInvariant
<1>5. /\ AcceptedRows(i, n) \cup RowsOf(RejectedIssues(i, n)) = chunk
      /\ AcceptedRows(i, n) \cap RowsOf(RejectedIssues(i, n)) = {}
      /\ RejectedIssues(i, n) \subseteq [row : Nat, field : Fields]
      /\ \A r \in AcceptedRows(i, n) : FirstRow(i, r)
  BY <1>2, ChunkIsDivided DEF ChunkInvariant
<1> HIDE DEF n, chunk
<1>6. /\ run' \in [Workers -> Run] /\ run'[w].pc = "persist"
      /\ run'[w].import = run[w].import /\ run'[w].attempt = run[w].attempt
      /\ run'[w].read = n + Cardinality(chunk) /\ run'[w].counts = run[w].counts
      /\ run'[w].accepted = AcceptedRows(i, n) /\ run'[w].rejected = RejectedIssues(i, n)
      /\ \A v \in Workers \ {w} : run'[v] = run[v]
  <2>1. run \in [Workers -> Run] /\ "persist" \in RunPc /\ AcceptedRows(i, n) \in SUBSET Nat
    BY <1>4, <1>5 DEF ChunkInvariant, TypeOK, RunPc, Processing
  <2> QED  BY <2>1, <1>1, <1>2, <1>4, <1>5 DEF Run
<1>7. Sound(w)'
  <2>1. /\ ShipmentsOf(i)' = ShipmentsOf(i) /\ ErrorsOf(i)' = ErrorsOf(i)
        /\ run'[w].import = i
    BY <1>b, <1>1, <1>6 DEF ShipmentsOf, ErrorsOf
  <2>2. CommittedRows(i)' = CommittedRows(i) /\ ChunkRows(w)' = chunk
    BY <2>1, <1>5, <1>6 DEF CommittedRows, ChunkRows, RowsOf
  <2>3. OutputIsOwn(w)'
    BY <1>b, <2>1, <1>2, <1>6 DEF Sound, OutputIsOwn
  <2>4. TotalsAreCommitted(w)'
    BY <1>b, <2>1, <1>1, <1>2, <1>6 DEF Sound, TotalsAreCommitted
  <2>5. run'[w].read <= Len(file'[i])
    BY <1>1, <1>4, <1>6
  <2>6. /\ CommittedRows(i)' \cup ChunkRows(w)' = 1 .. run'[w].read
        /\ CommittedRows(i)' \cap ChunkRows(w)' = {}
        /\ \A q \in CommittedRows(i)', r \in ChunkRows(w)' : q < r
    BY <2>2, <1>3, <1>4, <1>6
  <2>7. /\ run'[w].accepted \cap RowsOf(run'[w].rejected) = {}
        /\ (RowsOf(ShipmentsOf(i)) \cap RowsOf(ErrorsOf(i)))' = {}
    BY <2>1, <1>3, <1>5, <1>6 DEF RowsOf
  <2>8. RowsAreAccountedFor(w)'
    BY <2>1, <2>5, <2>6, <2>7, <1>6 DEF RowsAreAccountedFor, RowsOf
  <2> QED  BY <2>3, <2>4, <2>8 DEF Sound
<1>8. \A r \in run'[w].accepted : FirstRow(run'[w].import, r)
  BY <1>b, <1>5, <1>6
<1>9. run'[w].read <= Len(file[run[w].import])
  BY <1>b, <1>4, <1>6
<1> QED  BY <1>1, <1>6, <1>7, <1>8, <1>9, RunMoves

\* Conflicting rows move from the accepted to the rejected ones.
LEMMA ReclassifyKeeps ==
    ASSUME ChunkInvariant, NEW w \in Workers, ReclassifyDuplicates(w)
    PROVE  ChunkInvariant'
<1> DEFINE kept == RetainedRows(w)
           conflicts == [row : run[w].accepted \ kept, field : {"shipment_code"}]
<1>1. /\ run[w].pc = "racing" /\ Owns(w)
      /\ UNCHANGED <<file, job, shipments, errors>>
      /\ run' = [run EXCEPT ![w].pc = "persist", ![w].accepted = kept,
                            ![w].rejected = run[w].rejected \cup conflicts]
  BY DEF ReclassifyDuplicates
<1>2. run[w].import \in Imports /\ run[w] \in Run /\ Sound(w)
  BY <1>1, WriterState DEF Prepared
<1>3. PICK i \in Imports : i = run[w].import
  BY <1>2
<1>4. kept \subseteq run[w].accepted
  BY DEF RetainedRows
<1>5. conflicts \subseteq [row : Nat, field : Fields]
  BY <1>2 DEF Run, Fields
<1>6. RowsOf(run[w].rejected \cup conflicts) = RowsOf(run[w].rejected) \cup (run[w].accepted \ kept)
  <2>1. ASSUME NEW r \in run[w].accepted \ kept
        PROVE  [row |-> r, field |-> "shipment_code"] \in conflicts
    OBVIOUS
  <2>2. \A e \in conflicts : e.row \in run[w].accepted \ kept
    OBVIOUS
  <2> HIDE DEF conflicts, kept
  <2>3. ASSUME NEW r \in run[w].accepted \ kept
        PROVE  r \in RowsOf(run[w].rejected \cup conflicts)
    <3>1. [row |-> r, field |-> "shipment_code"].row = r
      OBVIOUS
    <3> QED  BY <3>1, <2>1, <2>3 DEF RowsOf
  <2> QED  BY <2>2, <2>3 DEF RowsOf
<1> HIDE DEF kept, conflicts
<1>7. /\ run' \in [Workers -> Run] /\ run'[w].pc = "persist"
      /\ run'[w].import = i /\ run'[w].attempt = run[w].attempt
      /\ run'[w].read = run[w].read /\ run'[w].counts = run[w].counts
      /\ run'[w].accepted = kept
      /\ run'[w].rejected = run[w].rejected \cup conflicts
      /\ \A v \in Workers \ {w} : run'[v] = run[v]
  <2>1. run \in [Workers -> Run] /\ "persist" \in RunPc
    BY DEF ChunkInvariant, TypeOK, RunPc, Processing
  <2> QED  BY <2>1, <1>1, <1>2, <1>3, <1>4, <1>5 DEF Run
<1>8. Sound(w)'
  <2>1. /\ ShipmentsOf(i)' = ShipmentsOf(i) /\ ErrorsOf(i)' = ErrorsOf(i)
        /\ CommittedRows(i)' = CommittedRows(i)
        /\ (RowsOf(ShipmentsOf(i)) \cap RowsOf(ErrorsOf(i)))'
             = RowsOf(ShipmentsOf(i)) \cap RowsOf(ErrorsOf(i))
    BY <1>1 DEF ShipmentsOf, ErrorsOf, CommittedRows, RowsOf
  <2>2. ChunkRows(w)' = ChunkRows(w)
    BY <1>4, <1>6, <1>7 DEF ChunkRows, RowsOf
  <2>3. OutputIsOwn(w)'
    BY <1>2, <1>3, <1>7, <2>1 DEF Sound, OutputIsOwn
  <2>4. TotalsAreCommitted(w)'
    BY <1>1, <1>2, <1>3, <1>7 DEF Sound, TotalsAreCommitted
  <2>5. (run[w].accepted \cap RowsOf(run[w].rejected))' = {}
    BY <1>2, <1>4, <1>6, <1>7 DEF Sound, RowsAreAccountedFor, RowsOf
  <2>6. RowsAreAccountedFor(w)'
    BY <1>1, <1>2, <1>3, <1>7, <2>1, <2>2, <2>5, ZenonT(30) DEF Sound, RowsAreAccountedFor
  <2> QED  BY <2>3, <2>4, <2>6 DEF Sound
<1>9. \A r \in run'[w].accepted : FirstRow(run'[w].import, r)
  BY <1>3, <1>4, <1>7 DEF ChunkInvariant, ShipmentsAreFirstRows
<1>10. run'[w].read <= Len(file[run[w].import])
  BY <1>1, <1>7 DEF ChunkInvariant, RunsAreTyped
<1> QED  BY <1>1, <1>2, <1>3, <1>7, <1>8, <1>9, <1>10, RunMoves

\* Requeued and failed imports: nobody owns them any more.
LEMMA StatusChanges ==
    ASSUME ChunkInvariant, NEW i \in Imports, NEW status \in {"PENDING", "FAILED"},
           SetStatus(i, status), UNCHANGED <<file, shipments, errors>>,
           run' \in [Workers -> Run],
           \A v \in Workers : run'[v] \in {run[v], IdleRun}
    PROVE  ChunkInvariant'
<1> USE DEF ChunkInvariant
<1>1. /\ job' \in [Imports -> Job]
      /\ job'[i].status = status /\ job'[i].attempts = job[i].attempts
      /\ job'[i].counts = job[i].counts
      /\ \A j \in Imports \ {i} : job'[j] = job[j]
  BY DEF TypeOK, SetStatus, Job
<1>2. \A v \in Workers : run'[v].pc # "idle" => run'[v] = run[v]
  BY DEF IdleRun
<1>3. \A j \in Imports : /\ ShipmentsOf(j)' = ShipmentsOf(j)
                         /\ ErrorsOf(j)' = ErrorsOf(j)
                         /\ RowsOf(ShipmentsOf(j))' = RowsOf(ShipmentsOf(j))
                         /\ RowsOf(ErrorsOf(j))' = RowsOf(ErrorsOf(j))
  BY DEF ShipmentsOf, ErrorsOf, RowsOf
<1>4. TypeOK'
  BY <1>1 DEF TypeOK
<1>5. RunsAreTyped'
  BY <1>1, <1>2 DEF RunsAreTyped
<1>6. AttemptsAreDistinct' /\ ClaimedRunsAreFresh'
  BY <1>2 DEF AttemptsAreDistinct, ClaimedRunsAreFresh
<1>7. TablesAreFinite'
  BY <1>3 DEF TablesAreFinite
<1>8. ShipmentsAreFirstRows'
  <2>1. \A v \in Workers : \/ /\ run'[v].accepted = run[v].accepted
                              /\ run'[v].import = run[v].import
                           \/ run'[v].accepted = {}
    BY DEF IdleRun
  <2> QED  BY <2>1, FirstRowsStay DEF ShipmentsAreFirstRows
<1>9. WritersAreSound'
  <2> SUFFICES ASSUME NEW v \in Workers, Writing(v)'  PROVE  Sound(v)'
    BY DEF WritersAreSound
  <2>1. run'[v] = run[v] /\ run[v].pc # "idle" /\ run[v].import \in Imports
    BY <1>2 DEF Writing, Prepared, RunsAreTyped
  <2>2. run[v].import # i
    BY <2>1, <1>1 DEF Writing, Owns
  <2> QED  BY <2>1, <2>2, <1>1, <1>3, WriterStays
<1>10. OutputOfOneAttempt'
  BY <1>1, <1>3 DEF OutputOfOneAttempt
<1>11. CountersMatchRows'
  BY <1>1, <1>3 DEF CountersMatchRows
<1>12. CompletedAccountsForRows'
  BY <1>1, <1>3 DEF CompletedAccountsForRows
<1>13. OutputIsOld'
  <2>1. \A j \in Imports : /\ job'[j].attempts = job[j].attempts
                           /\ job'[j].status = "PROCESSING" => job[j].status = "PROCESSING"
    BY <1>1
  <2>2. \A v \in Workers : run'[v].pc = "claimed" => run'[v] = run[v]
    BY <1>2
  <2> QED  BY <1>3, <2>1, <2>2, OldOutputStays
<1> QED
  BY <1>4, <1>5, <1>6, <1>7, <1>8, <1>9, <1>10, <1>11, <1>12, <1>13

\* A claim makes a new attempt, which no run and no row knows.
LEMMA ClaimKeeps ==
    ASSUME ChunkInvariant, NEW w \in Workers, Claim(w)
    PROVE  ChunkInvariant'
<1> USE DEF ChunkInvariant
<1>1. PICK i \in Imports :
        /\ run[w].pc = "idle" /\ job[i].status = "PENDING" /\ job[i].attempts < MaxAttempts
        /\ job' = [job EXCEPT ![i].status = "PROCESSING",
                              ![i].attempts = job[i].attempts + 1]
        /\ run' = [run EXCEPT ![w] = [IdleRun EXCEPT !.pc = "claimed", !.import = i,
                                                     !.attempt = job[i].attempts + 1]]
        /\ UNCHANGED <<file, shipments, errors>>
  BY DEF Claim
<1>2. job[i].attempts + 1 \in 1 .. MaxAttempts
  BY <1>1, ChunkAssumption DEF TypeOK, Job
<1>3. /\ job' \in [Imports -> Job]
      /\ job'[i].status = "PROCESSING" /\ job'[i].attempts = job[i].attempts + 1
      /\ job'[i].counts = job[i].counts
      /\ \A j \in Imports \ {i} : job'[j] = job[j]
  BY <1>1, <1>2 DEF TypeOK, Job
<1>4. /\ run' \in [Workers -> Run]
      /\ run'[w].pc = "claimed" /\ run'[w].import = i
      /\ run'[w].attempt = job[i].attempts + 1
      /\ run'[w].read = 0 /\ run'[w].counts = NoCounts
      /\ run'[w].accepted = {} /\ run'[w].rejected = {}
      /\ \A v \in Workers \ {w} : run'[v] = run[v]
  <2> DEFINE new == [IdleRun EXCEPT !.pc = "claimed", !.import = i,
                                    !.attempt = job[i].attempts + 1]
  <2>1. /\ IdleRun.read = 0 /\ IdleRun.counts = NoCounts
        /\ IdleRun.accepted = {} /\ IdleRun.rejected = {}
    BY DEF IdleRun
  <2>2. "claimed" \in RunPc /\ job[i].attempts + 1 \in 0 .. MaxAttempts
    BY <1>2, ChunkAssumption DEF RunPc, Processing
  <2>3. /\ new \in Run /\ new.pc = "claimed" /\ new.import = i
        /\ new.attempt = job[i].attempts + 1
        /\ new.read = IdleRun.read /\ new.counts = IdleRun.counts
        /\ new.accepted = IdleRun.accepted /\ new.rejected = IdleRun.rejected
    BY <2>2, IdleRunType DEF Run
  <2>4. run' = [run EXCEPT ![w] = new]
    BY <1>1
  <2> HIDE DEF new
  <2> QED  BY <2>1, <2>3, <2>4 DEF TypeOK
<1>5. \A j \in Imports : /\ ShipmentsOf(j)' = ShipmentsOf(j)
                         /\ ErrorsOf(j)' = ErrorsOf(j)
                         /\ RowsOf(ShipmentsOf(j))' = RowsOf(ShipmentsOf(j))
                         /\ RowsOf(ErrorsOf(j))' = RowsOf(ErrorsOf(j))
  BY <1>1 DEF ShipmentsOf, ErrorsOf, RowsOf
<1>6. TypeOK'
  BY <1>1, <1>3, <1>4 DEF TypeOK
<1>7. \A v \in Workers :
        run[v].pc # "idle" /\ run[v].import = i => run[v].attempt < job[i].attempts + 1
  BY DEF RunsAreTyped, TypeOK, Job
<1>8. RunsAreTyped'
  <2> SUFFICES ASSUME NEW v \in Workers, run'[v].pc # "idle"
               PROVE  /\ run'[v].import \in Imports /\ run'[v].attempt \in 1 .. MaxAttempts
                      /\ run'[v].attempt <= job'[run'[v].import].attempts
                      /\ run'[v].read <= Len(file'[run'[v].import])
    BY DEF RunsAreTyped
  <2>1. CASE v = w
    <3>1. Len(file[i]) \in Nat /\ file' = file
      BY <1>1, FileType
    <3> QED  BY <2>1, <3>1, <1>2, <1>3, <1>4
  <2>2. CASE v # w
    <3>1. /\ run[v].import \in Imports /\ run[v].attempt \in 1 .. MaxAttempts
          /\ run[v].attempt <= job[run[v].import].attempts /\ run'[v] = run[v]
          /\ run[v].read <= Len(file[run[v].import]) /\ file' = file
      BY <2>2, <1>1, <1>4 DEF RunsAreTyped
    <3>2. job[i].attempts \in Nat
      BY DEF TypeOK, Job
    <3> QED  BY <3>1, <3>2, <1>3
  <2> QED  BY <2>1, <2>2
<1>9. AttemptsAreDistinct'
  BY <1>4, <1>7 DEF AttemptsAreDistinct, TypeOK, Job
<1>10. ClaimedRunsAreFresh'
  BY <1>4 DEF ClaimedRunsAreFresh
<1>11. TablesAreFinite'
  BY <1>5 DEF TablesAreFinite
<1>12. ShipmentsAreFirstRows'
  BY <1>1, <1>4, FirstRowsStay DEF ShipmentsAreFirstRows
<1>13. WritersAreSound'
  <2> SUFFICES ASSUME NEW v \in Workers, Writing(v)'  PROVE  Sound(v)'
    BY DEF WritersAreSound
  <2>1. run'[v] = run[v] /\ run[v].pc # "idle" /\ run[v].import \in Imports
    BY <1>4 DEF Writing, Prepared, RunsAreTyped
  <2>2. run[v].import # i
    BY <2>1, <1>3, <1>7 DEF Writing, Owns, TypeOK, Job, RunsAreTyped
  <2> QED  BY <2>1, <2>2, <1>1, <1>3, <1>5, WriterStays
<1>14. OutputOfOneAttempt'
  BY <1>3, <1>5 DEF OutputOfOneAttempt
<1>15. CountersMatchRows'
  BY <1>3, <1>5 DEF CountersMatchRows
<1>16. CompletedAccountsForRows'
  BY <1>1, <1>3, <1>5 DEF CompletedAccountsForRows
<1>17. OutputIsOld'
  <2>1. /\ \A j \in Imports : job[j].attempts \in Nat
        /\ \A j \in Imports : \A x \in ShipmentsOf(j) \cup ErrorsOf(j) : x.attempt \in Nat
    BY DEF TypeOK, Job, ShipmentsOf, ErrorsOf
  <2>2. ASSUME NEW j \in Imports, NEW x \in (ShipmentsOf(j) \cup ErrorsOf(j))'
        PROVE  x.attempt <= job'[j].attempts
    <3>1. x.attempt <= job[j].attempts /\ x.attempt \in Nat
      BY <2>1, <2>2, <1>5 DEF OutputIsOld
    <3> QED  BY <2>1, <3>1, <1>3
  <2>3. ASSUME NEW v \in Workers, run'[v].pc = "claimed", Owns(v)'
        PROVE  \A x \in (ShipmentsOf(run[v].import) \cup ErrorsOf(run[v].import))' :
                 x.attempt < run'[v].attempt
    <3>1. CASE v = w
      <4>1. \A x \in (ShipmentsOf(i) \cup ErrorsOf(i))' : x.attempt <= job[i].attempts
        BY <1>5 DEF OutputIsOld
      <4>2. \A x \in (ShipmentsOf(i) \cup ErrorsOf(i))' : x.attempt < job[i].attempts + 1
        BY <4>1, <2>1, <1>5
      <4> QED  BY <4>2, <3>1, <1>4 DEF ShipmentsOf, ErrorsOf
    <3>2. CASE v # w
      <4>1. run'[v] = run[v] /\ run[v].import \in Imports /\ run[v].pc = "claimed"
        BY <2>3, <3>2, <1>4 DEF RunsAreTyped
      <4>2. run[v].import # i
        BY <2>3, <4>1, <1>3, <1>7 DEF Owns, TypeOK, Job, RunsAreTyped
      <4>3. Owns(v)
        BY <2>3, <4>1, <4>2, <1>3 DEF Owns
      <4>4. PICK j \in Imports : j = run[v].import
        BY <4>1
      <4>5. \A x \in (ShipmentsOf(j) \cup ErrorsOf(j))' : x.attempt < run[v].attempt
        BY <4>1, <4>3, <4>4, <1>5 DEF OutputIsOld
      <4> QED  BY <4>1, <4>4, <4>5 DEF ShipmentsOf, ErrorsOf
    <3> QED  BY <3>1, <3>2
  <2> QED  BY <2>2, <2>3 DEF OutputIsOld
<1> QED
  BY <1>6, <1>8, <1>9, <1>10, <1>11, <1>12, <1>13, <1>14, <1>15, <1>16, <1>17

\* Nobody else writes to the import that a run owns.
LEMMA OtherWritersStay ==
    ASSUME ChunkInvariant, NEW w \in Workers, run[w].pc # "idle", Owns(w),
           NEW i \in Imports, i = run[w].import, file' = file,
           job'[i].attempts = job[i].attempts,
           \A v \in Workers \ {w} : run'[v] = run[v],
           \A j \in Imports \ {i} :
             /\ job'[j] = job[j]
             /\ ShipmentsOf(j)' = ShipmentsOf(j) /\ ErrorsOf(j)' = ErrorsOf(j)
    PROVE  \A v \in Workers \ {w} : Writing(v)' => Sound(v)'
<1> SUFFICES ASSUME NEW v \in Workers \ {w}, Writing(v)'  PROVE  Sound(v)'
  OBVIOUS
<1>1. run'[v] = run[v] /\ run[v].pc # "idle" /\ run[v].import \in Imports
  BY DEF Writing, Prepared, RunsAreTyped, ChunkInvariant
<1>2. run[v].import # i
  <2> SUFFICES ASSUME run[v].import = i  PROVE  FALSE
    OBVIOUS
  <2>1. Owns(v)
    BY <1>1 DEF Writing, Owns
  <2> QED  BY <2>1, <1>1, OneOwner DEF ChunkInvariant
<1> QED  BY <1>1, <1>2, WriterStays DEF ChunkInvariant

\* After the reset the import has no output and zero counters.
LEMMA PrepareKeeps ==
    ASSUME ChunkInvariant, NEW w \in Workers, PrepareForReprocessing(w)
    PROVE  ChunkInvariant'
<1> USE DEF ChunkInvariant
<1>a. /\ run[w].pc = "claimed" /\ Owns(w) /\ SetPc(w, "next") /\ file' = file
      /\ run[w].import \in Imports
  BY DEF PrepareForReprocessing, RunsAreTyped
<1>b. PICK i \in Imports : i = run[w].import
  BY <1>a
<1>1. /\ job' = [job EXCEPT ![i].counts = NoCounts]
      /\ shipments' = shipments \ ShipmentsOf(i)
      /\ errors' = errors \ ErrorsOf(i)
  BY <1>b DEF PrepareForReprocessing
<1>2. /\ job' \in [Imports -> Job]
      /\ job'[i].status = job[i].status /\ job'[i].attempts = job[i].attempts
      /\ job'[i].counts = NoCounts
      /\ \A j \in Imports \ {i} : job'[j] = job[j]
  BY <1>1 DEF TypeOK, Job, NoCounts, Counters
<1>3. job[i].status = "PROCESSING"
  BY <1>a, <1>b DEF Owns
<1>4. /\ run' \in [Workers -> Run] /\ run'[w].pc = "next"
      /\ run'[w].import = i /\ run'[w].attempt = run[w].attempt
      /\ run'[w].read = 0 /\ run'[w].counts = NoCounts
      /\ run'[w].accepted = {} /\ run'[w].rejected = {}
      /\ \A v \in Workers \ {w} : run'[v] = run[v]
  BY <1>a, <1>b, SetPcEffect DEF RunPc, Processing, ClaimedRunsAreFresh
<1>5. ShipmentsOf(i)' = {} /\ ErrorsOf(i)' = {} /\ RowsOf(ErrorsOf(i))' = {}
      /\ RowsOf(ShipmentsOf(i))' = {}
  BY <1>1 DEF ShipmentsOf, ErrorsOf, RowsOf
<1>6. \A j \in Imports \ {i} : /\ ShipmentsOf(j)' = ShipmentsOf(j)
                               /\ ErrorsOf(j)' = ErrorsOf(j)
                               /\ RowsOf(ShipmentsOf(j))' = RowsOf(ShipmentsOf(j))
                               /\ RowsOf(ErrorsOf(j))' = RowsOf(ErrorsOf(j))
  BY <1>1 DEF ShipmentsOf, ErrorsOf, RowsOf
<1>7. TypeOK'
  BY <1>a, <1>1, <1>2, <1>4 DEF TypeOK
<1>8. RunsAreTyped' /\ AttemptsAreDistinct' /\ ClaimedRunsAreFresh'
  <2>1. \A v \in Workers : /\ run'[v].pc # "idle" => run[v].pc # "idle"
                           /\ run'[v].import = run[v].import
                           /\ run'[v].attempt = run[v].attempt
                           /\ run'[v].read = run[v].read
    BY <1>a, <1>b, <1>4 DEF ClaimedRunsAreFresh
  <2>2. \A j \in Imports : job'[j].attempts = job[j].attempts
    BY <1>2
  <2> QED
    BY <1>a, <1>4, <2>1, <2>2 DEF RunsAreTyped, AttemptsAreDistinct, ClaimedRunsAreFresh
<1>9. TablesAreFinite'
  BY <1>5, <1>6, FS_EmptySet DEF TablesAreFinite
<1>10. ShipmentsAreFirstRows'
  BY <1>a, <1>1, <1>4, FirstRowsStay DEF ShipmentsAreFirstRows
<1>11. WritersAreSound'
  <2>1. OutputIsOwn(w)'
    BY <1>4, <1>5 DEF OutputIsOwn
  <2>2. TotalsAreCommitted(w)'
    BY <1>2, <1>4 DEF TotalsAreCommitted
  <2>3. CommittedRows(i)' = {} /\ ChunkRows(w)' = {}
    BY <1>4, <1>5 DEF CommittedRows, ChunkRows, RowsOf
  <2>4. 1 .. 0 = {} /\ Len(file[i]) \in Nat
    BY FileType
  <2>5. RowsAreAccountedFor(w)'
    BY <1>a, <1>4, <1>5, <2>3, <2>4 DEF RowsAreAccountedFor
  <2>6. \A v \in Workers \ {w} : Writing(v)' => Sound(v)'
    BY <1>a, <1>b, <1>2, <1>4, <1>6, OtherWritersStay
  <2>7. Sound(w)'
    BY <2>1, <2>2, <2>5 DEF Sound
  <2> QED  BY <2>6, <2>7 DEF WritersAreSound
<1>12. OutputOfOneAttempt'
  BY <1>2, <1>3, <1>5, <1>6 DEF OutputOfOneAttempt
<1>13. CountersMatchRows'
  <2>1. Cardinality(ShipmentsOf(i))' = 0 /\ Cardinality(RowsOf(ErrorsOf(i)))' = 0
    BY <1>5, FS_EmptySet
  <2>2. job'[i].counts.success = 0 /\ job'[i].counts.failed = 0
    BY <1>2 DEF NoCounts
  <2> QED  BY <1>2, <1>6, <2>1, <2>2 DEF CountersMatchRows
<1>14. CompletedAccountsForRows'
  BY <1>a, <1>2, <1>3, <1>6 DEF CompletedAccountsForRows
<1>15. OutputIsOld'
  <2>1. \A j \in Imports : /\ job'[j].attempts = job[j].attempts
                           /\ job'[j].status = job[j].status
    BY <1>2
  <2>2. \A j \in Imports : /\ ShipmentsOf(j)' \subseteq ShipmentsOf(j)
                           /\ ErrorsOf(j)' \subseteq ErrorsOf(j)
    BY <1>5, <1>6
  <2>3. \A v \in Workers : run'[v].pc = "claimed" => run'[v] = run[v]
    BY <1>4
  <2> QED  BY <2>1, <2>2, <2>3, OldOutputStays
<1> QED
  BY <1>7, <1>8, <1>9, <1>10, <1>11, <1>12, <1>13, <1>14, <1>15

\* The totals in memory equal the counters they replace.
LEMMA CompleteKeeps ==
    ASSUME ChunkInvariant, NEW w \in Workers, CompleteImport(w)
    PROVE  ChunkInvariant'
<1> USE DEF ChunkInvariant
<1>a. /\ run[w].pc = "complete" /\ Owns(w) /\ UNCHANGED <<file, shipments, errors>>
      /\ EndRun(w) \/ SetPc(w, "handling")
  BY DEF CompleteImport
<1>b. run[w].import \in Imports /\ Sound(w)
  BY <1>a, WriterState DEF Prepared
<1>c. PICK i \in Imports : i = run[w].import
  BY <1>b
<1>1. job' = [job EXCEPT ![i].status = "COMPLETED", ![i].counts = run[w].counts]
  BY <1>c DEF CompleteImport
<1>2. run[w].counts = job[i].counts
  BY <1>b, <1>c DEF Sound, TotalsAreCommitted
<1>3. /\ job' \in [Imports -> Job]
      /\ job'[i].status = "COMPLETED" /\ job'[i].attempts = job[i].attempts
      /\ job'[i].counts = job[i].counts
      /\ \A j \in Imports \ {i} : job'[j] = job[j]
  BY <1>1, <1>2 DEF TypeOK, Job
<1>4. /\ run' \in [Workers -> Run] /\ run'[w].pc \in {"idle", "handling"}
      /\ run'[w].pc # "idle" => /\ run'[w].import = run[w].import
                                /\ run'[w].attempt = run[w].attempt
                                /\ run'[w].read = run[w].read
      /\ run'[w].accepted = {} \/ /\ run'[w].import = run[w].import
                                  /\ run'[w].accepted = run[w].accepted
      /\ \A v \in Workers \ {w} : run'[v] = run[v]
  <2>1. CASE EndRun(w)
    BY <2>1, EndRunEffect DEF IdleRun
  <2>2. CASE SetPc(w, "handling")
    BY <2>2, SetPcEffect DEF RunPc
  <2> QED  BY <1>a, <2>1, <2>2
<1>5. \A j \in Imports : /\ ShipmentsOf(j)' = ShipmentsOf(j)
                         /\ ErrorsOf(j)' = ErrorsOf(j)
                         /\ RowsOf(ShipmentsOf(j))' = RowsOf(ShipmentsOf(j))
                         /\ RowsOf(ErrorsOf(j))' = RowsOf(ErrorsOf(j))
  BY <1>a DEF ShipmentsOf, ErrorsOf, RowsOf
<1>6. TypeOK'
  BY <1>a, <1>3, <1>4 DEF TypeOK
<1>7. RunsAreTyped' /\ AttemptsAreDistinct' /\ ClaimedRunsAreFresh'
  <2>1. \A v \in Workers : run'[v].pc # "idle" =>
          /\ run[v].pc # "idle"
          /\ run'[v].import = run[v].import /\ run'[v].attempt = run[v].attempt
          /\ run'[v].read = run[v].read
    BY <1>a, <1>4
  <2>2. \A j \in Imports : job'[j].attempts = job[j].attempts
    BY <1>3
  <2> QED
    BY <1>a, <1>4, <2>1, <2>2 DEF RunsAreTyped, AttemptsAreDistinct, ClaimedRunsAreFresh
<1>8. TablesAreFinite'
  BY <1>5 DEF TablesAreFinite
<1>9. ShipmentsAreFirstRows'
  BY <1>a, <1>4, FirstRowsStay DEF ShipmentsAreFirstRows
<1>10. WritersAreSound'
  <2>1. ~Writing(w)'
    BY <1>4 DEF Writing, Prepared
  <2>2. \A v \in Workers \ {w} : Writing(v)' => Sound(v)'
    BY <1>a, <1>c, <1>3, <1>4, <1>5, OtherWritersStay
  <2> QED  BY <2>1, <2>2 DEF WritersAreSound
<1>11. OutputOfOneAttempt'
  <2>1. \A x \in ShipmentsOf(i) \cup ErrorsOf(i) : x.attempt = job[i].attempts
    BY <1>a, <1>b, <1>c DEF Sound, OutputIsOwn, Owns
  <2> QED  BY <2>1, <1>3, <1>5 DEF OutputOfOneAttempt
<1>12. CountersMatchRows'
  BY <1>3, <1>5 DEF CountersMatchRows
<1>13. CompletedAccountsForRows'
  <2>1. /\ RowsOf(ShipmentsOf(i)) \cap RowsOf(ErrorsOf(i)) = {}
        /\ RowsOf(ShipmentsOf(i)) \cup RowsOf(ErrorsOf(i)) = 1 .. Len(file[i])
    BY <1>a, <1>b, <1>c DEF Sound, RowsAreAccountedFor, CommittedRows
  <2>2. DOMAIN file[i] = 1 .. Len(file[i])
    BY FileType
  <2> QED  BY <2>1, <2>2, <1>a, <1>3, <1>5 DEF CompletedAccountsForRows
<1>14. OutputIsOld'
  <2>1. \A j \in Imports : /\ job'[j].attempts = job[j].attempts
                           /\ job'[j].status = "PROCESSING" => job[j].status = "PROCESSING"
    BY <1>3
  <2>2. \A v \in Workers : run'[v].pc = "claimed" => run'[v] = run[v]
    BY <1>4
  <2> QED  BY <1>5, <2>1, <2>2, OldOutputStays
<1> QED
  BY <1>6, <1>7, <1>8, <1>9, <1>10, <1>11, <1>12, <1>13, <1>14

\* One shipment per accepted row.
ShipmentRecords(i, a, S) ==
    {[import |-> i, row |-> r, code |-> CodeOf(i, r), attempt |-> a] : r \in S}

\* A chunk's shipments are as many as its rows.
LEMMA ShipmentPerRow ==
    ASSUME NEW i, NEW a, NEW S, IsFiniteSet(S)
    PROVE  /\ IsFiniteSet(ShipmentRecords(i, a, S))
           /\ Cardinality(ShipmentRecords(i, a, S)) = Cardinality(S)
           /\ RowsOf(ShipmentRecords(i, a, S)) = S
<1> DEFINE Record(r) == [import |-> i, row |-> r, code |-> CodeOf(i, r), attempt |-> a]
           T == {Record(r) : r \in S}
           f == [r \in S |-> Record(r)]
<1>1. \A r \in S : Record(r).row = r
  OBVIOUS
<1>2. ShipmentRecords(i, a, S) = T
  BY DEF ShipmentRecords
<1> HIDE DEF Record
<1>3. f \in Bijection(S, T)
  BY <1>1 DEF Bijection, Injection, Surjection, IsInjective
<1>4. ExistsBijection(S, T)
  BY <1>3 DEF ExistsBijection
<1>5. IsFiniteSet(T) /\ Cardinality(T) = Cardinality(S)
  BY <1>4, FS_Bijection
<1>6. RowsOf(T) = S
  BY <1>1 DEF RowsOf
<1> QED  BY <1>2, <1>5, <1>6

\* A chunk's rows, errors and counters are written together.
LEMMA PersistKeeps ==
    ASSUME ChunkInvariant, NEW w \in Workers, PersistChunk(w)
    PROVE  ChunkInvariant'
<1> USE DEF ChunkInvariant
<1>a. run[w].pc = "persist" /\ Owns(w) /\ file' = file
  BY DEF PersistChunk
<1>b. /\ run[w].import \in Imports /\ run[w].attempt \in 1 .. MaxAttempts
      /\ run[w] \in Run /\ Sound(w)
  BY <1>a, WriterState DEF Prepared
<1>c. PICK i \in Imports : i = run[w].import
  BY <1>b
<1> DEFINE a == run[w].attempt
           S == run[w].accepted
           R == RowsOf(run[w].rejected)
           newShipments == ShipmentRecords(i, a, S)
           newErrors == {[import |-> i, row |-> e.row, field |-> e.field,
                          attempt |-> a] : e \in run[w].rejected}
           counted == AddCounts(job[i].counts, ChunkCounts(w))
<1>1. /\ shipments' = shipments \cup newShipments
      /\ errors' = errors \cup newErrors
      /\ job' = [job EXCEPT ![i].counts = counted]
      /\ \E pc \in {"next", "handling"} :
           run' = [run EXCEPT ![w].pc = pc,
                              ![w].counts = AddCounts(run[w].counts, ChunkCounts(w)),
                              ![w].accepted = {}, ![w].rejected = {}]
  BY <1>c DEF PersistChunk, ShipmentRecords
\* The rows of the chunk and what was committed before.
<1>2. /\ run[w].counts = job[i].counts
      /\ run[w].read \in Nat /\ run[w].read <= Len(file[i])
      /\ CommittedRows(i) \cup (S \cup R) = 1 .. run[w].read
      /\ CommittedRows(i) \cap (S \cup R) = {} /\ S \cap R = {}
      /\ RowsOf(ShipmentsOf(i)) \cap RowsOf(ErrorsOf(i)) = {}
  BY <1>b, <1>c DEF Sound, TotalsAreCommitted, RowsAreAccountedFor, ChunkRows, Run
<1>3. IsFiniteSet(S) /\ IsFiniteSet(R)
  <2>1. IsFiniteSet(1 .. run[w].read)
    BY <1>2, FirstRowsAreFinite
  <2>2. S \in SUBSET (1 .. run[w].read) /\ R \in SUBSET (1 .. run[w].read)
    BY <1>2
  <2> QED  BY <2>1, <2>2, FS_Subset
<1>4. Cardinality(S) \in Nat /\ Cardinality(R) \in Nat
  BY <1>3, FS_CardinalityType
<1>5. /\ job[i].counts \in Counters /\ counted \in Counters
      /\ counted.success = job[i].counts.success + Cardinality(S)
      /\ counted.failed = job[i].counts.failed + Cardinality(R)
  BY <1>4 DEF TypeOK, Job, Counters, AddCounts, ChunkCounts
<1>6. \A r \in S : FirstRow(i, r)
  BY <1>c DEF ShipmentsAreFirstRows
<1>7. /\ newShipments \subseteq [import : Imports, row : Nat, code : Codes,
                                 attempt : 1 .. MaxAttempts]
      /\ \A s \in newShipments : /\ s.import = i /\ s.row \in S /\ s.attempt = a
                                 /\ s.code = CodeOf(i, s.row)
  <2>1. \A r \in S : r \in Nat /\ CodeOf(i, r) \in Codes
    BY <1>b, <1>6 DEF FirstRow, Run
  <2> QED  BY <2>1, <1>b DEF ShipmentRecords
<1>8. /\ newErrors \subseteq [import : Imports, row : Nat, field : Fields,
                              attempt : 1 .. MaxAttempts]
      /\ \A e \in newErrors : e.import = i /\ e.attempt = a
      /\ RowsOf(newErrors) = R
  <2>1. run[w].rejected \subseteq [row : Nat, field : Fields]
    BY <1>b DEF Run
  <2>2. \A e \in run[w].rejected : e.row \in Nat /\ e.field \in Fields
    BY <2>1
  <2>3. RowsOf(newErrors) = R
    <3> DEFINE Record(e) == [import |-> i, row |-> e.row, field |-> e.field, attempt |-> a]
    <3>1. \A e : Record(e).row = e.row
      OBVIOUS
    <3>2. newErrors = {Record(e) : e \in run[w].rejected}
      OBVIOUS
    <3> HIDE DEF Record, newErrors
    <3> QED  BY <3>1, <3>2 DEF RowsOf
  <2> QED  BY <2>2, <2>3, <1>b
<1>9. /\ IsFiniteSet(newShipments) /\ Cardinality(newShipments) = Cardinality(S)
      /\ RowsOf(newShipments) = S
  BY <1>3, ShipmentPerRow
<1> HIDE DEF a, newShipments, newErrors, counted
\* Effects.
<1>10. /\ job' \in [Imports -> Job]
       /\ job'[i].status = job[i].status /\ job'[i].attempts = job[i].attempts
       /\ job'[i].counts = counted
       /\ \A j \in Imports \ {i} : job'[j] = job[j]
  BY <1>1, <1>5 DEF TypeOK, Job
<1>11. job[i].status = "PROCESSING" /\ job[i].attempts = a
  BY <1>a, <1>c DEF Owns, a
<1>12. /\ run' \in [Workers -> Run] /\ run'[w].pc \in {"next", "handling"}
       /\ run'[w].import = i /\ run'[w].attempt = a
       /\ run'[w].read = run[w].read /\ run'[w].counts = counted
       /\ run'[w].accepted = {} /\ run'[w].rejected = {}
       /\ \A v \in Workers \ {w} : run'[v] = run[v]
  <2>1. PICK pc \in {"next", "handling"} :
          run' = [run EXCEPT ![w].pc = pc, ![w].counts = counted,
                             ![w].accepted = {}, ![w].rejected = {}]
    BY <1>1, <1>2 DEF counted
  <2>2. pc \in RunPc /\ run \in [Workers -> Run]
    BY DEF TypeOK, RunPc, Processing
  <2> QED  BY <1>b, <1>c, <1>5, <2>1, <2>2 DEF Run, a
<1>13. /\ ShipmentsOf(i)' = ShipmentsOf(i) \cup newShipments
       /\ ErrorsOf(i)' = ErrorsOf(i) \cup newErrors
  BY <1>1, <1>7, <1>8 DEF ShipmentsOf, ErrorsOf
<1>14. /\ RowsOf(ShipmentsOf(i))' = RowsOf(ShipmentsOf(i)) \cup S
       /\ RowsOf(ErrorsOf(i))' = RowsOf(ErrorsOf(i)) \cup R
  <2>1. \A A, B : RowsOf(A \cup B) = RowsOf(A) \cup RowsOf(B)
    BY DEF RowsOf
  <2>2. /\ RowsOf(ShipmentsOf(i))' = RowsOf(ShipmentsOf(i) \cup newShipments)
        /\ RowsOf(ErrorsOf(i))' = RowsOf(ErrorsOf(i) \cup newErrors)
    BY <1>13 DEF RowsOf
  <2> HIDE DEF S, R
  <2> QED  BY <2>1, <2>2, <1>8, <1>9
<1>15. \A j \in Imports \ {i} : /\ ShipmentsOf(j)' = ShipmentsOf(j)
                                /\ ErrorsOf(j)' = ErrorsOf(j)
                                /\ RowsOf(ShipmentsOf(j))' = RowsOf(ShipmentsOf(j))
                                /\ RowsOf(ErrorsOf(j))' = RowsOf(ErrorsOf(j))
  BY <1>1, <1>7, <1>8 DEF ShipmentsOf, ErrorsOf, RowsOf
<1> HIDE DEF S, R
\* The invariant.
<1>16. TypeOK'
  BY <1>a, <1>1, <1>7, <1>8, <1>10, <1>12 DEF TypeOK
<1>17. RunsAreTyped' /\ AttemptsAreDistinct' /\ ClaimedRunsAreFresh'
  <2>1. \A v \in Workers : /\ run'[v].pc # "idle" => run[v].pc # "idle"
                           /\ run'[v].import = run[v].import
                           /\ run'[v].attempt = run[v].attempt
                           /\ run'[v].read = run[v].read
    BY <1>a, <1>c, <1>12 DEF a
  <2>2. \A j \in Imports : job'[j].attempts = job[j].attempts
    BY <1>10
  <2> QED
    BY <1>a, <1>12, <2>1, <2>2 DEF RunsAreTyped, AttemptsAreDistinct, ClaimedRunsAreFresh
<1>18. IsFiniteSet(ShipmentsOf(i)) /\ IsFiniteSet(RowsOf(ErrorsOf(i)))
  BY DEF TablesAreFinite
<1>19. /\ IsFiniteSet(ShipmentsOf(i))' /\ IsFiniteSet(RowsOf(ErrorsOf(i)))'
       /\ Cardinality(ShipmentsOf(i))' = Cardinality(ShipmentsOf(i)) + Cardinality(S)
       /\ Cardinality(RowsOf(ErrorsOf(i)))' = Cardinality(RowsOf(ErrorsOf(i))) + Cardinality(R)
  <2>1. ShipmentsOf(i) \cap newShipments = {}
    <3>1. RowsOf(ShipmentsOf(i)) \cap S = {}
      BY <1>2 DEF CommittedRows
    <3> QED  BY <3>1, <1>7 DEF RowsOf
  <2>2. RowsOf(ErrorsOf(i)) \cap R = {}
    BY <1>2 DEF CommittedRows
  <2>3. /\ IsFiniteSet(ShipmentsOf(i) \cup newShipments)
        /\ Cardinality(ShipmentsOf(i) \cup newShipments)
             = Cardinality(ShipmentsOf(i)) + Cardinality(newShipments) - Cardinality({})
    BY <1>9, <1>18, <2>1, FS_Union
  <2>4. /\ IsFiniteSet(RowsOf(ErrorsOf(i)) \cup R)
        /\ Cardinality(RowsOf(ErrorsOf(i)) \cup R)
             = Cardinality(RowsOf(ErrorsOf(i))) + Cardinality(R) - Cardinality({})
    BY <1>3, <1>18, <2>2, FS_Union DEF R
  <2>5. /\ Cardinality({}) = 0
        /\ Cardinality(ShipmentsOf(i)) \in Nat /\ Cardinality(RowsOf(ErrorsOf(i))) \in Nat
    BY <1>18, FS_EmptySet, FS_CardinalityType
  <2>6. /\ IsFiniteSet(ShipmentsOf(i))'
        /\ Cardinality(ShipmentsOf(i))' = Cardinality(ShipmentsOf(i)) + Cardinality(S)
    BY <1>4, <1>9, <1>13, <2>3, <2>5 DEF S
  <2>7. /\ IsFiniteSet(RowsOf(ErrorsOf(i)))'
        /\ Cardinality(RowsOf(ErrorsOf(i)))' = Cardinality(RowsOf(ErrorsOf(i))) + Cardinality(R)
    BY <1>4, <1>14, <2>4, <2>5 DEF R
  <2> QED  BY <2>6, <2>7
<1>20. TablesAreFinite'
  BY <1>15, <1>19 DEF TablesAreFinite
<1>21. CountersMatchRows'
  <2>1. /\ job'[i].counts.success = Cardinality(ShipmentsOf(i))'
        /\ job'[i].counts.failed = Cardinality(RowsOf(ErrorsOf(i)))'
    BY <1>5, <1>10, <1>19 DEF CountersMatchRows, S, R
  <2> QED  BY <2>1, <1>10, <1>15 DEF CountersMatchRows
<1>22. ShipmentsAreFirstRows'
  <2>1. \A s \in newShipments : FirstRow(s.import, s.row) /\ s.code = CodeOf(s.import, s.row)
    BY <1>6, <1>7 DEF S
  <2>2. \A s \in shipments' : FirstRow(s.import, s.row) /\ s.code = CodeOf(s.import, s.row)
    BY <2>1, <1>1 DEF ShipmentsAreFirstRows
  <2>3. \A v \in Workers : \A r \in run'[v].accepted : FirstRow(run'[v].import, r)
    BY <1>12 DEF ShipmentsAreFirstRows
  <2> QED  BY <2>2, <2>3, <1>a, FirstRowsStay
<1>23. OutputIsOwn(w)'
  <2>1. \A x \in ShipmentsOf(i) \cup ErrorsOf(i) : x.attempt = a
    BY <1>b, <1>c DEF Sound, OutputIsOwn, a
  <2> QED  BY <2>1, <1>7, <1>8, <1>12, <1>13 DEF OutputIsOwn
<1>24. WritersAreSound'
  <2>1. TotalsAreCommitted(w)'
    BY <1>10, <1>12 DEF TotalsAreCommitted
  <2>2. ChunkRows(w)' = {}
    BY <1>12 DEF ChunkRows, RowsOf
  <2>3. CommittedRows(i)' = 1 .. run[w].read
    BY <1>2, <1>14 DEF CommittedRows, S, R
  <2>4. (RowsOf(ShipmentsOf(i)) \cap RowsOf(ErrorsOf(i)))' = {}
    BY <1>2, <1>14 DEF CommittedRows, S, R
  <2>5. (run[w].accepted \cap RowsOf(run[w].rejected))' = {}
    BY <1>12
  <2>6. RowsAreAccountedFor(w)'
    BY <1>a, <1>2, <1>12, <2>2, <2>3, <2>4, <2>5 DEF RowsAreAccountedFor
  <2>7. \A v \in Workers \ {w} : Writing(v)' => Sound(v)'
    BY <1>a, <1>c, <1>10, <1>12, <1>15, OtherWritersStay
  <2>8. Sound(w)'
    BY <1>23, <2>1, <2>6 DEF Sound
  <2> QED  BY <2>7, <2>8 DEF WritersAreSound
<1>25. OutputOfOneAttempt'
  <2>1. \A x \in (ShipmentsOf(i) \cup ErrorsOf(i))' : x.attempt = a
    BY <1>12, <1>23 DEF OutputIsOwn
  <2> QED  BY <2>1, <1>10, <1>11, <1>15 DEF OutputOfOneAttempt
<1>26. CompletedAccountsForRows'
  BY <1>a, <1>10, <1>11, <1>15 DEF CompletedAccountsForRows
<1>27. OutputIsOld'
  <2>1. ASSUME NEW j \in Imports, NEW x \in (ShipmentsOf(j) \cup ErrorsOf(j))'
        PROVE  x.attempt <= job'[j].attempts
    <3>1. CASE j = i
      <4>1. x.attempt = a /\ job'[j].attempts = a /\ a \in Int
        BY <2>1, <3>1, <1>b, <1>10, <1>11, <1>12, <1>23 DEF OutputIsOwn, a
      <4> QED  BY <4>1
    <3>2. CASE j # i
      BY <2>1, <3>2, <1>10, <1>15 DEF OutputIsOld
    <3> QED  BY <3>1, <3>2
  <2>2. ASSUME NEW v \in Workers, run'[v].pc = "claimed", Owns(v)'
        PROVE  \A x \in (ShipmentsOf(run[v].import) \cup ErrorsOf(run[v].import))' :
                 x.attempt < run'[v].attempt
    <3>1. v # w /\ run'[v] = run[v] /\ run[v].import \in Imports /\ run[v].pc = "claimed"
      BY <2>2, <1>12 DEF RunsAreTyped
    <3>2. \A j \in Imports : job'[j].status = job[j].status /\ job'[j].attempts = job[j].attempts
      BY <1>10
    <3>3. Owns(v)
      BY <2>2, <3>1, <3>2 DEF Owns
    <3>4. run[v].import # i
      BY <1>a, <1>c, <3>1, <3>3, OneOwner
    <3>5. PICK j \in Imports : j = run[v].import
      BY <3>1
    <3>6. \A x \in (ShipmentsOf(j) \cup ErrorsOf(j))' : x.attempt < run[v].attempt
      BY <3>1, <3>3, <3>4, <3>5, <1>15 DEF OutputIsOld
    <3> QED  BY <3>1, <3>5, <3>6 DEF ShipmentsOf, ErrorsOf
  <2> QED  BY <2>1, <2>2 DEF OutputIsOld
<1> QED
  BY <1>16, <1>17, <1>20, <1>21, <1>22, <1>24, <1>25, <1>26, <1>27

-----------------------------------------------------------------------------
(* Failures, and all steps together.                                       *)

\* A failure changes the status only.
LEMMA FailureKeeps ==
    ASSUME ChunkInvariant, NEW w \in Workers,
           MarkFailed(w) \/ HandleOperationalFailure(w)
    PROVE  ChunkInvariant'
<1>1. run[w].import \in Imports
  BY DEF MarkFailed, HandleOperationalFailure, ChunkInvariant, RunsAreTyped
<1>2. /\ EndRun(w) /\ UNCHANGED <<file, shipments, errors>>
      /\ \E status \in {"PENDING", "FAILED"} : SetStatus(run[w].import, status)
  BY DEF MarkFailed, HandleOperationalFailure, RetryStatus
<1>3. /\ run' \in [Workers -> Run]
      /\ \A v \in Workers : run'[v] \in {run[v], IdleRun}
  BY <1>2, EndRunEffect DEF ChunkInvariant
<1> QED  BY <1>1, <1>2, <1>3, StatusChanges

\* So does the watchdog.
LEMMA RecoverKeeps ==
    ASSUME ChunkInvariant, NEW i \in Imports, RecoverStaleImport(i)
    PROVE  ChunkInvariant'
<1>1. /\ UNCHANGED <<file, shipments, errors, run>>
      /\ \E status \in {"PENDING", "FAILED"} : SetStatus(i, status)
  BY DEF RecoverStaleImport, RetryStatus
<1>2. run' \in [Workers -> Run] /\ \A v \in Workers : run'[v] \in {run[v], IdleRun}
  BY <1>1 DEF ChunkInvariant, TypeOK
<1> QED  BY <1>1, <1>2, StatusChanges

\* Every step keeps the invariant.
LEMMA ChunkInvariantStep ==
    ASSUME ChunkInvariant, [Next]_vars
    PROVE  ChunkInvariant'
<1>1. ASSUME NEW w \in Workers, RunStep(w)
      PROVE  ChunkInvariant'
  <2>1. CASE PrepareForReprocessing(w)   BY <2>1, PrepareKeeps
  <2>2. CASE ValidateNextChunk(w)        BY <2>2, ValidateKeeps
  <2>3. CASE ReachEndOfFile(w)           BY <2>3, ReachEndKeeps
  <2>4. CASE PersistChunk(w)             BY <2>4, PersistKeeps
  <2>5. CASE CatchIntegrityError(w)      BY <2>5, CatchKeeps
  <2>6. CASE CatchDataError(w)           BY <2>6, RunFails DEF CatchDataError
  <2>7. CASE ReclassifyDuplicates(w)     BY <2>7, ReclassifyKeeps
  <2>8. CASE RaiseOriginalError(w)       BY <2>8, RunFails DEF RaiseOriginalError
  <2>9. CASE CompleteImport(w)           BY <2>9, CompleteKeeps
  <2>10. CASE StopStaleWorker(w)         BY <2>10, RunEnds DEF StopStaleWorker
  <2>11. CASE MarkFailed(w) \/ HandleOperationalFailure(w)
    BY <2>11, FailureKeeps
  <2> QED
    BY <1>1, <2>1, <2>2, <2>3, <2>4, <2>5, <2>6, <2>7, <2>8, <2>9, <2>10, <2>11 DEF RunStep
<1>2. ASSUME NEW w \in Workers,
             Claim(w) \/ FailProcessing(w) \/ LoseDatabase(w) \/ CrashWorker(w)
      PROVE  ChunkInvariant'
  <2>1. CASE Claim(w)            BY <2>1, ClaimKeeps
  <2>2. CASE FailProcessing(w)   BY <2>2, RunFails DEF FailProcessing, Processing
  <2>3. CASE LoseDatabase(w)     BY <2>3, RunFails DEF LoseDatabase, Processing
  <2>4. CASE CrashWorker(w)      BY <2>4, RunEnds DEF CrashWorker
  <2> QED  BY <1>2, <2>1, <2>2, <2>3, <2>4
<1>3. ASSUME NEW i \in Imports, RecoverStaleImport(i)
      PROVE  ChunkInvariant'
  BY <1>3, RecoverKeeps
<1>4. CASE UNCHANGED vars
  <2>1. UNCHANGED <<file, job, shipments, errors, run>>
    BY <1>4 DEF vars
  <2> USE DEF ChunkInvariant
  <2>2. TypeOK' /\ RunsAreTyped' /\ AttemptsAreDistinct' /\ ClaimedRunsAreFresh'
    BY <2>1 DEF TypeOK, RunsAreTyped, AttemptsAreDistinct, ClaimedRunsAreFresh
  <2>3. \A i : /\ ShipmentsOf(i)' = ShipmentsOf(i) /\ ErrorsOf(i)' = ErrorsOf(i)
               /\ RowsOf(ShipmentsOf(i))' = RowsOf(ShipmentsOf(i))
               /\ RowsOf(ErrorsOf(i))' = RowsOf(ErrorsOf(i))
    BY <2>1 DEF ShipmentsOf, ErrorsOf, RowsOf
  <2>7. OutputIsOld'
    BY <2>1, <2>3, OldOutputStays
  <2>4. TablesAreFinite' /\ OutputOfOneAttempt' /\ CountersMatchRows'
        /\ CompletedAccountsForRows'
    BY <2>1, <2>3 DEF TablesAreFinite, OutputOfOneAttempt, CountersMatchRows,
          CompletedAccountsForRows
  <2>5. ShipmentsAreFirstRows'
    BY <2>1, FirstRowsStay DEF ShipmentsAreFirstRows
  <2>6. WritersAreSound'
    <3> SUFFICES ASSUME NEW v \in Workers  PROVE  Writing(v)' => Sound(v)'
      BY DEF WritersAreSound
    <3>1. run[v].pc \in Prepared => run[v].import \in Imports
      BY DEF RunsAreTyped, Prepared
    <3> QED  BY <3>1, <2>1, <2>3, WriterStays
  <2> QED  BY <2>2, <2>4, <2>5, <2>6, <2>7
<1> QED  BY <1>1, <1>2, <1>3, <1>4 DEF Next, Quiescent

\* The inductive invariant: types, ownership of runs, and what the writer of each
\* import has read, counted and committed.
THEOREM ChunkInvariantHolds == Spec => []ChunkInvariant
BY ChunkInvariantInit, ChunkInvariantStep, PTL DEF Spec

\* Tables and runs are always well-typed, for any workbooks, workers and faults.
THEOREM ChunkTypeCorrectness == Spec => []TypeOK
<1>1. ChunkInvariant => TypeOK
  BY DEF ChunkInvariant
<1> QED  BY <1>1, ChunkInvariantHolds, PTL

\* Counters always equal the committed rows (increments of _persist_chunk, totals
\* of complete() and the reset of _prepare_for_reprocessing agree).
THEOREM CountersAreExact == Spec => []CountersMatchRows
<1>1. ChunkInvariant => CountersMatchRows
  BY DEF ChunkInvariant
<1> QED  BY <1>1, ChunkInvariantHolds, PTL

\* A worker that lost its import never adds to another attempt's output.
THEOREM OneAttemptWrites == Spec => []OutputOfOneAttempt
<1>1. ChunkInvariant => OutputOfOneAttempt
  BY DEF ChunkInvariant
<1> QED  BY <1>1, ChunkInvariantHolds, PTL

\* No row of a completed import is dropped or counted twice.
THEOREM CompletedIsComplete == Spec => []CompletedAccountsForRows
<1>1. ChunkInvariant => CompletedAccountsForRows
  BY DEF ChunkInvariant
<1> QED  BY <1>1, ChunkInvariantHolds, PTL

\* Duplicates within a file are rejected across chunks (DuplicateTracker).
THEOREM OnlyFirstOccurrences == Spec => []FirstOccurrenceOnly
<1>1. ChunkInvariant => FirstOccurrenceOnly
  BY DEF ChunkInvariant, ShipmentsAreFirstRows, FirstRow, FirstOccurrenceOnly
<1> QED  BY <1>1, ChunkInvariantHolds, PTL

\* What a finished import wrote is never changed: all writers hold a PROCESSING
\* import, and other imports' reprocessing deletes nothing of it.
Stays(i) == /\ job'[i] = job[i]
            /\ ShipmentsOf(i)' = ShipmentsOf(i)
            /\ ErrorsOf(i)' = ErrorsOf(i)

\* No step touches what belongs to a finished import.
LEMMA FinishedStays ==
    ASSUME ChunkInvariant, [Next]_vars, NEW i \in Imports, Finished(i)
    PROVE  Stays(i)
<1> USE DEF ChunkInvariant
<1>1. job \in [Imports -> Job] /\ job[i].status \notin {"PENDING", "PROCESSING"}
  BY DEF TypeOK, Finished
<1>2. ASSUME NEW j \in Imports, NEW status \in {"PENDING", "FAILED"}, SetStatus(j, status), j # i,
             UNCHANGED <<shipments, errors>>
      PROVE  Stays(i)
  BY <1>1, <1>2 DEF Stays, SetStatus, ShipmentsOf, ErrorsOf
<1>3. ASSUME UNCHANGED <<job, shipments, errors>>
      PROVE  Stays(i)
  BY <1>3 DEF Stays, ShipmentsOf, ErrorsOf
<1>4. ASSUME NEW w \in Workers, RunStep(w)
      PROVE  Stays(i)
  <2>1. Owns(w) /\ run[w].pc # "idle" => run[w].import \in Imports /\ run[w].import # i
    BY <1>1 DEF Owns, RunsAreTyped
  <2>2. CASE PrepareForReprocessing(w)
    BY <1>1, <2>1, <2>2 DEF Stays, PrepareForReprocessing, ShipmentsOf, ErrorsOf
  <2>3. CASE PersistChunk(w)
    <3>1. /\ run[w].import \in Imports /\ run[w].import # i
          /\ \A s \in shipments' \ shipments : s.import # i
          /\ \A e \in errors' \ errors : e.import # i
          /\ shipments \subseteq shipments' /\ errors \subseteq errors'
      BY <2>1, <2>3 DEF PersistChunk
    <3>2. job'[i] = job[i]
      BY <1>1, <3>1, <2>3 DEF PersistChunk
    <3> QED  BY <3>1, <3>2 DEF Stays, ShipmentsOf, ErrorsOf
  <2>4. CASE CompleteImport(w)
    BY <1>1, <2>1, <2>4 DEF Stays, CompleteImport, ShipmentsOf, ErrorsOf
  <2>5. CASE MarkFailed(w)
    BY <1>2, <2>1, <2>5 DEF MarkFailed
  <2>6. CASE HandleOperationalFailure(w)
    <3>1. RetryStatus(run[w].import) \in {"PENDING", "FAILED"}
      BY DEF RetryStatus
    <3> QED  BY <1>2, <2>1, <2>6, <3>1 DEF HandleOperationalFailure
  <2>7. CASE \/ ValidateNextChunk(w) \/ ReachEndOfFile(w) \/ CatchIntegrityError(w)
             \/ CatchDataError(w) \/ ReclassifyDuplicates(w) \/ RaiseOriginalError(w)
             \/ StopStaleWorker(w)
    BY <1>3, <2>7 DEF ValidateNextChunk, ReachEndOfFile, CatchIntegrityError,
          CatchDataError, ReclassifyDuplicates, RaiseOriginalError, StopStaleWorker
  <2> QED  BY <1>4, <2>2, <2>3, <2>4, <2>5, <2>6, <2>7 DEF RunStep
<1>5. ASSUME NEW w \in Workers, Claim(w)
      PROVE  Stays(i)
  BY <1>1, <1>5 DEF Stays, Claim, ShipmentsOf, ErrorsOf
<1>6. ASSUME NEW w \in Workers, FailProcessing(w) \/ LoseDatabase(w) \/ CrashWorker(w)
      PROVE  Stays(i)
  BY <1>3, <1>6 DEF FailProcessing, LoseDatabase, CrashWorker
<1>7. ASSUME NEW j \in Imports, RecoverStaleImport(j)
      PROVE  Stays(i)
  <2>1. j # i /\ RetryStatus(j) \in {"PENDING", "FAILED"}
    BY <1>1, <1>7 DEF RecoverStaleImport, RetryStatus
  <2> QED  BY <1>2, <1>7, <2>1 DEF RecoverStaleImport
<1>8. CASE UNCHANGED vars
  BY <1>3, <1>8 DEF vars
<1> QED  BY <1>4, <1>5, <1>6, <1>7, <1>8 DEF Next, Quiescent

\* Jobs, shipments and errors of COMPLETED and FAILED imports never change: every
\* update of the repositories asks for PROCESSING and the token.
THEOREM FinishedIsFinal == Spec => FinishedOutputIsFinal
<1>1. ChunkInvariant /\ [Next]_vars =>
        [\A i \in Imports : Finished(i) =>
           /\ job'[i] = job[i]
           /\ ShipmentsOf(i)' = ShipmentsOf(i)
           /\ ErrorsOf(i)' = ErrorsOf(i)]_vars
  BY FinishedStays DEF Stays
<1> QED  BY <1>1, ChunkInvariantHolds, PTL DEF Spec, FinishedOutputIsFinal

-----------------------------------------------------------------------------
(* No code is lost.                                                        *)

\* When no writer appears or decides on more rows, nothing more is passed.
LEMMA PassedBefore ==
    ASSUME NEW i \in Imports, NEW r, Passed(i, r)',
           job'[i].status = "COMPLETED" => job[i].status = "COMPLETED",
           \A v \in Workers : Writing(v)' =>
             /\ Writing(v) /\ run'[v].import = run[v].import
             /\ run'[v].read = run[v].read /\ run'[v].accepted = run[v].accepted
    PROVE  Passed(i, r)
<1>1. \/ job'[i].status = "COMPLETED"
      \/ \E w \in Workers : /\ Writing(w)' /\ run'[w].import = i
                            /\ r <= run'[w].read /\ r \notin run'[w].accepted
  BY DEF Passed
<1> QED  BY <1>1 DEF Passed

\* A step keeps CodesAreKept when the rows it passes have their code in the table,
\* and it deletes only shipments of rows that are no longer passed.
LEMMA CodesStay ==
    ASSUME ChunkInvariant, CodesAreKept, file' = file,
           \A i \in Imports : \A r \in DOMAIN file[i] :
             FirstRow(i, r) /\ Passed(i, r)' =>
               Passed(i, r) \/ \E s \in shipments' : s.code = CodeOf(i, r),
           \A s \in shipments \ shipments' : ~Passed(s.import, s.row)'
    PROVE  CodesAreKept'
<1>1. \A i, r : (FirstRow(i, r)' <=> FirstRow(i, r)) /\ CodeOf(i, r)' = CodeOf(i, r)
  BY DEF FirstRow, CodeOf
<1>2. \A i, r : CodeOf(i, r) \in ExistingCodes' <=> \E s \in shipments' : s.code = CodeOf(i, r)
  BY DEF ExistingCodes
<1>3. ASSUME NEW i \in Imports, NEW r \in DOMAIN file[i], FirstRow(i, r), Passed(i, r)',
             CodeOf(i, r) \notin ExistingCodes',
             \A j \in Imports : \A q \in DOMAIN file[j] :
               FirstRow(j, q) /\ CodeOf(j, q) = CodeOf(i, r) => Passed(j, q)'
      PROVE  FALSE
  <2>1. \A j \in Imports : \A q \in DOMAIN file[j] :
          FirstRow(j, q) /\ CodeOf(j, q) = CodeOf(i, r) => Passed(j, q)
    BY <1>2, <1>3
  <2>2. CodeOf(i, r) \in ExistingCodes
    BY <1>3, <2>1 DEF CodesAreKept
  <2>3. PICK s \in shipments : s.code = CodeOf(i, r)
    BY <2>2 DEF ExistingCodes
  <2>4. s.import \in Imports /\ FirstRow(s.import, s.row) /\ s.code = CodeOf(s.import, s.row)
        /\ s.row \in DOMAIN file[s.import]
    BY DEF ChunkInvariant, TypeOK, ShipmentsAreFirstRows, FirstRow
  <2>5. s \in shipments'
    BY <1>3, <2>3, <2>4
  <2> QED  BY <1>2, <1>3, <2>3, <2>5
<1>4. ASSUME NEW i \in Imports, NEW r \in DOMAIN file'[i], FirstRow(i, r)', Passed(i, r)'
      PROVE  \/ CodeOf(i, r)' \in ExistingCodes'
             \/ \E j \in Imports : \E q \in DOMAIN file'[j] :
                  FirstRow(j, q)' /\ CodeOf(j, q)' = CodeOf(i, r)' /\ ~Passed(j, q)'
  BY <1>1, <1>3, <1>4
<1> QED  BY <1>4 DEF CodesAreKept

\* Steps that delete no shipment and complete no import lose no code.
LEMMA CodesStayUntouched ==
    ASSUME ChunkInvariant, CodesAreKept, file' = file, shipments \subseteq shipments',
           \A i \in Imports : job'[i].status = "COMPLETED" => job[i].status = "COMPLETED",
           \A v \in Workers : Writing(v)' =>
             /\ Writing(v) /\ run'[v].import = run[v].import
             /\ run'[v].read = run[v].read /\ run'[v].accepted = run[v].accepted
    PROVE  CodesAreKept'
<1>1. \A i \in Imports : \A r : Passed(i, r)' => Passed(i, r)
  BY PassedBefore
<1> QED  BY <1>1, CodesStay

\* A step of worker w that writes no job: others write as before.
LEMMA OthersWriteAsBefore ==
    ASSUME NEW w \in Workers, \A v \in Workers \ {w} : run'[v] = run[v],
           \A i \in Imports : /\ job'[i].status = job[i].status
                              /\ job'[i].attempts = job[i].attempts,
           RunsAreTyped
    PROVE  \A v \in Workers \ {w} : Writing(v)' =>
             /\ Writing(v) /\ run'[v] = run[v]
BY DEF Writing, Owns, Prepared, RunsAreTyped

\* A first row of the chunk that is not accepted has its code in the table.
LEMMA RejectedFirstRow ==
    ASSUME TypeOK, NEW i \in Imports, NEW n \in Nat, n <= Len(file[i]),
           NEW r \in NextChunk(i, n), FirstRow(i, r), r \notin AcceptedRows(i, n)
    PROVE  CodeOf(i, r) \in ExistingCodes
<1>1. DOMAIN file[i] = 1 .. Len(file[i]) /\ Len(file[i]) \in Nat
  BY FileType
<1>2. n < r /\ r \in DOMAIN file[i]
  BY DEF NextChunk
<1>3. \A q \in 1 .. n : q \in DOMAIN file[i] /\ q < r
  BY <1>1, <1>2
<1>4. ~DuplicateInFile(i, n, r)
  BY <1>3 DEF DuplicateInFile, FirstRow, NextChunk
<1> QED  BY <1>4 DEF AcceptedRows, IssuesOf, Unavailable, FirstRow

\* No import is completed, and none has rejected a row.
LEMMA CodesAreKeptInit == Init => CodesAreKept
<1> SUFFICES ASSUME Init  PROVE  CodesAreKept
  OBVIOUS
<1>1. \A i \in Imports : job[i].status # "COMPLETED"
  BY DEF Init
<1>2. \A w \in Workers : ~Writing(w)
  BY DEF Init, IdleRun, Writing, Prepared
<1> QED  BY <1>1, <1>2 DEF CodesAreKept, Passed

\* Steps that end a run, or send it to its failure handlers.
LEMMA CodesStayWithoutWriter ==
    ASSUME ChunkInvariant, CodesAreKept, NEW w \in Workers,
           UNCHANGED <<file, job, shipments>>,
           \/ EndRun(w)
           \/ \E pc \in {"unresolved", "failing", "handling"} : SetPc(w, pc)
    PROVE  CodesAreKept'
<1>1. run'[w].pc \notin Prepared /\ \A v \in Workers \ {w} : run'[v] = run[v]
  <2>1. CASE EndRun(w)
    BY <2>1, EndRunEffect DEF ChunkInvariant, IdleRun, Prepared
  <2>2. CASE \E pc \in {"unresolved", "failing", "handling"} : SetPc(w, pc)
    BY <2>2, SetPcEffect DEF ChunkInvariant, RunPc, Prepared
  <2> QED  BY <2>1, <2>2
<1>2. ~Writing(w)'
  BY <1>1 DEF Writing
<1>3. \A v \in Workers \ {w} : Writing(v)' => Writing(v) /\ run'[v] = run[v]
  BY <1>1, OthersWriteAsBefore DEF ChunkInvariant
<1> QED  BY <1>2, <1>3, CodesStayUntouched

\* A writer that only changes its pc.
LEMMA CodesStayWithWriter ==
    ASSUME ChunkInvariant, CodesAreKept, NEW w \in Workers,
           UNCHANGED <<file, job, shipments>>,
           run[w].pc \in Prepared, \E pc \in {"racing", "complete"} : SetPc(w, pc)
    PROVE  CodesAreKept'
<1>1. /\ run'[w].import = run[w].import /\ run'[w].attempt = run[w].attempt
      /\ run'[w].read = run[w].read /\ run'[w].accepted = run[w].accepted
      /\ \A v \in Workers \ {w} : run'[v] = run[v]
  BY SetPcEffect DEF ChunkInvariant, RunPc, Processing
<1>2. Writing(w)' => Writing(w)
  BY <1>1 DEF Writing, Owns
<1>3. \A v \in Workers \ {w} : Writing(v)' => Writing(v) /\ run'[v] = run[v]
  BY <1>1, OthersWriteAsBefore DEF ChunkInvariant
<1>4. \A v \in Workers : Writing(v)' =>
        /\ Writing(v) /\ run'[v].import = run[v].import
        /\ run'[v].read = run[v].read /\ run'[v].accepted = run[v].accepted
  <2> SUFFICES ASSUME NEW v \in Workers, Writing(v)'
               PROVE  /\ Writing(v) /\ run'[v].import = run[v].import
                      /\ run'[v].read = run[v].read /\ run'[v].accepted = run[v].accepted
    OBVIOUS
  <2>1. CASE v = w   BY <2>1, <1>1, <1>2
  <2>2. CASE v # w   BY <2>2, <1>3
  <2> QED  BY <2>1, <2>2
<1> QED  BY <1>4, CodesStayUntouched

\* A requeued or failed import has no writer any more.
LEMMA CodesStayOnStatus ==
    ASSUME ChunkInvariant, CodesAreKept, NEW i \in Imports,
           NEW status \in {"PENDING", "FAILED"}, SetStatus(i, status),
           UNCHANGED <<file, shipments>>,
           \A v \in Workers : run'[v] \in {run[v], IdleRun}
    PROVE  CodesAreKept'
<1>1. /\ job'[i].status = status /\ \A j \in Imports \ {i} : job'[j] = job[j]
  BY DEF ChunkInvariant, TypeOK, SetStatus, Job
<1>2. ASSUME NEW v \in Workers, Writing(v)'
      PROVE  Writing(v) /\ run'[v] = run[v]
  <2>1. run'[v] = run[v] /\ run[v].import \in Imports
    BY <1>2 DEF Writing, Prepared, IdleRun, ChunkInvariant, RunsAreTyped
  <2>2. run[v].import # i
    BY <1>1, <1>2, <2>1 DEF Writing, Owns
  <2> QED  BY <1>1, <1>2, <2>1, <2>2 DEF Writing, Owns
<1>3. \A j \in Imports : job'[j].status = "COMPLETED" => job[j].status = "COMPLETED"
  BY <1>1
<1> QED  BY <1>2, <1>3, CodesStayUntouched

\* A claim starts with nothing read.
LEMMA CodesStayOnClaim ==
    ASSUME ChunkInvariant, CodesAreKept, NEW w \in Workers, Claim(w)
    PROVE  CodesAreKept'
<1>1. PICK i \in Imports :
        /\ run[w].pc = "idle" /\ job[i].status = "PENDING"
        /\ job' = [job EXCEPT ![i].status = "PROCESSING",
                              ![i].attempts = job[i].attempts + 1]
        /\ run' = [run EXCEPT ![w] = [IdleRun EXCEPT !.pc = "claimed", !.import = i,
                                                     !.attempt = job[i].attempts + 1]]
        /\ UNCHANGED <<file, shipments, errors>>
  BY DEF Claim
<1>2. /\ job'[i].status = "PROCESSING" /\ job'[i].attempts = job[i].attempts + 1
      /\ \A j \in Imports \ {i} : job'[j] = job[j]
  BY <1>1 DEF ChunkInvariant, TypeOK, Job
<1>3. run'[w].pc = "claimed" /\ \A v \in Workers \ {w} : run'[v] = run[v]
  BY <1>1, IdleRunType DEF ChunkInvariant, TypeOK, Run
<1>4. ASSUME NEW v \in Workers, Writing(v)'
      PROVE  Writing(v) /\ run'[v] = run[v]
  <2>1. v # w /\ run'[v] = run[v] /\ run[v].import \in Imports
        /\ run[v].attempt \in Nat /\ run[v].attempt <= job[run[v].import].attempts
    BY <1>3, <1>4 DEF Writing, Prepared, ChunkInvariant, RunsAreTyped
  <2>2. job[i].attempts \in Nat
    BY DEF ChunkInvariant, TypeOK, Job
  <2>3. run[v].import # i
    BY <1>2, <1>4, <2>1, <2>2 DEF Writing, Owns
  <2> QED  BY <1>2, <1>4, <2>1, <2>3 DEF Writing, Owns
<1>5. \A j \in Imports : job'[j].status = "COMPLETED" => job[j].status = "COMPLETED"
  BY <1>2
<1> QED  BY <1>1, <1>4, <1>5, CodesStayUntouched

\* The reset: a writer that starts over has passed none of the rows it deletes.
LEMMA CodesStayOnPrepare ==
    ASSUME ChunkInvariant, CodesAreKept, NEW w \in Workers, PrepareForReprocessing(w)
    PROVE  CodesAreKept'
<1>a. /\ run[w].pc = "claimed" /\ Owns(w) /\ SetPc(w, "next") /\ file' = file
      /\ run[w].import \in Imports
  BY DEF PrepareForReprocessing, ChunkInvariant, RunsAreTyped
<1>b. PICK i \in Imports : i = run[w].import
  BY <1>a
<1>1. /\ job' = [job EXCEPT ![i].counts = NoCounts]
      /\ shipments' = shipments \ ShipmentsOf(i)
  BY <1>b DEF PrepareForReprocessing
<1>2. \A j \in Imports : job'[j].status = job[j].status /\ job'[j].attempts = job[j].attempts
  BY <1>1 DEF ChunkInvariant, TypeOK, Job
<1>3. /\ run'[w].pc = "next" /\ run'[w].import = i /\ run'[w].read = 0
      /\ \A v \in Workers \ {w} : run'[v] = run[v]
  BY <1>a, <1>b, SetPcEffect DEF ChunkInvariant, RunPc, Processing, ClaimedRunsAreFresh
<1>4. \A v \in Workers \ {w} : Writing(v)' => Writing(v) /\ run'[v] = run[v]
  BY <1>2, <1>3, OthersWriteAsBefore DEF ChunkInvariant
<1>5. ASSUME NEW j \in Imports, NEW r \in DOMAIN file[j], Passed(j, r)'
      PROVE  Passed(j, r) /\ j # i
  <2>1. r \in Nat /\ r > 0
    <3>1. DOMAIN file[j] = 1 .. Len(file[j]) /\ Len(file[j]) \in Nat
      BY FileType DEF ChunkInvariant
    <3> QED  BY <3>1
  <2>2. job[i].status = "PROCESSING"
    BY <1>a, <1>b DEF Owns
  <2>3. CASE job'[j].status = "COMPLETED"
    BY <1>2, <2>2, <2>3 DEF Passed
  <2>4. CASE job'[j].status # "COMPLETED"
    <3>1. PICK v \in Workers : /\ Writing(v)' /\ run'[v].import = j
                               /\ r <= run'[v].read /\ r \notin run'[v].accepted
      BY <1>5, <2>4 DEF Passed
    <3>2. v # w
      BY <1>3, <2>1, <3>1
    <3>3. Writing(v) /\ run'[v] = run[v]
      BY <1>4, <3>1, <3>2
    <3>4. j # i
      BY <1>a, <1>b, <3>1, <3>2, <3>3, OneOwner DEF Writing, Prepared, ChunkInvariant
    <3> QED  BY <3>1, <3>3, <3>4 DEF Passed
  <2> QED  BY <2>3, <2>4
<1>6. ASSUME NEW s \in shipments \ shipments'
      PROVE  ~Passed(s.import, s.row)'
  <2>1. s.import = i /\ s.import \in Imports /\ s.row \in DOMAIN file[s.import]
    BY <1>1 DEF ShipmentsOf, ChunkInvariant, TypeOK, ShipmentsAreFirstRows, FirstRow
  <2> QED  BY <1>5, <2>1
<1> QED  BY <1>a, <1>5, <1>6, CodesStay

\* A completed import has read its whole file.
LEMMA CodesStayOnComplete ==
    ASSUME ChunkInvariant, CodesAreKept, NEW w \in Workers, CompleteImport(w)
    PROVE  CodesAreKept'
<1>a. /\ run[w].pc = "complete" /\ Owns(w) /\ UNCHANGED <<file, shipments, errors>>
      /\ EndRun(w) \/ SetPc(w, "handling")
  BY DEF CompleteImport
<1>b. run[w].import \in Imports /\ run[w] \in Run /\ Sound(w)
  BY <1>a, WriterState DEF Prepared
<1>c. PICK i \in Imports : i = run[w].import
  BY <1>b
<1>1. /\ job'[i].status = "COMPLETED"
      /\ \A j \in Imports \ {i} : job'[j] = job[j]
  BY <1>c DEF CompleteImport, ChunkInvariant, TypeOK, Job
<1>2. run'[w].pc \notin Prepared /\ \A v \in Workers \ {w} : run'[v] = run[v]
  <2>1. CASE EndRun(w)
    BY <2>1, EndRunEffect DEF ChunkInvariant, IdleRun, Prepared
  <2>2. CASE SetPc(w, "handling")
    BY <2>2, SetPcEffect DEF ChunkInvariant, RunPc, Prepared
  <2> QED  BY <1>a, <2>1, <2>2
\* Its writer had passed all rows.
<1>3. ASSUME NEW r \in DOMAIN file[i]
      PROVE  Passed(i, r)
  <2>1. run[w].read = Len(file[i]) /\ run[w].accepted = {}
    BY <1>a, <1>b, <1>c DEF Sound, RowsAreAccountedFor, ChunkRows
  <2>2. r <= Len(file[i])
    BY FileType DEF ChunkInvariant
  <2> QED  BY <1>a, <1>c, <2>1, <2>2 DEF Passed, Writing, Prepared
<1>4. ASSUME NEW j \in Imports, NEW r \in DOMAIN file[j], Passed(j, r)'
      PROVE  Passed(j, r)
  <2>1. CASE j = i
    BY <1>3, <2>1
  <2>2. CASE j # i
    <3>1. CASE job'[j].status = "COMPLETED"
      BY <1>1, <2>2, <3>1 DEF Passed
    <3>2. CASE job'[j].status # "COMPLETED"
      <4>1. PICK v \in Workers : /\ Writing(v)' /\ run'[v].import = j
                                 /\ r <= run'[v].read /\ r \notin run'[v].accepted
        BY <1>4, <3>2 DEF Passed
      <4>2. run'[v] = run[v]
        BY <1>2, <4>1 DEF Writing
      <4>3. Writing(v)
        BY <1>1, <2>2, <4>1, <4>2 DEF Writing, Owns
      <4> QED  BY <4>1, <4>2, <4>3 DEF Passed
    <3> QED  BY <3>1, <3>2
  <2> QED  BY <2>1, <2>2
<1> QED  BY <1>a, <1>4, CodesStay

\* A writer w decides on more rows, or has fewer left to insert; what it newly
\* passes has its code in the table.
LEMMA CodesStayOnProgress ==
    ASSUME ChunkInvariant, CodesAreKept, NEW w \in Workers,
           run[w].pc \in Prepared, Owns(w), file' = file,
           \A j \in Imports : /\ job'[j].status = job[j].status
                              /\ job'[j].attempts = job[j].attempts,
           \A v \in Workers \ {w} : run'[v] = run[v],
           run'[w].import = run[w].import,
           shipments \subseteq shipments',
           \A r : FirstRow(run[w].import, r) /\ r <= run'[w].read /\ r \notin run'[w].accepted =>
             \/ r <= run[w].read /\ r \notin run[w].accepted
             \/ \E s \in shipments' : s.code = CodeOf(run[w].import, r)
    PROVE  CodesAreKept'
<1>1. \A v \in Workers \ {w} : Writing(v)' => Writing(v) /\ run'[v] = run[v]
  BY OthersWriteAsBefore DEF ChunkInvariant
<1>2. ASSUME NEW j \in Imports, NEW r \in DOMAIN file[j], FirstRow(j, r), Passed(j, r)'
      PROVE  Passed(j, r) \/ \E s \in shipments' : s.code = CodeOf(j, r)
  <2>1. CASE job'[j].status = "COMPLETED"
    BY <2>1 DEF Passed
  <2>2. CASE job'[j].status # "COMPLETED"
    <3>1. PICK v \in Workers : /\ Writing(v)' /\ run'[v].import = j
                               /\ r <= run'[v].read /\ r \notin run'[v].accepted
      BY <1>2, <2>2 DEF Passed
    <3>2. CASE v # w
      BY <1>1, <3>1, <3>2 DEF Passed
    <3>3. CASE v = w
      <4>1. run[w].import = j
        BY <3>1, <3>3
      <4>2. \/ r <= run[w].read /\ r \notin run[w].accepted
            \/ \E s \in shipments' : s.code = CodeOf(j, r)
        BY <1>2, <3>1, <3>3, <4>1
      <4>3. Writing(w)
        BY DEF Writing
      <4> QED  BY <4>1, <4>2, <4>3 DEF Passed
    <3> QED  BY <3>2, <3>3
  <2> QED  BY <2>1, <2>2
<1>3. \A s \in shipments \ shipments' : ~Passed(s.import, s.row)'
  OBVIOUS
<1> QED  BY <1>2, <1>3, CodesStay

\* A row found unavailable repeats an earlier row, or its code is in the table.
LEMMA CodesStayOnValidate ==
    ASSUME ChunkInvariant, CodesAreKept, NEW w \in Workers, ValidateNextChunk(w)
    PROVE  CodesAreKept'
<1>a. /\ run[w].pc \in Prepared /\ run[w].pc = "next" /\ Owns(w)
      /\ UNCHANGED <<file, job, shipments>>
  BY DEF ValidateNextChunk, Prepared
<1>b. run[w].import \in Imports /\ run[w] \in Run /\ run[w].read \in Nat /\ Sound(w)
  BY <1>a, WriterState
<1>c. PICK i \in Imports : i = run[w].import
  BY <1>b
<1> DEFINE n == run[w].read
<1>1. n <= Len(file[i])
  BY <1>b, <1>c DEF Sound, RowsAreAccountedFor
<1>2. /\ run'[w].read = n + Cardinality(NextChunk(i, n))
      /\ run'[w].accepted = AcceptedRows(i, n) /\ run'[w].import = run[w].import
      /\ \A v \in Workers \ {w} : run'[v] = run[v]
  BY <1>c DEF ValidateNextChunk, ChunkInvariant, TypeOK, Run
<1>3. (1 .. n) \cup NextChunk(i, n) = 1 .. run'[w].read
  BY <1>b, <1>1, <1>2, ChunkBounds DEF ChunkInvariant
<1>4. ASSUME NEW r, FirstRow(i, r), r <= run'[w].read, r \notin run'[w].accepted
      PROVE  \/ r <= n /\ r \notin run[w].accepted
             \/ \E s \in shipments' : s.code = CodeOf(i, r)
  <2>1. r \in 1 .. Len(file[i]) /\ Len(file[i]) \in Nat
    BY <1>4, FileType DEF FirstRow, ChunkInvariant
  <2>2. n + Cardinality(NextChunk(i, n)) \in Nat
    BY <1>b, <1>1, ChunkBounds DEF ChunkInvariant
  <2>3. r \in 1 .. run'[w].read
    BY <1>2, <1>4, <2>1, <2>2
  <2>4. CASE r \in 1 .. n
    <3>1. run[w].accepted = {}
      BY <1>a, <1>b, <1>c DEF Sound, RowsAreAccountedFor, ChunkRows
    <3> QED  BY <2>4, <3>1
  <2>5. CASE r \in NextChunk(i, n)
    <3>1. CodeOf(i, r) \in ExistingCodes
      BY <1>b, <1>1, <1>2, <1>4, <2>5, RejectedFirstRow DEF ChunkInvariant
    <3> QED  BY <1>a, <3>1 DEF ExistingCodes
  <2> QED  BY <1>3, <2>3, <2>4, <2>5
<1> QED  BY <1>a, <1>c, <1>2, <1>4, CodesStayOnProgress

\* A row moved to the errors has its code in the table.
LEMMA CodesStayOnReclassify ==
    ASSUME ChunkInvariant, CodesAreKept, NEW w \in Workers, ReclassifyDuplicates(w)
    PROVE  CodesAreKept'
<1>a. /\ run[w].pc \in Prepared /\ Owns(w) /\ UNCHANGED <<file, job, shipments>>
  BY DEF ReclassifyDuplicates, Prepared
<1>1. /\ run'[w].read = run[w].read /\ run'[w].accepted = RetainedRows(w)
      /\ run'[w].import = run[w].import
      /\ \A v \in Workers \ {w} : run'[v] = run[v]
  BY DEF ReclassifyDuplicates, ChunkInvariant, TypeOK, Run
<1>2. \A r \in run[w].accepted \ RetainedRows(w) :
        \E s \in shipments' : s.code = CodeOf(run[w].import, r)
  BY <1>a DEF RetainedRows, ExistingCodes
<1> QED  BY <1>a, <1>1, <1>2, CodesStayOnProgress

\* The accepted rows' codes enter the table.
LEMMA CodesStayOnPersist ==
    ASSUME ChunkInvariant, CodesAreKept, NEW w \in Workers, PersistChunk(w)
    PROVE  CodesAreKept'
<1>a. run[w].pc \in Prepared /\ Owns(w) /\ file' = file
  BY DEF PersistChunk, Prepared
<1>b. run[w].import \in Imports
  BY <1>a, WriterState
<1>1. /\ shipments' = shipments \cup
           ShipmentRecords(run[w].import, run[w].attempt, run[w].accepted)
      /\ job' = [job EXCEPT ![run[w].import].counts =
                   AddCounts(job[run[w].import].counts, ChunkCounts(w))]
  BY DEF PersistChunk, ShipmentRecords
<1>2. \A j \in Imports : job'[j].status = job[j].status /\ job'[j].attempts = job[j].attempts
  BY <1>b, <1>1 DEF ChunkInvariant, TypeOK, Job
<1>3. /\ run'[w].read = run[w].read /\ run'[w].import = run[w].import
      /\ \A v \in Workers \ {w} : run'[v] = run[v]
  BY DEF PersistChunk, ChunkInvariant, TypeOK, Run
<1>4. ASSUME NEW r \in run[w].accepted
      PROVE  \E s \in shipments' : s.code = CodeOf(run[w].import, r)
  <2> DEFINE s == [import |-> run[w].import, row |-> r,
                   code |-> CodeOf(run[w].import, r), attempt |-> run[w].attempt]
  <2>1. s \in shipments' /\ s.code = CodeOf(run[w].import, r)
    BY <1>1 DEF ShipmentRecords
  <2> QED  BY <2>1
<1> QED  BY <1>a, <1>1, <1>2, <1>3, <1>4, CodesStayOnProgress

\* Every step keeps what stands for each code.
LEMMA CodesAreKeptStep ==
    ASSUME ChunkInvariant, CodesAreKept, [Next]_vars
    PROVE  CodesAreKept'
<1>1. ASSUME NEW w \in Workers, RunStep(w)
      PROVE  CodesAreKept'
  <2>1. CASE PrepareForReprocessing(w)   BY <2>1, CodesStayOnPrepare
  <2>2. CASE ValidateNextChunk(w)        BY <2>2, CodesStayOnValidate
  <2>3. CASE PersistChunk(w)             BY <2>3, CodesStayOnPersist
  <2>4. CASE ReclassifyDuplicates(w)     BY <2>4, CodesStayOnReclassify
  <2>5. CASE CompleteImport(w)           BY <2>5, CodesStayOnComplete
  <2>6. CASE ReachEndOfFile(w) \/ CatchIntegrityError(w)
    BY <2>6, CodesStayWithWriter DEF ReachEndOfFile, CatchIntegrityError, Prepared
  <2>7. CASE CatchDataError(w) \/ RaiseOriginalError(w) \/ StopStaleWorker(w)
    BY <2>7, CodesStayWithoutWriter
       DEF CatchDataError, RaiseOriginalError, StopStaleWorker
  <2>8. CASE MarkFailed(w) \/ HandleOperationalFailure(w)
    <3>1. /\ EndRun(w) /\ UNCHANGED <<file, shipments>> /\ run[w].import \in Imports
          /\ \E status \in {"PENDING", "FAILED"} : SetStatus(run[w].import, status)
      BY <2>8 DEF MarkFailed, HandleOperationalFailure, RetryStatus, ChunkInvariant,
                  RunsAreTyped
    <3>2. \A v \in Workers : run'[v] \in {run[v], IdleRun}
      BY <3>1, EndRunEffect DEF ChunkInvariant
    <3> QED  BY <3>1, <3>2, CodesStayOnStatus
  <2> QED
    BY <1>1, <2>1, <2>2, <2>3, <2>4, <2>5, <2>6, <2>7, <2>8 DEF RunStep
<1>2. ASSUME NEW w \in Workers, Claim(w)
      PROVE  CodesAreKept'
  BY <1>2, CodesStayOnClaim
<1>3. ASSUME NEW w \in Workers, FailProcessing(w) \/ LoseDatabase(w) \/ CrashWorker(w)
      PROVE  CodesAreKept'
  BY <1>3, CodesStayWithoutWriter DEF FailProcessing, LoseDatabase, CrashWorker
<1>4. ASSUME NEW i \in Imports, RecoverStaleImport(i)
      PROVE  CodesAreKept'
  <2>1. /\ UNCHANGED <<file, shipments, run>>
        /\ \E status \in {"PENDING", "FAILED"} : SetStatus(i, status)
    BY <1>4 DEF RecoverStaleImport, RetryStatus
  <2> QED  BY <2>1, CodesStayOnStatus
<1>5. CASE UNCHANGED vars
  <2>1. UNCHANGED <<file, job, shipments, run>>
    BY <1>5 DEF vars
  <2> QED  BY <2>1, CodesStayUntouched DEF Writing, Owns
<1> QED  BY <1>1, <1>2, <1>3, <1>4, <1>5 DEF Next, Quiescent

\* When all imports are COMPLETED, every code that a row without issues brings is
\* in the table, although imports reject codes because of shipments that a retry
\* then deletes (_prepare_for_reprocessing against find_existing_codes).
THEOREM CodesAreNotLost == Spec => []NoCodeIsLost
<1>1. ChunkInvariant /\ CodesAreKept => NoCodeIsLost
  <2> SUFFICES ASSUME ChunkInvariant, CodesAreKept,
                      \A j \in Imports : job[j].status = "COMPLETED",
                      NEW i \in Imports, NEW r \in DOMAIN file[i], Insertable(i, r)
               PROVE  CodeOf(i, r) \in ExistingCodes
    BY DEF NoCodeIsLost
  <2>1. \A j \in Imports : \A q : Passed(j, q)
    BY DEF Passed
  <2>2. file[i][r] \in WorkbookRow
    BY FileType DEF ChunkInvariant
  <2>3. FirstRow(i, r)
    BY <2>2, AcceptedValues DEF Insertable, FirstRow, CodeOf
  <2> QED  BY <2>1, <2>3 DEF CodesAreKept
<1>2. Init => CodesAreKept
  BY CodesAreKeptInit
<1>3. ChunkInvariant /\ CodesAreKept /\ [Next]_vars => CodesAreKept'
  BY CodesAreKeptStep
<1> QED  BY <1>1, <1>2, <1>3, ChunkInvariantHolds, PTL DEF Spec
=============================================================================
