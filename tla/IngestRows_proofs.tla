------------------------- MODULE IngestRows_proofs -------------------------
(* Proofs about IngestRows, for every stream, every set of servers and     *)
(* every size of a group and of a chunk.                                   *)
EXTENDS IngestRows, FiniteSetTheorems, WellFoundedInduction, TLAPS

(* The drivers that account for what they applied.  The one that tells a   *)
(* set's status and no processed count has rows inserted twice, as the run *)
(* over such drivers shows.                                                *)
Accountable == \A s \in Servers : s.arrays # "statusOnly"

(* The rows ids, and nothing else, go into the table or the transaction.   *)
Added(ids) ==
  /\ table' \in [Rows -> Nat] /\ pending' \in [Rows -> Nat]
  /\ \A r \in Rows : table'[r] + pending'[r] = table[r] + pending[r] + (IF r \in ids THEN 1 ELSE 0)
  /\ \A r \in Rows : pending[r] <= pending'[r]
  /\ \A r \in Rows : r \notin ids => table'[r] = table[r]
  /\ InTxn => table' = table
  /\ ~InTxn => pending' = pending
  /\ aborted' \in BOOLEAN /\ (aborted' => InTxn)

Reasons == {"none", "data", "aborted", "stream", "commit", "uncounted", "client"}
Pcs     == {"next", "unnest", "multirow", "group", "arrays", "chunk", "rest", "restGroup",
            "rows", "end", "done"}

-----------------------------------------------------------------------------
(* The operators of the model.                                             *)

(* The parts of TypeOK that the arguments about rows use.                  *)
LEMMA TypeFacts ==
  ASSUME TypeOK
  PROVE  /\ base \in Nat /\ len \in Nat /\ row \in Nat /\ row <= len /\ from \in Nat
         /\ from <= len /\ total \in Nat /\ nbatch \in Nat /\ nbatch <= Len(stream)
         /\ base + len <= MaxRows /\ MaxRows \in Nat /\ Rows = 1..MaxRows
         /\ table \in [Rows -> Nat] /\ pending \in [Rows -> Nat] /\ retry \subseteq Rows
         /\ Ids(0, len) \subseteq Rows
<1>1. Len(stream) \in Nat
  BY IngestAssumption DEF TypeOK
<1>2. /\ base \in Nat /\ len \in Nat /\ row \in Nat /\ row <= len /\ from \in Nat
      /\ from <= len /\ total \in Nat /\ nbatch \in Nat /\ nbatch <= Len(stream)
      /\ base + len <= MaxRows /\ MaxRows \in Nat
  BY <1>1, IngestAssumption DEF TypeOK
<1>3. Rows = 1..MaxRows /\ Ids(0, len) \subseteq Rows
  BY <1>2 DEF Rows, Ids
<1> QED BY <1>2, <1>3 DEF TypeOK

(* Numbered rows of the batch.                                             *)
LEMMA IdsFacts ==
  ASSUME base \in Nat, NEW first \in Nat, NEW n \in Nat
  PROVE  /\ IsFiniteSet(Ids(first, n)) /\ Cardinality(Ids(first, n)) = n
         /\ \A r : r \in Ids(first, n) <=> r \in Nat /\ base + first < r /\ r <= base + first + n
<1>1. base + first + 1 \in Int /\ base + first + n \in Int
  OBVIOUS
<1>2. /\ IsFiniteSet(Ids(first, n))
      /\ Cardinality(Ids(first, n))
           = IF base + first + 1 > base + first + n THEN 0
             ELSE (base + first + n) - (base + first + 1) + 1
  BY <1>1, FS_Interval, Zenon DEF Ids
<1>3. \A r : r \in Ids(first, n) <=> r \in Nat /\ base + first < r /\ r <= base + first + n
  BY DEF Ids
<1> QED BY <1>2, <1>3

(* The lowest of the rows to retry is one of them.                         *)
LEMMA LowestRow ==
  ASSUME NEW T \in SUBSET Rows, T # {}
  PROVE  (CHOOSE r \in T : \A q \in T : r <= q) \in T
<1>1. T \subseteq Nat
  BY IngestAssumption DEF Rows
<1>2. PICK x \in T : \A y \in T : ~(<<y, x>> \in OpToRel(<, Nat))
  BY <1>1, WFMin, NatLessThanWellFounded
<1>3. \A y \in T : x <= y
  <2> SUFFICES ASSUME NEW y \in T PROVE x <= y
    OBVIOUS
  <2>1. x \in Nat /\ y \in Nat
    BY <1>1
  <2>2. y < x => <<y, x>> \in OpToRel(<, Nat)
    BY <2>1, Zenon DEF OpToRel
  <2>3. ~(y < x)
    BY <1>2, <2>2, Zenon
  <2> QED BY <2>1, <2>3
<1> QED BY <1>3

(* A server that takes a statement adds its rows.                          *)
LEMMA InsertAdds ==
  ASSUME TypeOK, Committed, NEW ids, Insert(ids)
  PROVE  Added(ids)
<1>1. /\ table \in [Rows -> Nat] /\ pending \in [Rows -> Nat] /\ aborted \in BOOLEAN
      /\ aborted' = aborted /\ (aborted => InTxn)
  BY DEF TypeOK, Insert, Committed
<1>2. CASE InTxn
  <2>1. pending' = [r \in Rows |-> IF r \in ids THEN pending[r] + 1 ELSE pending[r]] /\ table' = table
    BY <1>2 DEF Insert
  <2>2. \A r \in Rows : pending[r] \in Nat /\ table[r] \in Nat
    BY <1>1
  <2> QED BY <1>1, <1>2, <2>1, <2>2 DEF Added
<1>3. CASE ~InTxn
  <2>1. table' = [r \in Rows |-> IF r \in ids THEN table[r] + 1 ELSE table[r]] /\ pending' = pending
    BY <1>3 DEF Insert
  <2>2. \A r \in Rows : pending[r] \in Nat /\ table[r] \in Nat
    BY <1>1
  <2> QED BY <1>1, <1>3, <2>1, <2>2 DEF Added
<1> QED BY <1>2, <1>3

(* A refused array adds what it applied before it was refused.             *)
LEMMA InsertAndRefuseAdds ==
  ASSUME TypeOK, Committed, NEW ids, InsertAndRefuse(ids)
  PROVE  Added(ids)
<1>1. CASE Poisoned(TRUE)
  <2>1. /\ table \in [Rows -> Nat] /\ pending \in [Rows -> Nat] /\ InTxn
    BY <1>1 DEF TypeOK, Poisoned, Committed
  <2>2. /\ pending' = [r \in Rows |-> IF r \in ids THEN pending[r] + 1 ELSE pending[r]]
        /\ aborted' = TRUE /\ table' = table
    BY <1>1 DEF InsertAndRefuse
  <2>3. \A r \in Rows : pending[r] \in Nat /\ table[r] \in Nat
    BY <2>1
  <2> QED BY <2>1, <2>2, <2>3 DEF Added
<1>2. CASE ~Poisoned(TRUE)
  BY <1>2, InsertAdds DEF InsertAndRefuse
<1> QED BY <1>1, <1>2

(* A statement that changes no row may still abort the transaction.        *)
LEMMA NothingAdded ==
  ASSUME TypeOK, Committed, table' = table, pending' = pending,
         aborted' \in BOOLEAN, aborted' => InTxn
  PROVE  Added({})
<1>1. table \in [Rows -> Nat] /\ pending \in [Rows -> Nat]
  BY DEF TypeOK
<1>2. \A r \in Rows : table[r] \in Nat /\ pending[r] \in Nat
  BY <1>1
<1> QED BY <1>1, <1>2 DEF Added

(* Only a transaction is ever aborted.                                     *)
LEMMA PoisonedFacts ==
  ASSUME TypeOK, Committed
  PROVE  /\ Poisoned(TRUE) => InTxn
         /\ Poisoned(FALSE) => InTxn
         /\ \A p \in BOOLEAN : Poisoned(p) \in BOOLEAN /\ (Poisoned(p) => InTxn)
BY DEF TypeOK, Committed, Poisoned


(* What a driver says of an array execute: the rows that landed and those  *)
(* it marked as failed are different ones, and together they are the       *)
(* leading rows that it counts as done.                                    *)
LEMMA OutcomeFacts ==
  ASSUME Accountable, TypeOK, NEW n \in Nat, n >= 1, NEW o \in ArrayOutcomes(Ids(row, n))
  PROVE  /\ o.landed \cap o.failed = {} /\ o.landed \cup o.failed \subseteq Ids(row, n)
         /\ Counted(o) \in 0..n
         /\ Counted(o) > 0 => o.landed \cup o.failed = Ids(row, Counted(o))
<1> DEFINE ids   == Ids(row, n)
           lo    == base + row + 1
           stops == InTxn /\ server.aborts
           good  == IF aborted THEN {}
                    ELSE {r \in ids \ bad : stops => \A b \in bad \cap ids : r < b}
           say(landed, failed, processed, known) ==
             [landed |-> landed, failed |-> failed, processed |-> processed, known |-> known]
<1>1. /\ base \in Nat /\ row \in Nat /\ server.arrays # "statusOnly"
  BY DEF TypeOK, Accountable
<1>2. /\ Cardinality(ids) = n /\ good \subseteq ids
      /\ \A r : r \in ids <=> r \in Nat /\ base + row < r /\ r <= base + row + n
  BY <1>1, IdsFacts
<1>3. ASSUME NEW m \in 1..n
      PROVE  /\ lo..(lo + m - 1) = Ids(row, m) /\ lo..(lo + m - 1) \subseteq ids
  BY <1>1, <1>2 DEF Ids
<1>4. CASE server.arrays = "setwise"
  <2>1. PICK odd \in IF stops THEN {{}} ELSE {{}, {lo} \cap good} :
             o = say(good \ odd, (ids \ good) \cup odd, n, TRUE)
    BY <1>2, <1>4 DEF ArrayOutcomes
  <2>2. odd \subseteq good
    BY <2>1
  <2>3. /\ o.landed = good \ odd /\ o.failed = (ids \ good) \cup odd /\ Counted(o) = n
    BY <2>1 DEF Counted
  <2> HIDE DEF good, ids
  <2> QED BY <1>2, <2>2, <2>3 DEF ids
<1>5. CASE server.arrays = "short"
  <2>1. PICK m \in 1..n :
             o = say(good \cap (lo..(lo + m - 1)), (lo..(lo + m - 1)) \ good, m, TRUE)
    BY <1>2, <1>5 DEF ArrayOutcomes
  <2>2. lo..(lo + m - 1) = Ids(row, m) /\ Ids(row, m) \subseteq ids
    BY <1>3
  <2> HIDE DEF good, lo, ids
  <2>3. o.landed = good \cap Ids(row, m) /\ o.failed = Ids(row, m) \ good /\ o.processed = m
    BY <2>1, <2>2
  <2>4. Counted(o) = m
    BY <2>3 DEF Counted
  <2> QED BY <2>2, <2>3, <2>4 DEF ids
<1>6. CASE server.arrays = "silent"
  <2>1. o = say(ids, {}, 0, FALSE)
    BY <1>6 DEF ArrayOutcomes
  <2> QED BY <2>1 DEF Counted
<1>7. CASE server.arrays \notin {"setwise", "statusOnly", "short", "silent"}
  <2>1. o = say(ids, {}, n, TRUE)
    BY <1>2, <1>7 DEF ArrayOutcomes
  <2>2. o.landed = ids /\ o.failed = {} /\ Counted(o) = n
    BY <2>1 DEF Counted
  <2> QED BY <2>2
<1> QED BY <1>1, <1>4, <1>5, <1>6, <1>7

-----------------------------------------------------------------------------
(* A step inside a batch, whatever form it belongs to: rows that were not  *)
(* in yet go in, or none.                                                  *)

Fresh(ids) ==
  /\ ids \subseteq Ids(0, len) /\ (ids # {} => nbatch > 0)
  /\ \A r \in ids : table[r] + pending[r] = 0

(* Such a step keeps the batch where it is, inserts nothing twice, and     *)
(* leaves outside a transaction at most the lone first row.                *)
LEMMA StepInBatch ==
  ASSUME IngestInv, NEW ids, Fresh(ids), Added(ids),
         UNCHANGED <<inputVars, batchVars, seen, txnActive>>,
         pc # "done", pc' # "done", pc' \in {"next", "end"} \/ nbatch > 0
  PROVE  Placed' /\ NoDuplicateRows' /\ Committed'
<1>1. /\ stream' = stream /\ nbatch' = nbatch /\ base' = base /\ len' = len /\ seen' = seen
      /\ txnActive' = txnActive /\ autocommit' = autocommit /\ server' = server
      /\ base \in Nat /\ len \in Nat /\ nbatch \in Nat /\ base + len <= MaxRows /\ MaxRows \in Nat
      /\ table \in [Rows -> Nat] /\ pending \in [Rows -> Nat] /\ Rows = 1..MaxRows
  BY TypeFacts DEF inputVars, batchVars, IngestInv
<1>2. Placed'
  BY <1>1 DEF IngestInv, Placed
<1>3. ids \subseteq Rows
  <2>1. \A r \in ids : r \in Nat /\ base < r /\ r <= base + len
    BY <1>1, IdsFacts DEF Fresh
  <2> QED BY <1>1, <2>1
<1>4. NoDuplicateRows'
  <2> SUFFICES ASSUME NEW r \in Rows PROVE table'[r] + pending'[r] <= 1
    BY DEF NoDuplicateRows
  <2>1. table[r] + pending[r] <= 1 /\ (r \in ids => table[r] + pending[r] = 0)
    BY DEF IngestInv, NoDuplicateRows, Fresh
  <2>2. table'[r] + pending'[r] = table[r] + pending[r] + (IF r \in ids THEN 1 ELSE 0)
    BY DEF Added
  <2> QED BY <1>1, <2>1, <2>2
<1>5. InTxn' = InTxn /\ MayBegin' = MayBegin
  BY <1>1 DEF InTxn, MayBegin
<1>6. /\ aborted' => InTxn'
      /\ ~InTxn' => pending' = Empty
      /\ MayBegin' /\ ~txnActive' /\ pc' # "done" => seen' <= 1
  BY <1>1, <1>5 DEF Added, IngestInv, Committed, Empty
<1>7. ASSUME MayBegin
      PROVE  \/ table' = Empty
             \/ nbatch' > 0 /\ stream'[1] = 1 /\ \A r \in Rows \ {1} : table'[r] = 0
  <2>1. CASE txnActive
    <3>1. table' = table
      BY <2>1 DEF Added, InTxn
    <3> QED BY <1>1, <1>7, <3>1 DEF IngestInv, Committed
  <2>2. CASE ids = {}
    <3>1. \A r \in Rows : table'[r] = table[r]
      BY <2>2 DEF Added
    <3>2. table' = table
      BY <1>1, <3>1 DEF Added
    <3> QED BY <1>1, <1>7, <3>2 DEF IngestInv, Committed
  <2>3. CASE ~txnActive /\ ids # {}
    <3>1. seen <= 1 /\ seen = base + len /\ nbatch > 0 /\ len = stream[nbatch] /\ nbatch <= base + 1
      BY <1>7, <2>3 DEF IngestInv, Committed, Placed, Fresh
    <3>2. len >= 1
      BY <1>1, <2>3, IdsFacts DEF Fresh
    <3>3. base = 0 /\ len = 1 /\ nbatch = 1 /\ stream[1] = 1
      BY <1>1, <3>1, <3>2
    <3>4. \A r \in ids : r = 1
      BY <1>1, <3>3, IdsFacts DEF Fresh
    <3>5. \A r \in Rows \ {1} : table'[r] = table[r] /\ table[r] = 0
      BY <1>7, <3>4 DEF Added, IngestInv, Committed, Empty
    <3> QED BY <1>1, <3>3, <3>5
  <2> QED BY <2>1, <2>2, <2>3
<1>8. Committed'
  BY <1>1, <1>5, <1>6, <1>7 DEF Committed, Rows, Empty
<1> QED BY <1>2, <1>4, <1>8


(* As long as nothing fails: a step that leaves the rows alone ...         *)
LEMMA RowsStay ==
  ASSUME IngestInv, Added({}), base' = base, len' = len, row' = row, retry' = retry, total' = total,
         status = "ok", pc' \in {"next", "end", "done"} => row = len /\ retry = {}
  PROVE  RowsIn'
<1>1. /\ \A r \in Rows : table'[r] + pending'[r] = table[r] + pending[r]
      /\ table \in [Rows -> Nat] /\ pending \in [Rows -> Nat]
  BY DEF Added, IngestInv, TypeOK
<1>2. Ids(0, row)' = Ids(0, row)
  BY DEF Ids
<1> QED BY <1>1, <1>2 DEF IngestInv, RowsIn, Rows

(* ... one that gets past the rows of which some landed and the others are *)
(* to be tried again ...                                                   *)
LEMMA RowsGoOn ==
  ASSUME IngestInv, NEW landed, NEW failed, NEW k \in Nat, row + k <= len,
         landed \cap failed = {}, landed \cup failed = Ids(row, k), Added(landed),
         base' = base, len' = len, row' = row + k, retry' = retry \cup failed,
         total' = total + Cardinality(landed),
         status = "ok", pc' \notin {"next", "end", "done"}
  PROVE  RowsIn'
<1>1. /\ base \in Nat /\ row \in Nat /\ len \in Nat /\ total \in Nat /\ base + len <= MaxRows
      /\ table \in [Rows -> Nat] /\ pending \in [Rows -> Nat] /\ Rows = 1..MaxRows
      /\ retry \subseteq Rows /\ MaxRows \in Nat
  BY IngestAssumption DEF IngestInv, TypeOK, Rows
<1>2. /\ retry \subseteq Ids(0, row) /\ total + Cardinality(retry) = base + row
      /\ \A r \in Rows : table[r] + pending[r] = IF r <= base + row /\ r \notin retry THEN 1 ELSE 0
  BY DEF IngestInv, RowsIn
<1>3. /\ IsFiniteSet(Ids(row, k)) /\ Cardinality(Ids(row, k)) = k /\ IsFiniteSet(Ids(0, row))
      /\ \A r : r \in Ids(row, k) <=> r \in Nat /\ base + row < r /\ r <= base + row + k
      /\ \A r : r \in Ids(0, row) <=> r \in Nat /\ base < r /\ r <= base + row
  <2>1. 0 \in Nat
    OBVIOUS
  <2>2. /\ IsFiniteSet(Ids(row, k)) /\ Cardinality(Ids(row, k)) = k /\ IsFiniteSet(Ids(0, row))
    BY <1>1, <2>1, IdsFacts, Zenon
  <2>3. \A r : r \in Ids(row, k) <=> r \in Nat /\ base + row < r /\ r <= base + row + k
    BY <1>1 DEF Ids
  <2>4. \A r : r \in Ids(0, row) <=> r \in Nat /\ base < r /\ r <= base + row
    BY <1>1 DEF Ids
  <2> QED BY <2>2, <2>3, <2>4, Zenon
<1>4. \A r : r \in Ids(0, row)' <=> r \in Nat /\ base < r /\ r <= base + row + k
  BY <1>1 DEF Ids
<1>5. retry' \subseteq Ids(0, row)'
  <2> SUFFICES ASSUME NEW r \in retry' PROVE r \in Ids(0, row)'
    OBVIOUS
  <2>1. r \in Ids(0, row) \/ r \in Ids(row, k)
    BY <1>2
  <2> QED BY <1>1, <2>1 DEF Ids
<1>6. /\ IsFiniteSet(retry) /\ IsFiniteSet(landed) /\ IsFiniteSet(failed)
  BY <1>2, <1>3, FS_Subset
<1>7. /\ Cardinality(retry') = Cardinality(retry) + Cardinality(failed)
      /\ Cardinality(landed) + Cardinality(failed) = k
  <2>1. retry \cap failed = {}
    BY <1>1, <1>2, <1>3
  <2>2. /\ Cardinality(retry \cup failed)
             = Cardinality(retry) + Cardinality(failed) - Cardinality(retry \cap failed)
        /\ Cardinality(landed \cup failed)
             = Cardinality(landed) + Cardinality(failed) - Cardinality(landed \cap failed)
    BY <1>6, FS_Union
  <2>3. /\ Cardinality(retry \cap failed) = 0 /\ Cardinality(landed \cap failed) = 0
        /\ Cardinality(retry) \in Nat /\ Cardinality(landed) \in Nat /\ Cardinality(failed) \in Nat
    BY <1>6, <2>1, FS_EmptySet, FS_CardinalityType
  <2> QED BY <1>3, <2>2, <2>3
<1>8. total' + Cardinality(retry') = base' + row'
  <2> DEFINE a == Cardinality(retry)  b == Cardinality(landed)  c == Cardinality(failed)
  <2>1. a \in Nat /\ b \in Nat /\ c \in Nat
    BY <1>6, FS_CardinalityType
  <2>2. Cardinality(retry') = a + c /\ b + c = k /\ total + a = base + row
    BY <1>2, <1>7
  <2> HIDE DEF a, b, c
  <2>3. (total + b) + (a + c) = base + (row + k)
    BY <1>1, <2>1, <2>2
  <2>4. total' = total + b
    BY DEF b
  <2> QED BY <2>2, <2>3, <2>4, Zenon
<1>9. ASSUME NEW r \in Rows
      PROVE  table'[r] + pending'[r] = IF r <= base' + row' /\ r \notin retry' THEN 1 ELSE 0
  <2>1. table'[r] + pending'[r] = table[r] + pending[r] + (IF r \in landed THEN 1 ELSE 0)
    BY DEF Added
  <2>2. table[r] + pending[r] = IF r <= base + row /\ r \notin retry THEN 1 ELSE 0
    BY <1>2
  <2>3. r \in Nat /\ (r \in retry => r <= base + row) /\ (r \in failed => r \in Ids(row, k))
        /\ (r \in landed => r \in Ids(row, k))
    BY <1>1, <1>2, <1>3
  <2>4. CASE r \in Ids(row, k)
    <3>1. base + row < r /\ r <= base + row + k /\ (r \in landed <=> r \notin failed)
      BY <1>3, <2>4
    <3>2. ~(r <= base + row)
      BY <1>1, <2>3, <3>1
    <3>3. table[r] + pending[r] = 0 /\ r \notin retry
      BY <2>2, <2>3, <3>2
    <3>4. table'[r] + pending'[r] = IF r \in landed THEN 1 ELSE 0
      BY <2>1, <3>3
    <3>5. r <= base' + row' /\ (r \notin retry' <=> r \in landed)
      BY <1>1, <2>3, <3>1, <3>3
    <3> QED BY <3>4, <3>5
  <2>5. CASE r \notin Ids(row, k)
    <3>1. r <= base + row \/ r > base + row + k
      BY <1>1, <2>3, <2>5 DEF Ids
    <3>2. r \notin landed /\ r \notin failed
      BY <2>3, <2>5
    <3>3. table'[r] + pending'[r] = IF r <= base + row /\ r \notin retry THEN 1 ELSE 0
      BY <2>1, <2>2, <3>2
    <3>4. r \notin retry' <=> r \notin retry
      BY <3>2
    <3>5. r <= base' + row' <=> r <= base + row
      BY <1>1, <2>3, <3>1
    <3> QED BY <3>3, <3>4, <3>5
  <2> QED BY <2>4, <2>5
<1> QED BY <1>5, <1>8, <1>9 DEF RowsIn, Rows

(* ... and one that inserts a row to be tried again.                       *)
LEMMA RowsRetried ==
  ASSUME IngestInv, NEW r \in retry, Added({r}),
         base' = base, len' = len, row' = row, retry' = retry \ {r}, total' = total + 1,
         status = "ok", pc' \notin {"next", "end", "done"}
  PROVE  RowsIn'
<1>1. /\ base \in Nat /\ row \in Nat /\ total \in Nat /\ Rows = 1..MaxRows /\ MaxRows \in Nat
      /\ table \in [Rows -> Nat] /\ pending \in [Rows -> Nat] /\ retry \subseteq Rows
  BY TypeFacts DEF IngestInv
<1>2. /\ retry \subseteq Ids(0, row) /\ total + Cardinality(retry) = base + row
      /\ \A q \in Rows : table[q] + pending[q] = IF q <= base + row /\ q \notin retry THEN 1 ELSE 0
  BY DEF IngestInv, RowsIn
<1>3. /\ IsFiniteSet(Ids(0, row)) /\ Ids(0, row)' = Ids(0, row)
      /\ \A q : q \in Ids(0, row) <=> q \in Nat /\ base < q /\ q <= base + row
  <2>1. 0 \in Nat
    OBVIOUS
  <2>2. IsFiniteSet(Ids(0, row))
    BY <1>1, <2>1, IdsFacts, Zenon
  <2> QED BY <1>1, <2>2 DEF Ids
<1>4. /\ Cardinality(retry \ {r}) = Cardinality(retry) - 1 /\ Cardinality(retry) \in Nat
  BY <1>2, <1>3, FS_Subset, FS_RemoveElement, FS_CardinalityType
<1>5. total' + Cardinality(retry') = base' + row'
  BY <1>1, <1>2, <1>4
<1>6. ASSUME NEW q \in Rows
      PROVE  table'[q] + pending'[q] = IF q <= base' + row' /\ q \notin retry' THEN 1 ELSE 0
  <2>1. table'[q] + pending'[q] = table[q] + pending[q] + (IF q \in {r} THEN 1 ELSE 0)
    BY DEF Added
  <2>2. table[q] + pending[q] = IF q <= base + row /\ q \notin retry THEN 1 ELSE 0
    BY <1>2
  <2>3. CASE q = r
    <3>1. q <= base + row /\ q \in retry /\ q \notin retry'
      BY <1>2, <1>3, <2>3
    <3>2. table'[q] + pending'[q] = 1
      BY <2>1, <2>2, <2>3, <3>1
    <3> QED BY <3>1, <3>2
  <2>4. CASE q # r
    <3>1. q \in retry' <=> q \in retry
      BY <2>4
    <3>2. table'[q] + pending'[q] = IF q <= base + row /\ q \notin retry THEN 1 ELSE 0
      BY <2>1, <2>2, <2>4
    <3> QED BY <3>1, <3>2
  <2> QED BY <2>3, <2>4
<1> QED BY <1>2, <1>3, <1>5, <1>6 DEF RowsIn, Rows


-----------------------------------------------------------------------------
(* The steps, one by one.                                                  *)

(* A step inside a batch has to keep the types of what it changes.         *)
LEMMA TypeInBatch ==
  ASSUME TypeOK, UNCHANGED <<inputVars, batchVars, seen, txnActive>>,
         table' \in [Rows -> Nat], pending' \in [Rows -> Nat], aborted' \in BOOLEAN,
         row' \in 0..len, from' \in 0..len, applied' \in BOOLEAN, total' \in Nat,
         status' \in {"ok", "error"}, why' \in Reasons,
         mrReady' \in BOOLEAN, mrActive' \in BOOLEAN, mrRows' \in 1..GroupRows,
         aiReady' \in BOOLEAN, aiActive' \in BOOLEAN, useArray' \in BOOLEAN,
         retry' \subseteq Rows, pc' \in Pcs
  PROVE  TypeOK'
BY DEF TypeOK, inputVars, batchVars, Reasons, Pcs, Rows

(* No row is fresh to be inserted: a step that inserts none may be any.    *)
LEMMA NoneIsFresh == Fresh({})
BY DEF Fresh

(* A step that inserts nothing and leaves the transaction as it is keeps   *)
(* the invariant, if it leaves the row alone too or fails.                 *)
LEMMA QuietSteps ==
  ASSUME IngestInv, TypeOK', AppliedIsKnown', ErrorsInsertNothing', Added({}),
         UNCHANGED <<inputVars, batchVars, seen, txnActive, total, retry>>,
         pc # "done", pc' # "done", pc' \in {"next", "end"} \/ nbatch > 0,
         \/ status' = "error"
         \/ status = "ok" /\ row' = row /\ (pc' \in {"next", "end"} => row = len /\ retry = {})
  PROVE  IngestInv'
<1>1. Placed' /\ NoDuplicateRows' /\ Committed'
  BY NoneIsFresh, StepInBatch
<1>2. RowsIn'
  <2>1. CASE status' = "error"
    BY <2>1 DEF RowsIn
  <2>2. CASE status = "ok" /\ row' = row /\ (pc' \in {"next", "end"} => row = len /\ retry = {})
    BY <2>2, RowsStay DEF batchVars
  <2> QED BY <2>1, <2>2
<1> QED BY <1>1, <1>2 DEF IngestInv

(* The end of the stream.                                                  *)
LEMMA StreamEndsKeeps ==
  ASSUME IngestInv, StreamEnds
  PROVE  IngestInv'
<1>1. /\ UNCHANGED <<inputVars, serverVars, batchVars, row, from, seen, applied, txnActive,
                     total, formVars, retry>>
      /\ pc = "next" /\ pc' = "end" /\ status' \in {"ok", "error"}
      /\ (status' = status /\ why' = why) \/ (status' = "error" /\ why' = "stream")
  BY DEF StreamEnds, IngestInv, TypeOK
<1>2. TypeOK'
  BY <1>1 DEF IngestInv, TypeOK, inputVars, serverVars, batchVars, formVars
<1>3. AppliedIsKnown' /\ ErrorsInsertNothing'
  BY <1>1 DEF IngestInv, AppliedIsKnown, ErrorsInsertNothing, batchVars
<1>4. Added({})
  <2>1. table' = table /\ pending' = pending /\ aborted' = aborted
    BY <1>1 DEF serverVars
  <2> QED BY <2>1, NothingAdded DEF IngestInv, TypeOK, Committed
<1>5. status = "ok" /\ row' = row /\ (row = len /\ retry = {})
  BY <1>1 DEF IngestInv, ErrorsInsertNothing, TypeOK, RowsIn
<1> QED BY <1>1, <1>2, <1>3, <1>4, <1>5, QuietSteps

(* The end of a batch.                                                     *)
LEMMA BatchDoneKeeps ==
  ASSUME IngestInv, BatchDone
  PROVE  IngestInv'
<1>1. /\ UNCHANGED <<inputVars, serverVars, batchVars, row, from, seen, applied, txnActive,
                     total, status, why, formVars, retry>>
      /\ pc = "rows" /\ pc' = IF status = "ok" THEN "next" ELSE "end"
      /\ (status # "ok" \/ (row >= len /\ retry = {}))
  BY DEF BatchDone
<1>2. TypeOK'
  BY <1>1 DEF IngestInv, TypeOK, inputVars, serverVars, batchVars, formVars
<1>3. AppliedIsKnown' /\ ErrorsInsertNothing'
  <2>1. row \in Nat /\ len \in Nat /\ row <= len
    BY TypeFacts DEF IngestInv
  <2> QED BY <1>1, <2>1 DEF IngestInv, AppliedIsKnown, ErrorsInsertNothing, batchVars
<1>4. Added({})
  <2>1. table' = table /\ pending' = pending /\ aborted' = aborted
    BY <1>1 DEF serverVars
  <2> QED BY <2>1, NothingAdded DEF IngestInv, TypeOK, Committed
<1>5. status' = "error" \/ (status = "ok" /\ row' = row /\ row = len /\ retry = {})
  <2>1. row \in Nat /\ len \in Nat /\ row <= len /\ status \in {"ok", "error"}
    BY TypeFacts DEF IngestInv, TypeOK
  <2> QED BY <1>1, <2>1
<1> QED BY <1>1, <1>2, <1>3, <1>4, <1>5, QuietSteps

(* A column or a row that cannot be bound, and an array literal that       *)
(* cannot be spelled.                                                      *)
LEMMA ClientSteps ==
  ASSUME IngestInv,
         ArrayIngestFails \/ ArrayIngestUnspellable \/ ArrayBindFails \/ RowBindFails
  PROVE  IngestInv'
<1>1. /\ UNCHANGED <<inputVars, serverVars, batchVars, from, seen, applied, txnActive, total, retry>>
      /\ pc \in {"unnest", "chunk", "rows"} /\ pc' \in {"multirow", "rest", "rows"}
      /\ row' \in {0, row} /\ (pc' = "rows" => pc = "rows")
      /\ \/ status' = "error" /\ why' = "client"
         \/ status' = status /\ why' = why /\ pc = "unnest" /\ row' = row
  BY DEF ArrayIngestFails, ArrayIngestUnspellable, ArrayBindFails, RowBindFails
<1>2. /\ mrReady' = mrReady /\ mrActive' = mrActive /\ mrRows' = mrRows /\ aiReady' = aiReady
      /\ aiActive' \in {aiActive, FALSE} /\ useArray' = useArray
  BY DEF ArrayIngestFails, ArrayIngestUnspellable, ArrayBindFails, RowBindFails, formVars
<1>3. TypeOK'
  <2>1. row' \in 0..len
    BY <1>1, TypeFacts DEF IngestInv
  <2>2. /\ status' \in {"ok", "error"} /\ aiActive' \in BOOLEAN
        /\ why' \in Reasons /\ pc' \in Pcs
    BY <1>1, <1>2 DEF IngestInv, TypeOK, Reasons, Pcs
  <2>3. UNCHANGED <<inputVars, serverVars, batchVars, from, seen, applied, txnActive, total, retry>>
    BY <1>1
  <2> QED BY <1>1, <1>2, <2>1, <2>2, <2>3, TypeInBatch DEF IngestInv, TypeOK, serverVars, batchVars
<1>4. AppliedIsKnown' /\ ErrorsInsertNothing'
  BY <1>1 DEF IngestInv, AppliedIsKnown, ErrorsInsertNothing, batchVars
<1>5. Added({})
  <2>1. table' = table /\ pending' = pending /\ aborted' = aborted
    BY <1>1 DEF serverVars
  <2> QED BY <2>1, NothingAdded DEF IngestInv, TypeOK, Committed
<1>6. nbatch > 0
  BY <1>1 DEF IngestInv, Placed
<1>7. status' = "error" \/ (status = "ok" /\ row' = row)
  BY <1>1 DEF IngestInv, ErrorsInsertNothing, TypeOK
<1> QED BY <1>1, <1>3, <1>4, <1>5, <1>6, <1>7, QuietSteps


(* Entering a form, or not.                                                *)
LEMMA EnterSteps ==
  ASSUME IngestInv, MultiRowEnters \/ ArraysEnter \/ ArraysLeave
  PROVE  IngestInv'
<1>1. /\ UNCHANGED <<inputVars, serverVars, batchVars, row, seen, applied, txnActive, total, status,
                     why, mrReady, mrActive, mrRows, aiReady, aiActive, retry>>
      /\ from' \in {from, row} /\ pc \in {"multirow", "arrays", "chunk"}
      /\ pc' \in {"group", "arrays", "chunk", "rest"} /\ (pc' \in {"group", "chunk"} => status = "ok")
      /\ pc = "chunk" => pc' = "rest"
  BY DEF MultiRowEnters, ArraysEnter, ArraysLeave, formVars
<1>2. useArray' \in BOOLEAN
  BY DEF MultiRowEnters, ArraysEnter, ArraysLeave, formVars, IngestInv, TypeOK
<1>3. TypeOK'
  <2>1. from' \in 0..len
    BY <1>1 DEF IngestInv, TypeOK
  <2>2. pc' \in Pcs /\ why' \in Reasons
    BY <1>1 DEF Pcs, Reasons, IngestInv, TypeOK
  <2> QED BY <1>1, <1>2, <2>1, <2>2, TypeInBatch DEF IngestInv, TypeOK, serverVars
<1>4. AppliedIsKnown' /\ ErrorsInsertNothing'
  BY <1>1 DEF IngestInv, AppliedIsKnown, ErrorsInsertNothing, batchVars
<1>5. Added({})
  <2>1. table' = table /\ pending' = pending /\ aborted' = aborted
    BY <1>1 DEF serverVars
  <2> QED BY <2>1, NothingAdded DEF IngestInv, TypeOK, Committed
<1>6. nbatch > 0 /\ (status' = "error" \/ status = "ok")
  BY <1>1 DEF IngestInv, Placed, TypeOK
<1> QED BY <1>1, <1>3, <1>4, <1>5, <1>6, QuietSteps

(* Entering the multi-row INSERT for the rest of a batch, and leaving it   *)
(* when no more rows make a group.                                         *)
LEMMA RestSteps ==
  ASSUME IngestInv, RestEnters \/ MultiRowDone
  PROVE  IngestInv'
<1>1. /\ UNCHANGED <<inputVars, table, pending, batchVars, row, seen, txnActive, total, status, why,
                     mrRows, aiReady, aiActive, useArray, retry>>
      /\ from' \in {from, row} /\ pc \in {"rest", "group", "restGroup"}
      /\ pc' \in {"arrays", "restGroup", "rows"} /\ (pc' = "restGroup" => status = "ok")
      /\ applied' = (applied \/ (pc' = "rows" /\ row > 0))
  BY DEF RestEnters, MultiRowDone, LeaveMultiRow, formVars
<1>2. PICK p \in BOOLEAN : aborted' = Poisoned(p)
  <2>1. CASE RestEnters
    BY <2>1 DEF RestEnters
  <2>2. CASE MultiRowDone
    <3>1. PICK refused \in {FALSE, len - row >= 2} : aborted' = Poisoned(refused)
      BY <2>2 DEF MultiRowDone
    <3>2. (len - row >= 2) \in BOOLEAN
      OBVIOUS
    <3>3. refused \in BOOLEAN
      BY <3>1, <3>2, Zenon
    <3> QED BY <3>1, <3>3, Zenon
  <2> QED BY <2>1, <2>2
<1>3. aborted' \in BOOLEAN /\ (aborted' => InTxn)
  BY <1>2, PoisonedFacts DEF IngestInv
<1>4. mrReady' \in BOOLEAN /\ mrActive' \in BOOLEAN
  BY DEF RestEnters, MultiRowDone, MultiRowSetup, formVars, IngestInv, TypeOK
<1>5. TypeOK'
  <2>1. from' \in 0..len /\ applied' \in BOOLEAN
    BY <1>1 DEF IngestInv, TypeOK
  <2>2. pc' \in Pcs /\ why' \in Reasons
    BY <1>1 DEF Pcs, Reasons, IngestInv, TypeOK
  <2> QED BY <1>1, <1>3, <1>4, <2>1, <2>2, TypeInBatch DEF IngestInv, TypeOK
<1>6. AppliedIsKnown' /\ ErrorsInsertNothing'
  BY <1>1 DEF IngestInv, AppliedIsKnown, ErrorsInsertNothing, batchVars
<1>7. Added({})
  BY <1>1, <1>3, NothingAdded DEF IngestInv
<1>8. nbatch > 0 /\ (status' = "error" \/ status = "ok")
  BY <1>1 DEF IngestInv, Placed, TypeOK
<1> QED BY <1>1, <1>5, <1>6, <1>7, <1>8, QuietSteps


(* The rows behind the current one are not in yet.                         *)
LEMMA RowsAheadAreFresh ==
  ASSUME IngestInv, status = "ok", nbatch > 0, NEW ids, ids \subseteq Ids(row, len - row)
  PROVE  Fresh(ids)
<1>1. /\ base \in Nat /\ len \in Nat /\ row \in Nat /\ row <= len
      /\ base + len <= MaxRows /\ MaxRows \in Nat /\ Rows = 1..MaxRows
  BY TypeFacts DEF IngestInv
<1>2. ASSUME NEW r \in ids
      PROVE  r \in Rows /\ r \in Ids(0, len) /\ base + row < r
  <2>1. r \in Ids(row, len - row)
    OBVIOUS
  <2> QED BY <1>1, <2>1 DEF Ids
<1>3. \A r \in ids : table[r] + pending[r] = 0
  <2> SUFFICES ASSUME NEW r \in ids PROVE table[r] + pending[r] = 0
    OBVIOUS
  <2>1. r \in Rows /\ base + row < r
    BY <1>2
  <2>2. table[r] + pending[r] = IF r <= base + row /\ r \notin retry THEN 1 ELSE 0
    BY <2>1 DEF IngestInv, RowsIn
  <2>3. ~(r <= base + row)
    BY <1>1, <2>1
  <2> QED BY <2>2, <2>3
<1> QED BY <1>2, <1>3 DEF Fresh

(* A step that inserts the next k rows of the batch.                       *)
LEMMA ForwardSteps ==
  ASSUME IngestInv, NEW k \in Nat, row + k <= len, Insert(Ids(row, k)),
         row' = row + k, total' = total + k, retry' = retry, status = "ok", nbatch > 0,
         UNCHANGED <<inputVars, batchVars, seen, txnActive>>,
         TypeOK', AppliedIsKnown', ErrorsInsertNothing',
         pc # "done", pc' \notin {"next", "end", "done"}
  PROVE  IngestInv'
<1>1. base \in Nat /\ len \in Nat /\ row \in Nat /\ row <= len
  BY TypeFacts DEF IngestInv
<1>2. Fresh(Ids(row, k))
  <2>1. Ids(row, k) \subseteq Ids(row, len - row)
    BY <1>1 DEF Ids
  <2> QED BY <2>1, RowsAheadAreFresh
<1>3. Added(Ids(row, k))
  BY InsertAdds DEF IngestInv
<1>4. Placed' /\ NoDuplicateRows' /\ Committed'
  BY <1>2, <1>3, StepInBatch
<1>5. RowsIn'
  <2>1. Cardinality(Ids(row, k)) = k
    BY <1>1, IdsFacts
  <2>2. /\ Ids(row, k) \cap {} = {} /\ Ids(row, k) \cup {} = Ids(row, k) /\ retry' = retry \cup {}
        /\ base' = base /\ len' = len /\ total' = total + Cardinality(Ids(row, k))
    BY <2>1 DEF batchVars
  <2> HIDE DEF Ids
  <2> QED BY <1>3, <2>2, RowsGoOn
<1> QED BY <1>4, <1>5 DEF IngestInv

(* Starting a fresh transaction changes nothing that is in, if no row is.  *)
LEMMA RestartAddsNothing ==
  ASSUME IngestInv, base = 0, row = 0, status = "ok", NEW p \in BOOLEAN, RestartTxn(p)
  PROVE  Added({}) /\ txnActive' = txnActive /\ table' = table /\ pending' = pending
<1>1. table \in [Rows -> Nat] /\ pending \in [Rows -> Nat] /\ Rows = 1..MaxRows /\ MaxRows \in Nat
  BY TypeFacts DEF IngestInv
<1>2. pending = Empty
  <2>1. \A r \in Rows : pending[r] = 0
    <3> SUFFICES ASSUME NEW r \in Rows PROVE pending[r] = 0
      OBVIOUS
    <3>1. table[r] + pending[r] = 0
      <4>1. table[r] + pending[r] = IF r <= base + row /\ r \notin retry THEN 1 ELSE 0
        BY DEF IngestInv, RowsIn
      <4> QED BY <1>1, <4>1
    <3> QED BY <1>1, <3>1
  <2> QED BY <1>1, <2>1 DEF Empty
<1>3. txnActive' = txnActive /\ table' = table /\ pending' = pending
  BY <1>2 DEF RestartTxn
<1>4. aborted' \in BOOLEAN /\ (aborted' => InTxn)
  <2>1. Poisoned(p) \in BOOLEAN /\ (Poisoned(p) => InTxn)
    BY PoisonedFacts DEF IngestInv
  <2>2. aborted' = (~txnActive /\ Poisoned(p))
    BY DEF RestartTxn
  <2> QED BY <2>1, <2>2
<1> QED BY <1>3, <1>4, NothingAdded DEF IngestInv

(* The array form.                                                         *)
LEMMA ArrayIngestExecuteKeeps ==
  ASSUME IngestInv, ArrayIngestExecute
  PROVE  IngestInv'
<1>1. PICK n \in 1..Smaller(len - row, ChunkRows) :
        LET ids == Ids(row, n)
        IN  IF Accepts(ids)
            THEN /\ Insert(ids)
                 /\ row' = row + Cardinality(ids)
                 /\ total' = total + Cardinality(ids)
                 /\ pc' = IF row' = len THEN "multirow" ELSE "unnest"
                 /\ UNCHANGED <<txnActive, status, why, aiActive>>
            ELSE IF applied \/ row # 0
            THEN /\ Refuse /\ Fails
                 /\ row' = 0 /\ pc' = "multirow"
                 /\ UNCHANGED <<txnActive, total, aiActive>>
            ELSE /\ RestartTxn(TRUE)
                 /\ aiActive' = FALSE /\ pc' = "multirow"
                 /\ UNCHANGED <<row, total, status, why>>
  BY DEF ArrayIngestExecute
<1>2. /\ UNCHANGED <<inputVars, batchVars, from, seen, applied, mrReady, mrActive, mrRows,
                     aiReady, useArray, retry>>
      /\ pc = "unnest"
  BY DEF ArrayIngestExecute
<1>3. /\ base \in Nat /\ len \in Nat /\ row \in Nat /\ row <= len /\ total \in Nat
      /\ ChunkRows \in Nat
  BY TypeFacts, IngestAssumption DEF IngestInv
<1>4. /\ n \in Nat /\ row + n <= len
  BY <1>1, <1>3 DEF Smaller
<1>5. status = "ok" /\ nbatch > 0
  BY <1>2 DEF IngestInv, ErrorsInsertNothing, TypeOK, Placed
<1>6. CASE Accepts(Ids(row, n))
  <2>1. /\ Insert(Ids(row, n)) /\ row' = row + n /\ total' = total + n
        /\ pc' \in {"multirow", "unnest"} /\ UNCHANGED <<txnActive, status, why, aiActive>>
    BY <1>1, <1>3, <1>4, <1>6, IdsFacts
  <2>2. Added(Ids(row, n))
    BY <2>1, InsertAdds DEF IngestInv
  <2>3. TypeOK'
    <3>1. row' \in 0..len /\ total' \in Nat /\ pc' \in Pcs /\ why' \in Reasons
      BY <1>3, <1>4, <2>1 DEF Pcs, Reasons, IngestInv, TypeOK
    <3> QED BY <1>2, <2>1, <2>2, <3>1, TypeInBatch DEF IngestInv, TypeOK, Added
  <2>4. AppliedIsKnown' /\ ErrorsInsertNothing'
    BY <1>2, <1>5, <2>1 DEF IngestInv, AppliedIsKnown, ErrorsInsertNothing, batchVars
  <2> QED BY <1>2, <1>4, <1>5, <2>1, <2>3, <2>4, ForwardSteps
<1>7. CASE ~Accepts(Ids(row, n)) /\ (applied \/ row # 0)
  <2>1. /\ Refuse /\ Fails /\ row' = 0 /\ pc' = "multirow" /\ UNCHANGED <<txnActive, total, aiActive>>
    BY <1>1, <1>7
  <2>2. Added({})
    BY <2>1, NothingAdded, PoisonedFacts DEF Refuse, IngestInv
  <2>3. TypeOK'
    <3>1. row' \in 0..len /\ pc' \in Pcs /\ why' \in Reasons /\ status' = "error"
      BY <1>3, <2>1 DEF Pcs, Reasons, Fails, Reason
    <3> QED BY <1>2, <2>1, <2>2, <3>1, TypeInBatch DEF IngestInv, TypeOK, Added
  <2>4. AppliedIsKnown' /\ ErrorsInsertNothing'
    BY <1>2, <2>1 DEF IngestInv, AppliedIsKnown, ErrorsInsertNothing, batchVars
  <2> QED BY <1>2, <1>5, <2>1, <2>2, <2>3, <2>4, QuietSteps DEF Fails
<1>8. CASE ~Accepts(Ids(row, n)) /\ ~(applied \/ row # 0)
  <2>1. /\ RestartTxn(TRUE) /\ aiActive' = FALSE /\ pc' = "multirow"
        /\ UNCHANGED <<row, total, status, why>> /\ row = 0 /\ base = 0
    <3>1. /\ RestartTxn(TRUE) /\ aiActive' = FALSE /\ pc' = "multirow"
          /\ UNCHANGED <<row, total, status, why>>
      BY <1>1, <1>8
    <3>2. row = 0 /\ base = 0
      BY <1>3, <1>8 DEF IngestInv, AppliedIsKnown
    <3> QED BY <3>1, <3>2
  <2>2. Added({}) /\ txnActive' = txnActive
    BY <1>5, <2>1, RestartAddsNothing
  <2>3. TypeOK'
    <3>1. row' \in 0..len /\ pc' \in Pcs /\ why' \in Reasons
      BY <1>3, <2>1 DEF Pcs, Reasons, IngestInv, TypeOK
    <3> QED BY <1>2, <2>1, <2>2, <3>1, TypeInBatch DEF IngestInv, TypeOK, Added
  <2>4. AppliedIsKnown' /\ ErrorsInsertNothing'
    BY <1>2, <2>1 DEF IngestInv, AppliedIsKnown, ErrorsInsertNothing, batchVars
  <2> QED BY <1>2, <1>5, <2>1, <2>2, <2>3, <2>4, QuietSteps
<1> QED BY <1>6, <1>7, <1>8


(* A group of rows goes in.                                                *)
LEMMA MultiRowExecuteKeeps ==
  ASSUME IngestInv, MultiRowExecute
  PROVE  IngestInv'
<1> DEFINE n == Smaller(len - row, mrRows)
<1>1. /\ pc \in {"group", "restGroup"} /\ Insert(Ids(row, n)) /\ row' = row + n /\ total' = total + n
      /\ UNCHANGED <<inputVars, batchVars, from, seen, applied, txnActive, status, why, formVars,
                     retry, pc>>
  BY DEF MultiRowExecute
<1>2. /\ base \in Nat /\ len \in Nat /\ row \in Nat /\ row <= len /\ total \in Nat /\ mrRows \in Nat
  BY TypeFacts, IngestAssumption DEF IngestInv, TypeOK
<1>3. /\ n \in Nat /\ row + n <= len
  BY <1>2 DEF Smaller
<1> HIDE DEF n
<1>4. status = "ok" /\ nbatch > 0
  BY <1>1 DEF IngestInv, ErrorsInsertNothing, TypeOK, Placed
<1>5. Added(Ids(row, n))
  BY <1>1, InsertAdds DEF IngestInv
<1>6. TypeOK'
  <2>1. row' \in 0..len /\ total' \in Nat /\ pc' \in Pcs /\ why' \in Reasons
    BY <1>1, <1>2, <1>3 DEF Pcs, Reasons, IngestInv, TypeOK
  <2> QED BY <1>1, <1>5, <2>1, TypeInBatch DEF IngestInv, TypeOK, Added, formVars
<1>7. AppliedIsKnown' /\ ErrorsInsertNothing'
  BY <1>1, <1>4 DEF IngestInv, AppliedIsKnown, ErrorsInsertNothing, batchVars
<1> QED BY <1>1, <1>3, <1>4, <1>6, <1>7, ForwardSteps

(* A group of rows is refused.                                             *)
LEMMA MultiRowFailsKeeps ==
  ASSUME IngestInv, MultiRowFails
  PROVE  IngestInv'
<1>1. PICK refused \in BOOLEAN :
        LET probe    == Virgin /\ row = from
            narrower == mrRows \div 2 >= 2 /\ ~Poisoned(refused)
        IN  \/ /\ ~probe
               /\ status' = "error" /\ why' = IF refused THEN Reason ELSE "client"
               /\ aborted' = Poisoned(refused)
               /\ row' = from /\ pc' = LeaveMultiRow
               /\ applied' = (applied \/ (pc' = "rows" /\ row' > 0))
               /\ UNCHANGED <<table, pending, txnActive, mrActive, mrRows>>
            \/ /\ probe /\ narrower
               /\ mrRows' = mrRows \div 2
               /\ UNCHANGED <<serverVars, row, txnActive, status, why, mrActive, pc, applied>>
            \/ /\ probe /\ ~narrower
               /\ mrActive' = FALSE /\ pc' = LeaveMultiRow
               /\ IF pc = "group" THEN RestartTxn(refused)
                  ELSE aborted' = Poisoned(refused) /\ UNCHANGED <<table, pending, txnActive>>
               /\ UNCHANGED <<row, status, why, mrRows, applied>>
  BY DEF MultiRowFails
<1>2. /\ UNCHANGED <<inputVars, batchVars, from, seen, total, mrReady, aiReady, aiActive, useArray, retry>>
      /\ pc \in {"group", "restGroup"} /\ LeaveMultiRow \in {"arrays", "rows"}
  BY DEF MultiRowFails, LeaveMultiRow
<1>3. /\ base \in Nat /\ len \in Nat /\ row \in Nat /\ row <= len /\ from \in Nat /\ from <= len
      /\ mrRows \in Nat /\ GroupRows \in Nat /\ mrRows <= GroupRows
  BY TypeFacts, IngestAssumption DEF IngestInv, TypeOK
<1>4. status = "ok" /\ nbatch > 0
  BY <1>2 DEF IngestInv, ErrorsInsertNothing, TypeOK, Placed
<1>5. /\ Poisoned(refused) \in BOOLEAN /\ (Poisoned(refused) => InTxn)
  BY PoisonedFacts DEF IngestInv
<1>6. CASE /\ status' = "error" /\ why' = IF refused THEN Reason ELSE "client"
           /\ aborted' = Poisoned(refused)
           /\ row' = from /\ pc' = LeaveMultiRow
           /\ applied' = (applied \/ (pc' = "rows" /\ row' > 0))
           /\ UNCHANGED <<table, pending, txnActive, mrActive, mrRows>>
  <2>1. Added({})
    BY <1>5, <1>6, NothingAdded DEF IngestInv
  <2>2. TypeOK'
    <3>1. row' \in 0..len /\ pc' \in Pcs /\ why' \in Reasons /\ applied' \in BOOLEAN
      BY <1>2, <1>3, <1>6 DEF Pcs, Reasons, Reason, IngestInv, TypeOK
    <3> QED BY <1>2, <1>6, <2>1, <3>1, TypeInBatch DEF IngestInv, TypeOK, Added
  <2>3. AppliedIsKnown' /\ ErrorsInsertNothing'
    BY <1>2, <1>6 DEF IngestInv, AppliedIsKnown, ErrorsInsertNothing, batchVars
  <2> QED BY <1>2, <1>4, <1>6, <2>1, <2>2, <2>3, QuietSteps
<1>7. CASE /\ mrRows \div 2 >= 2 /\ mrRows' = mrRows \div 2
           /\ UNCHANGED <<serverVars, row, txnActive, status, why, mrActive, pc, applied>>
  <2>1. Added({})
    <3>1. table' = table /\ pending' = pending /\ aborted' = aborted
      BY <1>7 DEF serverVars
    <3> QED BY <3>1, NothingAdded DEF IngestInv, TypeOK, Committed
  <2>2. TypeOK'
    <3>1. mrRows' \in 1..GroupRows
      BY <1>3, <1>7
    <3>2. row' \in 0..len /\ pc' \in Pcs /\ why' \in Reasons
      BY <1>3, <1>7 DEF Pcs, Reasons, IngestInv, TypeOK
    <3> QED BY <1>2, <1>7, <2>1, <3>1, <3>2, TypeInBatch DEF IngestInv, TypeOK, Added
  <2>3. AppliedIsKnown' /\ ErrorsInsertNothing'
    BY <1>2, <1>7 DEF IngestInv, AppliedIsKnown, ErrorsInsertNothing, batchVars
  <2> QED BY <1>2, <1>4, <1>7, <2>1, <2>2, <2>3, QuietSteps
<1>8. CASE /\ Virgin /\ row = from
           /\ mrActive' = FALSE /\ pc' = LeaveMultiRow
           /\ IF pc = "group" THEN RestartTxn(refused)
              ELSE aborted' = Poisoned(refused) /\ UNCHANGED <<table, pending, txnActive>>
           /\ UNCHANGED <<row, status, why, mrRows, applied>>
  <2>1. row = 0 /\ base = 0
    BY <1>3, <1>8 DEF Virgin, IngestInv, AppliedIsKnown
  <2>2. Added({}) /\ txnActive' = txnActive
    <3>1. CASE pc = "group"
      BY <1>4, <1>8, <2>1, <3>1, RestartAddsNothing
    <3>2. CASE pc # "group"
      BY <1>5, <1>8, <3>2, NothingAdded DEF IngestInv
    <3> QED BY <3>1, <3>2
  <2>3. TypeOK'
    <3>1. row' \in 0..len /\ pc' \in Pcs /\ why' \in Reasons
      BY <1>2, <1>3, <1>8 DEF Pcs, Reasons, IngestInv, TypeOK
    <3> QED BY <1>2, <1>8, <2>2, <3>1, TypeInBatch DEF IngestInv, TypeOK, Added
  <2>4. AppliedIsKnown' /\ ErrorsInsertNothing'
    BY <1>2, <1>8, <2>1 DEF IngestInv, AppliedIsKnown, ErrorsInsertNothing, batchVars
  <2> QED BY <1>2, <1>4, <1>8, <2>2, <2>3, <2>4, QuietSteps
<1> QED BY <1>1, <1>6, <1>7, <1>8

(* An array execute that fails.                                            *)
LEMMA ArrayExecuteFailsKeeps ==
  ASSUME IngestInv, ArrayExecuteFails
  PROVE  IngestInv'
<1> DEFINE n    == Smaller(len - row, ChunkRows)
           some == {r \in Ids(row, n) : \A b \in bad \cap Ids(row, n) : r < b}
<1>1. /\ pc = "chunk" /\ pc' = "rest"
      /\ IF Stopped THEN InsertAndRefuse(some) ELSE Refuse
      /\ \/ row = 0 /\ ~Stopped /\ useArray' = FALSE /\ status' = status /\ why' = why
         \/ status' = "error" /\ why' = Reason /\ useArray' = useArray
      /\ Stopped => status' = "error"
      /\ UNCHANGED <<inputVars, batchVars, row, from, seen, applied, txnActive, total,
                     mrReady, mrActive, mrRows, aiReady, aiActive, retry>>
  BY DEF ArrayExecuteFails, Fails
<1>2. /\ base \in Nat /\ len \in Nat /\ row \in Nat /\ row <= len /\ ChunkRows \in Nat
  BY TypeFacts, IngestAssumption DEF IngestInv, TypeOK
<1>3. status = "ok" /\ nbatch > 0
  BY <1>1 DEF IngestInv, ErrorsInsertNothing, TypeOK, Placed
<1>4. some \subseteq Ids(row, len - row)
  BY <1>2 DEF Ids, Smaller
<1> HIDE DEF some
<1>5. Fresh(some)
  BY <1>3, <1>4, RowsAheadAreFresh
<1>6. AppliedIsKnown' /\ ErrorsInsertNothing'
  BY <1>1 DEF IngestInv, AppliedIsKnown, ErrorsInsertNothing, batchVars
<1>7. pc' \in Pcs /\ why' \in Reasons /\ status' \in {"ok", "error"} /\ useArray' \in BOOLEAN
  BY <1>1 DEF Pcs, Reasons, Reason, IngestInv, TypeOK
<1>8. CASE Stopped
  <2>1. Added(some) /\ status' = "error"
    BY <1>1, <1>8, InsertAndRefuseAdds DEF IngestInv
  <2>2. TypeOK'
    BY <1>1, <1>7, <2>1, TypeInBatch DEF IngestInv, TypeOK, Added
  <2>3. Placed' /\ NoDuplicateRows' /\ Committed'
    BY <1>1, <1>3, <1>5, <2>1, StepInBatch
  <2> QED BY <1>6, <2>1, <2>2, <2>3 DEF IngestInv, RowsIn
<1>9. CASE ~Stopped
  <2>1. Added({})
    BY <1>1, <1>9, NothingAdded, PoisonedFacts DEF Refuse, IngestInv
  <2>2. TypeOK'
    BY <1>1, <1>7, <2>1, TypeInBatch DEF IngestInv, TypeOK, Added
  <2> QED BY <1>1, <1>3, <1>6, <2>1, <2>2, QuietSteps
<1> QED BY <1>8, <1>9


(* An array execute that returns, with what the driver says of its sets.   *)
LEMMA ArrayExecuteKeeps ==
  ASSUME Accountable, IngestInv, ArrayExecute
  PROVE  IngestInv'
<1> DEFINE n == Smaller(len - row, ChunkRows)
<1>1. PICK o \in ArrayOutcomes(Ids(row, n)) :
        /\ IF o.failed # {} THEN InsertAndRefuse(o.landed) ELSE Insert(o.landed)
        /\ retry' = retry \cup o.failed
        /\ IF Counted(o) = 0
           THEN /\ status' = "error" /\ why' = "uncounted"
                /\ pc' = "rest"
                /\ UNCHANGED <<row, total, useArray>>
           ELSE /\ total' = total + Cardinality(o.landed)
                /\ row' = row + Counted(o)
                /\ useArray' = (Counted(o) = Cardinality(Ids(row, n)))
                /\ pc' = IF Counted(o) = Cardinality(Ids(row, n)) THEN "chunk" ELSE "rest"
                /\ UNCHANGED <<status, why>>
  BY DEF ArrayExecute
<1>2. /\ UNCHANGED <<inputVars, batchVars, from, seen, applied, txnActive, mrReady, mrActive,
                     mrRows, aiReady, aiActive>>
      /\ pc = "chunk" /\ len - row >= 2
  BY DEF ArrayExecute, ChunkReady
<1>3. /\ base \in Nat /\ len \in Nat /\ row \in Nat /\ row <= len /\ total \in Nat
      /\ ChunkRows \in Nat /\ ChunkRows >= 1 /\ Ids(0, len) \subseteq Rows /\ retry \subseteq Rows
  BY TypeFacts, IngestAssumption DEF IngestInv
<1>4. n \in Nat /\ n >= 1 /\ row + n <= len
  BY <1>2, <1>3 DEF Smaller
<1> HIDE DEF n
<1>5. status = "ok" /\ nbatch > 0
  BY <1>2 DEF IngestInv, ErrorsInsertNothing, TypeOK, Placed
<1>6. /\ o.landed \cap o.failed = {} /\ o.landed \cup o.failed \subseteq Ids(row, n)
      /\ Counted(o) \in 0..n
      /\ Counted(o) > 0 => o.landed \cup o.failed = Ids(row, Counted(o))
  BY <1>4, OutcomeFacts DEF IngestInv
<1>7. Ids(row, n) \subseteq Ids(row, len - row) /\ Ids(row, n) \subseteq Rows
  BY <1>3, <1>4 DEF Ids
<1>8. Fresh(o.landed) /\ Added(o.landed)
  <2>1. Added(o.landed)
    BY <1>1, InsertAdds, InsertAndRefuseAdds DEF IngestInv
  <2>2. o.landed \subseteq Ids(row, len - row)
    BY <1>6, <1>7
  <2> QED BY <1>5, <2>1, <2>2, RowsAheadAreFresh
<1>9. retry' \subseteq Rows
  BY <1>1, <1>3, <1>6, <1>7
<1>10. CASE Counted(o) = 0
  <2>1. /\ status' = "error" /\ why' = "uncounted" /\ pc' = "rest" /\ UNCHANGED <<row, total, useArray>>
    BY <1>1, <1>10
  <2>2. TypeOK'
    <3>1. pc' \in Pcs /\ why' \in Reasons
      BY <2>1 DEF Pcs, Reasons
    <3> QED BY <1>2, <1>8, <1>9, <2>1, <3>1, TypeInBatch DEF IngestInv, TypeOK, Added
  <2>3. AppliedIsKnown' /\ ErrorsInsertNothing'
    BY <1>2, <2>1 DEF IngestInv, AppliedIsKnown, ErrorsInsertNothing, batchVars
  <2>4. Placed' /\ NoDuplicateRows' /\ Committed'
    BY <1>2, <1>5, <1>8, <2>1, StepInBatch
  <2> QED BY <2>1, <2>2, <2>3, <2>4 DEF IngestInv, RowsIn
<1>11. CASE Counted(o) # 0
  <2>1. /\ total' = total + Cardinality(o.landed) /\ row' = row + Counted(o)
        /\ useArray' \in BOOLEAN /\ pc' \in {"chunk", "rest"} /\ UNCHANGED <<status, why>>
    BY <1>1, <1>11
  <2>2. /\ Counted(o) \in Nat /\ row + Counted(o) <= len
        /\ o.landed \cup o.failed = Ids(row, Counted(o))
    BY <1>3, <1>4, <1>6, <1>11
  <2>3. TypeOK'
    <3>1. Cardinality(o.landed) \in Nat
      <4>1. IsFiniteSet(Ids(row, n))
        BY <1>3, <1>4, IdsFacts
      <4>2. o.landed \subseteq Ids(row, n)
        BY <1>6
      <4> QED BY <4>1, <4>2, FS_Subset, FS_CardinalityType
    <3>2. row' \in 0..len /\ total' \in Nat /\ pc' \in Pcs /\ why' \in Reasons
      BY <1>3, <2>1, <2>2, <3>1 DEF Pcs, Reasons, IngestInv, TypeOK
    <3> QED BY <1>2, <1>8, <1>9, <2>1, <3>2, TypeInBatch DEF IngestInv, TypeOK, Added
  <2>4. AppliedIsKnown' /\ ErrorsInsertNothing'
    BY <1>2, <1>5, <2>1 DEF IngestInv, AppliedIsKnown, ErrorsInsertNothing, batchVars
  <2>5. Placed' /\ NoDuplicateRows' /\ Committed'
    BY <1>2, <1>5, <1>8, <2>1, StepInBatch
  <2>6. RowsIn'
    <3>1. base' = base /\ len' = len /\ retry' = retry \cup o.failed
      BY <1>1, <1>2 DEF batchVars
    <3> QED BY <1>5, <1>6, <1>8, <2>1, <2>2, <3>1, RowsGoOn
  <2> QED BY <2>3, <2>4, <2>5, <2>6 DEF IngestInv
<1> QED BY <1>10, <1>11

(* The row-at-a-time path.                                                 *)
LEMMA ExecuteRowKeeps ==
  ASSUME IngestInv, ExecuteRow
  PROVE  IngestInv'
<1>1. /\ pc = "rows" /\ row < len /\ status = "ok"
      /\ UNCHANGED <<inputVars, batchVars, from, seen, txnActive, formVars, retry, pc>>
      /\ \/ /\ Insert(Ids(row, 1)) /\ row' = row + 1 /\ total' = total + 1 /\ applied' = TRUE
            /\ status' = status /\ why' = why
         \/ Refuse /\ Fails /\ row' = row /\ total' = total /\ applied' = applied
  BY DEF ExecuteRow
<1>2. /\ base \in Nat /\ len \in Nat /\ row \in Nat /\ row <= len /\ total \in Nat /\ nbatch > 0
  BY <1>1, TypeFacts DEF IngestInv, Placed
<1>3. CASE /\ Insert(Ids(row, 1)) /\ row' = row + 1 /\ total' = total + 1 /\ applied' = TRUE
           /\ status' = status /\ why' = why
  <2>1. Added(Ids(row, 1))
    BY <1>3, InsertAdds DEF IngestInv
  <2>2. TypeOK'
    <3>1. row' \in 0..len /\ total' \in Nat /\ pc' \in Pcs /\ why' \in Reasons
      BY <1>1, <1>2, <1>3 DEF Pcs, Reasons, IngestInv, TypeOK
    <3> QED BY <1>1, <1>3, <2>1, <3>1, TypeInBatch DEF IngestInv, TypeOK, Added, formVars
  <2>3. AppliedIsKnown' /\ ErrorsInsertNothing'
    BY <1>1, <1>3 DEF IngestInv, AppliedIsKnown, ErrorsInsertNothing, batchVars
  <2>4. 1 \in Nat /\ row + 1 <= len
    BY <1>1, <1>2
  <2> QED BY <1>1, <1>2, <1>3, <2>2, <2>3, <2>4, ForwardSteps
<1>4. CASE Refuse /\ Fails /\ row' = row /\ total' = total /\ applied' = applied
  <2>1. Added({})
    BY <1>4, NothingAdded, PoisonedFacts DEF Refuse, IngestInv
  <2>2. TypeOK'
    <3>1. pc' \in Pcs /\ why' \in Reasons /\ status' = "error"
      BY <1>1, <1>4 DEF Pcs, Reasons, Fails, Reason
    <3> QED BY <1>1, <1>4, <2>1, <3>1, TypeInBatch DEF IngestInv, TypeOK, Added, formVars
  <2>3. AppliedIsKnown' /\ ErrorsInsertNothing'
    BY <1>1, <1>4 DEF IngestInv, AppliedIsKnown, ErrorsInsertNothing, batchVars
  <2> QED BY <1>1, <1>2, <1>4, <2>1, <2>2, <2>3, QuietSteps DEF Fails
<1> QED BY <1>1, <1>3, <1>4

(* A parameter set that the driver had marked as failed, on its own.       *)
LEMMA RetryRowKeeps ==
  ASSUME IngestInv, RetryRow
  PROVE  IngestInv'
<1> DEFINE r == CHOOSE x \in retry : \A q \in retry : x <= q
<1>1. /\ pc = "rows" /\ row >= len /\ status = "ok" /\ retry # {}
      /\ UNCHANGED <<inputVars, batchVars, row, from, seen, applied, txnActive, formVars, pc>>
      /\ \/ /\ Insert({r}) /\ retry' = retry \ {r} /\ total' = total + 1
            /\ status' = status /\ why' = why
         \/ Refuse /\ Fails /\ retry' = retry /\ total' = total
  BY DEF RetryRow
<1>2. /\ base \in Nat /\ len \in Nat /\ row \in Nat /\ row <= len /\ total \in Nat /\ nbatch > 0
      /\ retry \subseteq Rows
  BY <1>1, TypeFacts DEF IngestInv, Placed
<1>3. r \in retry
  BY <1>1, <1>2, LowestRow
<1> HIDE DEF r
<1>4. CASE /\ Insert({r}) /\ retry' = retry \ {r} /\ total' = total + 1
           /\ status' = status /\ why' = why
  <2>1. Added({r})
    BY <1>4, InsertAdds DEF IngestInv
  <2>2. Fresh({r})
    <3>1. r \in Ids(0, row) /\ r \in Rows /\ table[r] + pending[r] = 0
      BY <1>1, <1>2, <1>3 DEF IngestInv, RowsIn
    <3>2. r \in Ids(0, len)
      BY <1>2, <3>1 DEF Ids
    <3> QED BY <1>2, <3>1, <3>2 DEF Fresh
  <2>3. TypeOK'
    <3>1. total' \in Nat /\ pc' \in Pcs /\ why' \in Reasons /\ retry' \subseteq Rows
      BY <1>1, <1>2, <1>4 DEF Pcs, Reasons, IngestInv, TypeOK
    <3> QED BY <1>1, <1>4, <2>1, <3>1, TypeInBatch DEF IngestInv, TypeOK, Added, formVars
  <2>4. AppliedIsKnown' /\ ErrorsInsertNothing'
    BY <1>1, <1>4 DEF IngestInv, AppliedIsKnown, ErrorsInsertNothing, batchVars
  <2>5. Placed' /\ NoDuplicateRows' /\ Committed'
    BY <1>1, <1>2, <2>1, <2>2, StepInBatch
  <2>6. RowsIn'
    BY <1>1, <1>3, <1>4, <2>1, RowsRetried DEF batchVars
  <2> QED BY <2>3, <2>4, <2>5, <2>6 DEF IngestInv
<1>5. CASE Refuse /\ Fails /\ retry' = retry /\ total' = total
  <2>1. Added({})
    BY <1>5, NothingAdded, PoisonedFacts DEF Refuse, IngestInv
  <2>2. TypeOK'
    <3>1. pc' \in Pcs /\ why' \in Reasons /\ status' = "error"
      BY <1>1, <1>5 DEF Pcs, Reasons, Fails, Reason
    <3> QED BY <1>1, <1>5, <2>1, <3>1, TypeInBatch DEF IngestInv, TypeOK, Added, formVars
  <2>3. AppliedIsKnown' /\ ErrorsInsertNothing'
    BY <1>1, <1>5 DEF IngestInv, AppliedIsKnown, ErrorsInsertNothing, batchVars
  <2> QED BY <1>1, <1>2, <1>5, <2>1, <2>2, <2>3, QuietSteps DEF Fails
<1> QED BY <1>1, <1>4, <1>5


(* The next batch of the stream fits: no stream has more than MaxRows rows.*)
LEMMA NextBatchFits ==
  ASSUME IngestInv, nbatch < Len(stream)
  PROVE  /\ stream[nbatch + 1] \in 1..MaxRows /\ base + len + stream[nbatch + 1] <= MaxRows
         /\ \E o \in Offsets(stream) : base + len + stream[nbatch + 1] = o[nbatch + 1]
<1>1. /\ nbatch \in Nat /\ base \in Nat /\ len \in Nat /\ MaxRows \in Nat
      /\ stream \in Seq(1..MaxRows) /\ Len(stream) \in Nat
  BY TypeFacts, IngestAssumption DEF IngestInv, TypeOK
<1>2. nbatch + 1 \in 1..Len(stream) /\ (nbatch + 1) - 1 = nbatch /\ nbatch + 1 \in 0..Len(stream)
  BY <1>1
<1>3. stream[nbatch + 1] \in 1..MaxRows
  BY <1>1, <1>2
<1>4. PICK o \in Offsets(stream) : base + len = o[nbatch]
  BY DEF IngestInv, Placed
<1>5. /\ o \in [0..Len(stream) -> 0..MaxRows]
      /\ \A k \in 1..Len(stream) : o[k] = o[k - 1] + stream[k]
  BY <1>4 DEF Offsets
<1>6. o[nbatch + 1] = o[nbatch] + stream[nbatch + 1] /\ o[nbatch + 1] \in 0..MaxRows
  BY <1>2, <1>5
<1>7. base + len + stream[nbatch + 1] = o[nbatch + 1]
  BY <1>4, <1>6
<1> QED BY <1>1, <1>3, <1>4, <1>6, <1>7

(* The next batch: the probes and the transaction.                         *)
LEMMA NextBatchKeeps ==
  ASSUME IngestInv, NextBatch
  PROVE  IngestInv'
<1> DEFINE n         == stream[nbatch + 1]
           askMulti  == MultiRowFirst /\ ~mrReady /\ n > 1
           askUnnest == server.unnest # "no" /\ ~aiReady /\ n > 1
           p         == askMulti /\ server.groups < 2
           q         == askUnnest /\ server.unnest = "refused"
<1>1. /\ pc = "next" /\ nbatch < Len(stream)
      /\ nbatch' = nbatch + 1 /\ base' = base + len /\ len' = n
      /\ MultiRowSetup(askMulti)
      /\ ArrayIngestSetup(askUnnest, Poisoned(p))
      /\ aborted' = (Poisoned(p) \/ Poisoned(q))
      /\ seen' = seen + n
      /\ BeginWhenMany(seen + n)
      /\ pc' \in {"unnest", "multirow"}
      /\ row' = 0 /\ from' = 0 /\ retry' = {}
      /\ UNCHANGED <<inputVars, table, pending, applied, total, status, why, mrRows, useArray>>
  BY DEF NextBatch
<1>2. /\ n \in 1..MaxRows /\ base + len + n <= MaxRows
      /\ \E o \in Offsets(stream) : base + len + n = o[nbatch + 1]
  BY <1>1, NextBatchFits
<1>3. /\ nbatch \in Nat /\ base \in Nat /\ len \in Nat /\ MaxRows \in Nat /\ Len(stream) \in Nat
      /\ row \in Nat /\ total \in Nat /\ Rows = 1..MaxRows
  BY TypeFacts, IngestAssumption DEF IngestInv, TypeOK
<1>4. p \in BOOLEAN /\ q \in BOOLEAN
  OBVIOUS
<1> HIDE DEF p, q
<1>5. /\ Poisoned(p) \in BOOLEAN /\ Poisoned(q) \in BOOLEAN
      /\ (Poisoned(p) => InTxn) /\ (Poisoned(q) => InTxn)
  BY <1>4, PoisonedFacts DEF IngestInv
<1>6. aborted' \in BOOLEAN /\ (aborted' => InTxn)
  BY <1>1, <1>4, PoisonedFacts DEF IngestInv
<1>7. status = "ok" /\ row = len /\ retry = {} /\ (len > 0 => applied) /\ (base > 0 => applied)
      /\ seen = base + len /\ (nbatch = 0 => base = 0 /\ len = 0)
      /\ (nbatch > 0 => nbatch <= base + 1)
  BY <1>1 DEF IngestInv, ErrorsInsertNothing, TypeOK, RowsIn, AppliedIsKnown, Placed
<1>8. /\ mrReady' \in BOOLEAN /\ mrActive' \in BOOLEAN /\ aiReady' \in BOOLEAN
      /\ aiActive' \in BOOLEAN
  <2>1. mrReady \in BOOLEAN /\ mrActive \in BOOLEAN /\ aiReady \in BOOLEAN /\ aiActive \in BOOLEAN
    BY DEF IngestInv, TypeOK
  <2>2. askMulti \in BOOLEAN /\ askUnnest \in BOOLEAN
    OBVIOUS
  <2> HIDE DEF askMulti, askUnnest
  <2> QED BY <1>1, <2>1, <2>2 DEF MultiRowSetup, ArrayIngestSetup
<1>9. txnActive' \in BOOLEAN /\ (txnActive => txnActive') /\ (MayBegin /\ seen + n > 1 => txnActive')
  BY <1>1 DEF BeginWhenMany, IngestInv, TypeOK
<1> HIDE DEF n, askMulti, askUnnest
<1>10. TypeOK'
  <2>1. /\ nbatch' \in 0..Len(stream') /\ base' \in Nat /\ len' \in Nat /\ base' + len' <= MaxRows
        /\ row' \in 0..len' /\ from' \in 0..len' /\ seen' \in 0..MaxRows
    BY <1>1, <1>2, <1>3, <1>7 DEF inputVars
  <2>2. retry' \subseteq Rows
    BY <1>1
  <2> QED BY <1>1, <1>6, <1>8, <1>9, <2>1, <2>2 DEF IngestInv, TypeOK, inputVars, Rows
<1>11. len > 0 => nbatch > 0
  BY <1>3, <1>7
<1>12. Placed'
  <2>1. stream' = stream
    BY <1>1 DEF inputVars
  <2>2. \E o \in Offsets(stream)' : base' + len' = o[nbatch']
    BY <1>1, <1>2, <2>1 DEF Offsets
  <2>3. seen' = base' + len' /\ nbatch' > 0 /\ nbatch' <= base' + 1 /\ len' = stream'[nbatch']
    <3>1. nbatch > 0 => len >= 1
      <4>1. nbatch > 0 => len = stream[nbatch] /\ nbatch \in 1..Len(stream)
        BY <1>1, <1>3 DEF IngestInv, Placed
      <4>2. stream \in Seq(1..MaxRows)
        BY IngestAssumption DEF IngestInv, TypeOK
      <4>0. \A k \in 1..Len(stream) : stream[k] \in 1..MaxRows
        BY <1>3, <4>2
      <4>3. nbatch > 0 => stream[nbatch] \in 1..MaxRows
        BY <4>0, <4>1
      <4> QED BY <1>3, <4>1, <4>3
    <3>2. nbatch' = nbatch + 1 /\ nbatch' > 0 /\ nbatch' <= base' + 1
      BY <1>1, <1>3, <1>7, <3>1
    <3>3. seen' = base' + len'
      BY <1>1, <1>2, <1>3, <1>7
    <3> QED BY <1>1, <2>1, <3>2, <3>3 DEF n
  <2> QED BY <2>2, <2>3 DEF Placed
<1>13. RowsIn'
  <2>1. \A r \in Rows : table[r] + pending[r] = IF r <= base + row /\ r \notin retry THEN 1 ELSE 0
    BY <1>7 DEF IngestInv, RowsIn
  <2>2. total + Cardinality(retry) = base + row /\ Cardinality(retry) = 0 /\ Cardinality(retry') = 0
    BY <1>1, <1>7, FS_EmptySet DEF IngestInv, RowsIn
  <2>3. \A r \in Rows : table'[r] + pending'[r] = IF r <= base' + row' /\ r \notin retry' THEN 1 ELSE 0
    BY <1>1, <1>3, <1>7, <2>1
  <2>4. total' + Cardinality(retry') = base' + row'
    BY <1>1, <1>3, <1>7, <2>2
  <2> QED BY <1>1, <2>3, <2>4 DEF RowsIn, Rows
<1>14. NoDuplicateRows' /\ AppliedIsKnown' /\ ErrorsInsertNothing'
  <2>1. NoDuplicateRows'
    BY <1>1 DEF IngestInv, NoDuplicateRows, Rows
  <2> QED BY <1>1, <1>3, <1>7, <2>1 DEF AppliedIsKnown, ErrorsInsertNothing
<1>15. Committed'
  <2>1. InTxn => InTxn'
    BY <1>1, <1>9 DEF InTxn, inputVars
  <2>2. MayBegin' = MayBegin /\ stream' = stream
    BY <1>1 DEF MayBegin, inputVars
  <2>3. /\ aborted' => InTxn'
        /\ ~InTxn' => pending' = Empty
    BY <1>1, <1>6, <2>1 DEF IngestInv, Committed
  <2>4. MayBegin' /\ ~txnActive' /\ pc' # "done" => seen' <= 1
    BY <1>1, <1>2, <1>3, <1>7, <1>9, <2>2
  <2>5. MayBegin' => \/ table' = Empty
                     \/ nbatch' > 0 /\ stream'[1] = 1 /\ \A r \in Rows \ {1} : table'[r] = 0
    BY <1>1, <1>3, <2>2 DEF IngestInv, Committed
  <2> QED BY <1>1, <2>3, <2>4, <2>5 DEF Committed, Rows, Empty
<1> QED BY <1>10, <1>12, <1>13, <1>14, <1>15 DEF IngestInv

(* The end: commit or roll back.                                           *)
LEMMA EndTxnKeeps ==
  ASSUME IngestInv, EndTxn
  PROVE  IngestInv'
<1>1. /\ pc = "end" /\ pc' = "done" /\ txnActive' = FALSE
      /\ UNCHANGED <<inputVars, batchVars, row, from, seen, applied, total, formVars, retry>>
      /\ \/ /\ txnActive /\ status = "ok" /\ status' = status /\ why' = why
            /\ table' = [r \in Rows |-> table[r] + pending[r]]
            /\ pending' = Empty /\ aborted' = FALSE
         \/ /\ txnActive /\ status' = "error" /\ why' \in {why, "commit"} /\ table' = table
            /\ pending' = Empty /\ aborted' = FALSE
         \/ ~txnActive /\ UNCHANGED <<table, pending, aborted, status, why>>
  BY DEF EndTxn, IngestInv, TypeOK
<1>2. table \in [Rows -> Nat] /\ pending \in [Rows -> Nat] /\ Rows = 1..MaxRows /\ MaxRows \in Nat
  BY TypeFacts DEF IngestInv
<1>3. \A r \in Rows : table[r] \in Nat /\ pending[r] \in Nat
  BY <1>2
<1>4. /\ \/ /\ status = "ok" /\ status' = "ok"
            /\ \A r \in Rows : table'[r] + pending'[r] = table[r] + pending[r]
         \/ /\ status' = "error"
            /\ \A r \in Rows : table'[r] + pending'[r] <= table[r] + pending[r]
      /\ table' \in [Rows -> Nat] /\ pending' \in [Rows -> Nat] /\ aborted' \in BOOLEAN
  <2>1. Empty \in [Rows -> Nat] /\ \A r \in Rows : Empty[r] = 0
    BY DEF Empty
  <2>2. CASE /\ txnActive /\ status = "ok" /\ status' = status
             /\ table' = [r \in Rows |-> table[r] + pending[r]]
             /\ pending' = Empty /\ aborted' = FALSE
    <3>1. \A r \in Rows : table'[r] = table[r] + pending[r] /\ pending'[r] = 0
      BY <2>1, <2>2
    <3>2. table' \in [Rows -> Nat]
      BY <1>3, <2>2
    <3>3. \A r \in Rows : table'[r] + pending'[r] = table[r] + pending[r]
      BY <1>3, <3>1
    <3> QED BY <2>1, <2>2, <3>2, <3>3
  <2>3. CASE txnActive /\ status' = "error" /\ table' = table /\ pending' = Empty /\ aborted' = FALSE
    <3>1. \A r \in Rows : table'[r] + pending'[r] <= table[r] + pending[r]
      BY <1>3, <2>1, <2>3
    <3> QED BY <1>2, <2>1, <2>3, <3>1
  <2>4. CASE ~txnActive /\ UNCHANGED <<table, pending, aborted, status, why>>
    <3>1. status \in {"ok", "error"} /\ aborted \in BOOLEAN
      BY DEF IngestInv, TypeOK
    <3>2. \A r \in Rows : table[r] + pending[r] <= table[r] + pending[r]
      BY <1>3
    <3> QED BY <1>2, <2>4, <3>1, <3>2
  <2> QED BY <1>1, <2>2, <2>3, <2>4
<1>5. /\ table' \in [Rows -> Nat] /\ pending' \in [Rows -> Nat] /\ aborted' \in BOOLEAN
  BY <1>4
<1>6. TypeOK'
  <2>1. status' \in {"ok", "error"} /\ why' \in Reasons /\ pc' \in Pcs
    BY <1>1 DEF Reasons, Pcs, IngestInv, TypeOK
  <2> QED BY <1>1, <1>5, <2>1 DEF IngestInv, TypeOK, inputVars, batchVars, formVars, Reasons, Pcs, Rows
<1>7. Placed' /\ AppliedIsKnown' /\ ErrorsInsertNothing'
  BY <1>1 DEF IngestInv, Placed, AppliedIsKnown, ErrorsInsertNothing, inputVars, batchVars
<1>8. NoDuplicateRows'
  <2> SUFFICES ASSUME NEW r \in Rows PROVE table'[r] + pending'[r] <= 1
    BY DEF NoDuplicateRows
  <2>1. table[r] + pending[r] <= 1 /\ table'[r] \in Nat /\ pending'[r] \in Nat
    BY <1>5 DEF IngestInv, NoDuplicateRows
  <2> QED BY <1>3, <1>4, <2>1
<1>9. RowsIn'
  <2>1. CASE status' = "error"
    BY <2>1 DEF RowsIn
  <2>2. CASE /\ status = "ok" /\ status' = "ok"
             /\ \A r \in Rows : table'[r] + pending'[r] = table[r] + pending[r]
    <3>1. Ids(0, row)' = Ids(0, row) /\ base' = base /\ len' = len
      BY <1>1 DEF Ids, batchVars
    <3> QED BY <1>1, <2>2, <3>1 DEF IngestInv, RowsIn, Rows
  <2> QED BY <1>4, <2>1, <2>2
<1>10. Committed'
  <2>1. InTxn' <=> ~autocommit
    BY <1>1 DEF InTxn, inputVars
  <2>2. /\ aborted' => InTxn'
        /\ ~InTxn' => pending' = Empty
    BY <1>1, <2>1 DEF IngestInv, Committed, InTxn
  <2>3. status' = "error" => table' = table
    BY <1>1
  <2>4. MayBegin' = MayBegin /\ stream' = stream /\ nbatch' = nbatch
    BY <1>1 DEF MayBegin, inputVars, batchVars
  <2>5. MayBegin' /\ status' = "error" =>
          \/ table' = Empty
          \/ nbatch' > 0 /\ stream'[1] = 1 /\ \A r \in Rows \ {1} : table'[r] = 0
    BY <1>1, <2>3, <2>4 DEF IngestInv, Committed
  <2> QED BY <1>1, <2>2, <2>5 DEF Committed, Rows, Empty
<1> QED BY <1>6, <1>7, <1>8, <1>9, <1>10 DEF IngestInv

-----------------------------------------------------------------------------
(* The theorems.                                                           *)

(* Nothing has been ingested at first.                                     *)
LEMMA IngestInit == Init => IngestInv
<1> SUFFICES ASSUME Init PROVE IngestInv
  OBVIOUS
<1>1. MaxRows \in Nat /\ Rows = 1..MaxRows /\ GroupRows \in Nat /\ GroupRows >= 1
  BY IngestAssumption DEF Rows
<1>2. /\ table = Empty /\ pending = Empty /\ aborted = FALSE /\ nbatch = 0 /\ base = 0 /\ len = 0
      /\ row = 0 /\ from = 0 /\ seen = 0 /\ applied = FALSE /\ txnActive = FALSE /\ total = 0
      /\ status = "ok" /\ why = "none" /\ mrReady = FALSE /\ mrActive = FALSE /\ mrRows = GroupRows
      /\ aiReady = FALSE /\ aiActive = FALSE /\ useArray \in BOOLEAN /\ retry = {} /\ pc = "next"
      /\ stream \in Streams /\ streamFails \in BOOLEAN /\ bad \in SUBSET Rows /\ server \in Servers
      /\ autocommit \in BOOLEAN
  BY DEF Init, RowsOf
<1>3. stream \in Seq(1..MaxRows) /\ Offsets(stream) # {} /\ Len(stream) \in Nat
  BY <1>2, IngestAssumption
<1>4. Empty \in [Rows -> Nat] /\ \A r \in Rows : Empty[r] = 0
  BY DEF Empty
<1>5. TypeOK
  <2>1. nbatch \in 0..Len(stream) /\ row \in 0..len /\ from \in 0..len /\ seen \in 0..MaxRows
        /\ mrRows \in 1..GroupRows /\ base + len <= MaxRows
    BY <1>1, <1>2, <1>3
  <2> QED BY <1>1, <1>2, <1>4, <2>1 DEF TypeOK
<1>6. Placed
  <2>1. PICK o \in Offsets(stream) : TRUE
    BY <1>3
  <2>2. o[0] = 0
    BY DEF Offsets
  <2> QED BY <1>2, <2>1, <2>2 DEF Placed
<1>7. RowsIn
  <2>1. \A r \in Rows : table[r] + pending[r] = IF r <= base + row /\ r \notin retry THEN 1 ELSE 0
    BY <1>1, <1>2, <1>4
  <2> QED BY <1>2, <2>1, FS_EmptySet DEF RowsIn
<1>8. NoDuplicateRows /\ AppliedIsKnown /\ ErrorsInsertNothing
  <2>1. NoDuplicateRows
    BY <1>2, <1>4 DEF NoDuplicateRows
  <2> QED BY <1>2, <2>1 DEF AppliedIsKnown, ErrorsInsertNothing
<1>9. Committed
  BY <1>2 DEF Committed
<1> QED BY <1>5, <1>6, <1>7, <1>8, <1>9 DEF IngestInv

(* Every step keeps the invariant, if the drivers account for what they    *)
(* applied.                                                                *)
LEMMA IngestNext == ASSUME Accountable PROVE IngestInv /\ [Next]_vars => IngestInv'
<1> SUFFICES ASSUME IngestInv, [Next]_vars PROVE IngestInv'
  OBVIOUS
<1>1. CASE UNCHANGED vars
  <2> USE <1>1 DEF vars, inputVars, serverVars, batchVars, formVars, IngestInv
  <2>1. TypeOK'
    BY DEF TypeOK, Rows
  <2>2. Placed'
    BY DEF Placed, Offsets
  <2>3. RowsIn'
    BY DEF RowsIn, Ids, Rows
  <2>4. NoDuplicateRows' /\ AppliedIsKnown' /\ ErrorsInsertNothing'
    BY DEF NoDuplicateRows, AppliedIsKnown, ErrorsInsertNothing, Rows
  <2>5. Committed'
    BY DEF Committed, InTxn, MayBegin, Empty, Rows
  <2> QED BY <2>1, <2>2, <2>3, <2>4, <2>5
<1>2. CASE NextBatch
  BY <1>2, NextBatchKeeps
<1>3. CASE StreamEnds
  BY <1>3, StreamEndsKeeps
<1>4. CASE ArrayIngestExecute
  BY <1>4, ArrayIngestExecuteKeeps
<1>5. CASE ArrayIngestFails \/ ArrayIngestUnspellable \/ ArrayBindFails \/ RowBindFails
  BY <1>5, ClientSteps
<1>6. CASE MultiRowEnters \/ ArraysEnter \/ ArraysLeave
  BY <1>6, EnterSteps
<1>7. CASE RestEnters \/ MultiRowDone
  BY <1>7, RestSteps
<1>8. CASE MultiRowExecute
  BY <1>8, MultiRowExecuteKeeps
<1>9. CASE MultiRowFails
  BY <1>9, MultiRowFailsKeeps
<1>10. CASE ArrayExecuteFails
  BY <1>10, ArrayExecuteFailsKeeps
<1>11. CASE ArrayExecute
  BY <1>11, ArrayExecuteKeeps
<1>12. CASE ExecuteRow
  BY <1>12, ExecuteRowKeeps
<1>13. CASE RetryRow
  BY <1>13, RetryRowKeeps
<1>14. CASE BatchDone
  BY <1>14, BatchDoneKeeps
<1>15. CASE EndTxn
  BY <1>15, EndTxnKeeps
<1> QED BY <1>1, <1>2, <1>3, <1>4, <1>5, <1>6, <1>7, <1>8, <1>9, <1>10, <1>11, <1>12, <1>13,
           <1>14, <1>15 DEF Next, Finished

(* The bookkeeping of ExecuteRows is right throughout: as long as nothing  *)
(* has failed, what is in are the rows up to the current one without those *)
(* to retry, and they are counted.                                         *)
THEOREM IngestAlways == ASSUME Accountable PROVE Spec => []IngestInv
BY IngestInit, IngestNext, PTL DEF Spec

(* No row is inserted twice, however often a form is refused and its batch *)
(* replayed by another one.                                                *)
THEOREM NoDuplicateRowsAlways == ASSUME Accountable PROVE Spec => []NoDuplicateRows
<1>1. IngestInv => NoDuplicateRows
  BY DEF IngestInv
<1> QED BY <1>1, IngestAlways, PTL

(* An ingest that reports success has inserted and counted every row of    *)
(* the stream, and committed them in autocommit.                           *)
THEOREM SuccessMeansAllRowsAlways == ASSUME Accountable PROVE Spec => []SuccessMeansAllRows
<1>1. IngestInv => SuccessMeansAllRows
  <2> SUFFICES ASSUME IngestInv, pc = "done", status = "ok"
               PROVE  /\ total = base + len
                      /\ \A r \in 1..(base + len) : table[r] + pending[r] = 1
                      /\ autocommit => pending = Empty
    BY DEF SuccessMeansAllRows
  <2>1. /\ base \in Nat /\ len \in Nat /\ total \in Nat /\ base + len <= MaxRows /\ MaxRows \in Nat
        /\ Rows = 1..MaxRows
    BY TypeFacts DEF IngestInv
  <2>2. /\ row = len /\ retry = {} /\ total + Cardinality(retry) = base + row
        /\ \A r \in Rows : table[r] + pending[r] = IF r <= base + row /\ r \notin retry THEN 1 ELSE 0
    BY DEF IngestInv, RowsIn
  <2>3. total = base + len
    BY <2>1, <2>2, FS_EmptySet
  <2>4. \A r \in 1..(base + len) : table[r] + pending[r] = 1
    BY <2>1, <2>2
  <2>5. autocommit => pending = Empty
    BY DEF IngestInv, Committed, InTxn
  <2> QED BY <2>3, <2>4, <2>5
<1> QED BY <1>1, IngestAlways, PTL

(* An ingest that fails on a server with transactions leaves nothing       *)
(* behind but a lone row that came first.                                  *)
THEOREM FailureLeavesAtMostALoneRowAlways ==
  ASSUME Accountable PROVE Spec => []FailureLeavesAtMostALoneRow
<1>1. IngestInv => FailureLeavesAtMostALoneRow
  BY DEF IngestInv, Committed, MayBegin, FailureLeavesAtMostALoneRow
<1> QED BY <1>1, IngestAlways, PTL

(* What the transaction of an ingest holds only grows until it is ended:   *)
(* a form that is refused restarts it only while it holds no row.          *)
LEMMA PendingGrows ==
  ASSUME Accountable, IngestInv, Next, pc # "end"
  PROVE  pending' = pending \/ \A r \in Rows : pending[r] <= pending'[r]
<1>1. ASSUME NEW ids, Insert(ids) \/ InsertAndRefuse(ids)
      PROVE  \A r \in Rows : pending[r] <= pending'[r]
  BY <1>1, InsertAdds, InsertAndRefuseAdds DEF IngestInv, Added
<1>2. CASE NextBatch \/ StreamEnds \/ BatchDone
  BY <1>2 DEF NextBatch, StreamEnds, BatchDone, serverVars
<1>3. CASE ArrayIngestFails \/ ArrayIngestUnspellable \/ ArrayBindFails \/ RowBindFails
  BY <1>3 DEF ArrayIngestFails, ArrayIngestUnspellable, ArrayBindFails, RowBindFails, serverVars
<1>4. CASE MultiRowEnters \/ ArraysEnter \/ ArraysLeave
  BY <1>4 DEF MultiRowEnters, ArraysEnter, ArraysLeave, serverVars
<1>5. CASE RestEnters \/ MultiRowDone \/ Finished
  BY <1>5 DEF RestEnters, MultiRowDone, Finished, vars, serverVars
<1>6. CASE ArrayIngestExecute
  <2>1. status = "ok"
    BY <1>6 DEF ArrayIngestExecute, IngestInv, ErrorsInsertNothing, TypeOK
  <2>2. \/ \E n : Insert(Ids(row, n))
        \/ Refuse
        \/ RestartTxn(TRUE) /\ ~applied /\ row = 0
    BY <1>6 DEF ArrayIngestExecute
  <2>3. CASE RestartTxn(TRUE) /\ ~applied /\ row = 0
    <3>1. base = 0
      BY <2>3, TypeFacts DEF IngestInv, AppliedIsKnown
    <3> QED BY <2>1, <2>3, <3>1, RestartAddsNothing
  <2>4. CASE Refuse
    BY <2>4 DEF Refuse
  <2> QED BY <1>1, <2>2, <2>3, <2>4
<1>7. CASE MultiRowExecute
  BY <1>1, <1>7 DEF MultiRowExecute
<1>8. CASE MultiRowFails
  <2>1. status = "ok"
    BY <1>8 DEF MultiRowFails, IngestInv, ErrorsInsertNothing, TypeOK
  <2>2. \/ pending' = pending
        \/ \E refused \in BOOLEAN : RestartTxn(refused) /\ Virgin /\ row = from
    BY <1>8 DEF MultiRowFails, serverVars
  <2>3. CASE \E refused \in BOOLEAN : RestartTxn(refused) /\ Virgin /\ row = from
    <3>1. base = 0 /\ row = 0
      BY <2>3, TypeFacts DEF IngestInv, AppliedIsKnown, Virgin
    <3> QED BY <2>1, <2>3, <3>1, RestartAddsNothing
  <2> QED BY <2>2, <2>3
<1>9. CASE ArrayExecuteFails
  <2>1. Refuse \/ \E ids : InsertAndRefuse(ids)
    BY <1>9 DEF ArrayExecuteFails
  <2> QED BY <1>1, <2>1 DEF Refuse
<1>10. CASE ArrayExecute
  <2>1. \E ids : Insert(ids) \/ InsertAndRefuse(ids)
    BY <1>10 DEF ArrayExecute
  <2> QED BY <1>1, <2>1
<1>11. CASE ExecuteRow \/ RetryRow
  <2>1. Refuse \/ \E ids : Insert(ids)
    BY <1>11 DEF ExecuteRow, RetryRow
  <2> QED BY <1>1, <2>1 DEF Refuse
<1> QED BY <1>2, <1>3, <1>4, <1>5, <1>6, <1>7, <1>8, <1>9, <1>10, <1>11 DEF Next, EndTxn

(* The transaction ExecuteRows opens is ended exactly once, at the end: in *)
(* between it is only ever replaced while it holds no row.                 *)
THEOREM TxnRestartsOnlyWhenEmptyAlways == ASSUME Accountable PROVE Spec => TxnRestartsOnlyWhenEmpty
<1>1. IngestInv /\ [Next]_vars
        => [pc # "end" /\ pending # pending' => \A r \in Rows : pending[r] <= pending'[r]]_vars
  BY PendingGrows
<1> QED BY <1>1, IngestAlways, PTL DEF Spec, TxnRestartsOnlyWhenEmpty
=============================================================================
