----------------------------- MODULE IngestRows -----------------------------
(***************************************************************************)
(* ExecuteRows of odbc_bind.c: one bound stream of rows applied through    *)
(* the fastest form the server turns out to take.  A batch is offered to   *)
(* the PostgreSQL array form, to the multi-row INSERT, to ODBC parameter   *)
(* arrays, to the multi-row INSERT again and at last row by row; a form    *)
(* that is refused before anything was applied is dropped and the batch is *)
(* replayed by the next one, in a fresh transaction.                       *)
(*                                                                         *)
(* A row is its number in the stream; the server is the bag of rows it has *)
(* committed and the bag the open transaction holds.                       *)
(***************************************************************************)
EXTENDS Naturals, Sequences, FiniteSets

CONSTANTS Streams,     \* sequences of batch lengths
          MaxRows,     \* no stream has more rows
          Servers,     \* what the server and its driver do
          GroupRows,   \* K of the multi-row INSERT
          ChunkRows    \* rows of one array execute

Rows == 1..MaxRows

ArrayKinds == {"off", "unplanned", "refuse", "atomic", "stops", "setwise", "short",
               "statusOnly", "silent"}

Server == [txn     : BOOLEAN,     \* reader_opts.txn_capable
           aborts  : BOOLEAN,     \* any error aborts the open transaction
           unnest  : {"no", "refused", "yes"},   \* not a PostgreSQL, or how it takes the array form
           prefer  : BOOLEAN,     \* reader_opts.prefer_param_arrays
           groups  : Nat,         \* row groups an INSERT may carry; below 2 SQLPrepare refuses
           arrays  : ArrayKinds]  \* how ODBC parameter arrays behave

(* The rows before and after each batch of a stream of MaxRows or fewer.   *)
Offsets(s) == {o \in [0..Len(s) -> 0..MaxRows] :
                 o[0] = 0 /\ \A k \in 1..Len(s) : o[k] = o[k - 1] + s[k]}

(* The rows a stream has.                                                  *)
RowsOf(s) == {r \in Rows : \E o \in Offsets(s) : r <= o[Len(s)]}

ASSUME IngestAssumption ==
  /\ MaxRows \in Nat /\ GroupRows \in Nat \ {0} /\ ChunkRows \in Nat \ {0, 1}
  /\ Streams \subseteq Seq(1..MaxRows) /\ \A s \in Streams : Offsets(s) # {}
  /\ Servers \subseteq Server

VARIABLES
  stream, streamFails, bad, server, autocommit,   \* what is ingested, and where
  table, pending, aborted,                        \* the server's state
  nbatch, base, len, row, from,                   \* the batch being applied
  seen, applied, txnActive, total, status, why,   \* ExecuteRows' locals
  mrReady, mrActive, mrRows, aiReady, aiActive,   \* MultiRowInsert, ArrayIngest
  useArray, retry, pc

inputVars  == <<stream, streamFails, bad, server, autocommit>>
serverVars == <<table, pending, aborted>>
batchVars  == <<nbatch, base, len>>
formVars   == <<mrReady, mrActive, mrRows, aiReady, aiActive, useArray>>
vars == <<inputVars, serverVars, batchVars, row, from, seen, applied, txnActive, total,
          status, why, formVars, retry, pc>>

Empty == [r \in Rows |-> 0]

Init ==
  /\ stream \in Streams /\ streamFails \in BOOLEAN
  /\ bad \in SUBSET RowsOf(stream)
  /\ server \in Servers /\ autocommit \in BOOLEAN
  /\ table = Empty /\ pending = Empty /\ aborted = FALSE
  /\ nbatch = 0 /\ base = 0 /\ len = 0 /\ row = 0 /\ from = 0
  /\ seen = 0 /\ applied = FALSE /\ txnActive = FALSE /\ total = 0
  /\ status = "ok" /\ why = "none"
  /\ mrReady = FALSE /\ mrActive = FALSE /\ mrRows = GroupRows
  /\ aiReady = FALSE /\ aiActive = FALSE
  /\ useArray = (server.arrays # "off") /\ retry = {} /\ pc = "next"

-----------------------------------------------------------------------------
(* The server.                                                             *)

InTxn == txnActive \/ ~autocommit

Ids(first, n) == (base + first + 1)..(base + first + n)

Insert(ids) ==
  LET plus(bag) == [r \in Rows |-> IF r \in ids THEN bag[r] + 1 ELSE bag[r]]
  IN  IF InTxn THEN pending' = plus(pending) /\ UNCHANGED <<table, aborted>>
               ELSE table' = plus(table) /\ UNCHANGED <<pending, aborted>>

(* A statement the server refuses, an SQLPrepare too, aborts the           *)
(* transaction it is in on some servers, and inserts nothing.              *)
Poisoned(refused) == aborted \/ (refused /\ InTxn /\ server.aborts)

Refuse == aborted' = Poisoned(TRUE) /\ UNCHANGED <<table, pending>>

(* Some sets of an array go in before one is refused.                      *)
InsertAndRefuse(ids) ==
  IF Poisoned(TRUE) THEN /\ pending' = [r \in Rows |-> IF r \in ids THEN pending[r] + 1 ELSE pending[r]]
                         /\ aborted' = TRUE /\ UNCHANGED table
                    ELSE Insert(ids)

Accepts(ids) == ~aborted /\ ids \cap bad = {}

Reason == IF aborted THEN "aborted" ELSE "data"

Fails == status' = "error" /\ why' = Reason

-----------------------------------------------------------------------------
(* The transaction: OdbcAutoTxnBegin, OdbcAutoTxnEnd.                      *)

MayBegin == autocommit /\ server.txn

(* A slip: the whole stream is applied in autocommit.                      *)
NeverBegin(n) == UNCHANGED txnActive

BeginWhenMany(n) == txnActive' = (txnActive \/ (n > 1 /\ MayBegin))

(* fell_back: nothing was applied, so the replay starts on a clean one.    *)
RestartTxn(refused) ==
  /\ pending' = IF txnActive THEN Empty ELSE pending
  /\ aborted' = (~txnActive /\ Poisoned(refused))
  /\ UNCHANGED <<table, txnActive>>

-----------------------------------------------------------------------------
(* The next batch: the setup probes, then the transaction.                 *)

MultiRowFirst == GroupRows # 1 /\ ~(server.arrays # "off" /\ server.prefer)

(* MultiRowSetup asks by SQLPrepare, which a server may refuse.            *)
MultiRowSetup(asked) ==
  /\ mrReady' = (mrReady \/ asked)
  /\ mrActive' = IF asked THEN server.groups >= 2 /\ GroupRows >= 2 /\ ~aborted ELSE mrActive

(* ArrayIngestSetup too, and only of a PostgreSQL whose columns have array *)
(* types.                                                                  *)
ArrayIngestSetup(asked, poisoned) ==
  /\ aiReady' = (aiReady \/ asked)
  /\ aiActive' = IF asked THEN server.unnest = "yes" /\ ~poisoned ELSE aiActive

NextBatch ==
  /\ pc = "next" /\ nbatch < Len(stream)
  /\ LET n         == stream[nbatch + 1]
         askMulti  == MultiRowFirst /\ ~mrReady /\ n > 1
         askUnnest == server.unnest # "no" /\ ~aiReady /\ n > 1
         poisoned  == Poisoned(askMulti /\ server.groups < 2)
     IN  /\ nbatch' = nbatch + 1 /\ base' = base + len /\ len' = n
         /\ MultiRowSetup(askMulti)
         /\ ArrayIngestSetup(askUnnest, poisoned)
         /\ aborted' = (poisoned \/ Poisoned(askUnnest /\ server.unnest = "refused"))
         /\ seen' = seen + n
         /\ BeginWhenMany(seen + n)
         /\ pc' = IF aiActive' /\ n > 1 THEN "unnest" ELSE "multirow"
  /\ row' = 0 /\ from' = 0 /\ retry' = {}
  /\ UNCHANGED <<inputVars, table, pending, applied, total, status, why, mrRows, useArray>>

StreamEnds ==
  /\ pc = "next" /\ nbatch = Len(stream)
  /\ IF streamFails THEN status' = "error" /\ why' = "stream"
                    ELSE UNCHANGED <<status, why>>
  /\ pc' = "end"
  /\ UNCHANGED <<inputVars, serverVars, batchVars, row, from, seen, applied, txnActive,
                 total, formVars, retry>>

-----------------------------------------------------------------------------
(* ArrayIngestExecuteBatch: a chunk is as long as every column can spell.  *)

Smaller(a, b) == IF a < b THEN a ELSE b

ArrayIngestExecute ==
  /\ pc = "unnest"
  /\ \E n \in 1..Smaller(len - row, ChunkRows) :
     LET ids == Ids(row, n)
     IN  IF Accepts(ids)
         THEN /\ Insert(ids)
              /\ row' = row + Cardinality(ids)
              /\ total' = total + Cardinality(ids)
              /\ pc' = IF row' = len THEN "multirow" ELSE "unnest"
              /\ UNCHANGED <<txnActive, status, why, aiActive>>
         ELSE IF applied \/ row # 0
         THEN /\ Refuse /\ Fails
              /\ row' = 0 /\ pc' = "multirow"
              /\ UNCHANGED <<txnActive, total, aiActive>>
         ELSE /\ RestartTxn(TRUE)
              /\ aiActive' = FALSE /\ pc' = "multirow"
              /\ UNCHANGED <<row, total, status, why>>
  /\ UNCHANGED <<inputVars, batchVars, from, seen, applied, mrReady, mrActive, mrRows,
                 aiReady, useArray, retry>>

(* A column could not be rendered or bound.                                *)
ArrayIngestFails ==
  /\ pc = "unnest"
  /\ status' = "error" /\ why' = "client" /\ row' = 0 /\ pc' = "multirow"
  /\ UNCHANGED <<inputVars, serverVars, batchVars, from, seen, applied, txnActive, total,
                 formVars, retry>>

(* A row no array literal can spell stops the form for good.               *)
ArrayIngestUnspellable ==
  /\ pc = "unnest"
  /\ aiActive' = FALSE /\ pc' = "multirow"
  /\ UNCHANGED <<inputVars, serverVars, batchVars, row, from, seen, applied, txnActive,
                 total, status, why, mrReady, mrActive, mrRows, aiReady, useArray, retry>>

-----------------------------------------------------------------------------
(* MultiRowExecuteBatch, first ("multirow") or after the parameter arrays  *)
(* gave up ("rest").  It offers rows from.. ; row counts what went in.     *)

MultiRowEnters ==
  /\ pc = "multirow"
  /\ pc' = IF MultiRowFirst /\ mrActive /\ row = 0 /\ len > 1 /\ status = "ok"
           THEN "group" ELSE "arrays"
  /\ from' = row
  /\ UNCHANGED <<inputVars, serverVars, batchVars, row, seen, applied, txnActive, total,
                 status, why, formVars, retry>>

RestEnters ==
  /\ pc = "rest"
  /\ LET asked == GroupRows # 1 /\ ~mrReady /\ len - row > 1 /\ status = "ok"
     IN  MultiRowSetup(asked) /\ aborted' = Poisoned(asked /\ server.groups < 2)
  /\ from' = row
  /\ pc' = IF mrActive' /\ len - row > 1 /\ status = "ok" THEN "restGroup" ELSE "rows"
  /\ applied' = (applied \/ (pc' = "rows" /\ row > 0))
  /\ UNCHANGED <<inputVars, table, pending, batchVars, row, seen, txnActive, total, status,
                 why, mrRows, aiReady, aiActive, useArray, retry>>

LeaveMultiRow == IF pc = "group" THEN "arrays" ELSE "rows"

(* A slip: a refusal counts as the first one in every batch.               *)
VirginBatch == from = 0

Virgin == ~applied /\ from = 0

(* At most one row is left, or no statement can be had for the remainder.  *)
MultiRowDone ==
  /\ pc \in {"group", "restGroup"} /\ (len - row < 2 \/ len - row < mrRows)
  /\ \E refused \in {FALSE, len - row >= 2} : aborted' = Poisoned(refused)
  /\ pc' = LeaveMultiRow
  /\ applied' = (applied \/ (pc' = "rows" /\ row > 0))
  /\ UNCHANGED <<inputVars, table, pending, batchVars, row, from, seen, txnActive, total,
                 status, why, formVars, retry>>

GroupTaken(n) == n <= server.groups /\ Accepts(Ids(row, n))

MultiRowExecute ==
  /\ pc \in {"group", "restGroup"} /\ len - row >= 2
  /\ LET n == Smaller(len - row, mrRows)
     IN  /\ GroupTaken(n)
         /\ Insert(Ids(row, n))
         /\ row' = row + n /\ total' = total + n
  /\ UNCHANGED <<inputVars, batchVars, from, seen, applied, txnActive, status, why, formVars,
                 retry, pc>>

(* The group is refused, or could not be bound.  With nothing applied yet  *)
(* it was a probe: halve K (MultiRowNarrow), or give the form up and have  *)
(* the batch replayed (fell_back); otherwise the error stands.             *)
MultiRowFails ==
  /\ pc \in {"group", "restGroup"} /\ len - row >= 2
  /\ \E refused \in BOOLEAN :
       LET probe    == Virgin /\ row = from
           narrower == mrRows \div 2 >= 2 /\ ~Poisoned(refused)
       IN  /\ refused => ~GroupTaken(Smaller(len - row, mrRows))
           /\ \/ /\ ~probe
                 /\ status' = "error" /\ why' = IF refused THEN Reason ELSE "client"
                 /\ aborted' = Poisoned(refused)
                 /\ row' = from /\ pc' = LeaveMultiRow
                 /\ applied' = (applied \/ (pc' = "rows" /\ row' > 0))
                 /\ UNCHANGED <<table, pending, txnActive, mrActive, mrRows>>
              \/ /\ probe /\ narrower
                 /\ mrRows' = mrRows \div 2
                 /\ UNCHANGED <<serverVars, row, txnActive, status, why, mrActive, pc, applied>>
              \/ /\ probe /\ ~narrower
                 /\ mrActive' = FALSE /\ pc' = LeaveMultiRow
                 /\ IF pc = "group" THEN RestartTxn(refused)
                    ELSE aborted' = Poisoned(refused) /\ UNCHANGED <<table, pending, txnActive>>
                 /\ UNCHANGED <<row, status, why, mrRows, applied>>
  /\ UNCHANGED <<inputVars, batchVars, from, seen, total, mrReady, aiReady, aiActive, useArray,
                 retry>>

-----------------------------------------------------------------------------
(* ExecuteBatchArray, one chunk at a time.                                 *)

ArraysEnter ==
  /\ pc = "arrays"
  /\ pc' = IF useArray /\ row = 0 /\ len > 1 /\ status = "ok" THEN "chunk" ELSE "rest"
  /\ UNCHANGED <<inputVars, serverVars, batchVars, row, from, seen, applied, txnActive,
                 total, status, why, formVars, retry>>

(* Every column has a type and a width an array can carry.                 *)
ArrayParamPlan == server.arrays # "unplanned"

(* A column no array can carry, SQL_ATTR_PARAMSET_SIZE refused, or a lone  *)
(* row left over.                                                          *)
ChunkReady == ArrayParamPlan /\ server.arrays # "refuse" /\ len - row >= 2

ArraysLeave ==
  /\ pc = "chunk" /\ ~ChunkReady
  /\ useArray' = (useArray /\ server.arrays # "refuse")
  /\ pc' = "rest"
  /\ UNCHANGED <<inputVars, serverVars, batchVars, row, from, seen, applied, txnActive,
                 total, status, why, mrReady, mrActive, mrRows, aiReady, aiActive, retry>>

(* What an execute of the sets ids does, and what the driver says of it:   *)
(* which rows landed, which it marks as failed, how many it processed (0:  *)
(* SQL_ATTR_PARAMS_PROCESSED_PTR not written) and whether a set has status.*)
ArrayOutcomes(ids) ==
  LET stops == InTxn /\ server.aborts
      good  == IF aborted THEN {}
               ELSE {r \in ids \ bad : stops => \A b \in bad \cap ids : r < b}
      n     == Cardinality(ids)
      lo    == base + row + 1
      say(landed, failed, processed, known) ==
        [landed |-> landed, failed |-> failed, processed |-> processed, known |-> known]
  IN  CASE server.arrays = "setwise"    ->          \* it may refuse a set it would take alone
             {say(good \ odd, (ids \ good) \cup odd, n, TRUE) :
                odd \in IF stops THEN {{}} ELSE {{}, {lo} \cap good}}
        [] server.arrays = "statusOnly" -> {say(good, ids \ good, 0, TRUE)}
        [] server.arrays = "short"      ->
             {say(good \cap (lo..(lo + m - 1)), (lo..(lo + m - 1)) \ good, m, TRUE) : m \in 1..n}
        [] server.arrays = "silent"     -> {say(ids, {}, 0, FALSE)}
        [] OTHER                        -> {say(ids, {}, n, TRUE)}

(* SQLExecute fails: the driver rejects an array with a bad set, or stops  *)
(* at that set with the ones before it applied and counted as processed.   *)
ArrayRejected(ids) ==
  \/ server.arrays \in {"atomic", "stops", "silent"} /\ ~Accepts(ids)
  \/ aborted

Stopped == server.arrays = "stops" /\ ~aborted

ArrayExecuteFails ==
  /\ pc = "chunk" /\ ChunkReady
  /\ LET ids == Ids(row, Smaller(len - row, ChunkRows))
     IN  /\ ArrayRejected(ids)
         /\ IF Stopped THEN InsertAndRefuse({r \in ids : \A b \in bad \cap ids : r < b})
                       ELSE Refuse
  /\ IF row = 0 /\ ~Stopped THEN useArray' = FALSE /\ UNCHANGED <<status, why>>
                            ELSE Fails /\ UNCHANGED useArray
  /\ pc' = "rest"
  /\ UNCHANGED <<inputVars, batchVars, row, from, seen, applied, txnActive, total,
                 mrReady, mrActive, mrRows, aiReady, aiActive, retry>>

(* ArrayParamFill or SQLBindParameter fails: the chunk is not executed.    *)
ArrayBindFails ==
  /\ pc = "chunk" /\ ChunkReady
  /\ status' = "error" /\ why' = "client" /\ pc' = "rest"
  /\ UNCHANGED <<inputVars, serverVars, batchVars, row, from, seen, applied, txnActive, total,
                 formVars, retry>>

(* A slip: the rows that landed are counted, not the rows processed.       *)
CountLanded(o) == Cardinality(o.landed)

(* How many leading rows of the chunk are done with: the processed count,  *)
(* or, without one, the sets whose status says that they were applied.     *)
Counted(o) == IF o.processed > 0 THEN o.processed
              ELSE IF o.known THEN Cardinality(o.landed) ELSE 0

ArrayExecute ==
  /\ pc = "chunk" /\ ChunkReady
  /\ LET ids == Ids(row, Smaller(len - row, ChunkRows))
     IN  /\ ~ArrayRejected(ids)
         /\ \E o \in ArrayOutcomes(ids) :
              LET done == Counted(o)
              IN  /\ IF o.failed # {} THEN InsertAndRefuse(o.landed) ELSE Insert(o.landed)
                  /\ retry' = retry \cup o.failed
                  /\ IF done = 0
                     THEN /\ status' = "error" /\ why' = "uncounted"
                          /\ pc' = "rest"
                          /\ UNCHANGED <<row, total, useArray>>
                     ELSE /\ total' = total + Cardinality(o.landed)
                          /\ row' = row + done
                          /\ useArray' = (done = Cardinality(ids))
                          /\ pc' = IF done = Cardinality(ids) THEN "chunk" ELSE "rest"
                          /\ UNCHANGED <<status, why>>
  /\ UNCHANGED <<inputVars, batchVars, from, seen, applied, txnActive, mrReady, mrActive,
                 mrRows, aiReady, aiActive>>

-----------------------------------------------------------------------------
(* The row-at-a-time path, then the parameter sets a driver marked failed. *)

ExecuteRow ==
  /\ pc = "rows" /\ row < len /\ status = "ok"
  /\ IF Accepts(Ids(row, 1))
     THEN /\ Insert(Ids(row, 1))
          /\ row' = row + 1 /\ total' = total + 1 /\ applied' = TRUE
          /\ UNCHANGED <<status, why>>
     ELSE Refuse /\ Fails /\ UNCHANGED <<row, total, applied>>
  /\ UNCHANGED <<inputVars, batchVars, from, seen, txnActive, formVars, retry, pc>>

RetryRow ==
  /\ pc = "rows" /\ row >= len /\ status = "ok" /\ retry # {}
  /\ LET r == CHOOSE r \in retry : \A q \in retry : r <= q
     IN  IF Accepts({r})
         THEN /\ Insert({r})
              /\ retry' = retry \ {r} /\ total' = total + 1
              /\ UNCHANGED <<status, why>>
         ELSE Refuse /\ Fails /\ UNCHANGED <<retry, total>>
  /\ UNCHANGED <<inputVars, batchVars, row, from, seen, applied, txnActive, formVars, pc>>

(* A value that SlotFromArrow cannot convert, or that will not bind.       *)
RowBindFails ==
  /\ pc = "rows" /\ status = "ok" /\ (row < len \/ retry # {})
  /\ status' = "error" /\ why' = "client"
  /\ UNCHANGED <<inputVars, serverVars, batchVars, row, from, seen, applied, txnActive, total,
                 formVars, retry, pc>>

(* A slip: the parameter sets the driver marked failed are forgotten.      *)
RetriesForgotten ==
  /\ pc = "rows" /\ (status # "ok" \/ row >= len)
  /\ pc' = IF status = "ok" THEN "next" ELSE "end"
  /\ UNCHANGED <<inputVars, serverVars, batchVars, row, from, seen, applied, txnActive,
                 total, status, why, formVars, retry>>

BatchDone ==
  /\ pc = "rows" /\ (status # "ok" \/ (row >= len /\ retry = {}))
  /\ pc' = IF status = "ok" THEN "next" ELSE "end"
  /\ UNCHANGED <<inputVars, serverVars, batchVars, row, from, seen, applied, txnActive,
                 total, status, why, formVars, retry>>

(* Commit everything, or roll it back; a commit may itself be refused, and *)
(* the server then discards the transaction.                               *)
EndTxn ==
  /\ pc = "end"
  /\ \/ /\ txnActive /\ status = "ok"
        /\ \/ /\ ~aborted
              /\ table' = [r \in Rows |-> table[r] + pending[r]]
              /\ UNCHANGED <<status, why>>
           \/ status' = "error" /\ why' = "commit" /\ UNCHANGED table
        /\ pending' = Empty /\ aborted' = FALSE
     \/ /\ txnActive /\ status # "ok"
        /\ pending' = Empty /\ aborted' = FALSE
        /\ UNCHANGED <<table, status, why>>
     \/ ~txnActive /\ UNCHANGED <<table, pending, aborted, status, why>>
  /\ txnActive' = FALSE
  /\ pc' = "done"
  /\ UNCHANGED <<inputVars, batchVars, row, from, seen, applied, total, formVars, retry>>

Finished == pc = "done" /\ UNCHANGED vars

Next == \/ NextBatch \/ StreamEnds
        \/ ArrayIngestExecute \/ ArrayIngestFails \/ ArrayIngestUnspellable
        \/ MultiRowEnters \/ RestEnters \/ MultiRowDone
        \/ MultiRowExecute \/ MultiRowFails
        \/ ArraysEnter \/ ArraysLeave \/ ArrayExecuteFails \/ ArrayBindFails
        \/ ArrayExecute \/ ExecuteRow \/ RetryRow \/ RowBindFails \/ BatchDone \/ EndTxn \/ Finished

Spec == Init /\ [][Next]_vars

-----------------------------------------------------------------------------
(* Properties.                                                             *)

(* Every variable has its type, and the batch is inside the stream.        *)
TypeOK ==
  /\ stream \in Streams /\ streamFails \in BOOLEAN /\ bad \in SUBSET Rows
  /\ server \in Servers /\ autocommit \in BOOLEAN
  /\ table \in [Rows -> Nat] /\ pending \in [Rows -> Nat] /\ aborted \in BOOLEAN
  /\ nbatch \in 0..Len(stream) /\ base \in Nat /\ len \in Nat /\ base + len <= MaxRows
  /\ row \in 0..len /\ from \in 0..len
  /\ seen \in 0..MaxRows /\ applied \in BOOLEAN /\ txnActive \in BOOLEAN
  /\ total \in Nat /\ status \in {"ok", "error"}
  /\ why \in {"none", "data", "aborted", "stream", "commit", "uncounted", "client"}
  /\ mrReady \in BOOLEAN /\ mrActive \in BOOLEAN /\ mrRows \in 1..GroupRows
  /\ aiReady \in BOOLEAN /\ aiActive \in BOOLEAN /\ useArray \in BOOLEAN
  /\ retry \subseteq Rows
  /\ pc \in {"next", "unnest", "multirow", "group", "arrays", "chunk", "rest", "restGroup",
             "rows", "end", "done"}

(* However often a form is refused and its batch replayed by another one,  *)
(* no row is ever inserted twice.                                          *)
NoDuplicateRows == \A r \in Rows : table[r] + pending[r] <= 1

(* An ingest that reports success has inserted every row of the stream and *)
(* counted it; in autocommit they are all committed.                       *)
SuccessMeansAllRows ==
  pc = "done" /\ status = "ok" =>
    /\ total = base + len
    /\ \A r \in 1..(base + len) : table[r] + pending[r] = 1
    /\ autocommit => pending = Empty

(* An ingest that fails on a server with transactions leaves nothing       *)
(* behind, except a lone row that came as a batch of its own before the    *)
(* transaction was opened.                                                 *)
FailureLeavesAtMostALoneRow ==
  pc = "done" /\ status = "error" /\ autocommit /\ server.txn =>
    \/ table = Empty
    \/ stream[1] = 1 /\ \A r \in Rows \ {1} : table[r] = 0

(* The transaction ExecuteRows opens is ended exactly once, at the end: in *)
(* between it is only ever replaced while it holds no row.                 *)
TxnRestartsOnlyWhenEmpty ==
  [][pc # "end" /\ pending # pending' => \A r \in Rows : pending[r] <= pending'[r]]_vars

-----------------------------------------------------------------------------
(* The inductive invariant that the properties rest on, for drivers that   *)
(* account for what they applied.                                          *)

(* Where the batch lies in the stream.                                     *)
Placed ==
  /\ \E o \in Offsets(stream) : base + len = o[nbatch]
  /\ seen = base + len
  /\ nbatch = 0 => base = 0 /\ len = 0
  /\ nbatch > 0 => len = stream[nbatch] /\ nbatch <= base + 1
  /\ pc \notin {"next", "end", "done"} => nbatch > 0

(* As long as nothing has failed, what is in the table or the transaction  *)
(* are the rows up to the current one without those to retry, and total    *)
(* counts them.                                                            *)
RowsIn ==
  status = "ok" =>
    /\ retry \subseteq Ids(0, row)
    /\ \A r \in Rows : table[r] + pending[r] = IF r <= base + row /\ r \notin retry THEN 1 ELSE 0
    /\ total + Cardinality(retry) = base + row
    /\ pc \in {"next", "end", "done"} => row = len /\ retry = {}

(* applied is FALSE only while no row of the stream is in.                 *)
AppliedIsKnown ==
  /\ base > 0 => applied
  /\ pc = "next" /\ len > 0 => applied
  /\ pc = "rows" /\ row > 0 /\ status = "ok" => applied

(* A step that inserts is taken only while nothing has failed.             *)
ErrorsInsertNothing ==
  status = "error" => pc \in {"multirow", "arrays", "rest", "rows", "end", "done"}

(* What a transaction holds and what has been committed without one.       *)
Committed ==
  /\ aborted => InTxn
  /\ ~InTxn => pending = Empty
  /\ pc = "done" => ~txnActive
  /\ MayBegin /\ ~txnActive /\ pc # "done" => seen <= 1
  /\ MayBegin /\ (pc = "done" => status = "error") =>
       \/ table = Empty
       \/ nbatch > 0 /\ stream[1] = 1 /\ \A r \in Rows \ {1} : table[r] = 0

IngestInv == /\ TypeOK /\ Placed /\ RowsIn /\ NoDuplicateRows /\ AppliedIsKnown
             /\ ErrorsInsertNothing /\ Committed
=============================================================================
