-------------------------- MODULE StatementHandles --------------------------
(***************************************************************************)
(* The life of ODBC statement handles behind one connection, from          *)
(* odbc_driver.c and odbc_bind.c.  A handle is shared, by a reference      *)
(* count, between the AdbcStatement that executed on it and the result     *)
(* streams it produced; EnsureHandle gives a statement a handle nobody     *)
(* else uses, that no rollback has spoiled, before it runs anything.       *)
(*                                                                         *)
(* A query is a number, 0 is none.  A call on a statement is one step; the *)
(* fetch thread of a stream runs between StartFetch and FetchEnds.         *)
(***************************************************************************)
EXTENDS Naturals, FiniteSets

CONSTANTS Statements, Streams, Handles, Queries,
          MaxEpoch,     \* bound on the rollbacks counted
          TxnCapable    \* reader_opts.txn_capable

ASSUME HandlesAssumption ==
  /\ IsFiniteSet(Statements) /\ IsFiniteSet(Streams) /\ IsFiniteSet(Handles)
  /\ Cardinality(Handles) >= Cardinality(Statements) + Cardinality(Streams)
  /\ Queries \subseteq Nat \ {0} /\ 0 \notin Streams \cup Handles
  /\ MaxEpoch \in Nat /\ TxnCapable \in BOOLEAN

VARIABLES stmt,                \* OdbcStatement
          handle,              \* OdbcHandleRef and the ODBC handle behind it
          stream,              \* OdbcReader and BoundReader
          epoch, autocommit,   \* OdbcConnection
          touched              \* the handle the last call described a schema on, 0 if none

vars == <<stmt, handle, stream, epoch, autocommit, touched>>

(* The INSERT a bulk ingest writes into stmt->query.                       *)
InsertQuery == 0 - 1

NewStatement == [live |-> TRUE, ref |-> 0, epoch |-> 0, query |-> 0, prepared |-> FALSE,
                 requested |-> FALSE, executed |-> FALSE, bind |-> FALSE, ingest |-> FALSE]

NoHandle  == [refs |-> 0, prepared |-> 0, cursor |-> 0, dead |-> "no"]
NewHandle == [NoHandle EXCEPT !.refs = 1]

NoStream == [kind |-> "none", handle |-> 0, query |-> 0, open |-> FALSE, fetch |-> "not",
             done |-> FALSE]

Init == /\ stmt = [s \in Statements |-> NewStatement]
        /\ handle = [h \in Handles |-> NoHandle]
        /\ stream = [t \in Streams |-> NoStream]
        /\ epoch = 0 /\ autocommit = TRUE /\ touched = 0

-----------------------------------------------------------------------------
(* A call on a statement as it goes: whether it has succeeded so far, the  *)
(* statement and the handles.  Each operator maps it to what may follow.   *)

Call(s) == [ok |-> TRUE, st |-> stmt[s], hs |-> handle]

(* OdbcHandleRefRelease: the last reference frees the handle.              *)
Unref(hs, h, n) ==
  IF h = 0 THEN hs
  ELSE [hs EXCEPT ![h] = IF hs[h].refs = n THEN NoHandle ELSE [hs[h] EXCEPT !.refs = @ - n]]

Detach(c) == [c EXCEPT !.hs = Unref(@, c.st.ref, 1), !.st.ref = 0, !.st.prepared = FALSE]

Alloc(c) ==
  {[c EXCEPT !.ok = FALSE]}
    \cup {[c EXCEPT !.hs[h] = NewHandle, !.st.ref = h, !.st.epoch = epoch] :
             h \in {x \in Handles : c.hs[x].refs = 0}}

(* A slip: a handle whose result set is still being read is reused.        *)
ReuseShared(c) ==
  LET h == c.st.ref
  IN  IF ~c.ok THEN {c}
      ELSE IF h = 0 THEN Alloc(c)
      ELSE IF c.st.epoch # epoch THEN Alloc(Detach(c))
      ELSE {[c EXCEPT !.hs[h].cursor = 0, !.st.epoch = epoch]}

(* OdbcStatementEnsureHandle: a handle a stream owns, one last used before *)
(* a rollback or one that will not close its cursor is left behind.        *)
EnsureHandle(c) ==
  LET h == c.st.ref
  IN  IF ~c.ok THEN {c}
      ELSE IF h = 0 THEN Alloc(c)
      ELSE IF c.hs[h].refs > 1 \/ c.st.epoch # epoch THEN Alloc(Detach(c))
      ELSE Alloc(Detach(c)) \cup {[c EXCEPT !.hs[h].cursor = 0, !.st.epoch = epoch]}

(* SQLPrepare of the statement's query on its handle.                      *)
SQLPrepare(c) ==
  IF ~c.ok THEN {c}
  ELSE {[c EXCEPT !.hs[c.st.ref].prepared = c.st.query, !.st.prepared = TRUE],
        [c EXCEPT !.hs[c.st.ref].prepared = 0, !.ok = FALSE]}

DoPrepare(c) == IF c.st.prepared THEN {c}
                ELSE UNION {SQLPrepare(d) : d \in EnsureHandle(c)}

(* SQLExecute on a handle whose SQLPrepare has failed is refused.          *)
Runs(c) == c.st.prepared => c.hs[c.st.ref].prepared # 0

(* A result set: the stream takes n references on the statement's handle.  *)
OpenStream(c, t, kind, n) ==
  /\ stream' = [stream EXCEPT ![t] = [kind |-> kind, handle |-> c.st.ref,
                                      query |-> IF kind = "bound" THEN c.st.query ELSE 0,
                                      open |-> TRUE, fetch |-> "not", done |-> FALSE]]
  /\ handle' = [c.hs EXCEPT ![c.st.ref].refs = @ + n, ![c.st.ref].cursor = t]

Rest == UNCHANGED <<epoch, autocommit>>

-----------------------------------------------------------------------------
(* The statement's entry points.                                           *)

StatementNew(s) ==
  /\ ~stmt[s].live
  /\ stmt' = [stmt EXCEPT ![s] = NewStatement]
  /\ touched' = 0 /\ UNCHANGED <<handle, stream>> /\ Rest

StatementRelease(s) ==
  /\ stmt[s].live
  /\ handle' = Unref(handle, stmt[s].ref, 1)
  /\ stmt' = [stmt EXCEPT ![s] = [NewStatement EXCEPT !.live = FALSE]]
  /\ touched' = 0 /\ UNCHANGED stream /\ Rest

(* A slip: the new query is taken for prepared.                            *)
SetQueryOnly(s, q) ==
  /\ stmt[s].live
  /\ stmt' = [stmt EXCEPT ![s] = [@ EXCEPT !.query = q, !.requested = FALSE,
                !.executed = FALSE, !.ingest = FALSE]]
  /\ touched' = 0 /\ UNCHANGED <<handle, stream>> /\ Rest

SetSqlQuery(s, q) ==
  /\ stmt[s].live
  /\ stmt' = [stmt EXCEPT ![s] = [@ EXCEPT !.query = q, !.prepared = FALSE,
                !.requested = FALSE, !.executed = FALSE, !.ingest = FALSE]]
  /\ touched' = 0 /\ UNCHANGED <<handle, stream>> /\ Rest

(* SetOption(target table), BindStream.                                    *)
SetIngestTable(s) ==
  /\ stmt[s].live
  /\ stmt' = [stmt EXCEPT ![s].ingest = TRUE]
  /\ touched' = 0 /\ UNCHANGED <<handle, stream>> /\ Rest

BindStream(s) ==
  /\ stmt[s].live
  /\ stmt' = [stmt EXCEPT ![s].bind = TRUE]
  /\ touched' = 0 /\ UNCHANGED <<handle, stream>> /\ Rest

Prepare(s) ==
  /\ stmt[s].live /\ stmt[s].query # 0
  /\ \E c \in EnsureHandle(Call(s)) :
       /\ stmt' = [stmt EXCEPT ![s] = IF c.ok THEN [c.st EXCEPT !.requested = TRUE] ELSE c.st]
       /\ handle' = c.hs
  /\ touched' = 0 /\ UNCHANGED stream /\ Rest

(* SQLNumResultCols, SQLDescribeCol or SQLDescribeParam on its handle.     *)
Described(c) == IF c.ok THEN c.st.ref ELSE 0

(* ExecuteSchema, GetParameterSchema.                                      *)
DescribeSchema(s) ==
  /\ stmt[s].live /\ stmt[s].query # 0
  /\ \E c \in DoPrepare(Call(s)) :
       /\ stmt' = [stmt EXCEPT ![s] = c.st]
       /\ handle' = c.hs
       /\ touched' = Described(c)
  /\ UNCHANGED stream /\ Rest

(* ExecutePartitions with a schema asked for.                              *)
ExecutePartitions(s) ==
  /\ stmt[s].live /\ stmt[s].query # 0 /\ ~stmt[s].bind /\ ~stmt[s].ingest
  /\ \E d \in EnsureHandle(Call(s)) : \E c \in SQLPrepare(d) :
       /\ stmt' = [stmt EXCEPT ![s] = c.st]
       /\ handle' = c.hs
       /\ touched' = Described(c)
  /\ UNCHANGED stream /\ Rest

(* ExecuteQuery without parameters: the second execute of a query that was *)
(* to be prepared prepares it.  No result set, an error or no stream asked *)
(* for leave the handle idle.                                              *)
ExecuteQuery(s) ==
  /\ stmt[s].live /\ stmt[s].query # 0 /\ ~stmt[s].bind /\ ~stmt[s].ingest
  /\ \E d \in IF stmt[s].requested /\ stmt[s].executed THEN DoPrepare(Call(s)) ELSE {Call(s)} :
     \E c \in EnsureHandle(d) :
       IF ~c.ok
       THEN stmt' = [stmt EXCEPT ![s] = c.st] /\ handle' = c.hs /\ UNCHANGED stream
       ELSE LET e == [c EXCEPT !.st.executed = TRUE,
                               !.hs[c.st.ref].prepared = IF c.st.prepared THEN @ ELSE 0]
            IN  /\ stmt' = [stmt EXCEPT ![s] = e.st]
                /\ \/ handle' = e.hs /\ UNCHANGED stream
                   \/ \E t \in Streams :
                        /\ Runs(e) /\ stream[t].kind = "none"
                        /\ OpenStream(e, t, "reader", 1)
  /\ touched' = 0 /\ Rest

(* OdbcStatementExecuteBound up to the execution.                          *)
BoundCall(c) == UNION {IF d.ok /\ ~d.st.prepared THEN SQLPrepare(d) ELSE {d} : d \in EnsureHandle(c)}

(* A rollback spoils every handle that has a cursor open.                  *)
Spoil(hs, how) ==
  [h \in Handles |-> IF hs[h].cursor # 0 /\ hs[h].dead # "rollback"
                     THEN [hs[h] EXCEPT !.dead = how] ELSE hs[h]]

(* ExecuteRows: a failed ingest rolls the automatic transaction back.      *)
RunRows(s, c) ==
  /\ UNCHANGED stream
  /\ \/ /\ stmt' = [stmt EXCEPT ![s] = IF c.ok THEN [c.st EXCEPT !.bind = FALSE] ELSE c.st]
        /\ handle' = c.hs
     \/ /\ c.ok /\ autocommit /\ TxnCapable
        /\ stmt' = [stmt EXCEPT ![s] = [c.st EXCEPT !.bind = FALSE]]
        /\ handle' = Spoil(c.hs, "autotxn")
     \/ /\ c.ok                              \* the bound stream has no schema
        /\ stmt' = [stmt EXCEPT ![s] = c.st]
        /\ handle' = c.hs

ExecuteRows(s) ==
  /\ stmt[s].live /\ stmt[s].query # 0 /\ stmt[s].bind /\ ~stmt[s].ingest
  /\ \E c \in BoundCall(Call(s)) : RunRows(s, c)
  /\ touched' = 0 /\ Rest

(* BoundReaderInit: no row had a result set, or a stream over the first.   *)
ExecuteBoundQuery(s) ==
  /\ stmt[s].live /\ stmt[s].query # 0 /\ stmt[s].bind /\ ~stmt[s].ingest
  /\ \E c \in BoundCall(Call(s)) :
       /\ stmt' = [stmt EXCEPT ![s] = IF c.ok THEN [c.st EXCEPT !.bind = FALSE] ELSE c.st]
       /\ \/ handle' = c.hs /\ UNCHANGED stream
          \/ \E t \in Streams :
               /\ c.ok /\ Runs(c) /\ stream[t].kind = "none"
               /\ OpenStream(c, t, "bound", 2)
  /\ touched' = 0 /\ Rest

(* The DDL, on handles of its own; a table that exists already is an error *)
(* unless create_append finds every column in it.                          *)
CreateTable(c) == {c, [c EXCEPT !.ok = FALSE]}

(* OdbcStatementIngest: a mode that creates the table drops the handle     *)
(* first; the INSERT then runs here or on connections of its own.          *)
Ingest(s) ==
  /\ stmt[s].live /\ stmt[s].ingest /\ stmt[s].bind
  /\ \E c \in CreateTable(Detach(Call(s))) \cup {Call(s)} :
       LET d == [c EXCEPT !.st.query = InsertQuery, !.st.prepared = FALSE]
       IN  \/ /\ ~c.ok                        \* the DDL failed
              /\ stmt' = [stmt EXCEPT ![s] = c.st] /\ handle' = c.hs /\ UNCHANGED stream
           \/ /\ c.ok /\ autocommit           \* IngestParallel
              /\ \E left \in BOOLEAN :          \* it may fail before it takes the stream
                   stmt' = [stmt EXCEPT ![s] = [d.st EXCEPT !.bind = left]]
              /\ handle' = d.hs /\ UNCHANGED stream
           \/ c.ok /\ \E e \in BoundCall(d) : RunRows(s, e)
  /\ touched' = 0 /\ Rest

-----------------------------------------------------------------------------
(* The connection.                                                         *)

SetAutocommit(on) ==
  /\ autocommit # on
  /\ autocommit' = on
  /\ touched' = 0 /\ UNCHANGED <<stmt, handle, stream, epoch>>

(* A slip: the rollback is not counted.                                    *)
RollbackUncounted ==
  /\ ~autocommit /\ epoch < MaxEpoch
  /\ handle' = Spoil(handle, "rollback")
  /\ touched' = 0 /\ UNCHANGED <<stmt, stream, epoch, autocommit>>

Rollback ==
  /\ ~autocommit /\ epoch < MaxEpoch
  /\ handle' = Spoil(handle, "rollback")
  /\ epoch' = epoch + 1
  /\ touched' = 0 /\ UNCHANGED <<stmt, stream, autocommit>>

-----------------------------------------------------------------------------
(* The result streams.                                                     *)

(* OdbcConnectionReadPartitionOdbc: the stream is its handle's only owner. *)
ReadPartition(t) ==
  /\ stream[t].kind = "none"
  /\ \E h \in {x \in Handles : handle[x].refs = 0} :
       /\ handle' = [handle EXCEPT ![h] = [NewHandle EXCEPT !.cursor = t]]
       /\ stream' = [stream EXCEPT ![t] = [NoStream EXCEPT !.kind = "reader", !.handle = h,
                                                          !.open = TRUE]]
  /\ touched' = 0 /\ UNCHANGED stmt /\ Rest

StartFetch(t) ==
  /\ stream[t].open /\ stream[t].fetch = "not"
  /\ stream' = [stream EXCEPT ![t].fetch = "running"]
  /\ touched' = 0 /\ UNCHANGED <<stmt, handle>> /\ Rest

(* The reader is drained, with or without a thread; an error ends a bound  *)
(* stream too.                                                             *)
FetchEnds(t) ==
  /\ stream[t].open /\ stream[t].fetch # "over"
  /\ \E failed \in {FALSE, stream[t].kind = "bound"} :
       stream' = [stream EXCEPT ![t].fetch = "over", ![t].done = failed]
  /\ touched' = 0 /\ UNCHANGED <<stmt, handle>> /\ Rest

(* BoundReaderGetNext past the end of a result set: release the reader and *)
(* execute the remaining parameter rows until one has a result set.        *)
NextParameterRow(t) ==
  /\ stream[t].kind = "bound" /\ stream[t].open /\ stream[t].fetch = "over" /\ ~stream[t].done
  /\ LET h == stream[t].handle
     IN  \/ /\ stream' = [stream EXCEPT ![t].fetch = "not"]
            /\ handle' = [handle EXCEPT ![h].cursor = t]
         \/ /\ stream' = [stream EXCEPT ![t].open = FALSE, ![t].done = TRUE]
            /\ handle' = [Unref(handle, h, 1) EXCEPT ![h].cursor = 0]
         \/ /\ stream' = [stream EXCEPT ![t].done = TRUE]     \* another schema than the first
            /\ UNCHANGED handle
  /\ touched' = 0 /\ UNCHANGED stmt /\ Rest

(* A slip: a stream lets go of one reference, whatever it holds.           *)
OwnsOne(t) == 1

Owns(t) == (IF stream[t].open THEN 1 ELSE 0) + (IF stream[t].kind = "bound" THEN 1 ELSE 0)

(* ReaderRelease, BoundReaderFree.                                         *)
StreamRelease(t) ==
  /\ stream[t].kind # "none"
  /\ LET h == stream[t].handle
     IN  handle' = Unref([handle EXCEPT ![h].cursor = 0], h, Owns(t))
  /\ stream' = [stream EXCEPT ![t] = NoStream]
  /\ touched' = 0 /\ UNCHANGED stmt /\ Rest

StatementCall(s) ==
  \/ StatementNew(s) \/ StatementRelease(s) \/ (\E q \in Queries : SetSqlQuery(s, q))
  \/ SetIngestTable(s) \/ BindStream(s) \/ Prepare(s) \/ DescribeSchema(s)
  \/ ExecutePartitions(s) \/ ExecuteQuery(s) \/ ExecuteRows(s) \/ ExecuteBoundQuery(s)
  \/ Ingest(s)

StreamCall(t) == \/ ReadPartition(t) \/ StartFetch(t) \/ FetchEnds(t) \/ NextParameterRow(t)
                 \/ StreamRelease(t)

Next == \/ \E s \in Statements : StatementCall(s)
        \/ \E t \in Streams : StreamCall(t)
        \/ \E on \in BOOLEAN : SetAutocommit(on)
        \/ Rollback

Spec == Init /\ [][Next]_vars

-----------------------------------------------------------------------------
(* Properties.                                                             *)

AnyQuery == Queries \cup {0, InsertQuery}

StatementType == [live : BOOLEAN, ref : Handles \cup {0}, epoch : 0..MaxEpoch, query : AnyQuery,
                  prepared : BOOLEAN, requested : BOOLEAN, executed : BOOLEAN, bind : BOOLEAN,
                  ingest : BOOLEAN]
HandleType == [refs : Nat, prepared : AnyQuery, cursor : Streams \cup {0},
               dead : {"no", "rollback", "autotxn"}]
StreamType == [kind : {"none", "reader", "bound"}, handle : Handles \cup {0}, query : AnyQuery,
               open : BOOLEAN, fetch : {"not", "running", "over"}, done : BOOLEAN]

(* Every variable has its type.                                            *)
TypeOK ==
  /\ stmt \in [Statements -> StatementType] /\ handle \in [Handles -> HandleType]
  /\ stream \in [Streams -> StreamType]
  /\ epoch \in 0..MaxEpoch /\ autocommit \in BOOLEAN /\ touched \in Handles \cup {0}

(* A handle is counted once for the statement that holds it and once for   *)
(* each reader on it: it is freed exactly when the last of them lets go.   *)
Owners(h) == Cardinality({s \in Statements : stmt[s].ref = h})
               + Cardinality({t \in Streams : stream[t].handle = h /\ stream[t].open})
               + Cardinality({t \in Streams : stream[t].handle = h /\ stream[t].kind = "bound"})
RefsAreOwners == \A h \in Handles : handle[h].refs = Owners(h)

(* A statement that believes its query prepared has a handle, and SQLExecute *)
(* on it never runs another query.                                         *)
PreparedIsCurrent ==
  \A s \in Statements : stmt[s].prepared =>
    stmt[s].ref # 0 /\ handle[stmt[s].ref].prepared \in {stmt[s].query, 0}

(* Whatever its statement is used for meanwhile, a result stream keeps its *)
(* handle and its cursor, and a bound one the query it re-executes.        *)
StreamsKeepTheirResult ==
  \A t \in Streams :
    /\ stream[t].open => handle[stream[t].handle].cursor = t
    /\ stream[t].kind = "bound" => handle[stream[t].handle].prepared = stream[t].query

(* A handle whose cursor AdbcConnectionRollback invalidated is never taken *)
(* for a ready one.                                                        *)
RollbackIsNoticed ==
  \A s \in Statements : stmt[s].ref # 0 /\ handle[stmt[s].ref].dead = "rollback"
                          => stmt[s].epoch # epoch

-----------------------------------------------------------------------------
(* The invariants behind these, of statements ss, handles hs and streams   *)
(* sm: also in the middle of a call.                                       *)

(* A handle has at most one statement and at most one stream; a stream     *)
(* that exists has a handle, and only a bound one outlives its last reader.*)
Apart(ss, sm) ==
  /\ \A a, b \in Statements : ss[a].ref = ss[b].ref /\ ss[a].ref # 0 => a = b
  /\ \A t, u \in Streams : sm[t].handle = sm[u].handle /\ sm[t].handle # 0 => t = u
  /\ \A t \in Streams : /\ sm[t].kind = "none" <=> sm[t].handle = 0
                        /\ sm[t].open => sm[t].kind # "none"
                        /\ sm[t].kind = "reader" => sm[t].open

HasStatement(ss, h) == \E s \in Statements : ss[s].ref = h
HasReader(sm, h)    == \E t \in Streams : sm[t].handle = h /\ sm[t].open
HasBound(sm, h)     == \E t \in Streams : sm[t].handle = h /\ sm[t].kind = "bound"

(* The references to a handle, when no two owners are of one sort.         *)
Uses(ss, sm, h) == (IF HasStatement(ss, h) THEN 1 ELSE 0) + (IF HasReader(sm, h) THEN 1 ELSE 0)
                     + (IF HasBound(sm, h) THEN 1 ELSE 0)
Counted(ss, hs, sm) == \A h \in Handles : hs[h].refs = Uses(ss, sm, h)

(* What a statement knows of its handle: the query prepared on it, and     *)
(* that it was last used before the rollback that spoiled it.  A released  *)
(* statement has none.                                                     *)
Known(ss, hs) ==
  \A s \in Statements :
    /\ ss[s].ref # 0 => ss[s].live
    /\ ss[s].prepared => ss[s].ref # 0 /\ hs[ss[s].ref].prepared \in {ss[s].query, 0}
    /\ ss[s].epoch <= epoch
    /\ ss[s].ref # 0 /\ hs[ss[s].ref].dead = "rollback" => ss[s].epoch < epoch

(* What a stream needs of its handle.                                      *)
Kept(hs, sm) ==
  \A t \in Streams :
    /\ sm[t].open => hs[sm[t].handle].cursor = t
    /\ sm[t].kind = "bound" => hs[sm[t].handle].prepared = sm[t].query

Sound(ss, hs, sm) ==
  /\ ss \in [Statements -> StatementType] /\ hs \in [Handles -> HandleType]
  /\ sm \in [Streams -> StreamType]
  /\ Apart(ss, sm) /\ Counted(ss, hs, sm) /\ Known(ss, hs) /\ Kept(hs, sm)

HandlesInv == TypeOK /\ Sound(stmt, handle, stream)
=============================================================================
