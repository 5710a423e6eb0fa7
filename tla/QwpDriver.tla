----------------------------- MODULE QwpDriver -----------------------------
(***************************************************************************)
(* The QuestDB driver (questdb/src/qwp_driver.c): one AdbcStatement over   *)
(* the client's pool of readers.  An execution is a QdbRun, which runs the *)
(* SQL once, or once per bound row, and is drained by the call itself or   *)
(* exported as a result stream that another thread reads and that may      *)
(* outlive the statement; the statement and its runs share a counted       *)
(* cancellation cell.  A statement with a target table ingests its bound   *)
(* batches instead and waits until the server has applied them.            *)
(*                                                                         *)
(* A run steps between the points where it looks at the cancellation cell, *)
(* so that AdbcStatementCancel and other streams interleave with it.  The  *)
(* client library and the server are modelled from how the driver calls    *)
(* them.  A bound row is the number that names it, so that no row is in    *)
(* two batches of a binding; a batch is a sequence of rows.                *)
(***************************************************************************)
EXTENDS QwpTypes, Sequences, SequencesExt

CONSTANTS Readers,      \* query_pool_max readers of the pool
          Runs,         \* names for the executions alive at one time
          Binds,        \* the bindings offered: sequences of batches
          Data,         \* the schemas of the bound data: [cols, stamps]
          Errors,       \* client error codes
          MaxBatches,   \* bound on the batches of one result
          MaxCalls,     \* bound on the Execute calls of a behaviour
          MaxFrames,    \* bound on the frames another client writes
          ApplyPolls    \* polls of wal_tables() that fit apply_timeout_ms

ASSUME QwpAssumption ==
  /\ IsFiniteSet(Readers) /\ IsFiniteSet(Runs) /\ None \notin Readers \cup Runs
  /\ MaxBatches \in Nat /\ MaxCalls \in Nat /\ MaxFrames \in Nat /\ ApplyPolls \in Nat
  /\ Binds \subseteq Seq(Seq(Nat))
  /\ \A b \in Binds : \A i, j \in DOMAIN b : i # j => ToSet(b[i]) \cap ToSet(b[j]) = {}

VARIABLES db,      \* QdbDatabase and QdbConnection: "new", "open", "connected"
          stmt,    \* QdbStatement
          cell,    \* QdbCancel
          run,     \* the QdbRun of each name
          lent,    \* the readers borrowed from the pool
          others,  \* those of them that other statements hold
          call,    \* the call on the statement, and where it is
          tbl,     \* the target table on the server
          result   \* what the last call on the statement returned

vars == <<db, stmt, cell, run, lent, others, call, tbl, result>>

NoCursor == [left |-> 0, kind |-> None, total |-> 0]

(* over is why nobody reads the stream any more.  Ghosts: bound are the    *)
(* batches to execute, done the rows executed with the place each came     *)
(* from, truth the rows the server counted, cut whether the statement has  *)
(* been cancelled since the run began and late the executions started      *)
(* after that.                                                             *)
NoRun == [mode |-> None, pc |-> "idle", sql |-> None, reader |-> None, cursor |-> NoCursor,
          started |-> FALSE, hasBind |-> FALSE, batches |-> <<>>, cur |-> <<>>, row |-> -1,
          first |-> FALSE, rows |-> 0, known |-> FALSE, over |-> None,
          bound |-> <<>>, done |-> <<>>, truth |-> 0, cut |-> FALSE, late |-> 0]

NoTable == [exists |-> FALSE, maker |-> None, wal |-> FALSE, ts |-> None,
            frames |-> <<>>, applied |-> 0]

NoCall   == [op |-> None, pc |-> None, exists |-> FALSE, at |-> None, sent |-> 0,
             polls |-> 0, bound |-> <<>>]
NoResult == [op |-> None, status |-> None, rows |-> -1, waited |-> FALSE, ended |-> FALSE,
             bound |-> <<>>, done |-> <<>>, truth |-> 0]

NoStatement  == [st |-> "none", sql |-> None, ingest |-> FALSE, mode |-> "create",
                 wait |-> TRUE, hasBind |-> FALSE, bind |-> <<>>, binds |-> 0, calls |-> 0]

Live(r) == run[r].mode # None

Init == /\ db = "new" /\ stmt = NoStatement /\ cell = [refs |-> 0, cancelled |-> FALSE]
        /\ run = [r \in Runs |-> NoRun] /\ lent = {} /\ others = {}
        /\ call = NoCall /\ tbl = NoTable /\ result = NoResult

-----------------------------------------------------------------------------
(* The database and the connection.  Opening a connection borrows a reader *)
(* and gives it back, which is where a bad address shows.                  *)

Free == Readers \ lent

DatabaseInit ==
  /\ db = "new" /\ db' = "open"
  /\ UNCHANGED <<stmt, cell, run, lent, others, call, tbl, result>>

ConnectionInit ==
  /\ db = "open" /\ Free # {} /\ db' = "connected"
  /\ UNCHANGED <<stmt, cell, run, lent, others, call, tbl, result>>

(* Other statements of the database hold readers of the same pool.         *)
OthersBorrow ==
  /\ call.op # None /\ others = {} /\ Free # {}
  /\ LET d == CHOOSE x \in Readers : x \notin lent
     IN  lent' = lent \cup {d} /\ others' = {d}
  /\ UNCHANGED <<db, stmt, cell, run, call, tbl, result>>

OthersReturn ==
  /\ others # {} /\ lent' = lent \ others /\ others' = {}
  /\ UNCHANGED <<db, stmt, cell, run, call, tbl, result>>

-----------------------------------------------------------------------------
(* The statement: its setters, each a whole call.  They succeed, and the   *)
(* result of the call before them is forgotten.                            *)

Ready == stmt.st = "live" /\ call.op = None

Forgotten == result' = NoResult /\ UNCHANGED <<db, cell, run, lent, others, call, tbl>>

StatementNew ==
  /\ db = "connected" /\ stmt.st = "none"
  /\ stmt' = [stmt EXCEPT !.st = "live"] /\ cell' = [refs |-> 1, cancelled |-> FALSE]
  /\ UNCHANGED <<db, run, lent, others, call, tbl, result>>

SetSqlQuery ==
  /\ Ready /\ stmt.calls < MaxCalls /\ ~tbl.exists
  /\ \E q \in {"select", "dml"} \ {stmt.sql} :
        stmt' = [stmt EXCEPT !.sql = q, !.ingest = FALSE]
  /\ Forgotten

(* QdbStatementSetOption: a target table takes the place of the query.  A  *)
(* bound: the statement does not ingest while it has streams open, nor     *)
(* query after it has made a table (the readers of other statements stand  *)
(* for what the two would contend for).                                    *)
SetTarget ==
  /\ Ready /\ stmt.calls < MaxCalls /\ \A r \in Runs : ~Live(r)
  /\ stmt' = [stmt EXCEPT !.ingest = TRUE, !.sql = None]
  /\ Forgotten

SetIngestOptions ==
  /\ Ready /\ stmt.ingest /\ stmt.calls < MaxCalls
  /\ \E m \in {"create", "append", "replace", "create_append"}, w \in BOOLEAN :
        stmt' = [stmt EXCEPT !.mode = m, !.wait = w]
  /\ Forgotten

(* QdbStatementBind, QdbStatementBindStream: the old binding is dropped.   *)
Bind ==
  /\ Ready /\ stmt.calls < MaxCalls /\ stmt.binds <= stmt.calls
  /\ \E b \in Binds :
        stmt' = [stmt EXCEPT !.hasBind = TRUE, !.bind = b, !.binds = @ + 1]
  /\ Forgotten

StatementCancel ==
  /\ stmt.st = "live" /\ ~cell.cancelled
  /\ cell' = [cell EXCEPT !.cancelled = TRUE]
  /\ run' = [r \in Runs |-> [run[r] EXCEPT !.cut = Live(r)]]
  /\ UNCHANGED <<db, stmt, lent, others, call, tbl, result>>

StatementRelease ==
  /\ Ready
  /\ stmt' = [NoStatement EXCEPT !.st = "gone", !.binds = stmt.binds, !.calls = stmt.calls]
  /\ cell' = [cell EXCEPT !.refs = @ - 1]
  /\ UNCHANGED <<db, run, lent, others, call, tbl, result>>

-----------------------------------------------------------------------------
(* Runs.                                                                   *)

(* QdbRunFree: the cursor, the reader, the binding and the share of the    *)
(* cell are given up.                                                      *)
RunFree(r) ==
  /\ run' = [run EXCEPT ![r] = NoRun]
  /\ lent' = lent \ {run[r].reader}
  /\ cell' = [cell EXCEPT !.refs = @ - 1]

(* A slip: the reader of a run that failed is not given back.              *)
ReaderKept(r) ==
  /\ run' = [run EXCEPT ![r] = NoRun]
  /\ cell' = [cell EXCEPT !.refs = @ - 1]
  /\ lent' = lent

(* What a failed run leaves behind: the same as a finished one.            *)
RunFailed(r) == RunFree(r)

(* A slip: a new batch is entered past its first row.                      *)
SkipsFirstRow(u) ==
  IF u.row + 1 < Len(u.cur) THEN [u EXCEPT !.row = @ + 1]
  ELSE IF u.batches = <<>> THEN [u EXCEPT !.cur = <<>>, !.row = -1]
  ELSE [u EXCEPT !.cur = Head(u.batches), !.row = Len(Head(u.batches)) - 1,
                 !.batches = Tail(@)]

(* QdbRunNextBindRow: the next row of the batch, else the first of the     *)
(* next batch that has any; batches is empty and cur too at the end.       *)
NextBindRow(u) ==
  IF u.row + 1 < Len(u.cur) THEN [u EXCEPT !.row = @ + 1]
  ELSE LET full == {k \in 1..Len(u.batches) : u.batches[k] # <<>>}
           k    == CHOOSE k \in full : \A j \in full : k <= j
       IN  IF full = {} THEN [u EXCEPT !.batches = <<>>, !.cur = <<>>, !.row = -1]
           ELSE [u EXCEPT !.cur = u.batches[k], !.row = 0,
                          !.batches = SubSeq(@, k + 1, Len(@))]

(* Where in the binding the row comes from that a run has come to.         *)
Place(u) == <<Len(u.bound) - Len(u.batches), u.row + 1>>

(* QdbRunAccountTerminal and the totals of QdbRunNextArrow, QdbRunDrain: a *)
(* cursor that ends adds its count, if the server knows one.               *)
Account(u) ==
  IF u.cursor.total < 0 THEN u
  ELSE [u EXCEPT !.rows = @ + u.cursor.total, !.known = TRUE]

(* QdbRunNew: the run takes the binding over, shares the cell and borrows  *)
(* a reader; without one it is freed, and the binding with it.             *)
RunNew(op) ==
  LET r == CHOOSE x \in Runs : ~Live(x)
      d == CHOOSE x \in Readers : x \notin lent
  IN
    /\ \E x \in Runs : ~Live(x)
    /\ stmt' = [stmt EXCEPT !.hasBind = FALSE, !.bind = <<>>]
    /\ \/ /\ Free # {}
            /\ lent' = lent \cup {d}
            /\ run' = [run EXCEPT ![r] = [NoRun EXCEPT
                         !.mode = op, !.pc = "next", !.sql = stmt.sql, !.reader = d,
                         !.hasBind = stmt.hasBind, !.batches = stmt.bind,
                         !.bound = IF stmt.hasBind THEN stmt.bind ELSE <<<<0>>>>,
                         !.cut = cell.cancelled]]
            /\ cell' = [cell EXCEPT !.refs = @ + 1]
            /\ call' = [call EXCEPT !.pc = "run"]
            /\ UNCHANGED result
       \/ \E code \in Errors :
            /\ result' = [NoResult EXCEPT !.op = op, !.status = StatusFor(code)]
            /\ call' = NoCall /\ UNCHANGED <<run, lent, cell>>

(* QdbStatementExecuteQuery and QdbStatementExecuteSchema up to the run.   *)
(* Executing ends the earlier results of the statement: nobody reads them  *)
(* any more, they are only released.  ExecuteSchema resets no cancel.      *)
BeginExecute ==
  /\ Ready /\ stmt.calls < MaxCalls /\ \A r \in Runs : run[r].pc = "idle"
  /\ \E op \in IF stmt.ingest THEN {"ingest"} ELSE {"drain", "export", "describe"} :
       /\ cell' = [cell EXCEPT !.cancelled = (op = "describe" /\ @)]
       /\ IF op # "ingest" /\ stmt.sql = None
          THEN call' = call /\ result' = [NoResult EXCEPT !.op = op, !.status = "INVALID_STATE"]
          ELSE /\ call' = [NoCall EXCEPT !.op = op, !.bound = stmt.bind,
                                         !.pc = IF op = "ingest" THEN "find" ELSE "new"]
               /\ result' = NoResult
  /\ stmt' = [stmt EXCEPT !.calls = @ + 1]
  /\ run' = [r \in Runs |-> IF ~Live(r) THEN NoRun
                             ELSE [NoRun EXCEPT !.mode = run[r].mode, !.reader = run[r].reader,
                                                !.over = "superseded"]]
  /\ UNCHANGED <<db, lent, others, tbl>>

BeginRun ==
  /\ call.pc = "new" /\ RunNew(call.op)
  /\ UNCHANGED <<db, others, tbl>>

(* The end of a call into a run, by the loop it was in: QdbRunDrain and    *)
(* the rest of ExecuteQuery; QdbRunExport, which keeps a first batch;      *)
(* ExecuteSchema, which releases the stream it made; QdbStreamGetNext.     *)
Returned(r, u, status) ==
  LET ok == status \in {"batch", "end"}
  IN  /\ CASE u.mode = "export" /\ ok ->
               /\ run' = [run EXCEPT ![r] = [u EXCEPT !.mode = "stream", !.pc = "idle",
                                                      !.first = (status = "batch")]]
               /\ UNCHANGED <<lent, cell>>
            [] u.mode = "stream" ->
               /\ run' = [run EXCEPT ![r] = [u EXCEPT !.pc = "idle",
                                              !.over = IF status = "batch" THEN None ELSE status]]
               /\ UNCHANGED <<lent, cell>>
            [] u.mode \in {"drain", "describe"} /\ ok -> RunFree(r)
            [] OTHER -> RunFailed(r)
      /\ IF u.mode = "stream" THEN UNCHANGED <<call, result>>
         ELSE /\ call' = NoCall
              /\ result' = [op |-> u.mode, status |-> IF ok THEN "OK" ELSE status,
                            rows |-> IF ok /\ u.known THEN u.rows ELSE -1,
                            waited |-> FALSE, ended |-> (status = "end"),
                            bound |-> u.bound, done |-> u.done, truth |-> u.truth]

Stays(r, u) ==
  run' = [run EXCEPT ![r] = u] /\ UNCHANGED <<lent, cell, call, result>>

(* A slip: nothing looks at the cell between two executions.               *)
CheckNothing(r) == Stays(r, [run[r] EXCEPT !.pc = "start"])

(* QdbRunNextExecution: a cancelled run starts nothing more ...            *)
CheckCancel(r) ==
  IF cell.cancelled THEN Returned(r, run[r], "CANCELLED")
  ELSE Stays(r, [run[r] EXCEPT !.pc = "start"])

NextExecution(r) ==
  /\ run[r].pc = "next" /\ CheckCancel(r)
  /\ UNCHANGED <<db, stmt, others, tbl>>

(* ... and the others execute the SQL once, or with the next bound row.    *)
Cursors(sql) ==
           IF sql = "dml" THEN {[left |-> 0, kind |-> "dml", total |-> n] : n \in {-1, 1}}
           ELSE {[left |-> n, kind |-> "select", total |-> n] : n \in 0..MaxBatches}

Execute(r) ==
  /\ run[r].pc = "start"
  /\ LET u   == NextBindRow(run[r])
         end == IF run[r].hasBind THEN u.cur = <<>> ELSE run[r].started
         row == IF run[r].hasBind THEN u.cur[u.row + 1] ELSE 0
         at  == IF run[r].hasBind THEN Place(u) ELSE <<1, 1>>
         v   == IF run[r].hasBind THEN u ELSE run[r]
     IN  \/ /\ end /\ Returned(r, v, "end")
         \/ /\ ~end
            /\ \E c \in Cursors(v.sql) :
                 Stays(r, [v EXCEPT !.pc = "fetch", !.started = TRUE, !.cursor = c,
                                    !.done = Append(@, [at |-> at, row |-> row]),
                                    !.late = @ + (IF v.cut THEN 1 ELSE 0),
                                    !.truth = @ + (IF c.total < 0 THEN 0 ELSE c.total)])
         \/ \E code \in Errors : Returned(r, v, StatusFor(code))
  /\ UNCHANGED <<db, stmt, others, tbl>>

(* qwp_reader_cursor_next_arrow_batch in QdbRunNextArrow, or next_batch in *)
(* QdbRunDrain, which looks at the cell after a batch instead of before.   *)
Fetch(r) ==
  LET u == run[r]
      v == [u EXCEPT !.cursor.left = @ - 1]
  IN  /\ u.pc = "fetch"
      /\ \/ /\ u.mode # "drain" /\ cell.cancelled /\ Returned(r, u, "CANCELLED")
         \/ /\ u.mode # "drain" /\ ~cell.cancelled /\ u.cursor.left > 0 /\ Returned(r, v, "batch")
         \/ /\ u.mode = "drain" /\ u.cursor.left > 0
            /\ IF cell.cancelled THEN Returned(r, v, "CANCELLED") ELSE Stays(r, v)
         \/ /\ u.cursor.left = 0 /\ (u.mode = "drain" \/ ~cell.cancelled)
            /\ Stays(r, [Account(u) EXCEPT !.pc = "next", !.cursor = NoCursor])
         \/ /\ u.mode = "drain" \/ ~cell.cancelled
            /\ \E code \in Errors : Returned(r, u, StatusFor(code))
      /\ UNCHANGED <<db, stmt, others, tbl>>

(* QdbStreamGetNext by the reader of the stream: the batch that told the   *)
(* schema, whatever the cell says, and then the run goes on.               *)
StreamGetNext(r) ==
  LET u == run[r]
  IN  /\ u.mode = "stream" /\ u.pc = "idle" /\ u.over = None
      /\ IF u.first THEN Stays(r, [u EXCEPT !.first = FALSE])
         ELSE Stays(r, [u EXCEPT !.pc = IF u.cursor = NoCursor THEN "next" ELSE "fetch"])
      /\ UNCHANGED <<db, stmt, others, tbl>>

StreamRelease(r) ==
  /\ run[r].mode = "stream" /\ run[r].pc = "idle" /\ RunFree(r)
  /\ UNCHANGED <<db, stmt, others, call, tbl, result>>

-----------------------------------------------------------------------------
(* Bulk ingest: QdbIngest, one step per conversation with the server.      *)

(* The call ends; ExecuteQuery drops the binding only if all went well, so *)
(* what a failed call left of it is still bound.                           *)
IngestReturn(status) ==
  /\ call' = NoCall
  /\ result' = [NoResult EXCEPT !.op = "ingest", !.status = status, !.bound = call.bound,
                                !.waited = (call.pc = "wait")]
  /\ stmt' = IF status = "OK" THEN [stmt EXCEPT !.hasBind = FALSE, !.bind = <<>>] ELSE stmt

Go(pc) == call' = [call EXCEPT !.pc = pc] /\ UNCHANGED <<stmt, result>>

ClientError == \E code \in Errors : IngestReturn(StatusFor(code))

(* QdbQueryRows and QdbExecSimple borrow a reader for a query of their own.*)
Queries(A) == (Free # {} /\ A) \/ (ClientError /\ UNCHANGED tbl)

(* QdbFindTable, then what the mode makes of its answer.                   *)
FindTable ==
  /\ call.pc = "find"
  /\ \/ ~stmt.hasBind /\ IngestReturn("INVALID_STATE")
     \/ /\ stmt.hasBind
        /\ Queries(CASE stmt.mode = "create" /\ tbl.exists -> IngestReturn("ALREADY_EXISTS")
                     [] stmt.mode = "append" /\ ~tbl.exists -> IngestReturn("NOT_FOUND")
                     [] OTHER -> /\ call' = [call EXCEPT
                                      !.exists = tbl.exists,
                                      !.pc = IF stmt.mode = "replace" /\ tbl.exists THEN "drop"
                                             ELSE "plan"]
                                 /\ UNCHANGED <<stmt, result>>)
  /\ UNCHANGED <<db, cell, run, lent, others, tbl>>

DropTable ==
  /\ call.pc = "drop"
  /\ Queries(/\ tbl' = NoTable
             /\ call' = [call EXCEPT !.pc = "plan", !.exists = FALSE]
             /\ UNCHANGED <<stmt, result>>)
  /\ UNCHANGED <<db, cell, run, lent, others>>

(* get_schema and the designated timestamp, with the option for it unset.  *)
Plan ==
  /\ call.pc = "plan"
  /\ \E d \in Data :
       LET p == DesignatedTimestamp(d, None, call.exists, tbl.ts)
       IN  IF p.ok THEN /\ call' = [call EXCEPT !.at = IF call.exists THEN p.at ELSE p.made,
                                                !.pc = IF call.exists THEN "send" ELSE "create"]
                        /\ UNCHANGED <<stmt, result>>
           ELSE IngestReturn("INVALID_ARGUMENT")
  /\ UNCHANGED <<db, cell, run, lent, others, tbl>>

(* QdbCreateTableFromSchema: a plain CREATE TABLE, which another client's  *)
(* table of the name refuses.                                              *)
NewTable(w) == [NoTable EXCEPT !.exists = TRUE, !.maker = stmt.calls, !.wal = w, !.ts = call.at]

(* A slip: CREATE TABLE IF NOT EXISTS.                                     *)
IfNotExists(w) == IF tbl.exists THEN {tbl} ELSE {NewTable(w)}

Created(w) == IF tbl.exists THEN {} ELSE {NewTable(w)}

CreateTable ==
  /\ call.pc = "create"
  /\ Queries(/\ \E w \in BOOLEAN : tbl' \in Created(w)
             /\ call' = [call EXCEPT !.pc = "send"]
             /\ UNCHANGED <<stmt, result>>)
  /\ UNCHANGED <<db, cell, run, lent, others>>

(* A frame the server has acknowledged is visible once it is applied, and  *)
(* at once in a table without a write-ahead log.                           *)
Frame(rows, n) == [rows |-> rows, call |-> n, bind |-> stmt.binds,
                   own |-> (n # 0 /\ stmt.mode \in {"create", "replace"})]
Written(f) == [tbl EXCEPT !.frames = Append(@, f), !.applied = IF tbl.wal THEN @ ELSE @ + 1]

(* One turn of the send loop: the next batch of the binding is taken, and  *)
(* skipped if it is empty; a frame that fails may have arrived all the     *)
(* same.  With the batches sent the sender goes back to the pool.          *)
Rest == stmt' = [stmt EXCEPT !.bind = Tail(@)]

Failing(status) ==
  /\ call' = NoCall
  /\ result' = [NoResult EXCEPT !.op = "ingest", !.status = status, !.bound = call.bound]

AllSent == stmt.bind = <<>>

(* A slip: the batch whose frame failed stays bound.                       *)
Unsent == stmt' = stmt

Lost == Rest

SendBatch ==
  /\ call.pc = "send"
  /\ \/ AllSent /\ (IF call.sent > 0 /\ stmt.wait THEN Go("wait") ELSE IngestReturn("OK"))
                /\ UNCHANGED tbl
     \/ /\ ~AllSent /\ Head(stmt.bind) = <<>> /\ Rest /\ UNCHANGED <<call, tbl, result>>
     \/ /\ ~AllSent /\ Head(stmt.bind) # <<>> /\ cell.cancelled
        /\ Rest /\ Failing("CANCELLED") /\ UNCHANGED tbl
     \/ /\ ~AllSent /\ Head(stmt.bind) # <<>> /\ ~cell.cancelled
        /\ \/ /\ Rest /\ tbl' = Written(Frame(Head(stmt.bind), stmt.calls))
              /\ call' = [call EXCEPT !.sent = @ + Len(Head(stmt.bind))] /\ UNCHANGED result
           \/ /\ Lost /\ \E code \in Errors : Failing(StatusFor(code))
              /\ tbl' \in {tbl, Written(Frame(Head(stmt.bind), stmt.calls))}
     \/ ClientError /\ UNCHANGED tbl
  /\ UNCHANGED <<db, cell, run, lent, others>>

(* QdbWaitForApply: poll wal_tables() until the writer has caught up with  *)
(* the sequencer or the time is over.                                      *)
SomethingApplied == ~tbl.wal \/ tbl.applied > 0     \* a slip

CaughtUp == ~tbl.wal \/ tbl.applied >= Len(tbl.frames)

NeverOverdue == FALSE     \* a slip: the deadline is not looked at

Overdue == call.polls >= ApplyPolls

WaitForApply ==
  /\ call.pc = "wait"
  /\ Queries(CASE CaughtUp -> IngestReturn("OK")
               [] ~CaughtUp /\ Overdue -> IngestReturn("TIMEOUT")
               [] OTHER -> Go("sleep"))
  /\ UNCHANGED <<db, cell, run, lent, others, tbl>>

Sleep ==
  /\ call.pc = "sleep"
  /\ call' = [call EXCEPT !.pc = "wait", !.polls = IF @ < ApplyPolls THEN @ + 1 ELSE @]
  /\ UNCHANGED <<db, stmt, cell, run, lent, others, tbl, result>>

-----------------------------------------------------------------------------
(* The server: it applies what is logged, and serves other clients, which  *)
(* create the table and write to it.  A call looks at the table when it    *)
(* finds it, creates it and waits for it: what happened since the look     *)
(* before is a step right before the next one.                             *)

Apply ==
  /\ call.pc = "wait" /\ tbl.wal /\ tbl.applied < Len(tbl.frames)
  /\ tbl' = [tbl EXCEPT !.applied = @ + 1]
  /\ UNCHANGED <<db, stmt, cell, run, lent, others, call, result>>

OtherCreates ==
  /\ call.pc \in {"find", "create"} /\ ~tbl.exists
  /\ \E w \in BOOLEAN :
       tbl' = [NoTable EXCEPT !.exists = TRUE, !.maker = 0, !.wal = w, !.ts = "ts"]
  /\ UNCHANGED <<db, stmt, cell, run, lent, others, call, result>>

OtherWrites ==
  /\ call.pc = "wait"
  /\ Cardinality({k \in 1..Len(tbl.frames) : tbl.frames[k].call = 0}) < MaxFrames
  /\ tbl' = Written(Frame(<<>>, 0))
  /\ UNCHANGED <<db, stmt, cell, run, lent, others, call, result>>

RunStep(r) == NextExecution(r) \/ Execute(r) \/ Fetch(r)

IngestStep == FindTable \/ DropTable \/ Plan \/ CreateTable \/ SendBatch \/ WaitForApply \/ Sleep

Caller ==
  \/ DatabaseInit \/ ConnectionInit \/ StatementNew \/ StatementRelease
  \/ SetSqlQuery \/ SetTarget \/ SetIngestOptions \/ Bind \/ StatementCancel \/ BeginExecute

Server == Apply \/ OtherCreates \/ OtherWrites \/ OthersBorrow \/ OthersReturn

Next ==
  \/ Caller \/ BeginRun \/ IngestStep \/ Server
  \/ \E r \in Runs : RunStep(r) \/ StreamGetNext(r) \/ StreamRelease(r)

(* A thread that is inside a call keeps running.  Nothing obliges the      *)
(* application to call, nor the server to apply what it has logged.        *)
Fairness == WF_vars(BeginRun) /\ WF_vars(IngestStep) /\ \A r \in Runs : WF_vars(RunStep(r))

Spec == Init /\ [][Next]_vars /\ Fairness

-----------------------------------------------------------------------------
(* Every reader lent to this statement belongs to exactly one live run,    *)
(* and the cell counts the statement and its live runs: a run that fails,  *)
(* ends or is released, before or after its statement, gives back what it  *)
(* holds (QdbRunFree), and none uses a cell that was freed.                *)
NothingLeaks ==
  LET live == {r \in Runs : Live(r)}
  IN  /\ \A d \in lent \ others : Cardinality({r \in live : run[r].reader = d}) = 1
      /\ \A r \in live : run[r].reader \in lent \ others
      /\ cell.refs = Cardinality(live) + (IF stmt.st = "live" THEN 1 ELSE 0)

Places(bound)   == UNION {{b} \X DOMAIN bound[b] : b \in DOMAIN bound}
Precedes(p, q)  == p[1] < q[1] \/ (p[1] = q[1] /\ p[2] < q[2])
Ran(done, p)    == \E n \in DOMAIN done : done[n].at = p

(* Each row executed is the one at its place, and what was executed before *)
(* it are exactly the rows at the places before it.                        *)
InOrder(done, bound) ==
  \A n \in DOMAIN done :
    /\ done[n].at \in Places(bound) /\ done[n].row = bound[done[n].at[1]][done[n].at[2]]
    /\ \A p \in Places(bound) :
         Precedes(p, done[n].at) <=> \E m \in 1..n - 1 : done[m].at = p

AllRan(done, bound) == \A p \in Places(bound) : Ran(done, p)

(* However the bound rows are cut into batches, empty ones included, they  *)
(* are executed in order, none twice, and a run that reports its end has   *)
(* executed all of them (QdbRunNextBindRow).  An update then reports what  *)
(* the server counted over all of its executions, and -1 only if it        *)
(* counted none of them (QdbRunAccountTerminal).                           *)
RowsRunOnceInOrder ==
  /\ \A r \in Runs : /\ InOrder(run[r].done, run[r].bound)
                     /\ run[r].over = "end" => AllRan(run[r].done, run[r].bound)
  /\ result.ended => /\ InOrder(result.done, result.bound) /\ AllRan(result.done, result.bound)
                     /\ \/ result.rows = result.truth
                        \/ result.rows = -1 /\ result.truth = 0

(* After AdbcStatementCancel a run starts at most the one execution it was *)
(* about to start: a bound statement does not go on through its rows.      *)
CancelStopsRuns == \A r \in Runs : run[r].late <= 1

FramesWith(x) == {k \in 1..Len(tbl.frames) : /\ tbl.frames[k].call = stmt.calls
                                             /\ \E i \in 1..Len(tbl.frames[k].rows) :
                                                   tbl.frames[k].rows[i] = x}

(* An ingest that succeeds has every row it found bound in exactly one     *)
(* frame, and if it waited, one that queries see: whatever other clients   *)
(* write meanwhile (QdbIngest, QdbWaitForApply).                           *)
IngestIsVisible ==
  result.op = "ingest" /\ result.status = "OK" =>
    \A b \in DOMAIN result.bound : \A x \in ToSet(result.bound[b]) :
      /\ Cardinality(FramesWith(x)) = 1
      /\ result.waited => \A k \in FramesWith(x) : k <= tbl.applied

(* No row of a binding is sent twice, even if a call that failed with a    *)
(* frame in doubt is made again on what is left of the binding.            *)
IngestSendsOnce ==
  \A i, j \in 1..Len(tbl.frames) :
    /\ i # j /\ 0 \notin {tbl.frames[i].call, tbl.frames[j].call}
    /\ tbl.frames[i].bind = tbl.frames[j].bind
    => ToSet(tbl.frames[i].rows) \cap ToSet(tbl.frames[j].rows) = {}

(* Modes create and replace write only to a table the same call created,   *)
(* though another client may create one between the look and the CREATE.   *)
CreateOwnsTable ==
  \A k \in 1..Len(tbl.frames) : tbl.frames[k].own => tbl.maker = tbl.frames[k].call

(* Every call on the statement or on one of its streams returns, also an   *)
(* ingest whose frames the server never applies.                           *)
CallsReturn ==
  /\ (call.op # None) ~> (call.op = None)
  /\ \A r \in Runs : (run[r].pc # "idle") ~> (run[r].pc = "idle")

-----------------------------------------------------------------------------
(* The invariants behind these, which every step preserves.                *)

(* The shape of the state.                                                 *)
Shapes ==
  /\ DOMAIN stmt = DOMAIN NoStatement /\ stmt.st \in {"none", "live", "gone"}
  /\ stmt.calls \in Nat /\ stmt.binds \in Nat /\ stmt.bind \in Seq(Seq(Nat))
  /\ cell \in [refs : Int, cancelled : BOOLEAN]
  /\ DOMAIN run = Runs /\ \A r \in Runs : DOMAIN run[r] = DOMAIN NoRun
  /\ DOMAIN call = DOMAIN NoCall
  /\ DOMAIN tbl = DOMAIN NoTable
  /\ tbl.frames \in Seq([rows : Seq(Nat), call : Nat, bind : Nat, own : BOOLEAN])

(* A call is in progress only on a live statement; without one there are   *)
(* no runs, and a name nobody runs under is clear.                         *)
Calls ==
  /\ call.pc = None <=> call.op = None
  /\ call.op # None => stmt.st = "live" /\ stmt.calls > 0
  /\ stmt.st = "none" => \A r \in Runs : ~Live(r)
  /\ \A r \in Runs : ~Live(r) => run[r] = NoRun

(* Who has the readers that are lent.                                      *)
ReadersHeld ==
  /\ lent \subseteq Readers /\ others \subseteq lent
  /\ \A r \in Runs : Live(r) => run[r].reader \in lent \ others
  /\ \A r, s \in Runs : Live(r) /\ Live(s) /\ run[r].reader = run[s].reader => r = s
  /\ \A d \in lent \ others : \E r \in Runs : Live(r) /\ run[r].reader = d

CellCounted ==
  cell.refs = Cardinality({r \in Runs : Live(r)}) + (IF stmt.st = "live" THEN 1 ELSE 0)

(* A run that was cancelled finds the cell so, and if it has begun an      *)
(* execution since, it is past the point where it could begin another.     *)
CancelSeen ==
  \A r \in Runs : /\ run[r].cut => cell.cancelled
                  /\ run[r].late = 0 \/ (run[r].late = 1 /\ run[r].cut /\ run[r].pc # "start")

(* A call in mode create or replace plans only for a table that is not     *)
(* there, and sends to the one it made.                                    *)
MakesItsTable ==
  stmt.mode \in {"create", "replace"} =>
    /\ call.pc = "plan" => ~call.exists
    /\ call.pc = "send" => tbl.maker = stmt.calls

(* What is still bound has not been sent, and only what is bound will be.  *)
BoundIsUnsent ==
  /\ \A i, j \in DOMAIN stmt.bind : i # j => ToSet(stmt.bind[i]) \cap ToSet(stmt.bind[j]) = {}
  /\ \A k \in DOMAIN tbl.frames :
       /\ tbl.frames[k].bind <= stmt.binds
       /\ tbl.frames[k].call # 0 /\ tbl.frames[k].bind = stmt.binds =>
            \A i \in DOMAIN stmt.bind : ToSet(tbl.frames[k].rows) \cap ToSet(stmt.bind[i]) = {}

QwpInv == /\ Shapes /\ Calls /\ ReadersHeld /\ CellCounted /\ CancelSeen
          /\ MakesItsTable /\ CreateOwnsTable /\ BoundIsUnsent /\ IngestSendsOnce

(* The rows of a run and its result.  What it has come past, with the row  *)
(* it is at and all of a batch it has left: a run that is still read has   *)
(* executed exactly that, and its totals are the server's but for the      *)
(* cursor that is open.                                                    *)
Passed(u, p) ==
  \/ p[1] < Place(u)[1]
  \/ p[1] = Place(u)[1] /\ (u.cur = <<>> \/ p[2] <= Place(u)[2])

RowShapes(u) ==
  /\ u.bound \in Seq(Seq(Nat)) /\ u.batches \in Seq(Seq(Nat)) /\ u.cur \in Seq(Nat)
  /\ u.row \in Int /\ u.row >= -1 /\ u.done \in Seq([at : Nat \X Nat, row : Nat])
  /\ DOMAIN u.cursor = DOMAIN NoCursor /\ u.cursor.total \in Int
  /\ u.rows \in Int /\ u.truth \in Int

Ahead(u) ==
  IF u.hasBind
  THEN /\ Len(u.batches) <= Len(u.bound)
       /\ \A i \in DOMAIN u.batches : u.batches[i] = u.bound[Place(u)[1] + i]
       /\ u.cur # <<>> => Len(u.batches) < Len(u.bound) /\ u.cur = u.bound[Place(u)[1]]
       /\ \A p \in Places(u.bound) : Ran(u.done, p) <=> Passed(u, p)
  ELSE u.bound = <<<<0>>>> /\ (Ran(u.done, <<1, 1>>) <=> u.started)

Counted(u) ==
  /\ u.truth = u.rows + (IF u.cursor.total < 0 THEN 0 ELSE u.cursor.total)
  /\ u.known \/ u.rows = 0
  /\ u.pc \in {"next", "start"} => u.cursor = NoCursor

RowsInv ==
  /\ \A r \in Runs : /\ RowShapes(run[r])
                     /\ run[r].over # None => run[r].pc = "idle"
                     /\ Live(r) /\ run[r].over = None => Ahead(run[r]) /\ Counted(run[r])
  /\ RowsRunOnceInOrder

(* An ingest has in the table's frames what it found bound and has not any *)
(* more; a result that speaks of an ingest is of the last call.            *)
Arrived(frames, n, batch) ==
  batch = <<>> \/ \E k \in DOMAIN frames : frames[k].call = n /\ frames[k].rows = batch

Conversation ==
  /\ call.op # None => result.op # "ingest"
  /\ call.pc \in {"find", "drop", "plan", "create", "send", "wait", "sleep"} => call.op = "ingest"
  /\ call.pc = "new" => call.op # "ingest"
  /\ \A r \in Runs : run[r].mode # "ingest"

FramesOfCall ==
  /\ tbl.applied \in Nat /\ (~tbl.wal => tbl.applied >= Len(tbl.frames))
  /\ \A k \in DOMAIN tbl.frames : tbl.frames[k].call <= stmt.calls
  /\ "ingest" \in {call.op, result.op} =>
       \A k \in DOMAIN tbl.frames : tbl.frames[k].call = stmt.calls =>
                                      tbl.frames[k].bind = stmt.binds

BoundOrArrived ==
  /\ call.pc \in {"find", "drop", "plan", "create"} => call.bound = stmt.bind
  /\ call.pc \in {"send", "wait", "sleep"} =>
       \A b \in DOMAIN call.bound : \/ Arrived(tbl.frames, stmt.calls, call.bound[b])
                                    \/ \E n \in DOMAIN stmt.bind : stmt.bind[n] = call.bound[b]
  /\ call.pc \in {"wait", "sleep"} => stmt.bind = <<>>
  /\ result.op = "ingest" /\ result.status = "OK" =>
       /\ stmt.calls > 0
       /\ \A b \in DOMAIN result.bound : Arrived(tbl.frames, stmt.calls, result.bound[b])
       /\ result.waited => tbl.applied >= Len(tbl.frames)

IngestInv == Conversation /\ FramesOfCall /\ BoundOrArrived
=============================================================================
