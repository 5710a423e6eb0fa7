-------------------------- MODULE QwpDriver_proofs --------------------------
(* Proofs about QwpDriver, for every number of readers, runs, calls and    *)
(* frames and for every set of bindings and of error codes.                *)
EXTENDS QwpDriver, FiniteSetTheorems, WellFoundedInduction, TLAPS

(* What the proofs need to know of a run to be changed in place.           *)
LEMMA RunFields ==
  {"mode", "pc", "sql", "reader", "cursor", "started", "hasBind", "batches", "cur", "row",
   "first", "rows", "known", "over", "bound", "done", "truth", "cut", "late"} = DOMAIN NoRun
BY DEF NoRun

(* A run that is not live has not been cancelled.                          *)
LEMMA NoRunAgain ==
  [NoRun EXCEPT !.cut = FALSE] = NoRun
<1>1. ASSUME NEW f, f = [x \in DOMAIN f |-> f[x]], f.cut = FALSE
      PROVE  [f EXCEPT !.cut = FALSE] = f
  BY <1>1
<1>2. NoRun = [x \in DOMAIN NoRun |-> NoRun[x]] /\ NoRun.cut = FALSE
  BY DEF NoRun
<1> QED BY <1>1, <1>2

Frames == [rows : Seq(Nat), call : Nat, bind : Nat, own : BOOLEAN]

(* The frames of the table, one by one.                                    *)
LEMMA FrameShape ==
  ASSUME Shapes
  PROVE  \A k \in DOMAIN tbl.frames : tbl.frames[k] \in Frames
<1>1. ASSUME NEW S, NEW q \in Seq(S)
      PROVE  \A k \in DOMAIN q : q[k] \in S
  BY <1>1
<1>2. tbl.frames \in Seq(Frames)
  BY DEF Shapes, Frames
<1> QED BY <1>1, <1>2

(* The parts of the shape, when the table keeps its own.                   *)
LEMMA ShapesTogether ==
  ASSUME QwpInv, tbl' = tbl, DOMAIN stmt' = DOMAIN NoStatement,
         stmt'.st \in {"none", "live", "gone"}, stmt'.calls \in Nat, stmt'.binds \in Nat,
         stmt'.bind \in Seq(Seq(Nat)), cell' \in [refs : Int, cancelled : BOOLEAN],
         DOMAIN run' = Runs, \A r \in Runs : DOMAIN run'[r] = DOMAIN NoRun,
         DOMAIN call' = DOMAIN NoCall
  PROVE  Shapes'
BY DEF QwpInv, Shapes

(* Who holds what does not change with a step that gives nothing up and    *)
(* takes nothing.                                                          *)
LEMMA HoldingKept ==
  ASSUME QwpInv, lent' = lent, others' = others, cell'.refs = cell.refs, stmt'.st = stmt.st,
         \A r \in Runs : /\ run'[r].mode = None <=> run[r].mode = None
                         /\ run'[r].reader = run[r].reader
  PROVE  ReadersHeld' /\ CellCounted'
<1>1. \A r \in Runs : Live(r)' <=> Live(r)
  BY DEF Live
<1>2. {r \in Runs : Live(r)}' = {r \in Runs : Live(r)}
  BY <1>1
<1>3. CellCounted'
  BY <1>2 DEF QwpInv, CellCounted
<1>4. ReadersHeld'
  BY <1>1 DEF QwpInv, ReadersHeld
<1> QED BY <1>3, <1>4

(* Nor with one that leaves runs, pool and cell alone.                     *)
LEMMA RunsKept ==
  ASSUME QwpInv, UNCHANGED <<cell, run, lent, others>>, stmt'.st = stmt.st
  PROVE  /\ ReadersHeld' /\ CellCounted' /\ CancelSeen'
         /\ stmt'.st = "none" => \A r \in Runs : ~Live(r)'
         /\ \A r \in Runs : ~Live(r)' => run'[r] = NoRun
<1>1. ReadersHeld' /\ CellCounted'
  BY HoldingKept
<1> QED BY <1>1 DEF QwpInv, CancelSeen, Calls, Live

(* What was sent and what is still bound does not change with a step that  *)
(* leaves the table and the binding alone.                                 *)
LEMMA TableKept ==
  ASSUME QwpInv, tbl' = tbl, stmt'.bind = stmt.bind, stmt'.binds = stmt.binds
  PROVE  CreateOwnsTable' /\ BoundIsUnsent' /\ IngestSendsOnce'
BY DEF QwpInv, CreateOwnsTable, BoundIsUnsent, IngestSendsOnce

(* A binding that is dropped has nothing left to send.                     *)
LEMMA BindingDropped ==
  ASSUME QwpInv, tbl' = tbl, stmt'.bind = <<>>, stmt'.binds = stmt.binds
  PROVE  CreateOwnsTable' /\ BoundIsUnsent' /\ IngestSendsOnce'
<1>1. BoundIsUnsent'
  BY DEF QwpInv, BoundIsUnsent
<1> QED BY <1>1 DEF QwpInv, CreateOwnsTable, IngestSendsOnce

(* A step that touches nothing the invariant speaks of.                    *)
LEMMA NothingTouched ==
  ASSUME QwpInv, UNCHANGED <<stmt, cell, run, lent, others, call, tbl>>
  PROVE  QwpInv'
<1>1. /\ stmt' = stmt /\ cell' = cell /\ run' = run /\ lent' = lent /\ others' = others
      /\ call' = call /\ tbl' = tbl
  OBVIOUS
<1>2. /\ ReadersHeld' /\ CellCounted' /\ CancelSeen'
      /\ stmt'.st = "none" => \A r \in Runs : ~Live(r)'
      /\ \A r \in Runs : ~Live(r)' => run'[r] = NoRun
  BY <1>1, RunsKept
<1>3. CreateOwnsTable' /\ BoundIsUnsent' /\ IngestSendsOnce'
  BY <1>1, TableKept
<1>4. Shapes' /\ MakesItsTable'
  BY <1>1 DEF QwpInv, Shapes, MakesItsTable
<1>5. Calls'
  BY <1>1, <1>2 DEF QwpInv, Calls
<1> QED BY <1>2, <1>3, <1>4, <1>5 DEF QwpInv

-----------------------------------------------------------------------------
(* Steps on a run.                                                         *)

(* A run goes on: it is still held, and has begun no second execution      *)
(* since it was cancelled.                                                 *)
LEMMA StaysKeeps ==
  ASSUME QwpInv, NEW r \in Runs, Live(r), NEW u, DOMAIN u = DOMAIN NoRun,
         u.mode # None, u.reader = run[r].reader, u.cut = run[r].cut,
         u.late = 0 \/ (u.late = 1 /\ u.cut /\ u.pc # "start"),
         run' = [run EXCEPT ![r] = u], call' = call \/ call' = NoCall,
         UNCHANGED <<stmt, cell, lent, others, tbl>>
  PROVE  QwpInv'
<1>1. DOMAIN run = Runs
  BY DEF QwpInv, Shapes
<1>2. run'[r] = u /\ \A s \in Runs \ {r} : run'[s] = run[s]
  BY <1>1
<1>3. /\ stmt' = stmt /\ cell' = cell /\ lent' = lent /\ others' = others /\ tbl' = tbl
  OBVIOUS
<1>4. \A s \in Runs : (run'[s].mode = None <=> run[s].mode = None) /\ run'[s].reader = run[s].reader
  BY <1>2 DEF Live
<1>5. ReadersHeld' /\ CellCounted'
  BY <1>3, <1>4, HoldingKept
<1>6. CancelSeen'
  BY <1>2, <1>3 DEF QwpInv, CancelSeen
<1>7. CreateOwnsTable' /\ BoundIsUnsent' /\ IngestSendsOnce'
  BY <1>3, TableKept
<1>8. Shapes'
  <2>1. DOMAIN run' = Runs /\ \A s \in Runs : DOMAIN run'[s] = DOMAIN NoRun
    BY <1>1, <1>2 DEF QwpInv, Shapes
  <2>2. DOMAIN call' = DOMAIN NoCall
    BY DEF QwpInv, Shapes
  <2> QED BY <1>3, <2>1, <2>2 DEF QwpInv, Shapes
<1>9. Calls'
  <2>1. \A s \in Runs : ~Live(s)' => run'[s] = NoRun
    BY <1>2 DEF QwpInv, Calls, Live
  <2>2. stmt'.st # "none"
    BY <1>3 DEF QwpInv, Calls
  <2> QED BY <1>3, <2>1, <2>2 DEF QwpInv, Calls, NoCall
<1>10. MakesItsTable'
  BY <1>3 DEF QwpInv, MakesItsTable, NoCall, None
<1> QED BY <1>5, <1>6, <1>7, <1>8, <1>9, <1>10 DEF QwpInv

(* A run is freed: its reader goes back to the pool and nobody else's.     *)
LEMMA RunFreeKeeps ==
  ASSUME QwpInv, NEW r \in Runs, Live(r), RunFree(r), call' = call \/ call' = NoCall,
         UNCHANGED <<stmt, others, tbl>>
  PROVE  QwpInv'
<1> DEFINE live == {s \in Runs : Live(s)}
           d    == run[r].reader
<1>1. DOMAIN run = Runs
  BY DEF QwpInv, Shapes
<1>2. run'[r] = NoRun /\ \A s \in Runs \ {r} : run'[s] = run[s]
  BY <1>1 DEF RunFree
<1>3. stmt' = stmt /\ others' = others /\ tbl' = tbl /\ lent' = lent \ {d}
  BY DEF RunFree
<1>4. cell' = [refs |-> cell.refs - 1, cancelled |-> cell.cancelled] /\ cell.refs \in Int
  BY DEF RunFree, QwpInv, Shapes
<1>5. \A s \in Runs : Live(s)' <=> Live(s) /\ s # r
  BY <1>2 DEF Live, NoRun
<1>6. CellCounted'
  <2>1. live' = live \ {r}
    BY <1>5
  <2>2. IsFiniteSet(live) /\ r \in live
    BY FS_Subset, QwpAssumption
  <2>3. Cardinality(live \ {r}) = Cardinality(live) - 1 /\ Cardinality(live) \in Nat
    BY <2>2, FS_RemoveElement, FS_CardinalityType
  <2>4. cell.refs = Cardinality(live) + (IF stmt.st = "live" THEN 1 ELSE 0)
    BY DEF QwpInv, CellCounted
  <2>5. cell'.refs = cell.refs - 1
    BY <1>4
  <2>6. cell'.refs = Cardinality(live') + (IF stmt'.st = "live" THEN 1 ELSE 0)
    <3>1. Cardinality(live') = Cardinality(live) - 1
      BY <2>1, <2>3
    <3> HIDE DEF live
    <3> QED BY <1>3, <2>3, <2>4, <2>5, <3>1
  <2> QED BY <2>6 DEF CellCounted
<1>7. ReadersHeld'
  <2>1. \A s \in Runs : Live(s) /\ s # r => run[s].reader # d
    BY DEF QwpInv, ReadersHeld
  <2>2. d \in lent \ others
    BY DEF QwpInv, ReadersHeld
  <2>3. lent' \subseteq Readers /\ others' \subseteq lent'
    BY <1>3, <2>2 DEF QwpInv, ReadersHeld
  <2>4. \A s \in Runs : Live(s)' => run'[s].reader \in lent' \ others'
    BY <1>2, <1>3, <1>5, <2>1 DEF QwpInv, ReadersHeld
  <2>5. \A s, t \in Runs : Live(s)' /\ Live(t)' /\ run'[s].reader = run'[t].reader => s = t
    BY <1>2, <1>5 DEF QwpInv, ReadersHeld
  <2>6. \A e \in lent' \ others' : \E s \in Runs : Live(s)' /\ run'[s].reader = e
    <3>1. TAKE e \in lent' \ others'
    <3>2. e \in lent \ others /\ e # d
      BY <1>3, <3>1
    <3>3. PICK s \in Runs : Live(s) /\ run[s].reader = e
      BY <3>2 DEF QwpInv, ReadersHeld
    <3>4. s # r
      BY <3>2, <3>3
    <3>5. Live(s)' /\ run'[s].reader = e
      BY <1>2, <1>5, <3>3, <3>4
    <3> QED BY <3>5
  <2> QED BY <2>3, <2>4, <2>5, <2>6 DEF ReadersHeld
<1>8. CancelSeen'
  BY <1>2, <1>4 DEF QwpInv, CancelSeen, NoRun
<1>9. CreateOwnsTable' /\ BoundIsUnsent' /\ IngestSendsOnce'
  BY <1>3, TableKept
<1>10. Shapes'
  <2>1. DOMAIN run' = Runs /\ \A s \in Runs : DOMAIN run'[s] = DOMAIN NoRun
    BY <1>1, <1>2 DEF QwpInv, Shapes, RunFree
  <2>2. DOMAIN call' = DOMAIN NoCall
    BY DEF QwpInv, Shapes
  <2>3. cell' \in [refs : Int, cancelled : BOOLEAN]
    BY <1>4 DEF QwpInv, Shapes
  <2> QED BY <1>3, <2>1, <2>2, <2>3 DEF QwpInv, Shapes
<1>11. Calls'
  <2>1. \A s \in Runs : ~Live(s)' => run'[s] = NoRun
    BY <1>2, <1>5 DEF QwpInv, Calls
  <2>2. stmt'.st # "none"
    BY <1>3 DEF QwpInv, Calls
  <2> QED BY <1>3, <2>1, <2>2 DEF QwpInv, Calls, NoCall
<1>12. MakesItsTable'
  BY <1>3 DEF QwpInv, MakesItsTable, NoCall, None
<1> QED BY <1>6, <1>7, <1>8, <1>9, <1>10, <1>11, <1>12 DEF QwpInv

(* However the call into a run ends.                                       *)
LEMMA ReturnedKeeps ==
  ASSUME QwpInv, NEW r \in Runs, Live(r), NEW u, DOMAIN u = DOMAIN NoRun, u.mode # None,
         u.reader = run[r].reader, u.cut = run[r].cut, u.late = run[r].late, NEW status,
         Returned(r, u, status), UNCHANGED <<stmt, others, tbl>>
  PROVE  QwpInv'
<1>1. call' = call \/ call' = NoCall
  BY DEF Returned
<1>2. u.late = 0 \/ (u.late = 1 /\ u.cut)
  BY DEF QwpInv, CancelSeen
<1>3. CASE u.mode = "export" /\ status \in {"batch", "end"}
  <2> DEFINE v == [u EXCEPT !.mode = "stream", !.pc = "idle", !.first = (status = "batch")]
  <2>1. run' = [run EXCEPT ![r] = v] /\ UNCHANGED <<lent, cell>>
    BY <1>3 DEF Returned
  <2>2. /\ DOMAIN v = DOMAIN NoRun /\ v.mode # None /\ v.reader = u.reader
        /\ v.cut = u.cut /\ v.late = u.late /\ v.pc # "start"
    BY RunFields DEF None
  <2> HIDE DEF v
  <2> QED BY <1>1, <1>2, <2>1, <2>2, StaysKeeps
<1>4. CASE u.mode = "stream"
  <2> DEFINE v == [u EXCEPT !.pc = "idle", !.over = IF status = "batch" THEN None ELSE status]
  <2>1. run' = [run EXCEPT ![r] = v] /\ UNCHANGED <<lent, cell>>
    BY <1>4 DEF Returned
  <2>2. /\ DOMAIN v = DOMAIN NoRun /\ v.mode # None /\ v.reader = u.reader
        /\ v.cut = u.cut /\ v.late = u.late /\ v.pc # "start"
    BY RunFields DEF None
  <2> HIDE DEF v
  <2> QED BY <1>1, <1>2, <2>1, <2>2, StaysKeeps
<1>5. CASE u.mode # "stream" /\ ~(u.mode = "export" /\ status \in {"batch", "end"})
  <2>1. RunFree(r)
    BY <1>5 DEF Returned, RunFailed
  <2> QED BY <1>1, <2>1, RunFreeKeeps
<1> QED BY <1>3, <1>4, <1>5

(* What the bound rows and the totals of a run have nothing to do with.    *)
LEMMA RowsKeepTheRest ==
  ASSUME NEW u, DOMAIN u = DOMAIN NoRun, NEW v, v \in {NextBindRow(u), Account(u)}
  PROVE  /\ DOMAIN v = DOMAIN NoRun /\ v.mode = u.mode /\ v.reader = u.reader
         /\ v.cut = u.cut /\ v.late = u.late /\ v.pc = u.pc
<1>1. CASE v = Account(u)
  BY <1>1, RunFields DEF Account
<1>2. CASE v = NextBindRow(u)
  <2> DEFINE full == {k \in 1..Len(u.batches) : u.batches[k] # <<>>}
             k    == CHOOSE k \in full : \A j \in full : k <= j
  <2>1. \/ v = [u EXCEPT !.row = @ + 1]
        \/ v = [u EXCEPT !.batches = <<>>, !.cur = <<>>, !.row = -1]
        \/ v = [u EXCEPT !.cur = u.batches[k], !.row = 0, !.batches = SubSeq(@, k + 1, Len(@))]
    BY <1>2 DEF NextBindRow
  <2> HIDE DEF k
  <2> QED BY <2>1, RunFields
<1> QED BY <1>1, <1>2

(* A run that is at work is a live one.                                    *)
LEMMA AtWork ==
  ASSUME QwpInv, NEW r \in Runs, run[r].pc # "idle" \/ run[r].mode = "stream"
  PROVE  /\ Live(r) /\ run[r].mode # None /\ DOMAIN run[r] = DOMAIN NoRun
         /\ run[r].late = 0 \/ (run[r].late = 1 /\ run[r].cut /\ run[r].pc # "start")
         /\ run[r].cut => cell.cancelled
<1>1. Live(r)
  BY DEF QwpInv, Calls, Live, NoRun, None
<1> QED BY <1>1 DEF QwpInv, Shapes, CancelSeen, Live

(* A run looks at the cell before each execution.                          *)
LEMMA NextExecutionStep ==
  ASSUME QwpInv, NEW r \in Runs, NextExecution(r)
  PROVE  QwpInv'
<1>1. UNCHANGED <<stmt, others, tbl>> /\ run[r].pc = "next"
  BY DEF NextExecution
<1>2. /\ Live(r) /\ run[r].mode # None /\ DOMAIN run[r] = DOMAIN NoRun
      /\ run[r].late = 0 \/ run[r].cut
      /\ run[r].cut => cell.cancelled
  BY <1>1, AtWork
<1>3. CASE cell.cancelled
  <2>1. Returned(r, run[r], "CANCELLED")
    BY <1>3 DEF NextExecution, CheckCancel
  <2> QED BY <1>1, <1>2, <2>1, ReturnedKeeps
<1>4. CASE ~cell.cancelled
  <2> DEFINE v == [run[r] EXCEPT !.pc = "start"]
  <2>1. Stays(r, v)
    BY <1>4 DEF NextExecution, CheckCancel
  <2>2. /\ DOMAIN v = DOMAIN NoRun /\ v.mode # None /\ v.reader = run[r].reader
        /\ v.cut = run[r].cut /\ v.late = 0
    BY <1>2, <1>4, RunFields
  <2>3. run' = [run EXCEPT ![r] = v] /\ UNCHANGED <<lent, cell>> /\ call' = call
    BY <2>1 DEF Stays
  <2> HIDE DEF v
  <2> QED BY <1>1, <1>2, <2>2, <2>3, StaysKeeps
<1> QED BY <1>3, <1>4

(* The one execution a run may begin after it was cancelled.               *)
LEMMA ExecuteStep ==
  ASSUME QwpInv, NEW r \in Runs, Execute(r)
  PROVE  QwpInv'
<1> DEFINE u   == NextBindRow(run[r])
           v   == IF run[r].hasBind THEN u ELSE run[r]
           row == IF run[r].hasBind THEN u.cur[u.row + 1] ELSE 0
           at  == IF run[r].hasBind THEN Place(u) ELSE <<1, 1>>
<1>1. UNCHANGED <<stmt, others, tbl>> /\ run[r].pc = "start"
  BY DEF Execute
<1>2. /\ Live(r) /\ run[r].mode # None /\ DOMAIN run[r] = DOMAIN NoRun /\ run[r].late = 0
  BY <1>1, AtWork
<1>3. /\ DOMAIN v = DOMAIN NoRun /\ v.mode # None /\ v.reader = run[r].reader
      /\ v.cut = run[r].cut /\ v.late = run[r].late
  BY <1>2, RowsKeepTheRest
<1>4. \/ \E status : Returned(r, v, status)
      \/ \E c \in Cursors(v.sql) :
           Stays(r, [v EXCEPT !.pc = "fetch", !.started = TRUE, !.cursor = c,
                              !.done = Append(@, [at |-> at, row |-> row]),
                              !.late = @ + (IF v.cut THEN 1 ELSE 0),
                              !.truth = @ + (IF c.total < 0 THEN 0 ELSE c.total)])
  BY DEF Execute
<1> HIDE DEF v, row, at
<1>5. CASE \E status : Returned(r, v, status)
  BY <1>1, <1>2, <1>3, <1>5, ReturnedKeeps
<1>6. ASSUME NEW c \in Cursors(v.sql),
             Stays(r, [v EXCEPT !.pc = "fetch", !.started = TRUE, !.cursor = c,
                                !.done = Append(@, [at |-> at, row |-> row]),
                                !.late = @ + (IF v.cut THEN 1 ELSE 0),
                                !.truth = @ + (IF c.total < 0 THEN 0 ELSE c.total)])
      PROVE  QwpInv'
  <2> DEFINE w == [v EXCEPT !.pc = "fetch", !.started = TRUE, !.cursor = c,
                            !.done = Append(@, [at |-> at, row |-> row]),
                            !.late = @ + (IF v.cut THEN 1 ELSE 0),
                            !.truth = @ + (IF c.total < 0 THEN 0 ELSE c.total)]
  <2>1. /\ DOMAIN w = DOMAIN NoRun /\ w.mode = v.mode /\ w.reader = v.reader
        /\ w.cut = v.cut /\ w.pc = "fetch" /\ w.late = v.late + (IF v.cut THEN 1 ELSE 0)
    BY <1>3, RunFields
  <2>2. run' = [run EXCEPT ![r] = w] /\ UNCHANGED <<lent, cell>> /\ call' = call
    BY <1>6 DEF Stays
  <2> HIDE DEF w
  <2>3. w.late = 0 \/ (w.late = 1 /\ w.cut /\ w.pc # "start")
    BY <1>2, <1>3, <2>1
  <2> QED BY <1>1, <1>2, <1>3, <2>1, <2>2, <2>3, StaysKeeps
<1> QED BY <1>4, <1>5, <1>6

(* The batches of a cursor, its end or an error.                           *)
LEMMA FetchStep ==
  ASSUME QwpInv, NEW r \in Runs, Fetch(r)
  PROVE  QwpInv'
<1> DEFINE u == run[r]
           v == [u EXCEPT !.cursor.left = @ - 1]
           w == [Account(u) EXCEPT !.pc = "next", !.cursor = NoCursor]
<1>1. UNCHANGED <<stmt, others, tbl>> /\ u.pc = "fetch"
  BY DEF Fetch
<1>2. /\ Live(r) /\ u.mode # None /\ DOMAIN u = DOMAIN NoRun
      /\ u.late = 0 \/ (u.late = 1 /\ u.cut /\ u.pc # "start")
  BY <1>1, AtWork
<1>3. /\ DOMAIN v = DOMAIN NoRun /\ v.mode = u.mode /\ v.reader = u.reader
      /\ v.cut = u.cut /\ v.late = u.late /\ v.pc = u.pc
  BY <1>2, RunFields
<1>4. /\ DOMAIN w = DOMAIN NoRun /\ w.mode = u.mode /\ w.reader = u.reader
      /\ w.cut = u.cut /\ w.late = u.late /\ w.pc = "next"
  BY <1>2, RowsKeepTheRest, RunFields
<1>5. \/ \E status : Returned(r, u, status) \/ Returned(r, v, status)
      \/ Stays(r, v) \/ Stays(r, w)
  BY DEF Fetch
<1> HIDE DEF v, w
<1>6. ASSUME NEW x \in {v, w}, Stays(r, x)
      PROVE  QwpInv'
  <2>1. run' = [run EXCEPT ![r] = x] /\ UNCHANGED <<lent, cell>> /\ call' = call
    BY <1>6 DEF Stays
  <2>2. /\ DOMAIN x = DOMAIN NoRun /\ x.mode # None /\ x.reader = u.reader /\ x.cut = u.cut
        /\ x.late = 0 \/ (x.late = 1 /\ x.cut /\ x.pc # "start")
    BY <1>1, <1>2, <1>3, <1>4
  <2> QED BY <1>1, <1>2, <2>1, <2>2, StaysKeeps
<1>7. ASSUME NEW x \in {u, v}, NEW status, Returned(r, x, status)
      PROVE  QwpInv'
  <2>1. /\ DOMAIN x = DOMAIN NoRun /\ x.mode # None /\ x.reader = u.reader
        /\ x.cut = u.cut /\ x.late = u.late
    BY <1>2, <1>3
  <2> QED BY <1>1, <1>2, <1>7, <2>1, ReturnedKeeps
<1> QED BY <1>5, <1>6, <1>7

(* The reader of a stream asks for more.                                   *)
LEMMA StreamGetNextStep ==
  ASSUME QwpInv, NEW r \in Runs, StreamGetNext(r)
  PROVE  QwpInv'
<1> DEFINE u == run[r]
           v == [u EXCEPT !.first = FALSE]
           w == [u EXCEPT !.pc = IF u.cursor = NoCursor THEN "next" ELSE "fetch"]
<1>1. UNCHANGED <<stmt, others, tbl>> /\ u.mode = "stream" /\ u.pc = "idle"
  BY DEF StreamGetNext
<1>2. /\ Live(r) /\ u.mode # None /\ DOMAIN u = DOMAIN NoRun
      /\ u.late = 0 \/ (u.late = 1 /\ u.cut /\ u.pc # "start")
  BY <1>1, AtWork
<1>3. \A x \in {v, w} : /\ DOMAIN x = DOMAIN NoRun /\ x.mode = u.mode /\ x.reader = u.reader
                        /\ x.cut = u.cut /\ x.late = u.late /\ x.pc # "start"
  BY <1>1, <1>2, RunFields
<1>4. Stays(r, v) \/ Stays(r, w)
  BY DEF StreamGetNext
<1> HIDE DEF v, w
<1>5. PICK x \in {v, w} : Stays(r, x)
  BY <1>4
<1>6. run' = [run EXCEPT ![r] = x] /\ UNCHANGED <<lent, cell>> /\ call' = call
  BY <1>5 DEF Stays
<1> QED BY <1>1, <1>2, <1>3, <1>5, <1>6, StaysKeeps

(* The reader of a stream is done with it, with or without a statement.    *)
LEMMA StreamReleaseStep ==
  ASSUME QwpInv, NEW r \in Runs, StreamRelease(r)
  PROVE  QwpInv'
<1>1. /\ UNCHANGED <<stmt, others, tbl>> /\ call' = call /\ run[r].mode = "stream"
      /\ RunFree(r)
  BY DEF StreamRelease
<1> QED BY <1>1, AtWork, RunFreeKeeps

-----------------------------------------------------------------------------
(* Beginning a run.                                                        *)

(* A new run takes a free name, a free reader and a share of the cell.     *)
LEMMA HeldByOneMore ==
  ASSUME QwpInv, NEW r \in Runs, ~Live(r), NEW d \in Readers \ lent, NEW u,
         u.mode # None, u.reader = d, run' = [run EXCEPT ![r] = u], lent' = lent \cup {d},
         cell' = [cell EXCEPT !.refs = @ + 1], others' = others, stmt'.st = stmt.st
  PROVE  ReadersHeld' /\ CellCounted'
<1> DEFINE live == {s \in Runs : Live(s)}
<1>1. DOMAIN run = Runs
  BY DEF QwpInv, Shapes
<1>2. run'[r] = u /\ \A s \in Runs \ {r} : run'[s] = run[s]
  BY <1>1
<1>3. \A s \in Runs : Live(s)' <=> Live(s) \/ s = r
  BY <1>2 DEF Live
<1>4. CellCounted'
  <2>1. live' = live \cup {r}
    BY <1>3
  <2>2. IsFiniteSet(live) /\ r \notin live
    BY FS_Subset, QwpAssumption
  <2>3. Cardinality(live \cup {r}) = Cardinality(live) + 1 /\ Cardinality(live) \in Nat
    BY <2>2, FS_AddElement, FS_CardinalityType
  <2>4. cell.refs = Cardinality(live) + (IF stmt.st = "live" THEN 1 ELSE 0)
    BY DEF QwpInv, CellCounted
  <2>5. cell'.refs = cell.refs + 1
    BY DEF QwpInv, Shapes
  <2>6. cell'.refs = Cardinality(live') + (IF stmt'.st = "live" THEN 1 ELSE 0)
    <3>1. Cardinality(live') = Cardinality(live) + 1
      BY <2>1, <2>3
    <3> HIDE DEF live
    <3> QED BY <2>3, <2>4, <2>5, <3>1
  <2> QED BY <2>6 DEF CellCounted
<1>5. ReadersHeld'
  <2>1. d \notin lent /\ d \notin others
    BY DEF QwpInv, ReadersHeld
  <2>2. \A s \in Runs : Live(s) => run[s].reader # d
    BY <2>1 DEF QwpInv, ReadersHeld
  <2>3. lent' \subseteq Readers /\ others' \subseteq lent'
    BY DEF QwpInv, ReadersHeld
  <2>4. \A s \in Runs : Live(s)' => run'[s].reader \in lent' \ others'
    BY <1>2, <1>3, <2>1 DEF QwpInv, ReadersHeld
  <2>5. \A s, t \in Runs : Live(s)' /\ Live(t)' /\ run'[s].reader = run'[t].reader => s = t
    BY <1>2, <1>3, <2>2 DEF QwpInv, ReadersHeld
  <2>6. \A e \in lent' \ others' : \E s \in Runs : Live(s)' /\ run'[s].reader = e
    <3>1. TAKE e \in lent' \ others'
    <3>2. CASE e = d
      BY <1>2, <1>3, <3>2
    <3>3. CASE e # d
      <4>1. PICK s \in Runs : Live(s) /\ run[s].reader = e
        BY <3>1, <3>3 DEF QwpInv, ReadersHeld
      <4>2. Live(s)' /\ run'[s].reader = e
        BY <1>2, <1>3, <4>1
      <4> QED BY <4>2
    <3> QED BY <3>2, <3>3
  <2> QED BY <2>3, <2>4, <2>5, <2>6 DEF ReadersHeld
<1> QED BY <1>4, <1>5

(* QdbRunNew, with a reader or without.                                    *)
LEMMA BeginRunStep ==
  ASSUME QwpInv, BeginRun
  PROVE  QwpInv'
<1> DEFINE r == CHOOSE x \in Runs : ~Live(x)
           d == CHOOSE x \in Readers : x \notin lent
           u == [NoRun EXCEPT
                   !.mode = call.op, !.pc = "next", !.sql = stmt.sql, !.reader = d,
                   !.hasBind = stmt.hasBind, !.batches = stmt.bind,
                   !.bound = IF stmt.hasBind THEN stmt.bind ELSE <<<<0>>>>,
                   !.cut = cell.cancelled]
<1>1. others' = others /\ tbl' = tbl /\ call.pc = "new" /\ RunNew(call.op)
  BY DEF BeginRun
<1>2. r \in Runs /\ ~Live(r)
  BY <1>1 DEF RunNew
<1>3. call.op # None /\ stmt.st = "live"
  BY <1>1 DEF QwpInv, Calls, None
<1>4. stmt' = [stmt EXCEPT !.hasBind = FALSE, !.bind = <<>>]
  BY <1>1 DEF RunNew
<1>5. /\ DOMAIN stmt' = DOMAIN NoStatement /\ stmt'.st = stmt.st /\ stmt'.calls = stmt.calls
      /\ stmt'.binds = stmt.binds /\ stmt'.bind = <<>> /\ stmt'.mode = stmt.mode
  BY <1>4 DEF QwpInv, Shapes, NoStatement
<1>6. CreateOwnsTable' /\ BoundIsUnsent' /\ IngestSendsOnce'
  BY <1>1, <1>5, BindingDropped
<1>7. \/ /\ Free # {} /\ lent' = lent \cup {d} /\ run' = [run EXCEPT ![r] = u]
         /\ cell' = [cell EXCEPT !.refs = @ + 1] /\ call' = [call EXCEPT !.pc = "run"]
      \/ call' = NoCall /\ UNCHANGED <<run, lent, cell>>
  BY <1>1 DEF RunNew
<1>8. CASE call' = NoCall /\ UNCHANGED <<run, lent, cell>>
  <2>1. /\ ReadersHeld' /\ CellCounted' /\ CancelSeen'
        /\ stmt'.st = "none" => \A s \in Runs : ~Live(s)'
        /\ \A s \in Runs : ~Live(s)' => run'[s] = NoRun
    BY <1>1, <1>5, <1>8, RunsKept
  <2>2. Calls'
    BY <1>3, <1>5, <1>8, <2>1 DEF Calls, NoCall
  <2>3. Shapes'
    BY <1>1, <1>5, <1>8 DEF QwpInv, Shapes
  <2>4. MakesItsTable'
    BY <1>8 DEF MakesItsTable, NoCall, None
  <2> QED BY <1>6, <2>1, <2>2, <2>3, <2>4 DEF QwpInv
<1>9. CASE /\ Free # {} /\ lent' = lent \cup {d} /\ run' = [run EXCEPT ![r] = u]
           /\ cell' = [cell EXCEPT !.refs = @ + 1] /\ call' = [call EXCEPT !.pc = "run"]
  <2>1. d \in Readers \ lent
    BY <1>9 DEF Free
  <2>2. /\ DOMAIN u = DOMAIN NoRun /\ u.mode = call.op /\ u.reader = d
        /\ u.cut = cell.cancelled /\ u.late = 0
    BY DEF NoRun
  <2> HIDE DEF d, r, u
  <2>3. ReadersHeld' /\ CellCounted'
    BY <1>1, <1>2, <1>3, <1>5, <1>9, <2>1, <2>2, HeldByOneMore
  <2>4. DOMAIN run = Runs
    BY DEF QwpInv, Shapes
  <2>5. run'[r] = u /\ \A s \in Runs \ {r} : run'[s] = run[s]
    BY <1>2, <1>9, <2>4
  <2>6. cell' = [refs |-> cell.refs + 1, cancelled |-> cell.cancelled] /\ cell.refs \in Int
    BY <1>9 DEF QwpInv, Shapes
  <2>7. CancelSeen'
    BY <2>2, <2>5, <2>6 DEF QwpInv, CancelSeen
  <2>8. /\ DOMAIN call' = DOMAIN NoCall /\ call'.op = call.op /\ call'.pc = "run"
    BY <1>9 DEF QwpInv, Shapes, NoCall
  <2>9. Shapes'
    <3>1. DOMAIN run' = Runs /\ \A s \in Runs : DOMAIN run'[s] = DOMAIN NoRun
      BY <1>9, <2>2, <2>4, <2>5 DEF QwpInv, Shapes
    <3>2. cell' \in [refs : Int, cancelled : BOOLEAN]
      BY <2>6 DEF QwpInv, Shapes
    <3> QED BY <1>1, <1>5, <2>8, <3>1, <3>2 DEF QwpInv, Shapes
  <2>10. Calls'
    <3>1. \A s \in Runs : ~Live(s)' => run'[s] = NoRun
      BY <1>3, <2>2, <2>5 DEF QwpInv, Calls, Live
    <3> QED BY <1>3, <1>5, <2>8, <3>1 DEF QwpInv, Calls, None
  <2>11. MakesItsTable'
    BY <2>8 DEF MakesItsTable
  <2> QED BY <1>6, <2>3, <2>7, <2>9, <2>10, <2>11 DEF QwpInv
<1> QED BY <1>7, <1>8, <1>9

(* The readers of other statements are theirs.                             *)
LEMMA OthersStep ==
  ASSUME QwpInv, OthersBorrow \/ OthersReturn
  PROVE  QwpInv'
<1>1. /\ stmt' = stmt /\ cell' = cell /\ run' = run /\ call' = call /\ tbl' = tbl
  BY DEF OthersBorrow, OthersReturn
<1>2. lent' \ others' = lent \ others /\ others' \subseteq lent' /\ lent' \subseteq Readers
  <2>1. CASE OthersReturn
    BY <2>1 DEF OthersReturn, QwpInv, ReadersHeld
  <2>2. CASE OthersBorrow
    <3>1. PICK d \in Readers : d \notin lent /\ lent' = lent \cup {d} /\ others' = {d}
      BY <2>2 DEF OthersBorrow, Free
    <3> QED BY <2>2, <3>1 DEF OthersBorrow, QwpInv, ReadersHeld
  <2> QED BY <2>1, <2>2
<1>3. \A r \in Runs : Live(r)' <=> Live(r)
  BY <1>1 DEF Live
<1>4. ReadersHeld'
  BY <1>1, <1>2, <1>3 DEF QwpInv, ReadersHeld
<1>5. CellCounted'
  <2>1. {r \in Runs : Live(r)}' = {r \in Runs : Live(r)}
    BY <1>3
  <2> QED BY <1>1, <2>1 DEF QwpInv, CellCounted
<1>6. CreateOwnsTable' /\ BoundIsUnsent' /\ IngestSendsOnce'
  BY <1>1, TableKept
<1>7. CancelSeen' /\ Calls'
  BY <1>1, <1>3 DEF QwpInv, CancelSeen, Calls
<1>8. Shapes' /\ MakesItsTable'
  BY <1>1 DEF QwpInv, Shapes, MakesItsTable
<1> QED BY <1>4, <1>5, <1>6, <1>7, <1>8 DEF QwpInv

-----------------------------------------------------------------------------
(* Calls on the statement.                                                 *)

(* What a setter has to leave alone: nothing of the statement that a run,  *)
(* the cell or the table depends on.                                       *)
LEMMA SetterKeeps ==
  ASSUME QwpInv, Ready, Forgotten, DOMAIN stmt' = DOMAIN NoStatement, stmt'.st = stmt.st,
         stmt'.calls = stmt.calls, stmt'.binds \in Nat, stmt'.bind \in Seq(Seq(Nat)),
         BoundIsUnsent'
  PROVE  QwpInv'
<1>1. /\ cell' = cell /\ run' = run /\ lent' = lent /\ others' = others
      /\ call' = call /\ tbl' = tbl /\ call.op = None /\ call.pc = None
  BY DEF Forgotten, Ready, QwpInv, Calls
<1>2. /\ ReadersHeld' /\ CellCounted' /\ CancelSeen'
      /\ stmt'.st = "none" => \A r \in Runs : ~Live(r)'
      /\ \A r \in Runs : ~Live(r)' => run'[r] = NoRun
  BY <1>1, RunsKept
<1>3. Calls'
  BY <1>1, <1>2 DEF Calls
<1>4. Shapes'
  BY <1>1 DEF QwpInv, Shapes
<1>5. MakesItsTable'
  BY <1>1 DEF MakesItsTable, None
<1>6. CreateOwnsTable' /\ IngestSendsOnce'
  BY <1>1 DEF QwpInv, CreateOwnsTable, IngestSendsOnce
<1> QED BY <1>2, <1>3, <1>4, <1>5, <1>6 DEF QwpInv

(* The setters that leave the binding alone.                               *)
LEMMA SetterStep ==
  ASSUME QwpInv, SetSqlQuery \/ SetTarget \/ SetIngestOptions
  PROVE  QwpInv'
<1>1. Ready /\ Forgotten
  BY DEF SetSqlQuery, SetTarget, SetIngestOptions
<1>2. DOMAIN stmt = DOMAIN NoStatement /\ stmt.binds \in Nat /\ stmt.bind \in Seq(Seq(Nat))
  BY DEF QwpInv, Shapes
<1>3. /\ DOMAIN stmt' = DOMAIN NoStatement /\ stmt'.st = stmt.st /\ stmt'.calls = stmt.calls
      /\ stmt'.binds = stmt.binds /\ stmt'.bind = stmt.bind
  <2>1. CASE SetSqlQuery
    <3>1. PICK q : stmt' = [stmt EXCEPT !.sql = q, !.ingest = FALSE]
      BY <2>1 DEF SetSqlQuery
    <3> QED BY <1>2, <3>1 DEF NoStatement
  <2>2. CASE SetTarget
    <3>1. stmt' = [stmt EXCEPT !.ingest = TRUE, !.sql = None]
      BY <2>2 DEF SetTarget
    <3> QED BY <1>2, <3>1 DEF NoStatement
  <2>3. CASE SetIngestOptions
    <3>1. PICK m, w : stmt' = [stmt EXCEPT !.mode = m, !.wait = w]
      BY <2>3 DEF SetIngestOptions
    <3> QED BY <1>2, <3>1 DEF NoStatement
  <2> QED BY <2>1, <2>2, <2>3
<1>4. BoundIsUnsent'
  BY <1>1, <1>3, TableKept DEF Forgotten
<1> QED BY <1>1, <1>2, <1>3, <1>4, SetterKeeps

(* A new binding has a number of its own, which no frame bears yet.        *)
LEMMA BindStep ==
  ASSUME QwpInv, Bind
  PROVE  QwpInv'
<1>1. Ready /\ Forgotten /\ tbl' = tbl
  BY DEF Bind, Forgotten
<1>2. DOMAIN stmt = DOMAIN NoStatement /\ stmt.binds \in Nat
  BY DEF QwpInv, Shapes
<1>3. PICK b \in Binds : stmt' = [stmt EXCEPT !.hasBind = TRUE, !.bind = b, !.binds = @ + 1]
  BY DEF Bind
<1>4. /\ DOMAIN stmt' = DOMAIN NoStatement /\ stmt'.st = stmt.st /\ stmt'.calls = stmt.calls
      /\ stmt'.binds = stmt.binds + 1 /\ stmt'.bind = b
  BY <1>2, <1>3 DEF NoStatement
<1>5. /\ b \in Seq(Seq(Nat))
      /\ \A i, j \in DOMAIN b : i # j => ToSet(b[i]) \cap ToSet(b[j]) = {}
  BY QwpAssumption
<1>6. BoundIsUnsent'
  <2>1. \A k \in DOMAIN tbl.frames : tbl.frames[k].bind <= stmt.binds /\ tbl.frames[k].bind \in Nat
    <3>1. \A k \in DOMAIN tbl.frames : tbl.frames[k] \in Frames
      BY FrameShape DEF QwpInv
    <3> QED BY <3>1 DEF QwpInv, BoundIsUnsent, Frames
  <2>2. \A k \in DOMAIN tbl.frames : /\ tbl.frames[k].bind <= stmt.binds + 1
                                     /\ tbl.frames[k].bind # stmt.binds + 1
    BY <1>2, <2>1
  <2> QED BY <1>1, <1>4, <1>5, <2>2 DEF BoundIsUnsent
<1> QED BY <1>1, <1>2, <1>4, <1>5, <1>6, SetterKeeps

(* A new statement owns its cell alone.                                    *)
LEMMA StatementNewStep ==
  ASSUME QwpInv, StatementNew
  PROVE  QwpInv'
<1>1. /\ stmt.st = "none" /\ stmt' = [stmt EXCEPT !.st = "live"]
      /\ cell' = [refs |-> 1, cancelled |-> FALSE]
      /\ run' = run /\ lent' = lent /\ others' = others /\ call' = call /\ tbl' = tbl
  BY DEF StatementNew
<1>2. /\ DOMAIN stmt' = DOMAIN NoStatement /\ stmt'.st = "live" /\ stmt'.calls = stmt.calls
      /\ stmt'.binds = stmt.binds /\ stmt'.bind = stmt.bind /\ stmt'.mode = stmt.mode
  BY <1>1 DEF QwpInv, Shapes, NoStatement
<1>3. \A r \in Runs : ~Live(r) /\ ~Live(r)' /\ run[r] = NoRun
  BY <1>1 DEF QwpInv, Calls, Live
<1>4. CellCounted'
  <2>1. {r \in Runs : Live(r)}' = {}
    BY <1>3
  <2> QED BY <1>1, <1>2, <2>1, FS_EmptySet DEF CellCounted
<1>5. CancelSeen'
  BY <1>1, <1>3 DEF CancelSeen, NoRun
<1>6. ReadersHeld'
  BY <1>1, <1>3 DEF QwpInv, ReadersHeld
<1>7. CreateOwnsTable' /\ BoundIsUnsent' /\ IngestSendsOnce'
  BY <1>1, <1>2, TableKept
<1>8. Calls'
  BY <1>1, <1>2, <1>3 DEF QwpInv, Calls
<1>9. Shapes'
  BY <1>1, <1>2 DEF QwpInv, Shapes
<1>10. MakesItsTable'
  BY <1>1, <1>2 DEF QwpInv, MakesItsTable
<1> QED BY <1>4, <1>5, <1>6, <1>7, <1>8, <1>9, <1>10 DEF QwpInv

(* Cancelling marks the runs that have yet to see it.                      *)
LEMMA StatementCancelStep ==
  ASSUME QwpInv, StatementCancel
  PROVE  QwpInv'
<1>1. /\ cell' = [cell EXCEPT !.cancelled = TRUE] /\ ~cell.cancelled
      /\ run' = [r \in Runs |-> [run[r] EXCEPT !.cut = Live(r)]]
      /\ stmt' = stmt /\ lent' = lent /\ others' = others /\ call' = call /\ tbl' = tbl
  BY DEF StatementCancel
<1>2. cell' = [refs |-> cell.refs, cancelled |-> TRUE] /\ cell.refs \in Int
  BY <1>1 DEF QwpInv, Shapes
<1>3. \A r \in Runs : /\ DOMAIN run'[r] = DOMAIN NoRun /\ run'[r].mode = run[r].mode
                      /\ run'[r].reader = run[r].reader /\ run'[r].late = run[r].late
                      /\ run'[r].pc = run[r].pc
  BY <1>1, RunFields DEF QwpInv, Shapes
<1>4. \A r \in Runs : run[r].late = 0
  BY <1>1 DEF QwpInv, CancelSeen
<1>5. ReadersHeld' /\ CellCounted'
  BY <1>1, <1>2, <1>3, HoldingKept
<1>6. CancelSeen'
  BY <1>2, <1>3, <1>4 DEF CancelSeen
<1>7. CreateOwnsTable' /\ BoundIsUnsent' /\ IngestSendsOnce'
  BY <1>1, TableKept
<1>8. \A r \in Runs : ~Live(r)' => run'[r] = NoRun
  <2>1. TAKE r \in Runs
  <2>2. HAVE ~Live(r)'
  <2>3. ~Live(r) /\ run[r] = NoRun
    BY <1>3, <2>2 DEF QwpInv, Calls, Live
  <2>4. run'[r] = [run[r] EXCEPT !.cut = Live(r)]
    BY <1>1
  <2>5. Live(r) = FALSE
    BY <2>3
  <2> QED BY <2>3, <2>4, <2>5, NoRunAgain
<1>9. Calls'
  <2>1. \A r \in Runs : Live(r)' <=> Live(r)
    BY <1>3 DEF Live
  <2> QED BY <1>1, <1>8, <2>1 DEF QwpInv, Calls
<1>10. Shapes'
  BY <1>1, <1>2, <1>3 DEF QwpInv, Shapes
<1>11. MakesItsTable'
  BY <1>1 DEF QwpInv, MakesItsTable
<1> QED BY <1>5, <1>6, <1>7, <1>9, <1>10, <1>11 DEF QwpInv

(* A released statement gives up its own share of the cell; its streams    *)
(* keep theirs.                                                            *)
LEMMA StatementReleaseStep ==
  ASSUME QwpInv, StatementRelease
  PROVE  QwpInv'
<1> DEFINE live == {r \in Runs : Live(r)}
<1>1. /\ stmt' = [NoStatement EXCEPT !.st = "gone", !.binds = stmt.binds, !.calls = stmt.calls]
      /\ cell' = [cell EXCEPT !.refs = @ - 1] /\ stmt.st = "live" /\ call.op = None
      /\ run' = run /\ lent' = lent /\ others' = others /\ call' = call /\ tbl' = tbl
  BY DEF StatementRelease, Ready
<1>2. /\ DOMAIN stmt' = DOMAIN NoStatement /\ stmt'.st = "gone" /\ stmt'.calls = stmt.calls
      /\ stmt'.binds = stmt.binds /\ stmt'.bind = <<>>
  BY <1>1 DEF NoStatement
<1>3. cell' = [refs |-> cell.refs - 1, cancelled |-> cell.cancelled] /\ cell.refs \in Int
  BY <1>1 DEF QwpInv, Shapes
<1>4. \A r \in Runs : Live(r)' <=> Live(r)
  BY <1>1 DEF Live
<1>5. CellCounted'
  <2>1. live' = live
    BY <1>4
  <2>2. Cardinality(live') = Cardinality(live)
    BY <2>1
  <2>3. IsFiniteSet(live)
    BY FS_Subset, QwpAssumption
  <2>4. Cardinality(live) \in Nat /\ cell.refs = Cardinality(live) + 1
    BY <1>1, <2>3, FS_CardinalityType DEF QwpInv, CellCounted
  <2>5. cell'.refs = cell.refs - 1
    BY <1>3
  <2>6. cell'.refs = Cardinality(live') + (IF stmt'.st = "live" THEN 1 ELSE 0)
    <3> HIDE DEF live
    <3> QED BY <1>2, <2>2, <2>4, <2>5
  <2> QED BY <2>6 DEF CellCounted
<1>6. ReadersHeld'
  BY <1>1, <1>4 DEF QwpInv, ReadersHeld
<1>7. CancelSeen'
  BY <1>1, <1>3 DEF QwpInv, CancelSeen
<1>8. CreateOwnsTable' /\ BoundIsUnsent' /\ IngestSendsOnce'
  BY <1>1, <1>2, BindingDropped
<1>9. Calls'
  BY <1>1, <1>2, <1>4 DEF QwpInv, Calls
<1>10. Shapes'
  <2>1. /\ DOMAIN run' = Runs /\ \A r \in Runs : DOMAIN run'[r] = DOMAIN NoRun
        /\ DOMAIN call' = DOMAIN NoCall
    BY <1>1 DEF QwpInv, Shapes
  <2>2. /\ stmt'.st \in {"none", "live", "gone"} /\ stmt'.calls \in Nat /\ stmt'.binds \in Nat
    BY <1>2 DEF QwpInv, Shapes
  <2>3. stmt'.bind \in Seq(Seq(Nat))
    BY <1>2
  <2>4. cell' \in [refs : Int, cancelled : BOOLEAN]
    BY <1>3 DEF QwpInv, Shapes
  <2> QED BY <1>1, <1>2, <2>1, <2>2, <2>3, <2>4, ShapesTogether
<1>11. MakesItsTable'
  BY <1>1 DEF QwpInv, Calls, MakesItsTable, None
<1> QED BY <1>5, <1>6, <1>7, <1>8, <1>9, <1>10, <1>11 DEF QwpInv

(* Executing again ends the earlier results, which keep their readers      *)
(* until they are released.                                                *)
LEMMA BeginExecuteStep ==
  ASSUME QwpInv, BeginExecute
  PROVE  QwpInv'
<1>1. /\ stmt.st = "live" /\ call.op = None /\ call.pc = None
      /\ stmt' = [stmt EXCEPT !.calls = @ + 1]
      /\ run' = [r \in Runs |-> IF ~Live(r) THEN NoRun
                                ELSE [NoRun EXCEPT !.mode = run[r].mode, !.reader = run[r].reader,
                                                   !.over = "superseded"]]
      /\ lent' = lent /\ others' = others /\ tbl' = tbl
  BY DEF BeginExecute, Ready, QwpInv, Calls
<1>2. /\ DOMAIN stmt' = DOMAIN NoStatement /\ stmt'.st = "live" /\ stmt'.calls = stmt.calls + 1
      /\ stmt'.binds = stmt.binds /\ stmt'.bind = stmt.bind /\ stmt.calls \in Nat
  BY <1>1 DEF QwpInv, Shapes, NoStatement
<1>3. PICK op \in {"ingest", "drain", "export", "describe"} :
        /\ cell' = [cell EXCEPT !.cancelled = (op = "describe" /\ @)]
        /\ \/ call' = call
           \/ call' = [NoCall EXCEPT !.op = op, !.bound = stmt.bind,
                                     !.pc = IF op = "ingest" THEN "find" ELSE "new"]
  BY DEF BeginExecute
<1>4. cell'.refs = cell.refs /\ cell' \in [refs : Int, cancelled : BOOLEAN]
  BY <1>3 DEF QwpInv, Shapes
<1>5. /\ DOMAIN call' = DOMAIN NoCall
      /\ \/ call'.op = None /\ call'.pc = None
         \/ call'.op # None /\ call'.pc \in {"find", "new"}
  BY <1>1, <1>3 DEF QwpInv, Shapes, NoCall, None
<1>6. \A r \in Runs : /\ run'[r].mode = run[r].mode /\ run'[r].reader = run[r].reader
                      /\ run'[r].late = 0 /\ run'[r].cut = FALSE
                      /\ DOMAIN run'[r] = DOMAIN NoRun
                      /\ ~Live(r) => run'[r] = NoRun
  <2>1. TAKE r \in Runs
  <2>2. CASE Live(r)
    <3>1. run'[r] = [NoRun EXCEPT !.mode = run[r].mode, !.reader = run[r].reader,
                                  !.over = "superseded"]
      BY <1>1, <2>2
    <3> QED BY <2>2, <3>1 DEF NoRun
  <2>3. CASE ~Live(r)
    <3>1. run'[r] = NoRun /\ run[r] = NoRun
      BY <1>1, <2>3 DEF QwpInv, Calls
    <3> QED BY <2>3, <3>1 DEF NoRun
  <2> QED BY <2>2, <2>3
<1>7. ReadersHeld' /\ CellCounted'
  BY <1>1, <1>2, <1>4, <1>6, HoldingKept
<1>8. CancelSeen'
  BY <1>6 DEF CancelSeen
<1>9. CreateOwnsTable' /\ BoundIsUnsent' /\ IngestSendsOnce'
  BY <1>1, <1>2, TableKept
<1>10. Calls'
  BY <1>2, <1>5, <1>6 DEF Calls, Live, None
<1>11. Shapes'
  <2>1. DOMAIN run' = Runs
    BY <1>1
  <2>2. /\ stmt'.st \in {"none", "live", "gone"} /\ stmt'.calls \in Nat /\ stmt'.binds \in Nat
        /\ stmt'.bind \in Seq(Seq(Nat))
    BY <1>2 DEF QwpInv, Shapes
  <2> QED BY <1>1, <1>2, <1>4, <1>5, <1>6, <2>1, <2>2, ShapesTogether
<1>12. MakesItsTable'
  BY <1>5 DEF MakesItsTable, None
<1> QED BY <1>7, <1>8, <1>9, <1>10, <1>11, <1>12 DEF QwpInv

-----------------------------------------------------------------------------
(* Bulk ingest.                                                            *)

(* A step of the conversation with the server touches the call, the        *)
(* binding and the table only.                                             *)
LEMMA IngestKeeps ==
  ASSUME QwpInv, UNCHANGED <<cell, run, lent, others>>, call.pc # None,
         DOMAIN stmt' = DOMAIN NoStatement, stmt'.st = stmt.st, stmt'.calls = stmt.calls,
         stmt'.binds = stmt.binds, stmt'.bind \in Seq(Seq(Nat)), DOMAIN call' = DOMAIN NoCall,
         call'.pc = None <=> call'.op = None, DOMAIN tbl' = DOMAIN NoTable,
         tbl'.frames \in Seq(Frames),
         MakesItsTable', CreateOwnsTable', BoundIsUnsent', IngestSendsOnce'
  PROVE  QwpInv'
<1>1. cell' = cell /\ run' = run /\ lent' = lent /\ others' = others
  OBVIOUS
<1>2. /\ ReadersHeld' /\ CellCounted' /\ CancelSeen'
      /\ stmt'.st = "none" => \A r \in Runs : ~Live(r)'
      /\ \A r \in Runs : ~Live(r)' => run'[r] = NoRun
  BY <1>1, RunsKept
<1>3. Calls'
  BY <1>2 DEF QwpInv, Calls
<1>4. Shapes'
  BY <1>1 DEF QwpInv, Shapes, Frames
<1> QED BY <1>2, <1>3, <1>4 DEF QwpInv

(* What the other steps need to know of the state they start in.           *)
LEMMA Facts ==
  ASSUME QwpInv
  PROVE  /\ DOMAIN stmt = DOMAIN NoStatement /\ stmt.calls \in Nat /\ stmt.binds \in Nat
         /\ stmt.bind \in Seq(Seq(Nat)) /\ DOMAIN call = DOMAIN NoCall
         /\ DOMAIN tbl = DOMAIN NoTable /\ tbl.frames \in Seq(Frames)
         /\ call.pc # None => call.op # None /\ stmt.calls > 0
BY DEF QwpInv, Shapes, Calls, Frames

(* The call goes on with the table as it is.                               *)
LEMMA CallGoesOn ==
  ASSUME QwpInv, UNCHANGED <<stmt, cell, run, lent, others, tbl>>, call.pc # None,
         DOMAIN call' = DOMAIN NoCall, call'.op = call.op, call'.pc # None, MakesItsTable'
  PROVE  QwpInv'
<1>1. stmt' = stmt /\ tbl' = tbl
  OBVIOUS
<1>2. CreateOwnsTable' /\ BoundIsUnsent' /\ IngestSendsOnce'
  BY <1>1, TableKept
<1> QED BY <1>1, <1>2, Facts, IngestKeeps DEF QwpInv, Shapes

(* The call ends, with or without the binding.                             *)
LEMMA IngestReturnKeeps ==
  ASSUME QwpInv, call.pc # None, NEW status, IngestReturn(status),
         UNCHANGED <<cell, run, lent, others, tbl>>
  PROVE  QwpInv'
<1>1. tbl' = tbl /\ call' = NoCall
  BY DEF IngestReturn
<1>2. /\ DOMAIN stmt' = DOMAIN NoStatement /\ stmt'.st = stmt.st /\ stmt'.calls = stmt.calls
      /\ stmt'.binds = stmt.binds /\ (stmt'.bind = <<>> \/ stmt'.bind = stmt.bind)
  <2>1. stmt' = stmt \/ stmt' = [stmt EXCEPT !.hasBind = FALSE, !.bind = <<>>]
    BY DEF IngestReturn
  <2>2. DOMAIN stmt = DOMAIN NoStatement
    BY Facts
  <2> QED BY <2>1, <2>2 DEF NoStatement
<1>3. CreateOwnsTable' /\ BoundIsUnsent' /\ IngestSendsOnce'
  BY <1>1, <1>2, TableKept, BindingDropped
<1>4. stmt'.bind \in Seq(Seq(Nat))
  <2>1. <<>> \in Seq(Seq(Nat))
    OBVIOUS
  <2> QED BY <1>2, <2>1, Facts
<1>5. DOMAIN call' = DOMAIN NoCall /\ call'.pc = None /\ call'.op = None
  BY <1>1 DEF NoCall
<1>6. MakesItsTable'
  BY <1>5 DEF MakesItsTable, None
<1> QED BY <1>1, <1>2, <1>3, <1>4, <1>5, <1>6, Facts, IngestKeeps

(* The client fails: the call ends and what is left of the binding stays.  *)
LEMMA ClientErrorKeeps ==
  ASSUME QwpInv, call.pc # None, ClientError, UNCHANGED <<cell, run, lent, others, tbl>>
  PROVE  QwpInv'
<1>1. PICK status : IngestReturn(status)
  BY DEF ClientError
<1> QED BY <1>1, IngestReturnKeeps

(* A new table, or none, has no frames.                                    *)
LEMMA TableEmptied ==
  ASSUME QwpInv, UNCHANGED <<stmt, cell, run, lent, others>>, call.pc # None,
         DOMAIN call' = DOMAIN NoCall, call'.op = call.op, call'.pc # None,
         DOMAIN tbl' = DOMAIN NoTable, tbl'.frames = <<>>, MakesItsTable'
  PROVE  QwpInv'
<1>1. stmt' = stmt
  OBVIOUS
<1>2. CreateOwnsTable' /\ IngestSendsOnce'
  BY DEF CreateOwnsTable, IngestSendsOnce
<1>3. BoundIsUnsent'
  <2>1. DOMAIN tbl'.frames = {}
    OBVIOUS
  <2>2. \A i, j \in DOMAIN stmt'.bind : i # j => ToSet(stmt'.bind[i]) \cap ToSet(stmt'.bind[j]) = {}
    BY <1>1 DEF QwpInv, BoundIsUnsent
  <2> QED BY <2>1, <2>2 DEF BoundIsUnsent
<1>4. tbl'.frames \in Seq(Frames)
  OBVIOUS
<1> QED BY <1>1, <1>2, <1>3, <1>4, Facts, IngestKeeps DEF QwpInv, Shapes

(* The look at the table: modes create and replace go on without one.      *)
LEMMA FindTableStep ==
  ASSUME QwpInv, FindTable
  PROVE  QwpInv'
<1>1. UNCHANGED <<cell, run, lent, others, tbl>> /\ call.pc # None
  BY DEF FindTable, None
<1>2. DOMAIN call = DOMAIN NoCall
  BY Facts
<1>3. \/ \E status : IngestReturn(status)
      \/ ClientError
      \/ /\ ~(stmt.mode = "create" /\ tbl.exists)
         /\ call' = [call EXCEPT !.exists = tbl.exists,
                                 !.pc = IF stmt.mode = "replace" /\ tbl.exists THEN "drop"
                                        ELSE "plan"]
         /\ stmt' = stmt
  BY DEF FindTable, Queries
<1>4. CASE \E status : IngestReturn(status)
  BY <1>1, <1>4, IngestReturnKeeps
<1>5. CASE ClientError
  BY <1>1, <1>5, ClientErrorKeeps
<1>6. CASE /\ ~(stmt.mode = "create" /\ tbl.exists)
           /\ call' = [call EXCEPT !.exists = tbl.exists,
                                   !.pc = IF stmt.mode = "replace" /\ tbl.exists THEN "drop"
                                          ELSE "plan"]
           /\ stmt' = stmt
  <2>1. /\ DOMAIN call' = DOMAIN NoCall /\ call'.op = call.op /\ call'.exists = tbl.exists
        /\ call'.pc = IF stmt.mode = "replace" /\ tbl.exists THEN "drop" ELSE "plan"
    BY <1>2, <1>6 DEF NoCall
  <2>2. MakesItsTable'
    BY <1>6, <2>1 DEF MakesItsTable
  <2>3. call'.pc # None
    BY <2>1 DEF None
  <2> QED BY <1>1, <1>6, <2>1, <2>2, <2>3, CallGoesOn
<1> QED BY <1>3, <1>4, <1>5, <1>6

(* Mode replace drops the table, and its frames with it.                   *)
LEMMA DropTableStep ==
  ASSUME QwpInv, DropTable
  PROVE  QwpInv'
<1>1. UNCHANGED <<cell, run, lent, others>> /\ call.pc # None
  BY DEF DropTable, None
<1>2. CASE ClientError /\ tbl' = tbl
  BY <1>1, <1>2, ClientErrorKeeps
<1>3. CASE /\ tbl' = NoTable /\ call' = [call EXCEPT !.pc = "plan", !.exists = FALSE]
           /\ stmt' = stmt
  <2>1. DOMAIN call = DOMAIN NoCall
    BY Facts
  <2>2. /\ DOMAIN call' = DOMAIN NoCall /\ call'.op = call.op
        /\ call'.exists = FALSE /\ call'.pc = "plan"
    BY <1>3, <2>1 DEF NoCall
  <2>3. MakesItsTable' /\ call'.pc # None
    BY <2>2 DEF MakesItsTable, None
  <2>4. DOMAIN tbl' = DOMAIN NoTable /\ tbl'.frames = <<>>
    BY <1>3 DEF NoTable
  <2> QED BY <1>1, <1>3, <2>2, <2>3, <2>4, TableEmptied
<1> QED BY <1>2, <1>3 DEF DropTable, Queries

(* The designated timestamp is chosen before the table is made.            *)
LEMMA PlanStep ==
  ASSUME QwpInv, Plan
  PROVE  QwpInv'
<1>1. UNCHANGED <<cell, run, lent, others, tbl>> /\ call.pc = "plan" /\ call.pc # None
  BY DEF Plan, None
<1>2. \/ IngestReturn("INVALID_ARGUMENT")
      \/ /\ \E at : call' = [call EXCEPT !.at = at,
                                         !.pc = IF call.exists THEN "send" ELSE "create"]
         /\ stmt' = stmt
  BY DEF Plan
<1>3. CASE IngestReturn("INVALID_ARGUMENT")
  BY <1>1, <1>3, IngestReturnKeeps
<1>4. ASSUME NEW at, stmt' = stmt,
             call' = [call EXCEPT !.at = at, !.pc = IF call.exists THEN "send" ELSE "create"]
      PROVE  QwpInv'
  <2>1. DOMAIN call = DOMAIN NoCall
    BY Facts
  <2>2. /\ DOMAIN call' = DOMAIN NoCall /\ call'.op = call.op
        /\ call'.pc = IF call.exists THEN "send" ELSE "create"
    BY <1>4, <2>1 DEF NoCall
  <2>3. MakesItsTable' /\ call'.pc # None
    BY <1>1, <1>4, <2>2 DEF QwpInv, MakesItsTable, None
  <2> QED BY <1>1, <1>4, <2>2, <2>3, CallGoesOn
<1> QED BY <1>2, <1>3, <1>4

(* The table a call creates is its own.                                    *)
LEMMA CreateTableStep ==
  ASSUME QwpInv, CreateTable
  PROVE  QwpInv'
<1>1. UNCHANGED <<cell, run, lent, others>> /\ call.pc # None
  BY DEF CreateTable, None
<1>2. CASE ClientError /\ tbl' = tbl
  BY <1>1, <1>2, ClientErrorKeeps
<1>3. ASSUME NEW w \in BOOLEAN, tbl' \in Created(w), call' = [call EXCEPT !.pc = "send"],
             stmt' = stmt
      PROVE  QwpInv'
  <2>1. DOMAIN call = DOMAIN NoCall
    BY Facts
  <2>2. DOMAIN call' = DOMAIN NoCall /\ call'.op = call.op /\ call'.pc = "send"
    BY <1>3, <2>1 DEF NoCall
  <2>3. tbl' = NewTable(w)
    BY <1>3 DEF Created
  <2>4. DOMAIN tbl' = DOMAIN NoTable /\ tbl'.frames = <<>> /\ tbl'.maker = stmt.calls
    BY <2>3 DEF NewTable, NoTable
  <2>5. MakesItsTable' /\ call'.pc # None
    BY <1>3, <2>2, <2>4 DEF MakesItsTable, None
  <2> QED BY <1>1, <1>3, <2>2, <2>4, <2>5, TableEmptied
<1> QED BY <1>2, <1>3 DEF CreateTable, Queries

(* Taking the next batch of the binding leaves the ones after it.          *)
LEMMA TailOf ==
  ASSUME NEW S, NEW q \in Seq(S), q # <<>>
  PROVE  /\ Tail(q) \in Seq(S) /\ 1 \in DOMAIN q /\ Head(q) = q[1] /\ Head(q) \in S
         /\ \A i \in DOMAIN Tail(q) : i + 1 \in DOMAIN q /\ i + 1 # 1 /\ Tail(q)[i] = q[i + 1]
         /\ \A i, j \in DOMAIN Tail(q) : i # j => i + 1 # j + 1
OBVIOUS

(* The frames of the table after one more.                                 *)
LEMMA AppendFrame ==
  ASSUME NEW S, NEW q \in Seq(S), NEW f \in S, NEW p, p = Append(q, f)
  PROVE  /\ p \in Seq(S) /\ DOMAIN p = DOMAIN q \cup {Len(q) + 1}
         /\ Len(q) + 1 \notin DOMAIN q /\ p[Len(q) + 1] = f
         /\ \A k \in DOMAIN q : p[k] = q[k]
         /\ DOMAIN q = 1..Len(q) /\ DOMAIN p = 1..Len(p)
OBVIOUS

(* The batch that was taken is sent, or lost, at most once: what is left   *)
(* has nothing of it.                                                      *)
LEMMA BatchTaken ==
  ASSUME QwpInv, ~AllSent, Rest
  PROVE  /\ DOMAIN stmt' = DOMAIN NoStatement /\ stmt'.st = stmt.st /\ stmt'.calls = stmt.calls
         /\ stmt'.binds = stmt.binds /\ stmt'.mode = stmt.mode /\ stmt'.bind \in Seq(Seq(Nat))
         /\ \A i, j \in DOMAIN stmt'.bind :
              i # j => ToSet(stmt'.bind[i]) \cap ToSet(stmt'.bind[j]) = {}
         /\ \A i \in DOMAIN stmt'.bind :
              /\ ToSet(Head(stmt.bind)) \cap ToSet(stmt'.bind[i]) = {}
              /\ \E n \in DOMAIN stmt.bind : stmt'.bind[i] = stmt.bind[n]
         /\ Head(stmt.bind) \in Seq(Nat)
         /\ 1 \in DOMAIN stmt.bind /\ Head(stmt.bind) = stmt.bind[1]
<1>1. DOMAIN stmt = DOMAIN NoStatement /\ stmt.bind \in Seq(Seq(Nat))
  BY Facts
<1>2. stmt' = [stmt EXCEPT !.bind = Tail(@)] /\ stmt.bind # <<>>
  BY DEF Rest, AllSent
<1>3. /\ DOMAIN stmt' = DOMAIN NoStatement /\ stmt'.st = stmt.st /\ stmt'.calls = stmt.calls
      /\ stmt'.binds = stmt.binds /\ stmt'.mode = stmt.mode /\ stmt'.bind = Tail(stmt.bind)
  BY <1>1, <1>2 DEF NoStatement
<1> DEFINE q == stmt.bind
<1>4. \A i, j \in DOMAIN q : i # j => ToSet(q[i]) \cap ToSet(q[j]) = {}
  BY DEF QwpInv, BoundIsUnsent
<1>5. /\ Tail(q) \in Seq(Seq(Nat)) /\ 1 \in DOMAIN q /\ Head(q) = q[1] /\ Head(q) \in Seq(Nat)
      /\ \A i \in DOMAIN Tail(q) : i + 1 \in DOMAIN q /\ i + 1 # 1 /\ Tail(q)[i] = q[i + 1]
      /\ \A i, j \in DOMAIN Tail(q) : i # j => i + 1 # j + 1
  BY <1>1, <1>2, TailOf
<1> HIDE DEF q
<1>6. \A i, j \in DOMAIN Tail(q) : i # j => ToSet(Tail(q)[i]) \cap ToSet(Tail(q)[j]) = {}
  BY <1>4, <1>5
<1>7. \A i \in DOMAIN Tail(q) : /\ ToSet(Head(q)) \cap ToSet(Tail(q)[i]) = {}
                                /\ \E n \in DOMAIN q : Tail(q)[i] = q[n]
  BY <1>4, <1>5
<1> QED BY <1>3, <1>5, <1>6, <1>7 DEF q

(* A batch that is taken and not written.                                  *)
LEMMA SkippedKeeps ==
  ASSUME QwpInv, ~AllSent, Rest, tbl' = tbl
  PROVE  CreateOwnsTable' /\ BoundIsUnsent' /\ IngestSendsOnce'
<1>1. /\ stmt'.binds = stmt.binds
      /\ \A i, j \in DOMAIN stmt'.bind :
           i # j => ToSet(stmt'.bind[i]) \cap ToSet(stmt'.bind[j]) = {}
      /\ \A i \in DOMAIN stmt'.bind : \E n \in DOMAIN stmt.bind : stmt'.bind[i] = stmt.bind[n]
  BY BatchTaken
<1>2. BoundIsUnsent'
  BY <1>1 DEF QwpInv, BoundIsUnsent
<1> QED BY <1>2 DEF QwpInv, CreateOwnsTable, IngestSendsOnce

(* A batch that is taken and written: its frame goes to the table the call *)
(* may write to, and shares no row with the frames of the same binding.    *)
LEMMA WrittenKeeps ==
  ASSUME QwpInv, call.pc = "send", ~AllSent, Rest,
         tbl' = Written(Frame(Head(stmt.bind), stmt.calls))
  PROVE  /\ CreateOwnsTable' /\ BoundIsUnsent' /\ IngestSendsOnce'
         /\ DOMAIN tbl' = DOMAIN NoTable /\ tbl'.frames \in Seq(Frames) /\ tbl'.maker = tbl.maker
<1> DEFINE f == Frame(Head(stmt.bind), stmt.calls)
           q == tbl.frames
           n == Len(q) + 1
<1>1. /\ stmt'.binds = stmt.binds /\ Head(stmt.bind) \in Seq(Nat)
      /\ \A i, j \in DOMAIN stmt'.bind :
           i # j => ToSet(stmt'.bind[i]) \cap ToSet(stmt'.bind[j]) = {}
      /\ \A i \in DOMAIN stmt'.bind :
           /\ ToSet(Head(stmt.bind)) \cap ToSet(stmt'.bind[i]) = {}
           /\ \E m \in DOMAIN stmt.bind : stmt'.bind[i] = stmt.bind[m]
      /\ 1 \in DOMAIN stmt.bind /\ Head(stmt.bind) = stmt.bind[1]
  BY BatchTaken
<1>2. /\ stmt.calls \in Nat /\ stmt.binds \in Nat /\ q \in Seq(Frames)
      /\ DOMAIN tbl = DOMAIN NoTable
  BY Facts
<1>3. /\ f.rows = Head(stmt.bind) /\ f.call = stmt.calls /\ f.bind = stmt.binds
      /\ f.own => stmt.mode \in {"create", "replace"}
      /\ f \in Frames
  BY <1>1, <1>2 DEF Frame, Frames
<1>4. /\ DOMAIN tbl' = DOMAIN NoTable /\ tbl'.maker = tbl.maker /\ tbl'.frames = Append(q, f)
  BY <1>2 DEF Written, NoTable
<1> HIDE DEF f, q
<1>5. /\ tbl'.frames \in Seq(Frames) /\ DOMAIN tbl'.frames = DOMAIN q \cup {n}
      /\ n \notin DOMAIN q /\ tbl'.frames[n] = f
      /\ \A k \in DOMAIN q : tbl'.frames[k] = q[k]
      /\ DOMAIN q = 1..Len(q) /\ DOMAIN tbl'.frames = 1..Len(tbl'.frames)
  <2>1. ASSUME NEW p, p = Append(q, f)
        PROVE  /\ p \in Seq(Frames) /\ DOMAIN p = DOMAIN q \cup {n}
               /\ n \notin DOMAIN q /\ p[n] = f
               /\ \A k \in DOMAIN q : p[k] = q[k]
               /\ DOMAIN q = 1..Len(q) /\ DOMAIN p = 1..Len(p)
    BY <1>2, <1>3, <2>1, AppendFrame
  <2> HIDE DEF n
  <2> QED BY <1>4, <2>1
<1> HIDE DEF n
<1>6. CreateOwnsTable'
  <2>1. \A k \in DOMAIN q : q[k].own => tbl.maker = q[k].call
    BY <1>5 DEF QwpInv, CreateOwnsTable, q
  <2>2. f.own => tbl.maker = f.call
    BY <1>3 DEF QwpInv, MakesItsTable
  <2>3. \A k \in DOMAIN tbl'.frames : tbl'.frames[k].own => tbl'.maker = tbl'.frames[k].call
    BY <1>4, <1>5, <2>1, <2>2
  <2> QED BY <1>5, <2>3 DEF CreateOwnsTable
<1>7. \A k \in DOMAIN q : q[k].call # 0 /\ q[k].bind = stmt.binds =>
        \A i \in DOMAIN stmt.bind : ToSet(q[k].rows) \cap ToSet(stmt.bind[i]) = {}
  BY DEF QwpInv, BoundIsUnsent, q
<1>8. BoundIsUnsent'
  <2>1. \A k \in DOMAIN q : /\ q[k].bind <= stmt'.binds
                            /\ q[k].call # 0 /\ q[k].bind = stmt'.binds =>
                                 \A i \in DOMAIN stmt'.bind :
                                    ToSet(q[k].rows) \cap ToSet(stmt'.bind[i]) = {}
    BY <1>1, <1>7 DEF QwpInv, BoundIsUnsent, q
  <2>2. /\ f.bind <= stmt'.binds
        /\ \A i \in DOMAIN stmt'.bind : ToSet(f.rows) \cap ToSet(stmt'.bind[i]) = {}
    BY <1>1, <1>2, <1>3
  <2>3. \A k \in DOMAIN tbl'.frames :
          /\ tbl'.frames[k].bind <= stmt'.binds
          /\ tbl'.frames[k].call # 0 /\ tbl'.frames[k].bind = stmt'.binds =>
               \A i \in DOMAIN stmt'.bind :
                  ToSet(tbl'.frames[k].rows) \cap ToSet(stmt'.bind[i]) = {}
    BY <1>5, <2>1, <2>2
  <2> QED BY <1>1, <2>3 DEF BoundIsUnsent
<1>9. IngestSendsOnce'
  <2>1. \A i, j \in DOMAIN q :
          i # j /\ 0 \notin {q[i].call, q[j].call} /\ q[i].bind = q[j].bind =>
            ToSet(q[i].rows) \cap ToSet(q[j].rows) = {}
    BY <1>5 DEF QwpInv, IngestSendsOnce, q
  <2>2. \A k \in DOMAIN q : q[k].call # 0 /\ q[k].bind = f.bind =>
          ToSet(q[k].rows) \cap ToSet(f.rows) = {}
    BY <1>1, <1>3, <1>7
  <2>3. \A i, j \in DOMAIN tbl'.frames :
          /\ i # j /\ 0 \notin {tbl'.frames[i].call, tbl'.frames[j].call}
          /\ tbl'.frames[i].bind = tbl'.frames[j].bind
          => ToSet(tbl'.frames[i].rows) \cap ToSet(tbl'.frames[j].rows) = {}
    <3>1. TAKE i, j \in DOMAIN tbl'.frames
    <3>2. CASE i \in DOMAIN q /\ j \in DOMAIN q
      BY <1>5, <2>1, <3>2
    <3>3. CASE i = n /\ j \in DOMAIN q
      BY <1>5, <2>2, <3>3
    <3>4. CASE i \in DOMAIN q /\ j = n
      BY <1>5, <2>2, <3>4
    <3> QED BY <1>5, <3>1, <3>2, <3>3, <3>4
  <2> QED BY <1>5, <2>3 DEF IngestSendsOnce
<1> QED BY <1>4, <1>5, <1>6, <1>8, <1>9

(* One turn of the send loop, whether the frame arrives or not.            *)
LEMMA SendBatchStep ==
  ASSUME QwpInv, SendBatch
  PROVE  QwpInv'
<1>1. UNCHANGED <<cell, run, lent, others>> /\ call.pc = "send" /\ call.pc # None
  BY DEF SendBatch, None
<1>2. /\ DOMAIN call = DOMAIN NoCall /\ call.op # None
      /\ DOMAIN tbl = DOMAIN NoTable /\ tbl.frames \in Seq(Frames)
  BY <1>1, Facts
<1>3. CASE AllSent /\ tbl' = tbl /\ Go("wait")
  <2>1. call' = [call EXCEPT !.pc = "wait"] /\ stmt' = stmt
    BY <1>3 DEF Go
  <2>2. DOMAIN call' = DOMAIN NoCall /\ call'.op = call.op /\ call'.pc = "wait"
    BY <1>2, <2>1 DEF NoCall
  <2>3. MakesItsTable' /\ call'.pc # None
    BY <2>2 DEF MakesItsTable, None
  <2> QED BY <1>1, <1>3, <2>1, <2>2, <2>3, CallGoesOn
<1>4. CASE tbl' = tbl /\ \E status : IngestReturn(status)
  BY <1>1, <1>4, IngestReturnKeeps
<1>5. CASE tbl' = tbl /\ ClientError
  BY <1>1, <1>5, ClientErrorKeeps
<1>6. CASE /\ ~AllSent /\ Rest
           /\ tbl' = tbl \/ tbl' = Written(Frame(Head(stmt.bind), stmt.calls))
           /\ \/ DOMAIN call' = DOMAIN NoCall /\ call'.op = call.op /\ call'.pc = "send"
              \/ call' = NoCall
  <2>1. /\ CreateOwnsTable' /\ BoundIsUnsent' /\ IngestSendsOnce'
        /\ DOMAIN tbl' = DOMAIN NoTable /\ tbl'.frames \in Seq(Frames) /\ tbl'.maker = tbl.maker
    BY <1>1, <1>2, <1>6, SkippedKeeps, WrittenKeeps
  <2>2. /\ DOMAIN stmt' = DOMAIN NoStatement /\ stmt'.st = stmt.st /\ stmt'.calls = stmt.calls
        /\ stmt'.binds = stmt.binds /\ stmt'.mode = stmt.mode /\ stmt'.bind \in Seq(Seq(Nat))
    BY <1>6, BatchTaken
  <2>3. DOMAIN call' = DOMAIN NoCall /\ (call'.pc = None <=> call'.op = None)
    BY <1>2, <1>6 DEF NoCall, None
  <2>4. MakesItsTable'
    <3>1. stmt.mode \in {"create", "replace"} => tbl.maker = stmt.calls
      BY <1>1 DEF QwpInv, MakesItsTable
    <3>2. call'.pc # "plan"
      BY <1>6 DEF NoCall, None
    <3> QED BY <2>1, <2>2, <3>1, <3>2 DEF MakesItsTable
  <2> QED BY <1>1, <2>1, <2>2, <2>3, <2>4, IngestKeeps
<1>7. \/ AllSent /\ tbl' = tbl /\ Go("wait")
      \/ tbl' = tbl /\ \E status : IngestReturn(status)
      \/ tbl' = tbl /\ ClientError
      \/ /\ ~AllSent /\ Rest
         /\ tbl' = tbl \/ tbl' = Written(Frame(Head(stmt.bind), stmt.calls))
         /\ \/ DOMAIN call' = DOMAIN NoCall /\ call'.op = call.op /\ call'.pc = "send"
            \/ call' = NoCall
  <2>1. CASE AllSent
    BY <2>1 DEF SendBatch
  <2>2. CASE ~AllSent /\ ClientError /\ tbl' = tbl
    BY <2>2
  <2>3. CASE ~AllSent /\ Rest /\ call' = call /\ tbl' = tbl
    BY <1>1, <1>2, <2>3
  <2>4. CASE ~AllSent /\ Rest /\ call' = NoCall
             /\ tbl' \in {tbl, Written(Frame(Head(stmt.bind), stmt.calls))}
    BY <2>4
  <2>5. CASE ~AllSent /\ Rest /\ tbl' = Written(Frame(Head(stmt.bind), stmt.calls))
             /\ call' = [call EXCEPT !.sent = @ + Len(Head(stmt.bind))]
    <3>1. DOMAIN call' = DOMAIN NoCall /\ call'.op = call.op /\ call'.pc = call.pc
      BY <1>2, <2>5 DEF NoCall
    <3> QED BY <1>1, <2>5, <3>1
  <2>6. ASSUME ~AllSent
        PROVE  \/ ClientError /\ tbl' = tbl
               \/ Rest /\ call' = call /\ tbl' = tbl
               \/ /\ Rest /\ call' = NoCall
                  /\ tbl' \in {tbl, Written(Frame(Head(stmt.bind), stmt.calls))}
               \/ /\ Rest /\ tbl' = Written(Frame(Head(stmt.bind), stmt.calls))
                  /\ call' = [call EXCEPT !.sent = @ + Len(Head(stmt.bind))]
    BY <2>6 DEF SendBatch, Lost, Failing
  <2> QED BY <2>1, <2>2, <2>3, <2>4, <2>5, <2>6
<1> QED BY <1>3, <1>4, <1>5, <1>6, <1>7

(* Waiting changes nothing but the call.                                   *)
LEMMA WaitForApplyStep ==
  ASSUME QwpInv, WaitForApply \/ Sleep
  PROVE  QwpInv'
<1>1. UNCHANGED <<cell, run, lent, others, tbl>> /\ call.pc # None
  BY DEF WaitForApply, Sleep, None
<1>2. CASE ClientError
  BY <1>1, <1>2, ClientErrorKeeps
<1>3. CASE \E status : IngestReturn(status)
  BY <1>1, <1>3, IngestReturnKeeps
<1>4. CASE stmt' = stmt /\ \/ call' = [call EXCEPT !.pc = "sleep"]
                           \/ \E n : call' = [call EXCEPT !.pc = "wait", !.polls = n]
  <2>1. DOMAIN call = DOMAIN NoCall
    BY Facts
  <2>2. DOMAIN call' = DOMAIN NoCall /\ call'.op = call.op /\ call'.pc \in {"wait", "sleep"}
    BY <1>4, <2>1 DEF NoCall
  <2>3. MakesItsTable' /\ call'.pc # None
    BY <2>2 DEF MakesItsTable, None
  <2> QED BY <1>1, <1>4, <2>2, <2>3, CallGoesOn
<1>5. CASE WaitForApply
  BY <1>2, <1>3, <1>4, <1>5 DEF WaitForApply, Queries, Go
<1>6. CASE Sleep
  BY <1>4, <1>6 DEF Sleep
<1> QED BY <1>5, <1>6

-----------------------------------------------------------------------------
(* The server.                                                             *)

(* The server applies a frame it has logged.                               *)
LEMMA ApplyStep ==
  ASSUME QwpInv, Apply
  PROVE  QwpInv'
<1>1. /\ UNCHANGED <<stmt, cell, run, lent, others, call>> /\ call.pc = "wait"
      /\ tbl' = [tbl EXCEPT !.applied = @ + 1]
  BY DEF Apply
<1>2. stmt' = stmt /\ call' = call
  BY <1>1
<1>3. DOMAIN tbl = DOMAIN NoTable
  BY Facts
<1>4. DOMAIN tbl' = DOMAIN NoTable /\ tbl'.frames = tbl.frames /\ tbl'.maker = tbl.maker
  BY <1>1, <1>3 DEF NoTable
<1>5. CreateOwnsTable' /\ BoundIsUnsent' /\ IngestSendsOnce'
  BY <1>2, <1>4 DEF QwpInv, CreateOwnsTable, BoundIsUnsent, IngestSendsOnce
<1>6. MakesItsTable' /\ call.pc # None
  BY <1>1, <1>2 DEF MakesItsTable, None
<1> QED BY <1>1, <1>2, <1>4, <1>5, <1>6, Facts, IngestKeeps

(* Another client creates the table before the call does.                  *)
LEMMA OtherCreatesStep ==
  ASSUME QwpInv, OtherCreates
  PROVE  QwpInv'
<1>1. /\ UNCHANGED <<stmt, cell, run, lent, others>> /\ call' = call
      /\ call.pc \in {"find", "create"}
  BY DEF OtherCreates
<1>2. PICK w \in BOOLEAN :
        tbl' = [NoTable EXCEPT !.exists = TRUE, !.maker = 0, !.wal = w, !.ts = "ts"]
  BY DEF OtherCreates
<1>3. DOMAIN tbl' = DOMAIN NoTable /\ tbl'.frames = <<>>
  BY <1>2 DEF NoTable
<1>4. MakesItsTable' /\ call.pc # None /\ call'.pc # None
  BY <1>1 DEF MakesItsTable, None
<1> QED BY <1>1, <1>3, <1>4, Facts, TableEmptied

(* What another client writes is nobody's binding and in no table of a     *)
(* call's own mode.                                                        *)
LEMMA OtherWritesStep ==
  ASSUME QwpInv, OtherWrites
  PROVE  QwpInv'
<1> DEFINE f == Frame(<<>>, 0)
           q == tbl.frames
           n == Len(q) + 1
<1>1. /\ UNCHANGED <<stmt, cell, run, lent, others, call>> /\ call.pc = "wait"
      /\ tbl' = Written(f)
  BY DEF OtherWrites
<1>2. stmt' = stmt /\ call' = call
  BY <1>1
<1>3. stmt.binds \in Nat /\ q \in Seq(Frames) /\ DOMAIN tbl = DOMAIN NoTable
  BY Facts
<1>4. f.call = 0 /\ f.bind = stmt.binds /\ ~f.own /\ f \in Frames
  <2>1. f = [rows |-> <<>>, call |-> 0, bind |-> stmt.binds, own |-> FALSE]
    BY DEF Frame
  <2>2. <<>> \in Seq(Nat)
    OBVIOUS
  <2> HIDE DEF f
  <2> QED BY <1>3, <2>1, <2>2 DEF Frames
<1>5. DOMAIN tbl' = DOMAIN NoTable /\ tbl'.maker = tbl.maker /\ tbl'.frames = Append(q, f)
  BY <1>1, <1>3 DEF Written, NoTable
<1> HIDE DEF f, q
<1>6. /\ tbl'.frames \in Seq(Frames) /\ DOMAIN tbl'.frames = DOMAIN q \cup {n}
      /\ n \notin DOMAIN q /\ tbl'.frames[n] = f
      /\ \A k \in DOMAIN q : tbl'.frames[k] = q[k]
      /\ DOMAIN q = 1..Len(q) /\ DOMAIN tbl'.frames = 1..Len(tbl'.frames)
  <2>1. ASSUME NEW p, p = Append(q, f)
        PROVE  /\ p \in Seq(Frames) /\ DOMAIN p = DOMAIN q \cup {n}
               /\ n \notin DOMAIN q /\ p[n] = f
               /\ \A k \in DOMAIN q : p[k] = q[k]
               /\ DOMAIN q = 1..Len(q) /\ DOMAIN p = 1..Len(p)
    BY <1>3, <1>4, <2>1, AppendFrame
  <2> HIDE DEF n
  <2> QED BY <1>5, <2>1
<1> HIDE DEF n
<1>7. CreateOwnsTable'
  <2>1. \A k \in DOMAIN q : q[k].own => tbl.maker = q[k].call
    BY <1>6 DEF QwpInv, CreateOwnsTable, q
  <2>2. \A k \in DOMAIN tbl'.frames : tbl'.frames[k].own => tbl'.maker = tbl'.frames[k].call
    BY <1>4, <1>5, <1>6, <2>1
  <2> QED BY <1>6, <2>2 DEF CreateOwnsTable
<1>8. BoundIsUnsent'
  <2>1. \A k \in DOMAIN q : /\ q[k].bind <= stmt.binds
                            /\ q[k].call # 0 /\ q[k].bind = stmt.binds =>
                                 \A i \in DOMAIN stmt.bind :
                                    ToSet(q[k].rows) \cap ToSet(stmt.bind[i]) = {}
    BY DEF QwpInv, BoundIsUnsent, q
  <2>2. \A k \in DOMAIN tbl'.frames :
          /\ tbl'.frames[k].bind <= stmt'.binds
          /\ tbl'.frames[k].call # 0 /\ tbl'.frames[k].bind = stmt'.binds =>
               \A i \in DOMAIN stmt'.bind :
                  ToSet(tbl'.frames[k].rows) \cap ToSet(stmt'.bind[i]) = {}
    <3>1. f.bind <= stmt.binds
      BY <1>3, <1>4
    <3> QED BY <1>2, <1>4, <1>6, <2>1, <3>1
  <2>3. \A i, j \in DOMAIN stmt'.bind : i # j => ToSet(stmt'.bind[i]) \cap ToSet(stmt'.bind[j]) = {}
    BY <1>2 DEF QwpInv, BoundIsUnsent
  <2> QED BY <2>2, <2>3 DEF BoundIsUnsent
<1>9. IngestSendsOnce'
  <2>1. \A i, j \in DOMAIN q :
          i # j /\ 0 \notin {q[i].call, q[j].call} /\ q[i].bind = q[j].bind =>
            ToSet(q[i].rows) \cap ToSet(q[j].rows) = {}
    BY <1>6 DEF QwpInv, IngestSendsOnce, q
  <2>2. \A i, j \in DOMAIN tbl'.frames :
          /\ i # j /\ 0 \notin {tbl'.frames[i].call, tbl'.frames[j].call}
          /\ tbl'.frames[i].bind = tbl'.frames[j].bind
          => ToSet(tbl'.frames[i].rows) \cap ToSet(tbl'.frames[j].rows) = {}
    <3>1. TAKE i, j \in DOMAIN tbl'.frames
    <3>2. CASE i \in DOMAIN q /\ j \in DOMAIN q
      BY <1>6, <2>1, <3>2
    <3>3. CASE i = n \/ j = n
      BY <1>4, <1>6, <3>3
    <3> QED BY <1>6, <3>1, <3>2, <3>3
  <2> QED BY <1>6, <2>2 DEF IngestSendsOnce
<1>10. MakesItsTable' /\ call.pc # None
  BY <1>1, <1>2 DEF MakesItsTable, None
<1> QED BY <1>1, <1>2, <1>3, <1>5, <1>6, <1>7, <1>8, <1>9, <1>10, Facts, IngestKeeps

-----------------------------------------------------------------------------
(* The invariant holds before the first call.                              *)
LEMMA QwpInit ==
  Init => QwpInv
<1> SUFFICES ASSUME Init PROVE QwpInv
  OBVIOUS
<1>1. /\ stmt = NoStatement /\ cell = [refs |-> 0, cancelled |-> FALSE] /\ lent = {} /\ others = {}
      /\ run = [r \in Runs |-> NoRun] /\ call = NoCall /\ tbl = NoTable
  BY DEF Init
<1>2. \A r \in Runs : ~Live(r) /\ run[r] = NoRun
  BY <1>1 DEF Live, NoRun
<1>3. Shapes
  <2>1. /\ DOMAIN stmt = DOMAIN NoStatement /\ stmt.st = "none" /\ stmt.calls = 0
        /\ stmt.binds = 0 /\ stmt.bind = <<>>
    BY <1>1 DEF NoStatement
  <2>2. tbl.frames = <<>> /\ DOMAIN tbl = DOMAIN NoTable /\ DOMAIN call = DOMAIN NoCall
    BY <1>1 DEF NoTable
  <2>3. <<>> \in Seq(Seq(Nat)) /\ <<>> \in Seq(Frames)
    OBVIOUS
  <2>4. DOMAIN run = Runs /\ \A r \in Runs : DOMAIN run[r] = DOMAIN NoRun
    BY <1>1
  <2>5. cell \in [refs : Int, cancelled : BOOLEAN]
    BY <1>1
  <2> QED BY <2>1, <2>2, <2>3, <2>4, <2>5 DEF Shapes, Frames
<1>4. Calls
  BY <1>1, <1>2 DEF Calls, NoCall
<1>5. ReadersHeld
  BY <1>1, <1>2 DEF ReadersHeld
<1>6. CellCounted
  <2>1. {r \in Runs : Live(r)} = {}
    BY <1>2
  <2> QED BY <1>1, <2>1, FS_EmptySet DEF CellCounted, NoStatement
<1>7. CancelSeen
  BY <1>2 DEF CancelSeen, NoRun
<1>8. MakesItsTable
  BY <1>1 DEF MakesItsTable, NoCall, None
<1>9. CreateOwnsTable /\ BoundIsUnsent /\ IngestSendsOnce
  BY <1>1 DEF CreateOwnsTable, BoundIsUnsent, IngestSendsOnce, NoTable, NoStatement
<1> QED BY <1>3, <1>4, <1>5, <1>6, <1>7, <1>8, <1>9 DEF QwpInv

(* Every step preserves it.                                                *)
LEMMA QwpStep ==
  QwpInv /\ [Next]_vars => QwpInv'
<1> SUFFICES ASSUME QwpInv, [Next]_vars PROVE QwpInv'
  OBVIOUS
<1>1. CASE DatabaseInit \/ ConnectionInit
  BY <1>1, NothingTouched DEF DatabaseInit, ConnectionInit
<1>2. CASE StatementNew \/ StatementRelease \/ StatementCancel
  BY <1>2, StatementNewStep, StatementReleaseStep, StatementCancelStep
<1>3. CASE SetSqlQuery \/ SetTarget \/ SetIngestOptions \/ Bind
  BY <1>3, SetterStep, BindStep
<1>4. CASE BeginExecute \/ BeginRun
  BY <1>4, BeginExecuteStep, BeginRunStep
<1>5. CASE IngestStep
  BY <1>5, FindTableStep, DropTableStep, PlanStep, CreateTableStep, SendBatchStep,
     WaitForApplyStep DEF IngestStep
<1>6. CASE Server
  BY <1>6, ApplyStep, OtherCreatesStep, OtherWritesStep, OthersStep DEF Server
<1>7. CASE \E r \in Runs : RunStep(r) \/ StreamGetNext(r) \/ StreamRelease(r)
  BY <1>7, NextExecutionStep, ExecuteStep, FetchStep, StreamGetNextStep, StreamReleaseStep
     DEF RunStep
<1>8. CASE UNCHANGED vars
  BY <1>8, NothingTouched DEF vars
<1> QED BY <1>1, <1>2, <1>3, <1>4, <1>5, <1>6, <1>7, <1>8 DEF Next, Caller

(* Every reader that is lent is some run's or another statement's, the     *)
(* cell counts its owners, a cancelled run begins at most one execution,   *)
(* and what is bound is what has not been sent: after every step.          *)
THEOREM QwpAlways ==
  Spec => []QwpInv
BY QwpInit, QwpStep, PTL DEF Spec

(* No run leaks its reader or its share of the cell, and none outlives the *)
(* cell, in whatever order streams and statement are released.             *)
THEOREM NothingLeaksAlways ==
  Spec => []NothingLeaks
<1>1. QwpInv => NothingLeaks
  <2> SUFFICES ASSUME QwpInv PROVE NothingLeaks
    OBVIOUS
  <2> DEFINE live == {r \in Runs : Live(r)}
  <2>1. \A d \in lent \ others : Cardinality({r \in live : run[r].reader = d}) = 1
    <3>1. TAKE d \in lent \ others
    <3>2. PICK r \in Runs : Live(r) /\ run[r].reader = d
      BY <3>1 DEF QwpInv, ReadersHeld
    <3>3. {s \in live : run[s].reader = d} = {r}
      BY <3>2 DEF QwpInv, ReadersHeld
    <3> QED BY <3>3, FS_Singleton
  <2>2. \A r \in live : run[r].reader \in lent \ others
    BY DEF QwpInv, ReadersHeld
  <2>3. cell.refs = Cardinality(live) + (IF stmt.st = "live" THEN 1 ELSE 0)
    BY DEF QwpInv, CellCounted
  <2> QED BY <2>1, <2>2, <2>3 DEF NothingLeaks
<1> QED BY <1>1, QwpAlways, PTL

(* A cancelled run begins at most the execution it was about to begin.     *)
THEOREM CancelStopsRunsAlways ==
  Spec => []CancelStopsRuns
<1>1. QwpInv => CancelStopsRuns
  BY DEF QwpInv, CancelSeen, CancelStopsRuns
<1> QED BY <1>1, QwpAlways, PTL

(* Modes create and replace write to no table but the call's own.          *)
THEOREM CreateOwnsTableAlways ==
  Spec => []CreateOwnsTable
<1>1. QwpInv => CreateOwnsTable
  BY DEF QwpInv
<1> QED BY <1>1, QwpAlways, PTL

(* No row of a binding is in two frames, however often the call is made    *)
(* again after a failure.                                                  *)
THEOREM IngestSendsOnceAlways ==
  Spec => []IngestSendsOnce
<1>1. QwpInv => IngestSendsOnce
  BY DEF QwpInv
<1> QED BY <1>1, QwpAlways, PTL

-----------------------------------------------------------------------------
(* What an ingest found bound is in the table's frames or still bound.     *)

(* The modes of runs are never that of an ingest.                          *)
RunModes == \A r \in Runs : run[r].mode # "ingest"

(* A step that touches neither the call nor its result.                    *)
LEMMA CallUntouched ==
  ASSUME QwpInv, IngestInv, call' = call, result' = result, tbl' = tbl, RunModes',
         stmt'.calls = stmt.calls, stmt'.binds = stmt.binds,
         stmt'.bind = stmt.bind \/ call.pc = None
  PROVE  IngestInv'
<1>1. Conversation'
  BY DEF IngestInv, Conversation, RunModes
<1>2. FramesOfCall'
  BY DEF IngestInv, FramesOfCall
<1>3. BoundOrArrived'
  BY DEF IngestInv, BoundOrArrived, None
<1> QED BY <1>1, <1>2, <1>3 DEF IngestInv

(* A step after which no call is going on and no result speaks of an       *)
(* ingest.                                                                 *)
LEMMA NoIngest ==
  ASSUME QwpInv, IngestInv, call'.op = None, call'.pc = None, result'.op # "ingest", tbl' = tbl,
         RunModes', stmt'.calls \in {stmt.calls, stmt.calls + 1}
  PROVE  IngestInv'
<1>1. Conversation'
  BY DEF Conversation, RunModes, None
<1>2. \A k \in DOMAIN tbl.frames : tbl.frames[k].call \in Nat
  <2>1. \A k \in DOMAIN tbl.frames : tbl.frames[k] \in Frames
    BY FrameShape DEF QwpInv
  <2> QED BY <2>1 DEF Frames
<1>3. stmt.calls \in Nat
  BY Facts
<1>4. FramesOfCall'
  BY <1>2, <1>3 DEF IngestInv, FramesOfCall, None
<1>5. BoundOrArrived'
  BY DEF BoundOrArrived, None
<1> QED BY <1>1, <1>4, <1>5 DEF IngestInv

(* A run steps: on its own, or to the end of the call it is.               *)
LEMMA RunStepIngest ==
  ASSUME QwpInv, IngestInv, NEW r \in Runs, RunStep(r) \/ StreamGetNext(r) \/ StreamRelease(r)
  PROVE  IngestInv'
<1>1. /\ stmt' = stmt /\ tbl' = tbl
      /\ run[r].pc # "idle" \/ run[r].mode = "stream"
  BY DEF RunStep, NextExecution, Execute, Fetch, StreamGetNext, StreamRelease
<1>2. DOMAIN run[r] = DOMAIN NoRun /\ run[r].mode # "ingest" /\ DOMAIN run = Runs
  BY DEF QwpInv, Shapes, IngestInv, Conversation
<1>3. ASSUME NEW u, DOMAIN u = DOMAIN NoRun, u.mode # "ingest", Stays(r, u)
      PROVE  IngestInv'
  <2>1. run' = [run EXCEPT ![r] = u] /\ call' = call /\ result' = result
    BY <1>3 DEF Stays
  <2>2. RunModes'
    BY <1>2, <1>3, <2>1 DEF IngestInv, Conversation, RunModes
  <2> QED BY <1>1, <2>1, <2>2, CallUntouched
<1>4. NoRun.mode # "ingest"
  BY DEF NoRun, None
<1>5. ASSUME RunFree(r)
      PROVE  RunModes'
  BY <1>2, <1>4, <1>5 DEF RunFree, IngestInv, Conversation, RunModes
<1>6. ASSUME NEW u, DOMAIN u = DOMAIN NoRun, u.mode = run[r].mode, NEW status,
             Returned(r, u, status)
      PROVE  IngestInv'
  <2>1. RunModes'
    <3>1. CASE RunFree(r)
      BY <1>5, <3>1
    <3>2. CASE run' = [run EXCEPT ![r] = [u EXCEPT !.mode = "stream", !.pc = "idle",
                                                  !.first = (status = "batch")]]
      BY <1>2, <1>6, <3>2, RunFields DEF IngestInv, Conversation, RunModes
    <3>3. CASE run' = [run EXCEPT ![r] = [u EXCEPT !.pc = "idle",
                                          !.over = IF status = "batch" THEN None ELSE status]]
      BY <1>2, <1>6, <3>3, RunFields DEF IngestInv, Conversation, RunModes
    <3> QED BY <1>6, <3>1, <3>2, <3>3 DEF Returned, RunFailed
  <2>2. CASE call' = call /\ result' = result
    BY <1>1, <2>1, <2>2, CallUntouched
  <2>3. CASE call' = NoCall /\ result'.op = u.mode
    <3>1. call'.op = None /\ call'.pc = None
      BY <2>3 DEF NoCall
    <3> QED BY <1>1, <1>2, <1>6, <2>1, <2>3, <3>1, NoIngest
  <2> QED BY <1>6, <2>2, <2>3 DEF Returned
<1>7. CASE NextExecution(r)
  <2>1. Returned(r, run[r], "CANCELLED") \/ Stays(r, [run[r] EXCEPT !.pc = "start"])
    BY <1>7 DEF NextExecution, CheckCancel
  <2>2. /\ DOMAIN [run[r] EXCEPT !.pc = "start"] = DOMAIN NoRun
        /\ [run[r] EXCEPT !.pc = "start"].mode = run[r].mode
    BY <1>2, RunFields
  <2> QED BY <1>2, <1>3, <1>6, <2>1, <2>2
<1>8. CASE Execute(r)
  <2> DEFINE u   == NextBindRow(run[r])
             v   == IF run[r].hasBind THEN u ELSE run[r]
             row == IF run[r].hasBind THEN u.cur[u.row + 1] ELSE 0
             at  == IF run[r].hasBind THEN Place(u) ELSE <<1, 1>>
             w(c) == [v EXCEPT !.pc = "fetch", !.started = TRUE, !.cursor = c,
                               !.done = Append(@, [at |-> at, row |-> row]),
                               !.late = @ + (IF v.cut THEN 1 ELSE 0),
                               !.truth = @ + (IF c.total < 0 THEN 0 ELSE c.total)]
  <2>1. DOMAIN v = DOMAIN NoRun /\ v.mode = run[r].mode
    BY <1>2, RowsKeepTheRest
  <2>2. (\E status : Returned(r, v, status)) \/ (\E c : Stays(r, w(c)))
    BY <1>8 DEF Execute
  <2> HIDE DEF v, row, at
  <2>3. \A c : DOMAIN w(c) = DOMAIN NoRun /\ w(c).mode = v.mode
    BY <2>1, RunFields
  <2> HIDE DEF w
  <2> QED BY <1>2, <1>3, <1>6, <2>1, <2>2, <2>3
<1>9. CASE Fetch(r)
  <2> DEFINE u == run[r]
             v == [u EXCEPT !.cursor.left = @ - 1]
             w == [Account(u) EXCEPT !.pc = "next", !.cursor = NoCursor]
  <2>1. DOMAIN v = DOMAIN NoRun /\ v.mode = u.mode
    BY <1>2, RunFields
  <2>2. DOMAIN w = DOMAIN NoRun /\ w.mode = u.mode
    BY <1>2, RowsKeepTheRest, RunFields
  <2>3. \/ \E status : Returned(r, u, status) \/ Returned(r, v, status)
        \/ Stays(r, v) \/ Stays(r, w)
    BY <1>9 DEF Fetch
  <2> HIDE DEF v, w
  <2> QED BY <1>2, <1>3, <1>6, <2>1, <2>2, <2>3
<1>10. CASE StreamGetNext(r)
  <2> DEFINE v == [run[r] EXCEPT !.first = FALSE]
             w == [run[r] EXCEPT !.pc = IF run[r].cursor = NoCursor THEN "next" ELSE "fetch"]
  <2>1. \A x \in {v, w} : DOMAIN x = DOMAIN NoRun /\ x.mode = run[r].mode
    BY <1>2, RunFields
  <2>2. Stays(r, v) \/ Stays(r, w)
    BY <1>10 DEF StreamGetNext
  <2> HIDE DEF v, w
  <2> QED BY <1>2, <1>3, <2>1, <2>2
<1>11. CASE StreamRelease(r)
  <2>1. RunFree(r) /\ call' = call /\ result' = result
    BY <1>11 DEF StreamRelease
  <2> QED BY <1>1, <1>5, <2>1, CallUntouched
<1> QED BY <1>7, <1>8, <1>9, <1>10, <1>11 DEF RunStep

(* The caller's steps: a setter forgets the result, an execution begins    *)
(* with a number no frame bears.                                           *)
LEMMA CallerIngest ==
  ASSUME QwpInv, IngestInv, Caller \/ BeginRun
  PROVE  IngestInv'
<1>1. RunModes /\ DOMAIN run = Runs /\ \A r \in Runs : DOMAIN run[r] = DOMAIN NoRun
  BY DEF IngestInv, Conversation, RunModes, QwpInv, Shapes
<1>2. DOMAIN stmt = DOMAIN NoStatement /\ stmt.calls \in Nat /\ DOMAIN call = DOMAIN NoCall
  BY Facts
<1>3. NoRun.mode # "ingest" /\ NoResult.op # "ingest"
  BY DEF NoRun, NoResult, None
<1>4. CASE DatabaseInit \/ ConnectionInit \/ StatementNew \/ StatementRelease \/ StatementCancel
  <2>1. call' = call /\ result' = result /\ tbl' = tbl
    BY <1>4 DEF DatabaseInit, ConnectionInit, StatementNew, StatementRelease, StatementCancel
  <2>2. RunModes'
    <3>1. CASE run' = run
      BY <1>1, <3>1 DEF RunModes
    <3>2. CASE run' = [r \in Runs |-> [run[r] EXCEPT !.cut = Live(r)]]
      BY <1>1, <3>2, RunFields DEF RunModes
    <3> QED BY <1>4, <3>1, <3>2
            DEF DatabaseInit, ConnectionInit, StatementNew, StatementRelease, StatementCancel
  <2>3. CASE StatementRelease
    <3>1. call.pc = None
      BY <2>3 DEF StatementRelease, Ready, QwpInv, Calls
    <3>2. stmt'.calls = stmt.calls /\ stmt'.binds = stmt.binds
      BY <2>3 DEF StatementRelease, NoStatement
    <3> QED BY <2>1, <2>2, <3>1, <3>2, CallUntouched
  <2>4. CASE ~StatementRelease
    <3>1. stmt' = stmt \/ stmt' = [stmt EXCEPT !.st = "live"]
      BY <1>4, <2>4 DEF DatabaseInit, ConnectionInit, StatementNew, StatementCancel
    <3>2. stmt'.calls = stmt.calls /\ stmt'.binds = stmt.binds /\ stmt'.bind = stmt.bind
      BY <1>2, <3>1 DEF NoStatement
    <3> QED BY <2>1, <2>2, <3>2, CallUntouched
  <2> QED BY <2>3, <2>4
<1>5. CASE SetSqlQuery \/ SetTarget \/ SetIngestOptions \/ Bind
  <2>1. /\ call' = call /\ result' = NoResult /\ tbl' = tbl /\ run' = run
        /\ call.op = None /\ call.pc = None
    BY <1>5 DEF SetSqlQuery, SetTarget, SetIngestOptions, Bind, Forgotten, Ready, QwpInv, Calls
  <2>2. stmt'.calls = stmt.calls
    <3>1. CASE SetSqlQuery
      <4>1. PICK q : stmt' = [stmt EXCEPT !.sql = q, !.ingest = FALSE]
        BY <3>1 DEF SetSqlQuery
      <4> QED BY <1>2, <4>1 DEF NoStatement
    <3>2. CASE SetTarget
      <4>1. stmt' = [stmt EXCEPT !.ingest = TRUE, !.sql = None]
        BY <3>2 DEF SetTarget
      <4> QED BY <1>2, <4>1 DEF NoStatement
    <3>3. CASE SetIngestOptions
      <4>1. PICK m, w : stmt' = [stmt EXCEPT !.mode = m, !.wait = w]
        BY <3>3 DEF SetIngestOptions
      <4> QED BY <1>2, <4>1 DEF NoStatement
    <3>4. CASE Bind
      <4>1. PICK b : stmt' = [stmt EXCEPT !.hasBind = TRUE, !.bind = b, !.binds = @ + 1]
        BY <3>4 DEF Bind
      <4> QED BY <1>2, <4>1 DEF NoStatement
    <3> QED BY <1>5, <3>1, <3>2, <3>3, <3>4
  <2>3. RunModes'
    BY <1>1, <2>1 DEF RunModes
  <2> QED BY <1>3, <2>1, <2>2, <2>3, NoIngest
<1>6. CASE BeginRun
  <2>1. /\ tbl' = tbl /\ call.pc = "new" /\ RunNew(call.op)
    BY <1>6 DEF BeginRun
  <2>2. call.op # "ingest" /\ call.op # None
    BY <2>1 DEF IngestInv, Conversation, QwpInv, Calls, None
  <2>3. stmt' = [stmt EXCEPT !.hasBind = FALSE, !.bind = <<>>]
    BY <2>1 DEF RunNew
  <2>4. stmt'.calls = stmt.calls /\ stmt'.binds = stmt.binds
    BY <1>2, <2>3 DEF NoStatement
  <2>5. CASE call' = NoCall /\ run' = run /\ result'.op = call.op
    <3>1. call'.op = None /\ call'.pc = None /\ RunModes'
      BY <1>1, <2>5 DEF NoCall, RunModes
    <3> QED BY <2>1, <2>2, <2>4, <2>5, <3>1, NoIngest
  <2>6. CASE /\ call' = [call EXCEPT !.pc = "run"] /\ result' = result
             /\ \E r, u : u.mode = call.op /\ run' = [run EXCEPT ![r] = u]
    <3>1. call'.op = call.op /\ call'.pc = "run"
      BY <1>2, <2>6 DEF NoCall
    <3>2. RunModes'
      BY <1>1, <2>2, <2>6 DEF RunModes
    <3>3. Conversation'
      BY <2>2, <2>6, <3>1, <3>2 DEF IngestInv, Conversation, RunModes
    <3>4. FramesOfCall'
      BY <2>1, <2>4, <2>6, <3>1 DEF IngestInv, FramesOfCall
    <3>5. BoundOrArrived'
      BY <2>2, <2>6, <3>1 DEF IngestInv, Conversation, BoundOrArrived
    <3> QED BY <3>3, <3>4, <3>5 DEF IngestInv
  <2>7. \/ call' = NoCall /\ run' = run /\ result'.op = call.op
        \/ /\ call' = [call EXCEPT !.pc = "run"] /\ result' = result
           /\ \E r, u : u.mode = call.op /\ run' = [run EXCEPT ![r] = u]
    <3> DEFINE r == CHOOSE x \in Runs : ~Live(x)
               d == CHOOSE x \in Readers : x \notin lent
               u == [NoRun EXCEPT
                       !.mode = call.op, !.pc = "next", !.sql = stmt.sql, !.reader = d,
                       !.hasBind = stmt.hasBind, !.batches = stmt.bind,
                       !.bound = IF stmt.hasBind THEN stmt.bind ELSE <<<<0>>>>,
                       !.cut = cell.cancelled]
    <3>1. \/ run' = [run EXCEPT ![r] = u] /\ call' = [call EXCEPT !.pc = "run"] /\ result' = result
          \/ /\ call' = NoCall /\ run' = run
             /\ \E code : result' = [NoResult EXCEPT !.op = call.op, !.status = StatusFor(code)]
      BY <2>1 DEF RunNew
    <3>2. u.mode = call.op
      BY DEF NoRun
    <3> HIDE DEF u, r
    <3> QED BY <3>1, <3>2 DEF NoResult
  <2> QED BY <2>5, <2>6, <2>7
<1>7. CASE BeginExecute
  <2>1. /\ stmt' = [stmt EXCEPT !.calls = @ + 1] /\ tbl' = tbl
        /\ run' = [r \in Runs |-> IF ~Live(r) THEN NoRun
                                  ELSE [NoRun EXCEPT !.mode = run[r].mode, !.reader = run[r].reader,
                                                     !.over = "superseded"]]
        /\ call.op = None /\ call.pc = None
    BY <1>7 DEF BeginExecute, Ready, QwpInv, Calls
  <2>2. stmt'.calls = stmt.calls + 1 /\ stmt'.bind = stmt.bind
    BY <1>2, <2>1 DEF NoStatement
  <2>3. RunModes'
    BY <1>1, <2>1 DEF RunModes, NoRun, None
  <2>4. PICK op \in {"ingest", "drain", "export", "describe"} :
          \/ /\ call' = call /\ op # "ingest"
             /\ result' = [NoResult EXCEPT !.op = op, !.status = "INVALID_STATE"]
          \/ /\ call' = [NoCall EXCEPT !.op = op, !.bound = stmt.bind,
                                       !.pc = IF op = "ingest" THEN "find" ELSE "new"]
             /\ result' = NoResult
    BY <1>7 DEF BeginExecute
  <2>5. CASE /\ call' = call /\ op # "ingest"
             /\ result' = [NoResult EXCEPT !.op = op, !.status = "INVALID_STATE"]
    <3>1. result'.op # "ingest"
      BY <2>5 DEF NoResult
    <3> QED BY <2>1, <2>2, <2>3, <2>5, <3>1, NoIngest
  <2>6. CASE /\ call' = [NoCall EXCEPT !.op = op, !.bound = stmt.bind,
                                       !.pc = IF op = "ingest" THEN "find" ELSE "new"]
             /\ result' = NoResult
    <3>1. /\ call'.op = op /\ call'.bound = stmt.bind
          /\ call'.pc = IF op = "ingest" THEN "find" ELSE "new"
      BY <2>6 DEF NoCall
    <3>2. Conversation'
      BY <1>3, <2>3, <2>6, <3>1 DEF Conversation, RunModes
    <3>3. \A k \in DOMAIN tbl.frames : tbl.frames[k].call \in Nat
      <4>1. \A k \in DOMAIN tbl.frames : tbl.frames[k] \in Frames
        BY FrameShape DEF QwpInv
      <4> QED BY <4>1 DEF Frames
    <3>4. FramesOfCall'
      <4>1. \A k \in DOMAIN tbl.frames : tbl.frames[k].call <= stmt.calls
        BY DEF IngestInv, FramesOfCall
      <4>2. \A k \in DOMAIN tbl.frames : /\ tbl.frames[k].call <= stmt.calls + 1
                                         /\ tbl.frames[k].call # stmt.calls + 1
        BY <1>2, <3>3, <4>1
      <4> QED BY <2>1, <2>2, <4>2 DEF IngestInv, FramesOfCall
    <3>5. BoundOrArrived'
      BY <1>3, <2>2, <2>6, <3>1 DEF BoundOrArrived
    <3> QED BY <3>2, <3>4, <3>5 DEF IngestInv
  <2> QED BY <2>4, <2>5, <2>6
<1> QED BY <1>4, <1>5, <1>6, <1>7 DEF Caller

(* StatusFor turns no error of the client into success.                    *)
LEMMA ErrorsAreNotOK ==
  \A code : StatusFor(code) \notin {"OK", "end", "batch", None}
BY DEF StatusFor, None

(* A call in progress is an ingest's: its frames bear its number and the   *)
(* binding's.                                                              *)
LEMMA FramesKept ==
  ASSUME IngestInv, call.op = "ingest", tbl' = tbl, stmt'.calls = stmt.calls,
         stmt'.binds = stmt.binds
  PROVE  FramesOfCall'
BY DEF IngestInv, FramesOfCall

(* An ingest fails.                                                        *)
LEMMA IngestFails ==
  ASSUME IngestInv, call' = NoCall, result'.op = "ingest", result'.status # "OK", run' = run,
         FramesOfCall'
  PROVE  IngestInv'
<1>1. call'.op = None /\ call'.pc = None
  BY DEF NoCall
<1>2. Conversation'
  BY <1>1 DEF IngestInv, Conversation, None
<1>3. BoundOrArrived'
  BY <1>1 DEF BoundOrArrived, None
<1> QED BY <1>2, <1>3 DEF IngestInv

(* An ingest goes on.                                                      *)
LEMMA IngestGoesOn ==
  ASSUME IngestInv, call.op = "ingest", call'.op = "ingest",
         call'.pc \in {"find", "drop", "plan", "create", "send", "wait", "sleep"},
         result' = result, run' = run, FramesOfCall',
         call'.pc \in {"find", "drop", "plan", "create"} => call'.bound = stmt'.bind,
         call'.pc \in {"send", "wait", "sleep"} =>
           \A b \in DOMAIN call'.bound :
              \/ Arrived(tbl'.frames, stmt'.calls, call'.bound[b])
              \/ \E n \in DOMAIN stmt'.bind : stmt'.bind[n] = call'.bound[b],
         call'.pc \in {"wait", "sleep"} => stmt'.bind = <<>>
  PROVE  IngestInv'
<1>1. result.op # "ingest"
  BY DEF IngestInv, Conversation, None
<1>2. Conversation'
  BY <1>1 DEF IngestInv, Conversation
<1>3. BoundOrArrived'
  BY <1>1 DEF BoundOrArrived
<1> QED BY <1>2, <1>3 DEF IngestInv

(* What every step of the conversation starts from.                        *)
LEMMA InConversation ==
  ASSUME QwpInv, IngestInv,
         call.pc \in {"find", "drop", "plan", "create", "send", "wait", "sleep"}
  PROVE  /\ call.op = "ingest" /\ result.op # "ingest" /\ stmt.calls > 0
         /\ DOMAIN call = DOMAIN NoCall
BY Facts DEF IngestInv, Conversation, None

(* A call that returns anything but OK.                                    *)
LEMMA IngestReturnsError ==
  ASSUME QwpInv, IngestInv, NEW status, status # "OK", IngestReturn(status), tbl' = tbl,
         run' = run,
         call.pc \in {"find", "drop", "plan", "create", "send", "wait", "sleep"}
  PROVE  IngestInv'
<1>1. call' = NoCall /\ stmt' = stmt /\ result'.op = "ingest" /\ result'.status = status
  BY DEF IngestReturn, NoResult
<1>2. FramesOfCall'
  BY <1>1, InConversation, FramesKept
<1> QED BY <1>1, <1>2, IngestFails

(* The client's errors are not successes.                                  *)
LEMMA ClientErrorIngest ==
  ASSUME QwpInv, IngestInv, ClientError, tbl' = tbl, run' = run,
         call.pc \in {"find", "drop", "plan", "create", "send", "wait", "sleep"}
  PROVE  IngestInv'
<1>1. PICK code : IngestReturn(StatusFor(code))
  BY DEF ClientError
<1>2. StatusFor(code) # "OK"
  BY ErrorsAreNotOK
<1> QED BY <1>1, <1>2, IngestReturnsError

(* A call that returns OK with nothing left bound, and with the table      *)
(* caught up if it waited.                                                 *)
LEMMA IngestReturnsOK ==
  ASSUME QwpInv, IngestInv, IngestReturn("OK"), tbl' = tbl, run' = run, stmt.bind = <<>>,
         call.pc = "send" \/ (call.pc = "wait" /\ CaughtUp)
  PROVE  IngestInv'
<1>1. /\ call' = NoCall /\ result'.op = "ingest" /\ result'.bound = call.bound
      /\ result'.waited = (call.pc = "wait")
      /\ stmt' = [stmt EXCEPT !.hasBind = FALSE, !.bind = <<>>]
  BY DEF IngestReturn, NoResult
<1>2. stmt'.calls = stmt.calls /\ stmt'.binds = stmt.binds
  BY <1>1, Facts DEF NoStatement
<1>3. call.op = "ingest" /\ stmt.calls > 0
  BY InConversation
<1>4. FramesOfCall'
  BY <1>2, <1>3, FramesKept
<1>5. call'.op = None /\ call'.pc = None
  BY <1>1 DEF NoCall
<1>6. Conversation'
  BY <1>1, <1>5 DEF IngestInv, Conversation, None
<1>7. \A b \in DOMAIN result'.bound : Arrived(tbl'.frames, stmt'.calls, result'.bound[b])
  <2>1. \A b \in DOMAIN call.bound : Arrived(tbl.frames, stmt.calls, call.bound[b])
    BY DEF IngestInv, BoundOrArrived
  <2> QED BY <1>1, <1>2, <2>1
<1>8. result'.waited => tbl'.applied >= Len(tbl'.frames)
  BY <1>1 DEF CaughtUp, IngestInv, FramesOfCall
<1>9. BoundOrArrived'
  BY <1>2, <1>3, <1>5, <1>7, <1>8 DEF BoundOrArrived, None
<1> QED BY <1>4, <1>6, <1>9 DEF IngestInv

(* A table with one more frame, of this call or of another client.         *)
LEMMA FramesOneMore ==
  ASSUME QwpInv, IngestInv, call.op = "ingest", NEW f \in Frames, f.call \in {0, stmt.calls},
         f.bind = stmt.binds, tbl' = Written(f), stmt'.calls = stmt.calls,
         stmt'.binds = stmt.binds
  PROVE  /\ FramesOfCall'
         /\ \A batch : Arrived(tbl.frames, stmt.calls, batch) =>
                         Arrived(tbl'.frames, stmt'.calls, batch)
         /\ f.call = stmt.calls => Arrived(tbl'.frames, stmt'.calls, f.rows)
<1> DEFINE q == tbl.frames
           n == Len(q) + 1
<1>1. q \in Seq(Frames) /\ DOMAIN tbl = DOMAIN NoTable /\ stmt.calls \in Nat
  BY Facts
<1>2. /\ tbl'.frames = Append(q, f) /\ tbl'.wal = tbl.wal
      /\ tbl'.applied = IF tbl.wal THEN tbl.applied ELSE tbl.applied + 1
  BY <1>1 DEF Written, NoTable
<1> HIDE DEF q
<1>3. /\ DOMAIN tbl'.frames = DOMAIN q \cup {n} /\ tbl'.frames[n] = f
      /\ \A k \in DOMAIN q : tbl'.frames[k] = q[k]
      /\ Len(tbl'.frames) = Len(q) + 1 /\ Len(q) \in Nat
  <2>1. ASSUME NEW p, p = Append(q, f)
        PROVE  /\ DOMAIN p = DOMAIN q \cup {n} /\ p[n] = f
               /\ \A k \in DOMAIN q : p[k] = q[k]
    BY <1>1, <2>1, AppendFrame
  <2>2. Len(Append(q, f)) = Len(q) + 1 /\ Len(q) \in Nat
    BY <1>1
  <2> HIDE DEF n
  <2> QED BY <1>2, <2>1, <2>2
<1> HIDE DEF n
<1>4. tbl.applied \in Nat /\ (~tbl.wal => tbl.applied >= Len(q))
  BY DEF IngestInv, FramesOfCall, q
<1>5. tbl'.applied \in Nat /\ (~tbl'.wal => tbl'.applied >= Len(tbl'.frames))
  BY <1>2, <1>3, <1>4
<1>6. \A k \in DOMAIN q : q[k].call <= stmt.calls /\ (q[k].call = stmt.calls => q[k].bind = stmt.binds)
  BY DEF IngestInv, FramesOfCall, q
<1>7. \A k \in DOMAIN tbl'.frames :
        /\ tbl'.frames[k].call <= stmt'.calls
        /\ tbl'.frames[k].call = stmt'.calls => tbl'.frames[k].bind = stmt'.binds
  <2>1. f.call <= stmt.calls
    BY <1>1
  <2> QED BY <1>3, <1>6, <2>1
<1>8. FramesOfCall'
  BY <1>5, <1>7 DEF FramesOfCall
<1>9. \A batch : Arrived(q, stmt.calls, batch) => Arrived(tbl'.frames, stmt'.calls, batch)
  BY <1>3 DEF Arrived
<1>10. f.call = stmt.calls => Arrived(tbl'.frames, stmt'.calls, f.rows)
  BY <1>3 DEF Arrived
<1> QED BY <1>8, <1>9, <1>10 DEF q

(* Of the batches bound, the first is taken and the others stay.           *)
LEMMA OthersStay ==
  ASSUME NEW q \in Seq(Seq(Nat)), q # <<>>, NEW n \in DOMAIN q
  PROVE  q[n] = Head(q) \/ \E m \in DOMAIN Tail(q) : Tail(q)[m] = q[n]
<1>1. CASE n = 1
  BY <1>1
<1>2. CASE n # 1
  <2>1. n - 1 \in DOMAIN Tail(q) /\ Tail(q)[n - 1] = q[n]
    BY <1>2
  <2> QED BY <2>1
<1> QED BY <1>1, <1>2

(* The send loop: a batch that was taken has arrived, unless the call      *)
(* fails.                                                                  *)
LEMMA SendBatchIngest ==
  ASSUME QwpInv, IngestInv, SendBatch
  PROVE  IngestInv'
<1>1. run' = run /\ call.pc = "send"
  BY DEF SendBatch
<1>2. call.op = "ingest" /\ DOMAIN call = DOMAIN NoCall
  BY <1>1, InConversation
<1>3. \A b \in DOMAIN call.bound : \/ Arrived(tbl.frames, stmt.calls, call.bound[b])
                                   \/ \E n \in DOMAIN stmt.bind : stmt.bind[n] = call.bound[b]
  BY <1>1 DEF IngestInv, BoundOrArrived
<1>4. CASE tbl' = tbl /\ ClientError
  BY <1>1, <1>4, ClientErrorIngest
<1>5. CASE AllSent /\ ~ClientError
  <2>1. tbl' = tbl /\ stmt.bind = <<>>
    BY <1>5 DEF SendBatch, AllSent
  <2>2. CASE IngestReturn("OK")
    BY <1>1, <2>1, <2>2, IngestReturnsOK
  <2>3. CASE Go("wait")
    <3>1. call' = [call EXCEPT !.pc = "wait"] /\ stmt' = stmt /\ result' = result
      BY <2>3 DEF Go
    <3>2. call'.op = "ingest" /\ call'.pc = "wait" /\ call'.bound = call.bound
      BY <1>2, <3>1 DEF NoCall
    <3>3. FramesOfCall'
      BY <1>2, <2>1, <3>1, FramesKept
    <3> QED BY <1>1, <1>2, <1>3, <2>1, <3>1, <3>2, <3>3, IngestGoesOn
  <2> QED BY <1>5, <2>2, <2>3 DEF SendBatch
<1>6. CASE ~AllSent /\ Rest
  <2> DEFINE f == Frame(Head(stmt.bind), stmt.calls)
  <2>1. /\ stmt'.calls = stmt.calls /\ stmt'.binds = stmt.binds /\ Head(stmt.bind) \in Seq(Nat)
    BY <1>6, BatchTaken
  <2>2. stmt'.bind = Tail(stmt.bind) /\ stmt.bind # <<>> /\ stmt.bind \in Seq(Seq(Nat))
    BY <1>6, Facts DEF Rest, AllSent, NoStatement
  <2>3. f.rows = Head(stmt.bind) /\ f.call = stmt.calls /\ f.bind = stmt.binds /\ f \in Frames
    BY <2>1, Facts DEF Frame, Frames
  <2> HIDE DEF f
  <2>4. \A b \in DOMAIN call.bound : \/ Arrived(tbl.frames, stmt.calls, call.bound[b])
                                     \/ call.bound[b] = Head(stmt.bind)
                                     \/ \E m \in DOMAIN stmt'.bind : stmt'.bind[m] = call.bound[b]
    <3>1. TAKE b \in DOMAIN call.bound
    <3>2. ASSUME NEW n \in DOMAIN stmt.bind, stmt.bind[n] = call.bound[b]
          PROVE  \/ call.bound[b] = Head(stmt.bind)
                 \/ \E m \in DOMAIN stmt'.bind : stmt'.bind[m] = call.bound[b]
      <4>1. \/ stmt.bind[n] = Head(stmt.bind)
            \/ \E m \in DOMAIN Tail(stmt.bind) : Tail(stmt.bind)[m] = stmt.bind[n]
        BY <2>2, OthersStay
      <4> QED BY <2>2, <3>2, <4>1
    <3> QED BY <1>3, <3>2
  <2>5. CASE tbl' = tbl /\ call' = call /\ result' = result /\ Head(stmt.bind) = <<>>
    <3>1. FramesOfCall'
      BY <1>2, <2>1, <2>5, FramesKept
    <3>2. Arrived(tbl.frames, stmt.calls, Head(stmt.bind))
      BY <2>5 DEF Arrived
    <3>3. \A b \in DOMAIN call'.bound :
            \/ Arrived(tbl'.frames, stmt'.calls, call'.bound[b])
            \/ \E n \in DOMAIN stmt'.bind : stmt'.bind[n] = call'.bound[b]
      BY <2>1, <2>5, <2>4, <3>2
    <3> QED BY <1>1, <1>2, <2>5, <3>1, <3>3, IngestGoesOn
  <2>6. CASE /\ tbl' = Written(f) /\ result' = result
             /\ call' = [call EXCEPT !.sent = @ + Len(Head(stmt.bind))]
    <3>1. call'.op = "ingest" /\ call'.pc = "send" /\ call'.bound = call.bound
      BY <1>1, <1>2, <2>6 DEF NoCall
    <3>2. /\ FramesOfCall'
          /\ \A batch : Arrived(tbl.frames, stmt.calls, batch) =>
                          Arrived(tbl'.frames, stmt'.calls, batch)
          /\ Arrived(tbl'.frames, stmt'.calls, Head(stmt.bind))
      BY <1>2, <2>1, <2>3, <2>6, FramesOneMore
    <3>3. \A b \in DOMAIN call'.bound :
            \/ Arrived(tbl'.frames, stmt'.calls, call'.bound[b])
            \/ \E n \in DOMAIN stmt'.bind : stmt'.bind[n] = call'.bound[b]
      BY <2>4, <3>1, <3>2
    <3> QED BY <1>1, <1>2, <2>6, <3>1, <3>2, <3>3, IngestGoesOn
  <2>7. ASSUME NEW status, status # "OK", Failing(status), tbl' \in {tbl, Written(f)}
        PROVE  IngestInv'
    <3>1. call' = NoCall /\ result'.op = "ingest" /\ result'.status # "OK"
      BY <2>7 DEF Failing, NoResult
    <3>2. FramesOfCall'
      BY <1>2, <2>1, <2>3, <2>7, FramesKept, FramesOneMore
    <3> QED BY <1>1, <3>1, <3>2, IngestFails
  <2>8. \/ tbl' = tbl /\ ClientError
        \/ tbl' = tbl /\ call' = call /\ result' = result /\ Head(stmt.bind) = <<>>
        \/ /\ tbl' = Written(f) /\ result' = result
           /\ call' = [call EXCEPT !.sent = @ + Len(Head(stmt.bind))]
        \/ tbl' = tbl /\ Failing("CANCELLED")
        \/ tbl' \in {tbl, Written(f)} /\ \E code : Failing(StatusFor(code))
    BY <1>6 DEF SendBatch, f
  <2> QED BY <1>4, <2>5, <2>6, <2>7, <2>8, ErrorsAreNotOK
<1>7. AllSent \/ (tbl' = tbl /\ ClientError) \/ (~AllSent /\ Rest)
  BY DEF SendBatch, Lost
<1>8. ASSUME AllSent, ClientError
      PROVE  IngestInv'
  BY <1>4, <1>8 DEF SendBatch
<1> QED BY <1>4, <1>5, <1>6, <1>7, <1>8

(* The other steps of the conversation: nothing is taken from the binding  *)
(* before the table is there, and nothing is left of it after.             *)
LEMMA IngestStepIngest ==
  ASSUME QwpInv, IngestInv, IngestStep
  PROVE  IngestInv'
<1>1. /\ run' = run
      /\ call.pc \in {"find", "drop", "plan", "create", "send", "wait", "sleep"}
  BY DEF IngestStep, FindTable, DropTable, Plan, CreateTable, SendBatch, WaitForApply, Sleep
<1>2. call.op = "ingest" /\ DOMAIN call = DOMAIN NoCall
  BY <1>1, InConversation
<1>3. CASE tbl' = tbl /\ ClientError
  BY <1>1, <1>3, ClientErrorIngest
<1>4. ASSUME NEW status, status # "OK", IngestReturn(status), tbl' = tbl
      PROVE  IngestInv'
  BY <1>1, <1>4, IngestReturnsError
<1>5. ASSUME call'.op = "ingest", call'.bound = call.bound, stmt' = stmt, result' = result,
             FramesOfCall', call'.pc \in {"plan", "drop", "create", "send"},
             call.pc \in {"find", "drop", "plan", "create"}
      PROVE  IngestInv'
  <2>1. call'.bound = stmt'.bind
    BY <1>5 DEF IngestInv, BoundOrArrived
  <2>2. \A b \in DOMAIN call'.bound : \E n \in DOMAIN stmt'.bind : stmt'.bind[n] = call'.bound[b]
    BY <2>1
  <2> QED BY <1>1, <1>2, <1>5, <2>1, <2>2, IngestGoesOn
<1>6. ASSUME stmt' = stmt, tbl'.frames = <<>>, tbl'.applied = 0
      PROVE  FramesOfCall'
  BY <1>6 DEF FramesOfCall
<1>7. CASE FindTable
  <2>1. CASE /\ stmt' = stmt /\ result' = result /\ tbl' = tbl
             /\ \E x, pc : pc \in {"plan", "drop"} /\ call' = [call EXCEPT !.exists = x, !.pc = pc]
    <3>1. call'.op = "ingest" /\ call'.bound = call.bound /\ call'.pc \in {"plan", "drop"}
      BY <1>2, <2>1 DEF NoCall
    <3>2. FramesOfCall'
      BY <1>2, <2>1, FramesKept
    <3>3. call.pc = "find"
      BY <1>7 DEF FindTable
    <3> QED BY <1>5, <2>1, <3>1, <3>2, <3>3
  <2>2. \/ tbl' = tbl /\ ClientError
        \/ tbl' = tbl /\ \E status : status # "OK" /\ IngestReturn(status)
        \/ /\ stmt' = stmt /\ result' = result /\ tbl' = tbl
           /\ \E x, pc : pc \in {"plan", "drop"} /\ call' = [call EXCEPT !.exists = x, !.pc = pc]
    <3>1. tbl' = tbl
      BY <1>7 DEF FindTable
    <3>2. "INVALID_STATE" # "OK" /\ "ALREADY_EXISTS" # "OK" /\ "NOT_FOUND" # "OK"
      OBVIOUS
    <3>3. CASE ~stmt.hasBind
      BY <1>7, <3>1, <3>2, <3>3 DEF FindTable
    <3>4. CASE stmt.hasBind /\ stmt.mode = "create" /\ tbl.exists
      BY <1>7, <3>1, <3>2, <3>4 DEF FindTable, Queries
    <3>5. CASE stmt.hasBind /\ stmt.mode = "append" /\ ~tbl.exists
      BY <1>7, <3>1, <3>2, <3>5 DEF FindTable, Queries
    <3>6. CASE /\ stmt.hasBind /\ ~(stmt.mode = "create" /\ tbl.exists)
               /\ ~(stmt.mode = "append" /\ ~tbl.exists)
      BY <1>7, <3>1, <3>6 DEF FindTable, Queries
    <3> QED BY <3>3, <3>4, <3>5, <3>6
  <2> QED BY <1>3, <1>4, <2>1, <2>2
<1>8. CASE DropTable
  <2>1. CASE /\ tbl' = NoTable /\ stmt' = stmt /\ result' = result
             /\ call' = [call EXCEPT !.pc = "plan", !.exists = FALSE]
    <3>1. call'.op = "ingest" /\ call'.bound = call.bound /\ call'.pc = "plan"
      BY <1>2, <2>1 DEF NoCall
    <3>2. FramesOfCall'
      BY <1>6, <2>1 DEF NoTable
    <3>3. call.pc = "drop"
      BY <1>8 DEF DropTable
    <3> QED BY <1>5, <2>1, <3>1, <3>2, <3>3
  <2> QED BY <1>3, <1>8, <2>1 DEF DropTable, Queries
<1>9. CASE Plan
  <2>1. tbl' = tbl /\ call.pc = "plan"
    BY <1>9 DEF Plan
  <2>2. CASE /\ stmt' = stmt /\ result' = result
             /\ \E at, pc : pc \in {"send", "create"} /\ call' = [call EXCEPT !.at = at, !.pc = pc]
    <3>1. call'.op = "ingest" /\ call'.bound = call.bound /\ call'.pc \in {"send", "create"}
      BY <1>2, <2>2 DEF NoCall
    <3>2. FramesOfCall'
      BY <1>2, <2>1, <2>2, FramesKept
    <3> QED BY <1>5, <2>1, <2>2, <3>1, <3>2
  <2>3. \/ IngestReturn("INVALID_ARGUMENT")
        \/ /\ stmt' = stmt /\ result' = result
           /\ \E at, pc : pc \in {"send", "create"} /\ call' = [call EXCEPT !.at = at, !.pc = pc]
    BY <1>9 DEF Plan
  <2> QED BY <1>4, <2>1, <2>2, <2>3
<1>10. CASE CreateTable
  <2>1. ASSUME NEW w \in BOOLEAN, tbl' \in Created(w), call' = [call EXCEPT !.pc = "send"],
               stmt' = stmt, result' = result
        PROVE  IngestInv'
    <3>1. call'.op = "ingest" /\ call'.bound = call.bound /\ call'.pc = "send"
      BY <1>2, <2>1 DEF NoCall
    <3>2. tbl' = NewTable(w)
      BY <2>1 DEF Created
    <3>3. tbl'.frames = <<>> /\ tbl'.applied = 0
      BY <3>2 DEF NewTable, NoTable
    <3>4. FramesOfCall'
      BY <1>6, <2>1, <3>3
    <3>5. call.pc = "create"
      BY <1>10 DEF CreateTable
    <3> QED BY <1>5, <2>1, <3>1, <3>4, <3>5
  <2> QED BY <1>3, <1>10, <2>1 DEF CreateTable, Queries
<1>11. CASE WaitForApply
  <2>1. tbl' = tbl /\ call.pc = "wait" /\ stmt.bind = <<>>
    BY <1>11 DEF WaitForApply, IngestInv, BoundOrArrived
  <2>2. CASE Go("sleep")
    <3>1. call' = [call EXCEPT !.pc = "sleep"] /\ stmt' = stmt /\ result' = result
      BY <2>2 DEF Go
    <3>2. call'.op = "ingest" /\ call'.bound = call.bound /\ call'.pc = "sleep"
      BY <1>2, <3>1 DEF NoCall
    <3>3. FramesOfCall'
      BY <1>2, <2>1, <3>1, FramesKept
    <3>4. \A b \in DOMAIN call.bound :
            \/ Arrived(tbl.frames, stmt.calls, call.bound[b])
            \/ \E n \in DOMAIN stmt.bind : stmt.bind[n] = call.bound[b]
      BY <2>1 DEF IngestInv, BoundOrArrived
    <3> QED BY <1>1, <1>2, <2>1, <3>1, <3>2, <3>3, <3>4, IngestGoesOn
  <2>3. CASE CaughtUp /\ IngestReturn("OK")
    BY <1>1, <2>1, <2>3, IngestReturnsOK
  <2>4. \/ ClientError \/ IngestReturn("TIMEOUT") \/ Go("sleep")
        \/ CaughtUp /\ IngestReturn("OK")
    BY <1>11 DEF WaitForApply, Queries
  <2> QED BY <1>3, <1>4, <2>1, <2>2, <2>3, <2>4
<1>12. CASE Sleep
  <2>1. /\ stmt' = stmt /\ tbl' = tbl /\ result' = result
        /\ \E n : call' = [call EXCEPT !.pc = "wait", !.polls = n]
        /\ call.pc = "sleep" /\ stmt.bind = <<>>
    BY <1>12 DEF Sleep, IngestInv, BoundOrArrived
  <2>2. call'.op = "ingest" /\ call'.bound = call.bound /\ call'.pc = "wait"
    BY <1>2, <2>1 DEF NoCall
  <2>3. FramesOfCall'
    BY <1>2, <2>1, FramesKept
  <2>4. \A b \in DOMAIN call.bound :
          \/ Arrived(tbl.frames, stmt.calls, call.bound[b])
          \/ \E n \in DOMAIN stmt.bind : stmt.bind[n] = call.bound[b]
    BY <2>1 DEF IngestInv, BoundOrArrived
  <2> QED BY <1>1, <1>2, <2>1, <2>2, <2>3, <2>4, IngestGoesOn
<1> QED BY <1>7, <1>8, <1>9, <1>10, <1>11, <1>12, SendBatchIngest DEF IngestStep

(* The server and the other clients.                                       *)
LEMMA ServerIngest ==
  ASSUME QwpInv, IngestInv, Server
  PROVE  IngestInv'
<1>1. stmt' = stmt /\ run' = run /\ call' = call /\ result' = result
  BY DEF Server, Apply, OtherCreates, OtherWrites, OthersBorrow, OthersReturn
<1>2. RunModes'
  BY <1>1 DEF IngestInv, Conversation, RunModes
<1>3. CASE OthersBorrow \/ OthersReturn
  <2>1. tbl' = tbl
    BY <1>3 DEF OthersBorrow, OthersReturn
  <2> QED BY <1>1, <1>2, <2>1, CallUntouched
<1>4. DOMAIN tbl = DOMAIN NoTable /\ tbl.frames \in Seq(Frames) /\ stmt.binds \in Nat
  BY Facts
<1>5. CASE Apply
  <2>1. tbl' = [tbl EXCEPT !.applied = @ + 1] /\ call.pc = "wait"
    BY <1>5 DEF Apply
  <2>2. tbl'.frames = tbl.frames /\ tbl'.applied = tbl.applied + 1 /\ tbl'.wal = tbl.wal
    BY <1>4, <2>1 DEF NoTable
  <2>3. call.op = "ingest"
    BY <2>1, InConversation
  <2>4. FramesOfCall'
    <3>1. tbl.applied \in Nat /\ (~tbl.wal => tbl.applied >= Len(tbl.frames)) /\ Len(tbl.frames) \in Nat
      BY <1>4 DEF IngestInv, FramesOfCall
    <3>2. tbl'.applied \in Nat /\ (~tbl'.wal => tbl'.applied >= Len(tbl'.frames))
      BY <2>2, <3>1
    <3> QED BY <1>1, <2>2, <3>2 DEF IngestInv, FramesOfCall
  <2>5. /\ \A b \in DOMAIN call.bound :
             \/ Arrived(tbl.frames, stmt.calls, call.bound[b])
             \/ \E n \in DOMAIN stmt.bind : stmt.bind[n] = call.bound[b]
        /\ stmt.bind = <<>>
    BY <2>1 DEF IngestInv, BoundOrArrived
  <2> QED BY <1>1, <2>1, <2>2, <2>3, <2>4, <2>5, IngestGoesOn
<1>6. CASE OtherCreates
  <2>1. call.pc \in {"find", "create"}
    BY <1>6 DEF OtherCreates
  <2>2. PICK w : tbl' = [NoTable EXCEPT !.exists = TRUE, !.maker = 0, !.wal = w, !.ts = "ts"]
    BY <1>6 DEF OtherCreates
  <2>3. tbl'.frames = <<>> /\ tbl'.applied = 0
    BY <2>2 DEF NoTable
  <2>4. FramesOfCall'
    BY <1>1, <2>3 DEF FramesOfCall
  <2>5. call.op = "ingest" /\ call.bound = stmt.bind
    BY <2>1, InConversation DEF IngestInv, BoundOrArrived
  <2> QED BY <1>1, <2>1, <2>4, <2>5, IngestGoesOn
<1>7. CASE OtherWrites
  <2> DEFINE f == Frame(<<>>, 0)
  <2>1. tbl' = Written(f) /\ call.pc = "wait"
    BY <1>7 DEF OtherWrites
  <2>2. f.call = 0 /\ f.bind = stmt.binds /\ f \in Frames
    <3>1. f = [rows |-> <<>>, call |-> 0, bind |-> stmt.binds, own |-> FALSE]
      BY DEF Frame
    <3>2. <<>> \in Seq(Nat)
      OBVIOUS
    <3> HIDE DEF f
    <3> QED BY <1>4, <3>1, <3>2 DEF Frames
  <2> HIDE DEF f
  <2>3. call.op = "ingest"
    BY <2>1, InConversation
  <2>4. /\ FramesOfCall'
        /\ \A batch : Arrived(tbl.frames, stmt.calls, batch) =>
                        Arrived(tbl'.frames, stmt'.calls, batch)
    BY <1>1, <2>1, <2>2, <2>3, FramesOneMore
  <2>5. /\ \A b \in DOMAIN call.bound :
             \/ Arrived(tbl'.frames, stmt'.calls, call.bound[b])
             \/ \E n \in DOMAIN stmt.bind : stmt.bind[n] = call.bound[b]
        /\ stmt.bind = <<>>
    BY <2>1, <2>4 DEF IngestInv, BoundOrArrived
  <2> QED BY <1>1, <2>1, <2>3, <2>4, <2>5, IngestGoesOn
<1> QED BY <1>3, <1>5, <1>6, <1>7 DEF Server

(* An ingest always knows what has arrived.                                *)
THEOREM IngestAlways ==
  Spec => []IngestInv
<1>1. Init => IngestInv
  <2> SUFFICES ASSUME Init PROVE IngestInv
    OBVIOUS
  <2>1. /\ stmt.calls = 0 /\ call.op = None /\ call.pc = None /\ result.op = None
        /\ tbl.frames = <<>> /\ tbl.applied = 0
    BY DEF Init, NoStatement, NoCall, NoResult, NoTable
  <2>2. Conversation
    BY <2>1 DEF Conversation, Init, NoRun, None
  <2>3. FramesOfCall
    BY <2>1 DEF FramesOfCall
  <2>4. BoundOrArrived
    BY <2>1 DEF BoundOrArrived, None
  <2> QED BY <2>2, <2>3, <2>4 DEF IngestInv
<1>2. QwpInv /\ IngestInv /\ [Next]_vars => IngestInv'
  <2> SUFFICES ASSUME QwpInv, IngestInv, [Next]_vars PROVE IngestInv'
    OBVIOUS
  <2>1. CASE UNCHANGED vars
    <3>1. RunModes'
      BY <2>1 DEF vars, IngestInv, Conversation, RunModes
    <3> QED BY <2>1, <3>1, CallUntouched DEF vars
  <2> QED BY <2>1, CallerIngest, IngestStepIngest, ServerIngest, RunStepIngest DEF Next
<1> QED BY <1>1, <1>2, QwpAlways, PTL DEF Spec

(* An ingest that returns OK has each row it found bound in exactly one    *)
(* frame, which is applied if the call waited, whatever the server and     *)
(* other clients did meanwhile.                                            *)
THEOREM IngestIsVisibleAlways ==
  Spec => []IngestIsVisible
<1>1. QwpInv /\ IngestInv => IngestIsVisible
  <2> SUFFICES ASSUME QwpInv, IngestInv, result.op = "ingest", result.status = "OK",
                      NEW b \in DOMAIN result.bound, NEW x \in ToSet(result.bound[b])
               PROVE  /\ Cardinality(FramesWith(x)) = 1
                      /\ result.waited => \A k \in FramesWith(x) : k <= tbl.applied
    BY DEF IngestIsVisible
  <2> DEFINE q == tbl.frames
  <2>1. /\ stmt.calls > 0 /\ Arrived(q, stmt.calls, result.bound[b])
        /\ result.waited => tbl.applied >= Len(q)
    BY DEF IngestInv, BoundOrArrived
  <2>2. q \in Seq(Frames) /\ stmt.calls \in Nat
    BY Facts
  <2>3. DOMAIN q = 1..Len(q) /\ Len(q) \in Nat
    BY <2>2
  <2>4. result.bound[b] # <<>>
    BY DEF ToSet
  <2>5. PICK k \in DOMAIN q : q[k].call = stmt.calls /\ q[k].rows = result.bound[b]
    BY <2>1, <2>4 DEF Arrived
  <2>6. q[k].rows \in Seq(Nat)
    <3>1. q[k] \in Frames
      BY FrameShape DEF QwpInv
    <3> QED BY <3>1 DEF Frames
  <2>7. \A j \in 1..Len(q) :
          j \in FramesWith(x) <=> q[j].call = stmt.calls /\ x \in ToSet(q[j].rows)
    <3>1. TAKE j \in 1..Len(q)
    <3>2. q[j] \in Frames
      BY <2>3, FrameShape DEF QwpInv
    <3>3. q[j].rows \in Seq(Nat)
      BY <3>2 DEF Frames
    <3>4. DOMAIN q[j].rows = 1..Len(q[j].rows)
      BY <3>3
    <3> QED BY <3>4 DEF FramesWith, ToSet
  <2>8. k \in FramesWith(x)
    BY <2>3, <2>5, <2>7
  <2>9. \A j \in FramesWith(x) : j = k
    <3>1. TAKE j \in FramesWith(x)
    <3>2. j \in 1..Len(q)
      BY DEF FramesWith
    <3>3. q[j].call = stmt.calls /\ x \in ToSet(q[j].rows) /\ x \in ToSet(q[k].rows)
      BY <2>5, <2>7, <3>2
    <3>4. q[j].bind = q[k].bind
      BY <2>3, <2>5, <3>2, <3>3 DEF IngestInv, FramesOfCall
    <3>5. 0 \notin {q[j].call, q[k].call}
      BY <2>1, <2>2, <2>5, <3>3
    <3> QED BY <2>3, <3>2, <3>3, <3>4, <3>5 DEF QwpInv, IngestSendsOnce
  <2>10. FramesWith(x) = {k}
    BY <2>8, <2>9
  <2>11. Cardinality(FramesWith(x)) = 1
    BY <2>10, FS_Singleton
  <2>12. result.waited => \A j \in FramesWith(x) : j <= tbl.applied
    <3>1. tbl.applied \in Nat
      BY DEF IngestInv, FramesOfCall
    <3> QED BY <2>1, <2>3, <2>10, <3>1
  <2> QED BY <2>11, <2>12
<1> QED BY <1>1, QwpAlways, IngestAlways, PTL

-----------------------------------------------------------------------------
(* The rows of a run.                                                      *)

(* Of a set of numbers there is a smallest one.                            *)
LEMMA Smallest ==
  ASSUME NEW T \in SUBSET Nat, T # {}
  PROVE  \E x \in T : \A y \in T : x <= y
<1>1. PICK x \in T : \A y \in T : ~(<<y, x>> \in OpToRel(<, Nat))
  BY WFMin, NatLessThanWellFounded
<1>2. \A y \in T : x <= y
  <2> SUFFICES ASSUME NEW y \in T PROVE x <= y
    OBVIOUS
  <2>1. x \in Nat /\ y \in Nat
    OBVIOUS
  <2>2. y < x => <<y, x>> \in OpToRel(<, Nat)
    BY <2>1, Zenon DEF OpToRel
  <2>3. ~(y < x)
    BY <1>1, <2>2, Zenon
  <2> QED BY <2>1, <2>3
<1> QED BY <1>2

(* A place is a batch and a row of it.                                     *)
LEMMA PlaceShape ==
  ASSUME NEW bound \in Seq(Seq(Nat))
  PROVE  /\ \A p \in Places(bound) :
              /\ p = <<p[1], p[2]>> /\ p[1] \in 1..Len(bound)
              /\ p[2] \in 1..Len(bound[p[1]]) /\ bound[p[1]] \in Seq(Nat)
         /\ \A b \in 1..Len(bound) : \A i \in 1..Len(bound[b]) : <<b, i>> \in Places(bound)
<1>1. DOMAIN bound = 1..Len(bound)
  OBVIOUS
<1>2. \A b \in 1..Len(bound) : bound[b] \in Seq(Nat) /\ DOMAIN bound[b] = 1..Len(bound[b])
  OBVIOUS
<1>3. ASSUME NEW p \in Places(bound)
      PROVE  /\ p = <<p[1], p[2]>> /\ p[1] \in 1..Len(bound)
             /\ p[2] \in 1..Len(bound[p[1]]) /\ bound[p[1]] \in Seq(Nat)
  <2>1. PICK b \in DOMAIN bound : p \in {b} \X DOMAIN bound[b]
    BY <1>3 DEF Places
  <2>2. p = <<p[1], p[2]>> /\ p[1] = b /\ p[2] \in DOMAIN bound[b]
    BY <2>1
  <2> QED BY <1>1, <1>2, <2>2
<1>4. ASSUME NEW b \in 1..Len(bound), NEW i \in 1..Len(bound[b])
      PROVE  <<b, i>> \in Places(bound)
  <2>1. <<b, i>> \in {b} \X DOMAIN bound[b] /\ b \in DOMAIN bound
    BY <1>1, <1>2
  <2> QED BY <2>1 DEF Places
<1> QED BY <1>3, <1>4

(* The fields a run's rows depend on.                                      *)
SameRows(u, v) ==
  /\ v.bound = u.bound /\ v.batches = u.batches /\ v.cur = u.cur /\ v.row = u.row
  /\ v.done = u.done /\ v.hasBind = u.hasBind /\ v.started = u.started

SameCounts(u, v) ==
  /\ v.rows = u.rows /\ v.truth = u.truth /\ v.known = u.known
  /\ v.cursor.total = u.cursor.total /\ DOMAIN v.cursor = DOMAIN u.cursor

(* Two runs that agree on these fields have executed the same of the same  *)
(* binding.                                                                *)
LEMMA RowsAlike ==
  ASSUME NEW u, NEW v, SameRows(u, v)
  PROVE  /\ Ahead(u) => Ahead(v)
         /\ InOrder(u.done, u.bound) => InOrder(v.done, v.bound)
         /\ AllRan(u.done, u.bound) => AllRan(v.done, v.bound)
         /\ RowShapes(u) /\ SameCounts(u, v) => RowShapes(v)
<1>1. Place(u) = Place(v) /\ \A p : Passed(u, p) <=> Passed(v, p)
  BY DEF Place, Passed, SameRows
<1>2. Ahead(u) => Ahead(v)
  BY <1>1 DEF Ahead, SameRows
<1>3. /\ InOrder(u.done, u.bound) => InOrder(v.done, v.bound)
      /\ AllRan(u.done, u.bound) => AllRan(v.done, v.bound)
  BY DEF SameRows
<1>4. RowShapes(u) /\ SameCounts(u, v) => RowShapes(v)
  BY DEF SameRows, SameCounts, RowShapes
<1> QED BY <1>2, <1>3, <1>4

(* The arithmetic of a binding of a batches of which the last b are left,  *)
(* when k more are taken.                                                  *)
LEMMA Remainder ==
  ASSUME NEW a \in Nat, NEW b \in Nat, b <= a, NEW k \in 1..b, NEW n \in Int, n = a - b
  PROVE  /\ n \in Nat /\ n + k \in 1..a /\ k \in Nat /\ n + k \in Nat
         /\ a - (b - k) = n + k /\ b - k < a /\ b - k \in Nat
         /\ \A i \in 1..(b - k) : k + i \in 1..b /\ n + (k + i) = (n + k) + i
         /\ \A m \in 1..a : n < m /\ m < n + k =>
              m - n \in 1..b /\ ~(k <= m - n) /\ n + (m - n) = m
OBVIOUS

(* The rest of a sequence.                                                 *)
LEMMA RestOf ==
  ASSUME NEW q \in Seq(Seq(Nat)), NEW k \in 1..Len(q), NEW s, s = SubSeq(q, k + 1, Len(q))
  PROVE  /\ s \in Seq(Seq(Nat)) /\ Len(s) = Len(q) - k /\ DOMAIN s = 1..(Len(q) - k)
         /\ \A i \in 1..(Len(q) - k) : s[i] = q[k + i]
OBVIOUS

(* The places before the i-th row of the n-th batch.                       *)
LEMMA PlacesBefore ==
  ASSUME NEW bound \in Seq(Seq(Nat)), NEW n \in 1..Len(bound), NEW i \in 1..Len(bound[n])
  PROVE  /\ <<n, i>> \in Places(bound) /\ <<n, i>> \in Nat \X Nat /\ bound[n][i] \in Nat
         /\ \A p \in Places(bound) :
              /\ Precedes(p, <<n, i>>) <=> p[1] < n \/ (p[1] = n /\ p[2] <= i - 1)
              /\ p[1] = n /\ p[2] <= i <=> (p[1] = n /\ p[2] <= i - 1) \/ p = <<n, i>>
<1>1. <<n, i>> \in Places(bound)
  BY PlaceShape
<1>2. bound[n] \in Seq(Nat) /\ n \in Nat
  OBVIOUS
<1>3. i \in Nat /\ bound[n][i] \in Nat
  BY <1>2
<1>4. ASSUME NEW p \in Places(bound)
      PROVE  /\ Precedes(p, <<n, i>>) <=> p[1] < n \/ (p[1] = n /\ p[2] <= i - 1)
             /\ p[1] = n /\ p[2] <= i <=> (p[1] = n /\ p[2] <= i - 1) \/ p = <<n, i>>
  <2>1. p = <<p[1], p[2]>> /\ p[1] \in Nat /\ p[2] \in Nat
    BY PlaceShape
  <2>2. p[2] < i <=> p[2] <= i - 1
    BY <1>3, <2>1
  <2>3. p[2] <= i <=> p[2] <= i - 1 \/ p[2] = i
    BY <1>3, <2>1
  <2>4. p = <<n, i>> <=> p[1] = n /\ p[2] = i
    BY <2>1
  <2>5. Precedes(p, <<n, i>>) <=> p[1] < n \/ (p[1] = n /\ p[2] < i)
    BY DEF Precedes
  <2> QED BY <2>2, <2>3, <2>4, <2>5
<1>5. <<n, i>> \in Nat \X Nat
  BY <1>2, <1>3
<1> QED BY <1>1, <1>3, <1>4, <1>5

(* A binding of which the batches after the n-th are left, the first of    *)
(* them with rows, and a run at a row of the n-th one, cur, or before it:  *)
(* what it has passed.                                                     *)
Left(bound, t, n) ==
  /\ bound \in Seq(Seq(Nat)) /\ t \in Seq(Seq(Nat)) /\ Len(t) <= Len(bound)
  /\ n = Len(bound) - Len(t) /\ \A i \in DOMAIN t : t[i] = bound[n + i]

NextFull(t, k) ==
  k \in 1..Len(t) /\ t[k] # <<>> /\ \A j \in 1..Len(t) : t[j] # <<>> => k <= j

AtRow(bound, n, cur, row) ==
  /\ cur \in Seq(Nat) /\ row \in Int /\ row >= -1
  /\ cur # <<>> => n \in 1..Len(bound) /\ cur = bound[n]

PassedAt(n, cur, row, p) == p[1] < n \/ (p[1] = n /\ (cur = <<>> \/ p[2] <= row + 1))

(* Past the batches that are empty, the next one has the next row.         *)
LEMMA PlacesSkipped ==
  ASSUME NEW bound, NEW t, NEW n, Left(bound, t, n), NEW k, NextFull(t, k)
  PROVE  /\ Left(bound, SubSeq(t, k + 1, Len(t)), n + k)
         /\ n + k \in 1..Len(bound) /\ t[k] = bound[n + k] /\ t[k] \in Seq(Nat)
         /\ 1 \in 1..Len(bound[n + k])
         /\ \A p \in Places(bound) : p[1] < n + k <=> p[1] <= n
<1> DEFINE s == SubSeq(t, k + 1, Len(t))
<1>1. /\ bound \in Seq(Seq(Nat)) /\ t \in Seq(Seq(Nat)) /\ Len(t) <= Len(bound)
      /\ n = Len(bound) - Len(t) /\ \A i \in DOMAIN t : t[i] = bound[n + i]
      /\ k \in 1..Len(t) /\ t[k] # <<>> /\ \A j \in 1..Len(t) : t[j] # <<>> => k <= j
  BY DEF Left, NextFull
<1>2. Len(bound) \in Nat /\ Len(t) \in Nat /\ DOMAIN t = 1..Len(t)
  BY <1>1
<1>3. /\ n \in Nat /\ n + k \in 1..Len(bound) /\ k \in Nat /\ n + k \in Nat
      /\ Len(bound) - (Len(t) - k) = n + k /\ Len(t) - k < Len(bound)
      /\ \A i \in 1..(Len(t) - k) : k + i \in 1..Len(t) /\ n + (k + i) = (n + k) + i
      /\ \A m \in 1..Len(bound) : n < m /\ m < n + k =>
           m - n \in 1..Len(t) /\ ~(k <= m - n) /\ n + (m - n) = m
  BY <1>1, <1>2, Remainder
<1>4. /\ s \in Seq(Seq(Nat)) /\ Len(s) = Len(t) - k /\ DOMAIN s = 1..(Len(t) - k)
      /\ \A i \in 1..(Len(t) - k) : s[i] = t[k + i]
  BY <1>1, RestOf
<1> HIDE DEF s
<1>5. \A i \in DOMAIN s : s[i] = bound[(n + k) + i]
  <2> SUFFICES ASSUME NEW i \in DOMAIN s PROVE s[i] = bound[(n + k) + i]
    OBVIOUS
  <2>1. s[i] = t[k + i]
    BY <1>4, Zenon
  <2>2. k + i \in DOMAIN t /\ n + (k + i) = (n + k) + i
    BY <1>2, <1>3, <1>4, Zenon
  <2>3. t[k + i] = bound[n + (k + i)]
    BY <1>1, <2>2, Zenon
  <2> QED BY <2>1, <2>2, <2>3, Zenon
<1>6. t[k] = bound[n + k] /\ t[k] \in Seq(Nat)
  <2>1. k \in DOMAIN t
    BY <1>1, <1>2, Zenon
  <2>2. t[k] = bound[n + k]
    BY <1>1, <2>1, Zenon
  <2>3. ASSUME NEW S, NEW q \in Seq(S), NEW j \in DOMAIN q
        PROVE  q[j] \in S
    BY <2>3
  <2>4. t[k] \in Seq(Nat)
    BY <1>1, <2>1, <2>3
  <2> QED BY <2>2, <2>4
<1>7. 1 \in 1..Len(bound[n + k])
  <2>1. ASSUME NEW q \in Seq(Nat), q # <<>>
        PROVE  1 \in 1..Len(q)
    BY <2>1
  <2> QED BY <1>1, <1>6, <2>1
<1>8. ASSUME NEW p \in Places(bound)
      PROVE  p[1] < n + k <=> p[1] <= n
  <2>1. p[1] \in 1..Len(bound) /\ p[2] \in 1..Len(bound[p[1]])
    BY <1>1, PlaceShape
  <2>2. p[1] \in Nat
    BY <2>1
  <2>3. bound[p[1]] # <<>>
    BY <2>1
  <2>4. ASSUME n < p[1], p[1] < n + k
        PROVE  FALSE
    <3>1. p[1] - n \in 1..Len(t) /\ ~(k <= p[1] - n) /\ n + (p[1] - n) = p[1]
      BY <1>3, <2>1, <2>4
    <3>2. t[p[1] - n] = <<>>
      BY <1>1, <3>1
    <3>3. t[p[1] - n] = bound[n + (p[1] - n)]
      BY <1>1, <1>2, <3>1
    <3> QED BY <2>3, <3>1, <3>2, <3>3
  <2>5. p[1] <= n => p[1] < n + k
    BY <1>1, <1>3, <2>2
  <2>6. ~(n < p[1]) => p[1] <= n
    BY <1>3, <2>2
  <2> QED BY <2>4, <2>5, <2>6
<1>9. Len(bound) - Len(s) = n + k /\ Len(s) <= Len(bound)
  <2>1. Len(bound) - Len(s) = n + k /\ Len(s) < Len(bound)
    BY <1>3, <1>4, Zenon
  <2>2. Len(s) \in Nat
    BY <1>4
  <2> QED BY <1>2, <2>1, <2>2
<1>10. Left(bound, s, n + k)
  BY <1>1, <1>4, <1>5, <1>9, Zenon DEF Left
<1> QED BY <1>3, <1>6, <1>7, <1>8, <1>10, Zenon DEF s

(* A run that is at the last row of its batch, or past it, has come past   *)
(* the whole batch.                                                        *)
LEMMA BatchThrough ==
  ASSUME NEW bound \in Seq(Seq(Nat)), NEW n \in Int, NEW cur, NEW row,
         AtRow(bound, n, cur, row), ~(row + 1 < Len(cur)), NEW p \in Places(bound)
  PROVE  PassedAt(n, cur, row, p) <=> p[1] <= n
<1>1. p[1] \in Nat /\ p[2] \in 1..Len(bound[p[1]])
  BY PlaceShape
<1>2. p[1] < n \/ p[1] = n <=> p[1] <= n
  <2>1. ASSUME NEW a \in Int, NEW b \in Int
        PROVE  a < b \/ a = b <=> a <= b
    OBVIOUS
  <2>2. p[1] \in Int
    BY <1>1
  <2> QED BY <2>1, <2>2
<1>3. ASSUME p[1] = n, cur # <<>>
      PROVE  p[2] <= row + 1
  <2>1. p[2] \in 1..Len(cur) /\ Len(cur) \in Nat /\ row \in Int
    BY <1>1, <1>3 DEF AtRow
  <2> QED BY <2>1
<1> QED BY <1>2, <1>3, Zenon DEF PassedAt

(* If the batches that are left are empty there is no place after them.    *)
LEMMA NothingLeft ==
  ASSUME NEW bound, NEW t, NEW n, Left(bound, t, n), \A i \in 1..Len(t) : t[i] = <<>>,
         NEW p \in Places(bound)
  PROVE  p[1] <= n /\ p[1] \in 1..Len(bound)
<1>1. /\ bound \in Seq(Seq(Nat)) /\ t \in Seq(Seq(Nat))
      /\ n = Len(bound) - Len(t) /\ \A i \in DOMAIN t : t[i] = bound[n + i]
  BY DEF Left
<1>2. Len(bound) \in Nat /\ Len(t) \in Nat /\ DOMAIN t = 1..Len(t)
  BY <1>1
<1>3. p[1] \in 1..Len(bound) /\ p[2] \in 1..Len(bound[p[1]])
  BY <1>1, PlaceShape
<1>4. bound[p[1]] # <<>>
  BY <1>3
<1>5. ASSUME n < p[1]
      PROVE  FALSE
  <2>1. p[1] - n \in 1..Len(t) /\ n + (p[1] - n) = p[1]
    <3>1. ASSUME NEW a \in Nat, NEW b \in Nat, NEW c \in 1..a, a - b < c
          PROVE  c - (a - b) \in 1..b /\ (a - b) + (c - (a - b)) = c
      BY <3>1
    <3> QED BY <1>1, <1>2, <1>3, <1>5, <3>1
  <2>2. t[p[1] - n] = bound[n + (p[1] - n)]
    BY <1>1, <1>2, <2>1, Zenon
  <2>3. t[p[1] - n] = <<>>
    BY <2>1, Zenon
  <2> QED BY <1>4, <2>1, <2>2, <2>3
<1>6. p[1] \in Int /\ n \in Int
  BY <1>1, <1>2, <1>3
<1> QED BY <1>3, <1>5, <1>6

(* The run comes to the place <<m, i>> of a batch c when it has passed     *)
(* exactly the places before it, and will then have passed it too.         *)
ComesTo(bound, n, cur, row, m, c, i) ==
  /\ <<m, i + 1>> \in Places(bound) /\ <<m, i + 1>> \in Nat \X Nat
  /\ c # <<>> /\ c[i + 1] = bound[m][i + 1] /\ c[i + 1] \in Nat
  /\ AtRow(bound, m, c, i)
  /\ \A p \in Places(bound) :
       /\ Precedes(p, <<m, i + 1>>) <=> PassedAt(n, cur, row, p)
       /\ PassedAt(m, c, i, p) <=> PassedAt(n, cur, row, p) \/ p = <<m, i + 1>>

(* The row after this one in the batch.                                    *)
LEMMA RowInBatch ==
  ASSUME NEW bound \in Seq(Seq(Nat)), NEW n, NEW cur, NEW row,
         AtRow(bound, n, cur, row), row + 1 < Len(cur)
  PROVE  ComesTo(bound, n, cur, row, n, cur, row + 1)
<1> DEFINE i == (row + 1) + 1
<1>1. cur \in Seq(Nat) /\ row \in Int /\ row >= -1
  BY DEF AtRow
<1>2. cur # <<>> /\ Len(cur) \in Nat
  BY <1>1
<1>3. n \in 1..Len(bound) /\ cur = bound[n]
  BY <1>2 DEF AtRow
<1>4. i \in 1..Len(bound[n]) /\ i - 1 = row + 1 /\ row + 1 \in Int /\ row + 1 >= -1
  BY <1>1, <1>2, <1>3
<1>5. AtRow(bound, n, cur, row + 1)
  BY <1>1, <1>3, <1>4 DEF AtRow
<1> HIDE DEF i
<1>6. /\ <<n, i>> \in Places(bound) /\ <<n, i>> \in Nat \X Nat /\ bound[n][i] \in Nat
      /\ \A p \in Places(bound) :
           /\ Precedes(p, <<n, i>>) <=> p[1] < n \/ (p[1] = n /\ p[2] <= i - 1)
           /\ p[1] = n /\ p[2] <= i <=> (p[1] = n /\ p[2] <= i - 1) \/ p = <<n, i>>
  BY <1>3, <1>4, PlacesBefore
<1>7. \A p : /\ PassedAt(n, cur, row, p) <=> p[1] < n \/ (p[1] = n /\ p[2] <= i - 1)
             /\ PassedAt(n, cur, row + 1, p) <=> p[1] < n \/ (p[1] = n /\ p[2] <= i)
  BY <1>2, <1>4, Zenon DEF PassedAt, i
<1>8. \A p \in Places(bound) :
        /\ Precedes(p, <<n, i>>) <=> PassedAt(n, cur, row, p)
        /\ PassedAt(n, cur, row + 1, p) <=> PassedAt(n, cur, row, p) \/ p = <<n, i>>
  BY <1>6, <1>7, Zenon
<1> QED BY <1>2, <1>3, <1>5, <1>6, <1>8, Zenon DEF ComesTo, i

(* The places before the first row of the n-th batch.                      *)
LEMMA FirstPlace ==
  ASSUME NEW bound \in Seq(Seq(Nat)), NEW n \in 1..Len(bound), 1 \in 1..Len(bound[n])
  PROVE  /\ <<n, 1>> \in Places(bound) /\ <<n, 1>> \in Nat \X Nat /\ bound[n][1] \in Nat
         /\ \A p \in Places(bound) : /\ Precedes(p, <<n, 1>>) <=> p[1] < n
                                     /\ p[1] = n /\ p[2] <= 1 <=> p = <<n, 1>>
<1>1. /\ <<n, 1>> \in Places(bound) /\ <<n, 1>> \in Nat \X Nat /\ bound[n][1] \in Nat
      /\ \A p \in Places(bound) :
           /\ Precedes(p, <<n, 1>>) <=> p[1] < n \/ (p[1] = n /\ p[2] <= 1 - 1)
           /\ p[1] = n /\ p[2] <= 1 <=> (p[1] = n /\ p[2] <= 1 - 1) \/ p = <<n, 1>>
  BY PlacesBefore
<1>2. \A p \in Places(bound) : ~(p[2] <= 1 - 1)
  <2> SUFFICES ASSUME NEW p \in Places(bound) PROVE ~(p[2] <= 1 - 1)
    OBVIOUS
  <2>1. p[2] \in 1..Len(bound[p[1]])
    BY PlaceShape
  <2>2. \A x \in 1..Len(bound[p[1]]) : ~(x <= 1 - 1)
    OBVIOUS
  <2> QED BY <2>1, <2>2, Zenon
<1> QED BY <1>1, <1>2, Zenon

(* The first row of a later batch.                                         *)
LEMMA RowInLaterBatch ==
  ASSUME NEW bound, NEW t, NEW n, Left(bound, t, n), NEW k, NextFull(t, k),
         NEW cur, NEW row, AtRow(bound, n, cur, row), ~(row + 1 < Len(cur))
  PROVE  /\ Left(bound, SubSeq(t, k + 1, Len(t)), n + k)
         /\ ComesTo(bound, n, cur, row, n + k, t[k], 0)
<1>1. /\ Left(bound, SubSeq(t, k + 1, Len(t)), n + k)
      /\ n + k \in 1..Len(bound) /\ t[k] = bound[n + k] /\ t[k] \in Seq(Nat)
      /\ 1 \in 1..Len(bound[n + k])
      /\ \A p \in Places(bound) : p[1] < n + k <=> p[1] <= n
  BY PlacesSkipped, Zenon
<1>2. bound \in Seq(Seq(Nat)) /\ n \in Int /\ t[k] # <<>>
  BY DEF Left, NextFull
<1> DEFINE m == n + k
<1> HIDE DEF m
<1>3. /\ <<m, 1>> \in Places(bound) /\ <<m, 1>> \in Nat \X Nat /\ bound[m][1] \in Nat
      /\ \A p \in Places(bound) : /\ Precedes(p, <<m, 1>>) <=> p[1] < m
                                  /\ p[1] = m /\ p[2] <= 1 <=> p = <<m, 1>>
  BY <1>1, <1>2, FirstPlace, Zenon DEF m
<1>4. \A p \in Places(bound) : PassedAt(n, cur, row, p) <=> p[1] <= n
  BY <1>2, BatchThrough, Zenon
<1>5. 0 + 1 = 1 /\ 0 \in Int /\ 0 >= -1
  OBVIOUS
<1>6. \A p : PassedAt(m, t[k], 0, p) <=> p[1] < m \/ (p[1] = m /\ p[2] <= 1)
  BY <1>2, <1>5, Zenon DEF PassedAt
<1>7. \A p \in Places(bound) :
        /\ Precedes(p, <<m, 1>>) <=> PassedAt(n, cur, row, p)
        /\ PassedAt(m, t[k], 0, p) <=> PassedAt(n, cur, row, p) \/ p = <<m, 1>>
  BY <1>1, <1>3, <1>4, <1>6, Zenon DEF m
<1>8. AtRow(bound, m, t[k], 0)
  BY <1>1, <1>5, Zenon DEF AtRow, m
<1>9. t[k] = bound[m]
  BY <1>1, Zenon DEF m
<1>10. ComesTo(bound, n, cur, row, m, t[k], 0)
  BY <1>2, <1>3, <1>5, <1>7, <1>8, <1>9, Zenon DEF ComesTo
<1> QED BY <1>1, <1>10, Zenon DEF m

(* The same of a run.                                                      *)
Where(u) == Len(u.bound) - Len(u.batches)

(* Ahead, with the place of the run spelled out.                           *)
LEMMA AheadIs ==
  ASSUME NEW u, u.hasBind, RowShapes(u)
  PROVE  /\ Place(u) = <<Where(u), u.row + 1>>
         /\ Ahead(u) <=> /\ Left(u.bound, u.batches, Where(u))
                         /\ AtRow(u.bound, Where(u), u.cur, u.row)
                         /\ \A p \in Places(u.bound) :
                              Ran(u.done, p) <=> PassedAt(Where(u), u.cur, u.row, p)
<1>1. Place(u) = <<Where(u), u.row + 1>> /\ Place(u)[1] = Where(u) /\ Place(u)[2] = u.row + 1
  BY DEF Place, Where
<1>2. \A p : Passed(u, p) <=> PassedAt(Where(u), u.cur, u.row, p)
  BY <1>1, Zenon DEF Passed, PassedAt
<1>3. /\ u.bound \in Seq(Seq(Nat)) /\ u.batches \in Seq(Seq(Nat)) /\ u.cur \in Seq(Nat)
      /\ u.row \in Int /\ u.row >= -1
  BY DEF RowShapes
<1>4. Len(u.bound) \in Nat /\ Len(u.batches) \in Nat
  BY <1>3
<1>5. Len(u.batches) < Len(u.bound) <=> Where(u) \in 1..Len(u.bound)
  <2>1. ASSUME NEW a \in Nat, NEW b \in Nat
        PROVE  b < a <=> a - b \in 1..a
    OBVIOUS
  <2> QED BY <1>4, <2>1 DEF Where
<1>6. Ahead(u) <=> /\ Len(u.batches) <= Len(u.bound)
                   /\ \A i \in DOMAIN u.batches : u.batches[i] = u.bound[Where(u) + i]
                   /\ u.cur # <<>> => Where(u) \in 1..Len(u.bound) /\ u.cur = u.bound[Where(u)]
                   /\ \A p \in Places(u.bound) :
                        Ran(u.done, p) <=> PassedAt(Where(u), u.cur, u.row, p)
  BY <1>1, <1>2, <1>5, Zenon DEF Ahead
<1>7. Where(u) = Len(u.bound) - Len(u.batches)
  BY DEF Where
<1> QED BY <1>1, <1>3, <1>6, <1>7, Zenon DEF Left, AtRow

(* QdbRunNextBindRow finds the next row of the binding, or that there is   *)
(* none.                                                                   *)
LEMMA NextRow ==
  ASSUME NEW u, DOMAIN u = DOMAIN NoRun, u.hasBind, RowShapes(u), Ahead(u),
         NEW v, v = NextBindRow(u)
  PROVE  /\ v.bound = u.bound /\ v.done = u.done /\ v.hasBind = u.hasBind
         /\ v.started = u.started /\ v.cursor = u.cursor /\ v.rows = u.rows
         /\ v.known = u.known /\ v.truth = u.truth /\ v.over = u.over
         /\ v.cur \in Seq(Nat) /\ v.row \in Int /\ v.row >= -1
         /\ Left(u.bound, v.batches, Where(v))
         /\ \/ /\ v.cur = <<>> /\ Where(v) = Len(u.bound)
               /\ \A p \in Places(u.bound) : /\ PassedAt(Where(u), u.cur, u.row, p)
                                             /\ p[1] \in 1..Len(u.bound)
            \/ ComesTo(u.bound, Where(u), u.cur, u.row, Where(v), v.cur, v.row)
<1> DEFINE bound == u.bound
           t     == u.batches
           n     == Where(u)
           full  == {k \in 1..Len(t) : t[k] # <<>>}
           Next1 == [u EXCEPT !.row = @ + 1]
           End1  == [u EXCEPT !.batches = <<>>, !.cur = <<>>, !.row = -1]
           Later(k) == [u EXCEPT !.cur = t[k], !.row = 0, !.batches = SubSeq(@, k + 1, Len(@))]
<1>1. /\ Left(bound, t, n) /\ AtRow(bound, n, u.cur, u.row)
  BY AheadIs
<1>2. bound \in Seq(Seq(Nat)) /\ t \in Seq(Seq(Nat)) /\ n = Len(bound) - Len(t)
  BY <1>1 DEF Left
<1>3. u.cur \in Seq(Nat) /\ u.row \in Int /\ u.row >= -1
  BY DEF RowShapes
<1>4. Len(bound) \in Nat /\ Len(t) \in Nat
  BY <1>2
<1>5. CASE u.row + 1 < Len(u.cur)
  <2>1. v = Next1
    BY <1>5 DEF NextBindRow
  <2>2. /\ v.bound = u.bound /\ v.done = u.done /\ v.hasBind = u.hasBind
        /\ v.started = u.started /\ v.cursor = u.cursor /\ v.rows = u.rows
        /\ v.known = u.known /\ v.truth = u.truth /\ v.over = u.over
        /\ v.cur = u.cur /\ v.row = u.row + 1 /\ v.batches = t
    BY <2>1, RunFields
  <2>3. Where(v) = n
    BY <2>2 DEF Where
  <2>4. ComesTo(bound, n, u.cur, u.row, n, u.cur, u.row + 1)
    BY <1>1, <1>2, <1>5, RowInBatch
  <2>5. u.row + 1 \in Int /\ u.row + 1 >= -1
    BY <1>3
  <2> QED BY <1>1, <1>3, <2>2, <2>3, <2>4, <2>5, Zenon
<1>6. CASE ~(u.row + 1 < Len(u.cur)) /\ full = {}
  <2>1. v = End1
    BY <1>6 DEF NextBindRow
  <2>2. /\ v.bound = u.bound /\ v.done = u.done /\ v.hasBind = u.hasBind
        /\ v.started = u.started /\ v.cursor = u.cursor /\ v.rows = u.rows
        /\ v.known = u.known /\ v.truth = u.truth /\ v.over = u.over
        /\ v.cur = <<>> /\ v.row = -1 /\ v.batches = <<>>
    BY <2>1, RunFields
  <2>3. Where(v) = Len(bound)
    BY <1>4, <2>2 DEF Where
  <2>4. Left(bound, <<>>, Len(bound))
    BY <1>2, <1>4 DEF Left
  <2>5. ASSUME NEW p \in Places(bound)
        PROVE  PassedAt(n, u.cur, u.row, p) /\ p[1] \in 1..Len(bound)
    <3>1. \A i \in 1..Len(t) : t[i] = <<>>
      BY <1>6
    <3>2. p[1] <= n /\ p[1] \in 1..Len(bound)
      BY <1>1, <3>1, NothingLeft
    <3>3. n \in Int
      BY <1>2, <1>4
    <3> QED BY <1>1, <1>2, <1>6, <3>2, <3>3, BatchThrough
  <2>6. <<>> \in Seq(Nat) /\ -1 \in Int /\ -1 >= -1
    OBVIOUS
  <2> QED BY <2>2, <2>3, <2>4, <2>5, <2>6, Zenon
<1>7. CASE ~(u.row + 1 < Len(u.cur)) /\ full # {}
  <2> DEFINE k == CHOOSE k \in full : \A j \in full : k <= j
  <2>1. v = Later(k)
    BY <1>7 DEF NextBindRow
  <2>2. full \in SUBSET Nat
    OBVIOUS
  <2>3. k \in full /\ \A j \in full : k <= j
    BY <1>7, <2>2, Smallest
  <2> HIDE DEF k
  <2>4. /\ v.bound = u.bound /\ v.done = u.done /\ v.hasBind = u.hasBind
        /\ v.started = u.started /\ v.cursor = u.cursor /\ v.rows = u.rows
        /\ v.known = u.known /\ v.truth = u.truth /\ v.over = u.over
        /\ v.cur = t[k] /\ v.row = 0 /\ v.batches = SubSeq(t, k + 1, Len(t))
    BY <2>1, RunFields
  <2>5. NextFull(t, k)
    BY <2>3 DEF NextFull
  <2>6. /\ Left(bound, SubSeq(t, k + 1, Len(t)), n + k)
        /\ ComesTo(bound, n, u.cur, u.row, n + k, t[k], 0)
    BY <1>1, <1>7, <2>5, RowInLaterBatch
  <2>7. Where(v) = n + k
    BY <2>4, <2>6, Zenon DEF Where, Left
  <2>8. t[k] \in Seq(Nat) /\ 0 \in Int /\ 0 >= -1
    BY <2>6 DEF ComesTo, AtRow
  <2> QED BY <2>4, <2>6, <2>7, <2>8, Zenon
<1> QED BY <1>5, <1>6, <1>7

(* One more row is executed, at a place before which are exactly the       *)
(* places that have run.                                                   *)
Executed == [at : Nat \X Nat, row : Nat]

ComesToRow(done, bound, at, row) ==
  /\ at \in Nat \X Nat /\ at \in Places(bound)
  /\ row \in Nat /\ row = bound[at[1]][at[2]]
  /\ \A p \in Places(bound) : Precedes(p, at) <=> Ran(done, p)

(* Executing the row at such a place keeps the rows in order, and adds that*)
(* place to the ones that have run.                                        *)
LEMMA OneMoreRow ==
  ASSUME NEW bound, NEW done \in Seq(Executed), InOrder(done, bound), NEW q, NEW x,
         ComesToRow(done, bound, q, x)
  PROVE  LET d == Append(done, [at |-> q, row |-> x])
         IN  /\ d \in Seq(Executed) /\ InOrder(d, bound)
             /\ \A p : Ran(d, p) <=> Ran(done, p) \/ p = q
<1> DEFINE d == Append(done, [at |-> q, row |-> x])
<1> DEFINE e == [at |-> q, row |-> x]
           n == Len(done)
<1>0. /\ q \in Nat \X Nat /\ q \in Places(bound) /\ x \in Nat /\ x = bound[q[1]][q[2]]
      /\ \A p \in Places(bound) : Precedes(p, q) <=> Ran(done, p)
  BY DEF ComesToRow
<1>1. e \in Executed /\ e.at = q /\ e.row = x
  BY <1>0 DEF Executed
<1> HIDE DEF e, d
<1>2. n \in Nat /\ DOMAIN done = 1..n
  OBVIOUS
<1>3. /\ d \in Seq(Executed) /\ DOMAIN d = 1..(n + 1) /\ d[n + 1] = e
      /\ \A m \in 1..n : d[m] = done[m]
  <2>1. d = Append(done, e)
    BY DEF d, e
  <2> QED BY <1>1, <2>1
<1> HIDE DEF n
<1>4. \A m : m \in 1..(n + 1) <=> m \in 1..n \/ m = n + 1
  BY <1>2
<1>5. \A p : Ran(d, p) <=> Ran(done, p) \/ p = q
  <2> SUFFICES ASSUME NEW p PROVE Ran(d, p) <=> Ran(done, p) \/ p = q
    OBVIOUS
  <2> QED BY <1>1, <1>2, <1>3, <1>4, Zenon DEF Ran
<1>6. ASSUME NEW m \in DOMAIN d
      PROVE  /\ d[m].at \in Places(bound) /\ d[m].row = bound[d[m].at[1]][d[m].at[2]]
             /\ \A p \in Places(bound) :
                  Precedes(p, d[m].at) <=> \E j \in 1..m - 1 : d[j].at = p
  <2>1. CASE m \in 1..n
    <3>1. \A j \in 1..(m - 1) : j \in 1..n
      BY <1>2, <2>1
    <3>2. d[m] = done[m] /\ \A j \in 1..(m - 1) : d[j] = done[j]
      BY <1>3, <2>1, <3>1, Zenon
    <3>3. /\ done[m].at \in Places(bound)
          /\ done[m].row = bound[done[m].at[1]][done[m].at[2]]
          /\ \A p \in Places(bound) :
               Precedes(p, done[m].at) <=> \E j \in 1..m - 1 : done[j].at = p
      BY <1>2, <2>1, Zenon DEF InOrder
    <3> QED BY <3>2, <3>3, Zenon
  <2>2. CASE m = n + 1
    <3>1. m - 1 = n
      BY <1>2, <2>2
    <3>2. d[m].at = q /\ d[m].row = x
      BY <1>1, <1>3, <2>2, Zenon
    <3>3. \A p : Ran(done, p) <=> \E j \in 1..n : d[j].at = p
      BY <1>2, <1>3, Zenon DEF Ran
    <3> QED BY <1>0, <3>1, <3>2, <3>3, Zenon
  <2> QED BY <1>3, <1>4, <2>1, <2>2
<1>7. InOrder(d, bound)
  BY <1>6, Zenon DEF InOrder
<1> QED BY <1>3, <1>5, <1>7, Zenon DEF d

(* RowsInv, one run and the result at a time.                              *)
RunRows(u) ==
  /\ RowShapes(u) /\ InOrder(u.done, u.bound)
  /\ u.over # None => u.pc = "idle"
  /\ u.mode # None /\ u.over = None => Ahead(u) /\ Counted(u)
  /\ u.over = "end" => AllRan(u.done, u.bound)

ResultRows ==
  result.ended => /\ InOrder(result.done, result.bound) /\ AllRan(result.done, result.bound)
                  /\ \/ result.rows = result.truth
                     \/ result.rows = -1 /\ result.truth = 0

(* RowsInv says that of every run and of the result.                       *)
LEMMA RowsInvIs ==
  RowsInv <=> (\A r \in Runs : RunRows(run[r])) /\ ResultRows
BY Zenon DEF RowsInv, RowsRunOnceInOrder, RunRows, ResultRows, Live

(* A name nobody runs under.                                               *)
LEMMA NoRunRows ==
  RunRows(NoRun)
<1>1. /\ NoRun.mode = None /\ NoRun.over = None /\ NoRun.done = <<>> /\ NoRun.bound = <<>>
      /\ NoRun.batches = <<>> /\ NoRun.cur = <<>> /\ NoRun.row = -1 /\ NoRun.rows = 0
      /\ NoRun.truth = 0 /\ NoRun.cursor = NoCursor
  BY DEF NoRun
<1>2. NoCursor.total = 0
  BY DEF NoCursor
<1>3. RowShapes(NoRun)
  BY <1>1, <1>2 DEF RowShapes
<1>4. \A bound : InOrder(<<>>, bound)
  BY DEF InOrder
<1>5. None # "end"
  BY DEF None
<1> QED BY <1>1, <1>3, <1>4, <1>5, Zenon DEF RunRows

(* One run changes.                                                        *)
LEMMA OneRun ==
  ASSUME QwpInv, RowsInv, NEW r \in Runs, NEW u, RunRows(u), run' = [run EXCEPT ![r] = u],
         ResultRows'
  PROVE  RowsInv'
<1>1. DOMAIN run = Runs
  BY DEF QwpInv, Shapes
<1>2. \A s \in Runs : run'[s] = u \/ run'[s] = run[s]
  BY <1>1
<1>3. \A s \in Runs : RunRows(run'[s])
  BY <1>2, RowsInvIs, Zenon
<1>4. RowsInv' <=> (\A s \in Runs : RunRows(run'[s])) /\ ResultRows'
  BY Zenon DEF RowsInv, RowsRunOnceInOrder, RunRows, ResultRows, Live
<1> QED BY <1>3, <1>4

(* No run changes, and if the result does it does not speak of an end.     *)
LEMMA NoRunChanges ==
  ASSUME RowsInv, run' = run, result' = result \/ ~result'.ended
  PROVE  RowsInv'
<1>1. ResultRows'
  BY RowsInvIs DEF ResultRows
<1>2. \A s \in Runs : RunRows(run'[s])
  BY RowsInvIs
<1>3. RowsInv' <=> (\A s \in Runs : RunRows(run'[s])) /\ ResultRows'
  BY Zenon DEF RowsInv, RowsRunOnceInOrder, RunRows, ResultRows, Live
<1> QED BY <1>1, <1>2, <1>3

(* However the call into a run ends: only an end speaks of all rows.       *)
LEMMA ReturnedRows ==
  ASSUME QwpInv, RowsInv, NEW r \in Runs, NEW u, DOMAIN u = DOMAIN NoRun,
         u.mode # None, u.over = None, RowShapes(u), InOrder(u.done, u.bound), NEW status,
         status # None, status \in {"batch", "end"} => Ahead(u) /\ Counted(u),
         status = "end" => AllRan(u.done, u.bound) /\ u.truth = u.rows,
         Returned(r, u, status)
  PROVE  RowsInv'
<1>1. ResultRows'
  <2>1. CASE result' = result
    BY <2>1, RowsInvIs DEF ResultRows
  <2>2. CASE result' = [op |-> u.mode,
                        status |-> IF status \in {"batch", "end"} THEN "OK" ELSE status,
                        rows |-> IF status \in {"batch", "end"} /\ u.known THEN u.rows ELSE -1,
                        waited |-> FALSE, ended |-> (status = "end"),
                        bound |-> u.bound, done |-> u.done, truth |-> u.truth]
    <3> SUFFICES ASSUME result'.ended
                 PROVE  /\ InOrder(u.done, u.bound) /\ AllRan(u.done, u.bound)
                        /\ \/ result'.rows = u.truth
                           \/ result'.rows = -1 /\ u.truth = 0
      BY <2>2 DEF ResultRows
    <3>1. status = "end"
      BY <2>2
    <3>2. /\ AllRan(u.done, u.bound) /\ u.truth = u.rows
          /\ u.known \/ u.rows = 0
      BY <3>1 DEF Counted
    <3>3. result'.rows = IF u.known THEN u.rows ELSE -1
      BY <2>2, <3>1
    <3> QED BY <3>2, <3>3
  <2> QED BY <2>1, <2>2, Zenon DEF Returned
<1>2. CASE u.mode = "export" /\ status \in {"batch", "end"}
  <2> DEFINE v == [u EXCEPT !.mode = "stream", !.pc = "idle", !.first = (status = "batch")]
  <2>1. run' = [run EXCEPT ![r] = v]
    BY <1>2 DEF Returned
  <2>2. /\ SameRows(u, v) /\ SameCounts(u, v) /\ v.over = None /\ v.pc = "idle"
        /\ v.cursor = u.cursor
    BY RunFields DEF SameRows, SameCounts
  <2> HIDE DEF v
  <2>3. Ahead(v) /\ InOrder(v.done, v.bound) /\ RowShapes(v)
    BY <1>2, <2>2, RowsAlike
  <2>4. Counted(v)
    BY <1>2, <2>2 DEF Counted, SameCounts
  <2>5. None # "end"
    BY DEF None
  <2>6. RunRows(v)
    BY <2>2, <2>3, <2>4, <2>5, Zenon DEF RunRows
  <2> QED BY <1>1, <2>1, <2>6, OneRun
<1>3. CASE u.mode = "stream"
  <2> DEFINE v == [u EXCEPT !.pc = "idle", !.over = IF status = "batch" THEN None ELSE status]
  <2>1. run' = [run EXCEPT ![r] = v]
    BY <1>3 DEF Returned
  <2>2. /\ SameRows(u, v) /\ SameCounts(u, v) /\ v.pc = "idle" /\ v.cursor = u.cursor
        /\ v.over = IF status = "batch" THEN None ELSE status
    BY RunFields DEF SameRows, SameCounts
  <2> HIDE DEF v
  <2>3. /\ InOrder(v.done, v.bound) /\ RowShapes(v)
        /\ Ahead(u) => Ahead(v)
        /\ AllRan(u.done, u.bound) => AllRan(v.done, v.bound)
    BY <2>2, RowsAlike
  <2>4. Counted(u) => Counted(v)
    BY <2>2 DEF Counted, SameCounts
  <2>5. None # "end"
    BY DEF None
  <2>6. RunRows(v)
    BY <2>2, <2>3, <2>4, <2>5 DEF RunRows
  <2> QED BY <1>1, <2>1, <2>6, OneRun
<1>4. CASE u.mode # "stream" /\ ~(u.mode = "export" /\ status \in {"batch", "end"})
  <2>1. run' = [run EXCEPT ![r] = NoRun]
    BY <1>4 DEF Returned, RunFailed, RunFree
  <2> QED BY <1>1, <2>1, NoRunRows, OneRun
<1> QED BY <1>2, <1>3, <1>4

(* A run goes on.                                                          *)
LEMMA StaysRows ==
  ASSUME QwpInv, RowsInv, NEW r \in Runs, NEW u, RunRows(u), Stays(r, u)
  PROVE  RowsInv'
<1>1. run' = [run EXCEPT ![r] = u] /\ result' = result
  BY DEF Stays
<1>2. ResultRows'
  BY <1>1, RowsInvIs DEF ResultRows
<1> QED BY <1>1, <1>2, OneRun

(* A run that is at work, or a stream that is still read.                  *)
LEMMA RunAtWork ==
  ASSUME QwpInv, RowsInv, NEW r \in Runs,
         run[r].pc # "idle" \/ (run[r].mode = "stream" /\ run[r].over = None)
  PROVE  /\ DOMAIN run[r] = DOMAIN NoRun /\ run[r].mode # None /\ run[r].over = None
         /\ RowShapes(run[r]) /\ InOrder(run[r].done, run[r].bound)
         /\ Ahead(run[r]) /\ Counted(run[r])
<1>1. DOMAIN run[r] = DOMAIN NoRun /\ run[r].mode # None
  BY AtWork
<1>2. RunRows(run[r])
  BY RowsInvIs
<1> QED BY <1>1, <1>2 DEF RunRows

(* Looking at the cell.                                                    *)
LEMMA NextExecutionRows ==
  ASSUME QwpInv, RowsInv, NEW r \in Runs, NextExecution(r)
  PROVE  RowsInv'
<1> DEFINE u == run[r]
           v == [u EXCEPT !.pc = "start"]
<1>1. u.pc = "next" /\ (Returned(r, u, "CANCELLED") \/ Stays(r, v))
  BY DEF NextExecution, CheckCancel
<1>2. /\ DOMAIN u = DOMAIN NoRun /\ u.mode # None /\ u.over = None
      /\ RowShapes(u) /\ InOrder(u.done, u.bound) /\ Ahead(u) /\ Counted(u)
  BY <1>1, RunAtWork
<1>3. CASE Returned(r, u, "CANCELLED")
  <2>1. "CANCELLED" # None
    BY DEF None
  <2> QED BY <1>2, <1>3, <2>1, ReturnedRows
<1>4. CASE Stays(r, v)
  <2>1. /\ SameRows(u, v) /\ SameCounts(u, v) /\ v.over = None /\ v.pc = "start"
        /\ v.cursor = u.cursor
    BY <1>2, RunFields DEF SameRows, SameCounts
  <2> HIDE DEF v
  <2>2. Ahead(v) /\ InOrder(v.done, v.bound) /\ RowShapes(v)
    BY <1>2, <2>1, RowsAlike
  <2>3. Counted(v)
    BY <1>1, <1>2, <2>1 DEF Counted, SameCounts
  <2>4. None # "end"
    BY DEF None
  <2>5. RunRows(v)
    BY <2>1, <2>2, <2>3, <2>4, Zenon DEF RunRows
  <2> QED BY <1>4, <2>5, StaysRows
<1> QED BY <1>1, <1>3, <1>4

(* A statement without a binding is executed once, as if for one row.      *)
LEMMA OnePlace ==
  Places(<<<<0>>>>) = {<<1, 1>>}
<1>1. /\ <<<<0>>>> \in Seq(Seq(Nat)) /\ Len(<<<<0>>>>) = 1 /\ <<<<0>>>>[1] = <<0>>
      /\ Len(<<0>>) = 1
  OBVIOUS
<1> DEFINE b == <<<<0>>>>
<1> HIDE DEF b
<1>2. b \in Seq(Seq(Nat)) /\ Len(b) = 1 /\ Len(b[1]) = 1
  BY <1>1 DEF b
<1>3. <<1, 1>> \in Places(b)
  BY <1>2, PlaceShape
<1>4. ASSUME NEW p \in Places(b)
      PROVE  p = <<1, 1>>
  <2>1. /\ p = <<p[1], p[2]>> /\ p[1] \in 1..Len(b) /\ p[2] \in 1..Len(b[p[1]])
    BY <1>2, PlaceShape
  <2>2. p[1] = 1
    BY <1>2, <2>1
  <2>3. p[2] = 1
    <3>1. p[2] \in 1..1
      BY <1>2, <2>1, <2>2, Zenon
    <3> QED BY <3>1
  <2> QED BY <2>1, <2>2, <2>3
<1>5. Places(b) = {<<1, 1>>}
  BY <1>3, <1>4
<1> QED BY <1>5 DEF b

(* What a run that has come to the end has executed.                       *)
ComesToEnd(v) == Ahead(v) /\ AllRan(v.done, v.bound)

SameBinding(v, w) ==
  /\ w.bound = v.bound /\ w.batches = v.batches /\ w.cur = v.cur /\ w.row = v.row
  /\ w.hasBind = v.hasBind

(* A run with a binding comes to the end, or to a row such that executing  *)
(* it leaves the run ahead of its binding as before.                       *)
LEMMA BoundExecution ==
  ASSUME NEW u, DOMAIN u = DOMAIN NoRun, RowShapes(u), Ahead(u), u.hasBind,
         NEW v, v = NextBindRow(u)
  PROVE  /\ RowShapes(v) /\ v.done = u.done /\ v.bound = u.bound /\ v.cursor = u.cursor
         /\ v.rows = u.rows /\ v.known = u.known /\ v.truth = u.truth /\ v.over = u.over
         /\ v.cur = <<>> => ComesToEnd(v)
         /\ v.cur # <<>> =>
              /\ ComesToRow(v.done, v.bound, Place(v), v.cur[v.row + 1])
              /\ \A w : /\ SameBinding(v, w) /\ RowShapes(w)
                        /\ \A p : Ran(w.done, p) <=> Ran(v.done, p) \/ p = Place(v)
                        => Ahead(w)
<1>1. /\ v.bound = u.bound /\ v.done = u.done /\ v.hasBind = u.hasBind
      /\ v.started = u.started /\ v.cursor = u.cursor /\ v.rows = u.rows
      /\ v.known = u.known /\ v.truth = u.truth /\ v.over = u.over
      /\ v.cur \in Seq(Nat) /\ v.row \in Int /\ v.row >= -1
      /\ Left(u.bound, v.batches, Where(v))
      /\ \/ /\ v.cur = <<>> /\ Where(v) = Len(u.bound)
            /\ \A p \in Places(u.bound) : /\ PassedAt(Where(u), u.cur, u.row, p)
                                          /\ p[1] \in 1..Len(u.bound)
         \/ ComesTo(u.bound, Where(u), u.cur, u.row, Where(v), v.cur, v.row)
  BY NextRow
<1>2. RowShapes(v)
  BY <1>1 DEF RowShapes, Left
<1>3. \A p \in Places(v.bound) : Ran(v.done, p) <=> PassedAt(Where(u), u.cur, u.row, p)
  BY <1>1, AheadIs, Zenon
<1>4. Place(v) = <<Where(v), v.row + 1>>
  BY <1>1, <1>2, AheadIs
<1>5. ASSUME v.cur = <<>>
      PROVE  ComesToEnd(v)
  <2>1. /\ Where(v) = Len(u.bound)
        /\ \A p \in Places(v.bound) : PassedAt(Where(u), u.cur, u.row, p) /\ p[1] \in 1..Len(u.bound)
    BY <1>1, <1>5, Zenon DEF ComesTo
  <2>2. AllRan(v.done, v.bound)
    BY <1>3, <2>1, Zenon DEF AllRan
  <2>3. \A p \in Places(v.bound) : PassedAt(Where(v), v.cur, v.row, p)
    <3>1. TAKE p \in Places(v.bound)
    <3>2. p[1] \in 1..Where(v)
      BY <2>1, Zenon
    <3>3. Where(v) \in Nat
      <4>1. u.bound \in Seq(Seq(Nat))
        BY DEF RowShapes
      <4> QED BY <2>1, <4>1
    <3>4. p[1] < Where(v) \/ p[1] = Where(v)
      BY <3>2, <3>3
    <3> QED BY <1>5, <3>4, Zenon DEF PassedAt
  <2>4. AtRow(v.bound, Where(v), v.cur, v.row)
    BY <1>1, <1>5 DEF AtRow
  <2>5. Ahead(v)
    <3>1. \A p \in Places(v.bound) : Ran(v.done, p) <=> PassedAt(Where(v), v.cur, v.row, p)
      BY <2>2, <2>3, Zenon DEF AllRan
    <3> QED BY <1>1, <1>2, <2>4, <3>1, AheadIs, Zenon
  <2> QED BY <2>2, <2>5 DEF ComesToEnd
<1>6. ASSUME v.cur # <<>>
      PROVE  ComesTo(v.bound, Where(u), u.cur, u.row, Where(v), v.cur, v.row)
  BY <1>1, <1>6, Zenon
<1>7. ASSUME v.cur # <<>>
      PROVE  ComesToRow(v.done, v.bound, Place(v), v.cur[v.row + 1])
  <2>1. Place(v)[1] = Where(v) /\ Place(v)[2] = v.row + 1
    BY <1>4
  <2> QED BY <1>3, <1>4, <1>6, <1>7, <2>1, Zenon DEF ComesTo, ComesToRow
<1>8. ASSUME v.cur # <<>>, NEW w, SameBinding(v, w), RowShapes(w),
             \A p : Ran(w.done, p) <=> Ran(v.done, p) \/ p = Place(v)
      PROVE  Ahead(w)
  <2>1. Where(w) = Where(v) /\ w.hasBind
    BY <1>1, <1>8 DEF SameBinding, Where
  <2>2. Left(w.bound, w.batches, Where(w)) /\ AtRow(w.bound, Where(w), w.cur, w.row)
    BY <1>1, <1>6, <1>8, <2>1, Zenon DEF ComesTo, SameBinding
  <2>3. \A p \in Places(w.bound) : Ran(w.done, p) <=> PassedAt(Where(w), w.cur, w.row, p)
    BY <1>3, <1>4, <1>6, <1>8, <2>1, Zenon DEF ComesTo, SameBinding
  <2> QED BY <1>8, <2>1, <2>2, <2>3, AheadIs, Zenon
<1> QED BY <1>1, <1>2, <1>5, <1>7, <1>8, Zenon

(* The same for any statement: with a binding or without one.              *)
Came(u)    == IF u.hasBind THEN NextBindRow(u) ELSE u
CameEnd(u) == IF u.hasBind THEN NextBindRow(u).cur = <<>> ELSE u.started
CameRow(u) == IF u.hasBind THEN NextBindRow(u).cur[NextBindRow(u).row + 1] ELSE 0
CameAt(u)  == IF u.hasBind THEN Place(NextBindRow(u)) ELSE <<1, 1>>

SameTotals(u, v) ==
  /\ v.done = u.done /\ v.bound = u.bound /\ v.cursor = u.cursor /\ v.over = u.over
  /\ v.rows = u.rows /\ v.known = u.known /\ v.truth = u.truth

(* Came(u) is the run that Execute goes on with: it has come to the end,   *)
(* or to a row to execute, whether or not the statement has a binding.     *)
LEMMA AnyExecution ==
  ASSUME NEW u, DOMAIN u = DOMAIN NoRun, RowShapes(u), Ahead(u)
  PROVE  /\ RowShapes(Came(u)) /\ SameTotals(u, Came(u))
         /\ CameEnd(u) => ComesToEnd(Came(u))
         /\ ~CameEnd(u) =>
              /\ ComesToRow(u.done, u.bound, CameAt(u), CameRow(u))
              /\ \A w : /\ SameBinding(Came(u), w) /\ RowShapes(w) /\ w.started
                        /\ \A p : Ran(w.done, p) <=> Ran(u.done, p) \/ p = CameAt(u)
                        => Ahead(w)
<1> DEFINE v   == Came(u)
           row == CameRow(u)
           at  == CameAt(u)
           end == CameEnd(u)
<1>1. CASE u.hasBind
  <2>1. v = NextBindRow(u) /\ row = v.cur[v.row + 1] /\ at = Place(v) /\ (end <=> v.cur = <<>>)
    BY <1>1 DEF Came, CameRow, CameAt, CameEnd
  <2> HIDE DEF v, row, at, end
  <2>2. /\ RowShapes(v) /\ v.done = u.done /\ v.bound = u.bound /\ v.cursor = u.cursor
        /\ v.rows = u.rows /\ v.known = u.known /\ v.truth = u.truth /\ v.over = u.over
        /\ v.cur = <<>> => ComesToEnd(v)
        /\ v.cur # <<>> =>
             /\ ComesToRow(v.done, v.bound, Place(v), v.cur[v.row + 1])
             /\ \A w : /\ SameBinding(v, w) /\ RowShapes(w)
                       /\ \A p : Ran(w.done, p) <=> Ran(v.done, p) \/ p = Place(v)
                       => Ahead(w)
    BY <1>1, <2>1, BoundExecution, Zenon
  <2>3. SameTotals(u, v)
    BY <2>2 DEF SameTotals
  <2>4. /\ end => ComesToEnd(v)
        /\ ~end => /\ ComesToRow(u.done, u.bound, at, row)
                   /\ \A w : /\ SameBinding(v, w) /\ RowShapes(w) /\ w.started
                             /\ \A p : Ran(w.done, p) <=> Ran(u.done, p) \/ p = at
                             => Ahead(w)
    BY <2>1, <2>2, Zenon
  <2> QED BY <2>2, <2>3, <2>4, Zenon DEF v, row, at, end
<1>2. CASE ~u.hasBind
  <2>1. v = u /\ row = 0 /\ at = <<1, 1>> /\ (end <=> u.started)
    BY <1>2 DEF Came, CameRow, CameAt, CameEnd
  <2> HIDE DEF v, row, at, end
  <2>2. u.bound = <<<<0>>>> /\ (Ran(u.done, <<1, 1>>) <=> u.started)
    BY <1>2 DEF Ahead
  <2>3. Places(u.bound) = {<<1, 1>>}
    BY <2>2, OnePlace
  <2>4. ASSUME end
        PROVE  ComesToEnd(v)
    BY <2>1, <2>2, <2>3, <2>4 DEF ComesToEnd, AllRan
  <2>5. ASSUME ~end
        PROVE  ComesToRow(u.done, u.bound, at, row)
    <3>1. ~Precedes(<<1, 1>>, <<1, 1>>)
      BY DEF Precedes
    <3>2. at[1] = 1 /\ at[2] = 1 /\ u.bound[1] = <<0>> /\ u.bound[1][1] = 0
      BY <2>1, <2>2
    <3>3. at \in Nat \X Nat /\ row \in Nat
      BY <2>1
    <3>4. ~Ran(u.done, at)
      BY <2>1, <2>2, <2>5
    <3>5. \A p \in Places(u.bound) : Precedes(p, at) <=> Ran(u.done, p)
      BY <2>1, <2>3, <3>1, <3>4
    <3>6. at \in Places(u.bound) /\ row = u.bound[at[1]][at[2]]
      BY <2>1, <2>3, <3>2
    <3> QED BY <3>3, <3>5, <3>6 DEF ComesToRow
  <2>6. ASSUME NEW w, SameBinding(v, w), w.started,
               \A p : Ran(w.done, p) <=> Ran(u.done, p) \/ p = at
        PROVE  Ahead(w)
    <3>1. w.bound = <<<<0>>>> /\ ~w.hasBind
      BY <1>2, <2>1, <2>2, <2>6, Zenon DEF SameBinding
    <3>2. Ran(w.done, <<1, 1>>) <=> w.started
      BY <2>1, <2>6, Zenon
    <3> QED BY <3>1, <3>2 DEF Ahead
  <2>7. SameTotals(u, v) /\ RowShapes(v)
    BY <2>1 DEF SameTotals
  <2> QED BY <2>4, <2>5, <2>6, <2>7, Zenon DEF v, row, at, end
<1> QED BY <1>1, <1>2

(* What a cursor counts.                                                   *)
LEMMA CursorShape ==
  ASSUME NEW sql, NEW c \in Cursors(sql)
  PROVE  DOMAIN c = DOMAIN NoCursor /\ c.total \in Int
<1>1. DOMAIN NoCursor = {"left", "kind", "total"}
  BY DEF NoCursor
<1>2. CASE c \in {[left |-> 0, kind |-> "dml", total |-> n] : n \in {-1, 1}}
  BY <1>1, <1>2
<1>3. CASE c \in {[left |-> n, kind |-> "select", total |-> n] : n \in 0..MaxBatches}
  BY <1>1, <1>3
<1> QED BY <1>2, <1>3 DEF Cursors

(* An execution: with the next bound row, the end of them or an error.     *)
LEMMA ExecuteRows ==
  ASSUME QwpInv, RowsInv, NEW r \in Runs, Execute(r)
  PROVE  RowsInv'
<1> DEFINE x   == run[r]
           v   == Came(x)
           end == CameEnd(x)
           row == CameRow(x)
           at  == CameAt(x)
           w(c) == [v EXCEPT !.pc = "fetch", !.started = TRUE, !.cursor = c,
                             !.done = Append(@, [at |-> at, row |-> row]),
                             !.late = @ + (IF v.cut THEN 1 ELSE 0),
                             !.truth = @ + (IF c.total < 0 THEN 0 ELSE c.total)]
<1>1. /\ x.pc = "start"
      /\ \/ end /\ Returned(r, v, "end")
         \/ ~end /\ \E c \in Cursors(v.sql) : Stays(r, w(c))
         \/ \E code \in Errors : Returned(r, v, StatusFor(code))
  BY Zenon DEF Execute, Came, CameEnd, CameRow, CameAt
<1>2. /\ DOMAIN x = DOMAIN NoRun /\ x.mode # None /\ x.over = None
      /\ RowShapes(x) /\ InOrder(x.done, x.bound) /\ Ahead(x) /\ Counted(x)
  BY <1>1, RunAtWork
<1>3. /\ RowShapes(v) /\ SameTotals(x, v)
      /\ end => ComesToEnd(v)
      /\ ~end =>
           /\ ComesToRow(x.done, x.bound, at, row)
           /\ \A y : /\ SameBinding(v, y) /\ RowShapes(y) /\ y.started
                     /\ \A p : Ran(y.done, p) <=> Ran(x.done, p) \/ p = at
                     => Ahead(y)
  BY <1>2, AnyExecution, Zenon
<1>4. DOMAIN v = DOMAIN NoRun /\ v.mode # None /\ v.pc = "start"
  BY <1>1, <1>2, RowsKeepTheRest DEF Came
<1> HIDE DEF v, end, row, at
<1>5. InOrder(v.done, v.bound) /\ v.over = None /\ v.done = x.done /\ v.bound = x.bound
  BY <1>2, <1>3 DEF SameTotals
<1>6. v.cursor = NoCursor /\ v.truth = v.rows /\ v.truth \in Int /\ (v.known \/ v.rows = 0)
  <2>1. v.cursor = NoCursor /\ (v.known \/ v.rows = 0) /\ v.truth = v.rows + 0
    <3>1. x.cursor = NoCursor /\ (x.known \/ x.rows = 0)
      BY <1>1, <1>2 DEF Counted
    <3>2. x.cursor.total = 0
      BY <3>1 DEF NoCursor
    <3>3. x.truth = x.rows + 0
      BY <1>2, <3>2 DEF Counted
    <3> QED BY <1>3, <3>1, <3>3 DEF SameTotals
  <2>2. v.truth \in Int /\ v.rows \in Int
    BY <1>3 DEF RowShapes
  <2> QED BY <2>1, <2>2
<1>7. Counted(v)
  <2>1. NoCursor.total = 0
    BY DEF NoCursor
  <2>2. v.truth = v.rows + 0
    BY <1>6
  <2> QED BY <1>6, <2>1, <2>2 DEF Counted
<1>8. CASE end /\ Returned(r, v, "end")
  <2>1. Ahead(v) /\ AllRan(v.done, v.bound)
    BY <1>3, <1>8 DEF ComesToEnd
  <2>2. "end" # None
    BY DEF None
  <2> QED BY <1>3, <1>4, <1>5, <1>6, <1>7, <1>8, <2>1, <2>2, ReturnedRows
<1>9. ASSUME NEW code \in Errors, Returned(r, v, StatusFor(code))
      PROVE  RowsInv'
  <2>1. StatusFor(code) \notin {"end", "batch", None}
    BY ErrorsAreNotOK
  <2> DEFINE s == StatusFor(code)
  <2> HIDE DEF s
  <2>2. s # None /\ s # "end" /\ s # "batch" /\ Returned(r, v, s)
    BY <1>9, <2>1 DEF s
  <2> QED BY <1>3, <1>4, <1>5, <2>2, ReturnedRows
<1>10. ASSUME ~end, NEW c \in Cursors(v.sql), Stays(r, w(c))
       PROVE  RowsInv'
  <2> DEFINE d == Append(v.done, [at |-> at, row |-> row])
             y == w(c)
             n == IF c.total < 0 THEN 0 ELSE c.total
  <2>1. DOMAIN c = DOMAIN NoCursor /\ c.total \in Int
    BY CursorShape
  <2>2. /\ y.done = d /\ SameBinding(v, y) /\ y.started = TRUE /\ y.cursor = c
        /\ y.truth = v.truth + n /\ y.rows = v.rows /\ y.known = v.known
        /\ y.over = v.over /\ y.pc = "fetch"
    BY <1>4, RunFields DEF SameBinding
  <2>3. Stays(r, y)
    BY <1>10
  <2>4. n \in Int
    BY <2>1
  <2> HIDE DEF y, d, n
  <2>5. /\ d \in Seq(Executed) /\ InOrder(d, v.bound)
        /\ \A p : Ran(d, p) <=> Ran(v.done, p) \/ p = at
    <3>1. v.done \in Seq(Executed)
      BY <1>3 DEF RowShapes, Executed
    <3>2. ComesToRow(v.done, v.bound, at, row)
      BY <1>3, <1>5, <1>10, Zenon
    <3> QED BY <1>5, <3>1, <3>2, OneMoreRow, Zenon DEF d
  <2>6. RowShapes(y)
    BY <1>3, <1>6, <2>1, <2>2, <2>4, <2>5 DEF RowShapes, SameBinding, Executed
  <2>7. Ahead(y)
    BY <1>3, <1>5, <1>10, <2>2, <2>5, <2>6, Zenon
  <2>8. Counted(y)
    <3>1. y.truth = y.rows + n /\ (y.known \/ y.rows = 0) /\ y.pc \notin {"next", "start"}
      BY <1>6, <2>2
    <3> QED BY <2>2, <3>1 DEF Counted, n
  <2>9. None # "end"
    BY DEF None
  <2>10. InOrder(y.done, y.bound)
    BY <2>2, <2>5 DEF SameBinding
  <2>11. RunRows(y)
    BY <1>5, <2>2, <2>6, <2>7, <2>8, <2>9, <2>10, Zenon DEF RunRows
  <2> QED BY <2>3, <2>11, StaysRows
<1> QED BY <1>1, <1>8, <1>9, <1>10

(* A run whose rows do not move, with totals that are still the server's.  *)
LEMMA GoesOn ==
  ASSUME QwpInv, RowsInv, NEW r \in Runs, NEW u, RowShapes(u), InOrder(u.done, u.bound),
         Ahead(u), NEW v, SameRows(u, v), RowShapes(v), v.over = None, Counted(v), Stays(r, v)
  PROVE  RowsInv'
<1>1. Ahead(v) /\ InOrder(v.done, v.bound)
  BY RowsAlike
<1>2. None # "end"
  BY DEF None
<1>3. RunRows(v)
  BY <1>1, <1>2, Zenon DEF RunRows
<1> QED BY <1>3, StaysRows

(* The batches of a cursor, its end or an error.                           *)
LEMMA FetchRows ==
  ASSUME QwpInv, RowsInv, NEW r \in Runs, Fetch(r)
  PROVE  RowsInv'
<1> DEFINE u == run[r]
           v == [u EXCEPT !.cursor.left = @ - 1]
           w == [Account(u) EXCEPT !.pc = "next", !.cursor = NoCursor]
<1>1. /\ u.pc = "fetch"
      /\ \/ Returned(r, u, "CANCELLED") \/ Returned(r, v, "CANCELLED")
         \/ Returned(r, v, "batch") \/ Stays(r, v) \/ Stays(r, w)
         \/ \E code \in Errors : Returned(r, u, StatusFor(code))
  BY DEF Fetch
<1>2. /\ DOMAIN u = DOMAIN NoRun /\ u.mode # None /\ u.over = None
      /\ RowShapes(u) /\ InOrder(u.done, u.bound) /\ Ahead(u) /\ Counted(u)
  BY <1>1, RunAtWork
<1>3. /\ SameRows(u, v) /\ SameCounts(u, v) /\ v.over = None /\ v.pc = "fetch"
      /\ DOMAIN v = DOMAIN NoRun /\ v.mode # None
  <2>1. DOMAIN u.cursor = {"left", "kind", "total"}
    BY <1>2 DEF RowShapes, NoCursor
  <2>2. v.cursor = [u.cursor EXCEPT !.left = @ - 1]
    BY <1>2, RunFields
  <2>3. v.cursor.total = u.cursor.total /\ DOMAIN v.cursor = DOMAIN u.cursor
    BY <2>1, <2>2
  <2>4. SameRows(u, v)
    BY <1>2, RunFields DEF SameRows
  <2>5. /\ v.rows = u.rows /\ v.truth = u.truth /\ v.known = u.known /\ v.over = u.over
        /\ v.pc = u.pc /\ DOMAIN v = DOMAIN NoRun /\ v.mode = u.mode
    BY <1>2, RunFields
  <2> QED BY <1>1, <1>2, <2>3, <2>4, <2>5 DEF SameCounts
<1>4. /\ SameRows(u, w) /\ w.over = None /\ w.pc = "next" /\ w.cursor = NoCursor
      /\ w.truth = u.truth
      /\ \/ u.cursor.total < 0 /\ w.rows = u.rows /\ w.known = u.known
         \/ ~(u.cursor.total < 0) /\ w.rows = u.rows + u.cursor.total /\ w.known
  <2>1. CASE u.cursor.total < 0
    <3>1. Account(u) = u
      BY <2>1 DEF Account
    <3> QED BY <1>2, <2>1, <3>1, RunFields DEF SameRows
  <2>2. CASE ~(u.cursor.total < 0)
    <3>1. Account(u) = [u EXCEPT !.rows = @ + u.cursor.total, !.known = TRUE]
      BY <2>2 DEF Account
    <3> QED BY <1>2, <2>2, <3>1, RunFields DEF SameRows
  <2> QED BY <2>1, <2>2
<1> HIDE DEF v, w
<1>5. Ahead(v) /\ InOrder(v.done, v.bound) /\ RowShapes(v)
  BY <1>2, <1>3, RowsAlike
<1>6. Counted(v)
  BY <1>2, <1>3 DEF Counted, SameCounts
<1>7. RowShapes(w) /\ Counted(w)
  <2>1. /\ NoCursor.total = 0 /\ NoCursor.total \in Int
    BY DEF NoCursor
  <2>2. u.rows \in Int /\ u.truth \in Int /\ u.cursor.total \in Int
    BY <1>2 DEF RowShapes
  <2>3. w.rows \in Int /\ w.truth \in Int
    BY <1>4, <2>2
  <2>4. RowShapes(w)
    BY <1>2, <1>4, <2>1, <2>3 DEF RowShapes, SameRows
  <2>5. w.truth = w.rows + 0 /\ (w.known \/ w.rows = 0)
    <3>1. CASE u.cursor.total < 0
      <4>1. u.truth = u.rows + 0 /\ (u.known \/ u.rows = 0)
        BY <1>2, <3>1 DEF Counted
      <4> QED BY <1>4, <2>2, <3>1, <4>1
    <3>2. CASE ~(u.cursor.total < 0)
      <4>1. u.truth = u.rows + u.cursor.total
        BY <1>2, <3>2 DEF Counted
      <4>2. w.rows = u.truth /\ w.known
        BY <1>4, <3>2, <4>1
      <4> QED BY <1>4, <2>2, <4>2
    <3> QED BY <3>1, <3>2
  <2>6. Counted(w)
    BY <1>4, <2>1, <2>5 DEF Counted
  <2> QED BY <2>4, <2>6
<1>8. CASE Stays(r, v)
  BY <1>2, <1>3, <1>5, <1>6, <1>8, GoesOn
<1>9. CASE Stays(r, w)
  BY <1>2, <1>4, <1>7, <1>9, GoesOn
<1>10. "CANCELLED" # None /\ "batch" # None
  BY DEF None
<1>11. CASE Returned(r, u, "CANCELLED")
  BY <1>2, <1>10, <1>11, ReturnedRows
<1>12. CASE Returned(r, v, "CANCELLED")
  BY <1>3, <1>5, <1>10, <1>12, ReturnedRows
<1>13. CASE Returned(r, v, "batch")
  BY <1>3, <1>5, <1>6, <1>10, <1>13, ReturnedRows
<1>14. ASSUME NEW code \in Errors, Returned(r, u, StatusFor(code))
       PROVE  RowsInv'
  <2> DEFINE s == StatusFor(code)
  <2> HIDE DEF s
  <2>1. s # None /\ s # "end" /\ s # "batch" /\ Returned(r, u, s)
    BY <1>14, ErrorsAreNotOK DEF s
  <2> QED BY <1>2, <2>1, ReturnedRows
<1> QED BY <1>1, <1>8, <1>9, <1>11, <1>12, <1>13, <1>14

(* The reader of a stream asks for more, or is done with it.               *)
LEMMA StreamRows ==
  ASSUME QwpInv, RowsInv, NEW r \in Runs, StreamGetNext(r) \/ StreamRelease(r)
  PROVE  RowsInv'
<1>1. CASE StreamGetNext(r)
  <2> DEFINE u == run[r]
             v == [u EXCEPT !.first = FALSE]
             w == [u EXCEPT !.pc = IF u.cursor = NoCursor THEN "next" ELSE "fetch"]
  <2>1. u.mode = "stream" /\ u.pc = "idle" /\ u.over = None /\ (Stays(r, v) \/ Stays(r, w))
    BY <1>1 DEF StreamGetNext
  <2>2. /\ DOMAIN u = DOMAIN NoRun /\ u.mode # None /\ u.over = None
        /\ RowShapes(u) /\ InOrder(u.done, u.bound) /\ Ahead(u) /\ Counted(u)
    BY <2>1, RunAtWork
  <2>3. \A y \in {v, w} : /\ SameRows(u, y) /\ SameCounts(u, y) /\ y.over = None
                          /\ y.cursor = u.cursor
                          /\ y.pc \in {"next", "start"} => u.cursor = NoCursor
    BY <2>1, <2>2, RunFields DEF SameRows, SameCounts
  <2> HIDE DEF v, w
  <2>4. PICK y \in {v, w} : Stays(r, y)
    BY <2>1
  <2>5. Counted(y)
    BY <2>2, <2>3 DEF Counted, SameCounts
  <2>6. RowShapes(y)
    BY <2>2, <2>3, RowsAlike
  <2> QED BY <2>2, <2>3, <2>4, <2>5, <2>6, GoesOn
<1>2. CASE StreamRelease(r)
  <2>1. run' = [run EXCEPT ![r] = NoRun] /\ result' = result
    BY <1>2 DEF StreamRelease, RunFree
  <2>2. ResultRows'
    BY <2>1, RowsInvIs DEF ResultRows
  <2> QED BY <2>1, <2>2, NoRunRows, OneRun
<1> QED BY <1>1, <1>2

(* All runs change, each to one whose rows are as they should be.          *)
LEMMA AllRuns ==
  ASSUME RowsInv, \A r \in Runs : RunRows(run'[r]), result' = result \/ ~result'.ended
  PROVE  RowsInv'
<1>1. ResultRows'
  BY RowsInvIs DEF ResultRows
<1>2. RowsInv' <=> (\A s \in Runs : RunRows(run'[s])) /\ ResultRows'
  BY Zenon DEF RowsInv, RowsRunOnceInOrder, RunRows, ResultRows, Live
<1> QED BY <1>1, <1>2

(* The rows a new run is bound to are the ones it is to run.               *)
BoundAll(u) == IF u.hasBind THEN u.bound = u.batches ELSE u.bound = <<<<0>>>>

(* A new run has everything it is bound to before it.                      *)
LEMMA NewRunAhead ==
  ASSUME NEW u, RowShapes(u), u.cur = <<>>, u.row = -1, u.done = <<>>, ~u.started,
         BoundAll(u)
  PROVE  Ahead(u)
<1>1. \A p : ~Ran(u.done, p)
  BY DEF Ran
<1>2. CASE u.hasBind
  <2>1. u.bound \in Seq(Seq(Nat)) /\ u.batches = u.bound
    BY <1>2 DEF RowShapes, BoundAll
  <2>2. Len(u.bound) \in Nat /\ DOMAIN u.bound = 1..Len(u.bound)
    BY <2>1
  <2>3. Where(u) = 0
    BY <2>1, <2>2 DEF Where
  <2>4. Left(u.bound, u.batches, Where(u))
    BY <2>1, <2>2, <2>3 DEF Left
  <2>5. AtRow(u.bound, Where(u), u.cur, u.row)
    BY DEF AtRow
  <2>6. ASSUME NEW p \in Places(u.bound)
        PROVE  ~PassedAt(Where(u), u.cur, u.row, p)
    <3>1. p[1] \in 1..Len(u.bound)
      BY <2>1, PlaceShape
    <3>2. ~(p[1] < 0) /\ p[1] # 0
      BY <2>2, <3>1
    <3> QED BY <2>3, <3>2, Zenon DEF PassedAt
  <2> QED BY <1>1, <1>2, <2>4, <2>5, <2>6, AheadIs, Zenon
<1>3. CASE ~u.hasBind
  BY <1>1, <1>3 DEF Ahead, BoundAll
<1> QED BY <1>2, <1>3

(* A run begins, or finds no reader.                                       *)
LEMMA BeginRunRows ==
  ASSUME QwpInv, RowsInv, BeginRun
  PROVE  RowsInv'
<1> DEFINE r == CHOOSE x \in Runs : ~Live(x)
           d == CHOOSE x \in Readers : x \notin lent
           u == [NoRun EXCEPT
                   !.mode = call.op, !.pc = "next", !.sql = stmt.sql, !.reader = d,
                   !.hasBind = stmt.hasBind, !.batches = stmt.bind,
                   !.bound = IF stmt.hasBind THEN stmt.bind ELSE <<<<0>>>>,
                   !.cut = cell.cancelled]
<1>1. RunNew(call.op)
  BY DEF BeginRun
<1>2. r \in Runs
  BY <1>1 DEF RunNew
<1>3. \/ run' = [run EXCEPT ![r] = u] /\ result' = result
      \/ /\ run' = run
         /\ \E code : result' = [NoResult EXCEPT !.op = call.op, !.status = StatusFor(code)]
  BY <1>1 DEF RunNew
<1>4. /\ u.batches = stmt.bind /\ u.hasBind = stmt.hasBind /\ u.cur = <<>> /\ u.row = -1
      /\ u.bound = IF stmt.hasBind THEN stmt.bind ELSE <<<<0>>>>
      /\ u.done = <<>> /\ u.started = FALSE /\ u.over = None /\ u.pc = "next" /\ u.rows = 0
      /\ u.truth = 0 /\ u.cursor = NoCursor
  BY DEF NoRun
<1> HIDE DEF u, r, d
<1>5. CASE run' = [run EXCEPT ![r] = u] /\ result' = result
  <2>1. stmt.bind \in Seq(Seq(Nat))
    BY DEF QwpInv, Shapes
  <2>2. u.bound \in Seq(Seq(Nat))
    <3>1. <<<<0>>>> \in Seq(Seq(Nat))
      OBVIOUS
    <3> QED BY <1>4, <2>1, <3>1
  <2>3. NoCursor.total = 0
    BY DEF NoCursor
  <2>4. RowShapes(u)
    BY <1>4, <2>1, <2>2, <2>3 DEF RowShapes
  <2>5. Ahead(u)
    <3>1. BoundAll(u)
      BY <1>4, Zenon DEF BoundAll
    <3> QED BY <1>4, <2>4, <3>1, NewRunAhead
  <2>6. Counted(u)
    BY <1>4, <2>3 DEF Counted
  <2>7. InOrder(u.done, u.bound)
    BY <1>4 DEF InOrder
  <2>8. None # "end"
    BY DEF None
  <2>9. RunRows(u)
    BY <1>4, <2>4, <2>5, <2>6, <2>7, <2>8, Zenon DEF RunRows
  <2>10. ResultRows'
    BY <1>5, RowsInvIs DEF ResultRows
  <2> QED BY <1>2, <1>5, <2>9, <2>10, OneRun
<1>6. CASE /\ run' = run
           /\ \E code : result' = [NoResult EXCEPT !.op = call.op, !.status = StatusFor(code)]
  <2>1. ~result'.ended
    BY <1>6 DEF NoResult
  <2> QED BY <1>6, <2>1, NoRunChanges
<1> QED BY <1>3, <1>5, <1>6

(* Executing again ends the earlier results.                               *)
LEMMA BeginExecuteRows ==
  ASSUME QwpInv, RowsInv, BeginExecute
  PROVE  RowsInv'
<1>1. run' = [r \in Runs |-> IF ~Live(r) THEN NoRun
                              ELSE [NoRun EXCEPT !.mode = run[r].mode, !.reader = run[r].reader,
                                                 !.over = "superseded"]]
  BY DEF BeginExecute
<1>2. ~result'.ended
  <2>1. \/ result' = NoResult
        \/ \E op : result' = [NoResult EXCEPT !.op = op, !.status = "INVALID_STATE"]
    BY DEF BeginExecute
  <2>2. /\ ~NoResult.ended
        /\ \A op : ~[NoResult EXCEPT !.op = op, !.status = "INVALID_STATE"].ended
    BY DEF NoResult
  <2> QED BY <2>1, <2>2, Zenon
<1>3. ASSUME NEW r \in Runs
      PROVE  RunRows(run'[r])
  <2>1. CASE ~Live(r)
    BY <1>1, <2>1, NoRunRows
  <2>2. CASE Live(r)
    <3> DEFINE u == [NoRun EXCEPT !.mode = run[r].mode, !.reader = run[r].reader,
                                  !.over = "superseded"]
    <3>1. run'[r] = u
      BY <1>1, <2>2
    <3>2. /\ SameRows(NoRun, u) /\ SameCounts(NoRun, u) /\ u.over = "superseded"
          /\ u.pc = "idle"
      BY DEF NoRun, SameRows, SameCounts
    <3> HIDE DEF u
    <3>3. RowShapes(NoRun) /\ InOrder(NoRun.done, NoRun.bound)
      BY NoRunRows DEF RunRows
    <3>4. RowShapes(u) /\ InOrder(u.done, u.bound)
      BY <3>2, <3>3, RowsAlike
    <3>5. u.over # None /\ u.over # "end"
      BY <3>2 DEF None
    <3>6. RunRows(u)
      BY <3>2, <3>4, <3>5, Zenon DEF RunRows
    <3> QED BY <3>1, <3>6
  <2> QED BY <2>1, <2>2
<1> QED BY <1>2, <1>3, AllRuns

(* Cancelling marks the runs, and nothing of their rows.                   *)
LEMMA StatementCancelRows ==
  ASSUME QwpInv, RowsInv, StatementCancel
  PROVE  RowsInv'
<1>1. run' = [r \in Runs |-> [run[r] EXCEPT !.cut = Live(r)]] /\ result' = result
  BY DEF StatementCancel
<1>2. ASSUME NEW r \in Runs
      PROVE  RunRows(run'[r])
  <2> DEFINE u == run[r]
             v == [u EXCEPT !.cut = Live(r)]
  <2>1. run'[r] = v
    BY <1>1
  <2>2. DOMAIN u = DOMAIN NoRun
    BY DEF QwpInv, Shapes
  <2>3. /\ SameRows(u, v) /\ SameCounts(u, v) /\ v.over = u.over /\ v.pc = u.pc
        /\ v.mode = u.mode /\ v.cursor = u.cursor
    BY <2>2, RunFields DEF SameRows, SameCounts
  <2> HIDE DEF v
  <2>4. RunRows(u)
    BY RowsInvIs
  <2>5. /\ Ahead(u) => Ahead(v)
        /\ InOrder(u.done, u.bound) => InOrder(v.done, v.bound)
        /\ AllRan(u.done, u.bound) => AllRan(v.done, v.bound)
        /\ RowShapes(u) => RowShapes(v)
    BY <2>3, RowsAlike
  <2>6. Counted(u) => Counted(v)
    BY <2>3 DEF Counted, SameCounts
  <2>7. RunRows(v)
    BY <2>3, <2>4, <2>5, <2>6, Zenon DEF RunRows
  <2> QED BY <2>1, <2>7
<1> QED BY <1>1, <1>2, AllRuns

(* The setters, the ingest and the server leave the runs alone.            *)
LEMMA OtherStepsRows ==
  ASSUME RowsInv,
         \/ DatabaseInit \/ ConnectionInit \/ StatementNew \/ StatementRelease
         \/ SetSqlQuery \/ SetTarget \/ SetIngestOptions \/ Bind
         \/ IngestStep \/ Server \/ UNCHANGED vars
  PROVE  RowsInv'
<1>1. NoResult.ended = FALSE
  BY DEF NoResult
<1>2. ASSUME NEW status, IngestReturn(status) \/ Failing(status)
      PROVE  ~result'.ended
  BY <1>2 DEF IngestReturn, Failing, NoResult
<1>3. run' = run
  BY DEF DatabaseInit, ConnectionInit, StatementNew, StatementRelease, SetSqlQuery, SetTarget,
         SetIngestOptions, Bind, Forgotten, IngestStep, FindTable, DropTable, Plan, CreateTable,
         SendBatch, WaitForApply, Sleep, Server, Apply, OtherCreates, OtherWrites,
         OthersBorrow, OthersReturn, vars
<1>4. result' = result \/ ~result'.ended
  <2>1. CASE \/ DatabaseInit \/ ConnectionInit \/ StatementNew \/ StatementRelease \/ Server
             \/ UNCHANGED vars
    BY <2>1 DEF DatabaseInit, ConnectionInit, StatementNew, StatementRelease,
                Server, Apply, OtherCreates, OtherWrites, OthersBorrow, OthersReturn, vars
  <2>2. CASE SetSqlQuery \/ SetTarget \/ SetIngestOptions \/ Bind
    BY <1>1, <2>2 DEF SetSqlQuery, SetTarget, SetIngestOptions, Bind, Forgotten
  <2>3. CASE FindTable
    BY <1>2, <2>3 DEF FindTable, Queries, ClientError
  <2>4. CASE DropTable \/ CreateTable
    BY <1>2, <2>4 DEF DropTable, CreateTable, Queries, ClientError
  <2>5. CASE Plan
    BY <1>2, <2>5 DEF Plan
  <2>6. CASE SendBatch
    BY <1>2, <2>6 DEF SendBatch, Go, ClientError
  <2>7. CASE WaitForApply
    BY <1>2, <2>7 DEF WaitForApply, Queries, ClientError, Go
  <2>8. CASE Sleep
    BY <2>8 DEF Sleep
  <2> QED BY <2>1, <2>2, <2>3, <2>4, <2>5, <2>6, <2>7, <2>8 DEF IngestStep
<1> QED BY <1>3, <1>4, NoRunChanges

(* A run has always executed what it has passed of its binding.            *)
THEOREM RowsAlways ==
  Spec => []RowsInv
<1>1. Init => RowsInv
  <2> SUFFICES ASSUME Init PROVE RowsInv
    OBVIOUS
  <2>1. \A r \in Runs : run[r] = NoRun
    BY DEF Init
  <2>2. ~result.ended
    BY DEF Init, NoResult
  <2>3. ResultRows
    BY <2>2 DEF ResultRows
  <2> QED BY <2>1, <2>3, NoRunRows, RowsInvIs
<1>2. QwpInv /\ RowsInv /\ [Next]_vars => RowsInv'
  <2> SUFFICES ASSUME QwpInv, RowsInv, [Next]_vars PROVE RowsInv'
    OBVIOUS
  <2>1. CASE Caller
    BY <2>1, BeginExecuteRows, StatementCancelRows, OtherStepsRows DEF Caller
  <2>2. CASE BeginRun
    BY <2>2, BeginRunRows
  <2>3. CASE IngestStep \/ Server \/ UNCHANGED vars
    BY <2>3, OtherStepsRows
  <2>4. ASSUME NEW r \in Runs, RunStep(r) \/ StreamGetNext(r) \/ StreamRelease(r)
        PROVE  RowsInv'
    BY <2>4, NextExecutionRows, ExecuteRows, FetchRows, StreamRows DEF RunStep
  <2> QED BY <2>1, <2>2, <2>3, <2>4 DEF Next
<1> QED BY <1>1, <1>2, QwpAlways, PTL DEF Spec

(* However the bound rows are cut into batches they are executed in order  *)
(* and once each; a run that reports its end has executed all of them and  *)
(* reports the server's total, or -1 if the server counted nothing.        *)
THEOREM RowsRunOnceInOrderAlways ==
  Spec => []RowsRunOnceInOrder
<1>1. RowsInv => RowsRunOnceInOrder
  BY DEF RowsInv
<1> QED BY <1>1, RowsAlways, PTL
=============================================================================
