--------------------------- MODULE ParallelIngest ---------------------------
(***************************************************************************)
(* IngestParallel of odbc_bind.c: the calling thread pumps the bound       *)
(* stream into a bounded queue, cutting long batches into slices that      *)
(* share the batch's buffers; each worker ingests what it pops over a      *)
(* connection, and in a transaction, of its own.  The first failure trips  *)
(* the queue, and the workers that fail because of it are "collateral".    *)
(*                                                                         *)
(* A critical section of the queue is one step.  A thread in OdbcCondWait  *)
(* is in a waiting state until it is signalled.                            *)
(***************************************************************************)
EXTENDS Naturals, Sequences, FiniteSets, FiniteSetsExt

CONSTANTS NConn,       \* stmt->ingest_connections
          Cap,         \* slots of the queue
          Slices,      \* Slices[b]: how many slices batch b of the stream is cut into
          Lone,        \* the slices that hold a single row
          MayRunOut    \* whether the pump's allocations may fail

Workers == 1..NConn
Batches == DOMAIN Slices

ASSUME ParallelAssumption ==
  /\ NConn \in Nat \ {0} /\ Cap \in Nat \ {0}
  /\ Slices \in Seq(Nat \ {0})
  /\ Lone \subseteq Batches \X (Nat \ {0})
  /\ MayRunOut \in BOOLEAN

(* A slice is <<batch, number>>; a batch queued whole is its only slice.   *)
Items == UNION {{b} \X (1..Slices[b]) : b \in Batches}

VARIABLES
  queue, qdone, qfailed,          \* IngestQueue
  ppc, started, batch, slice,     \* the pump: IngestParallel
  status, blame, total,           \* ... and what it returns
  refs,                           \* BatchOwner.refs of each batch
  wpc, wstatus, collateral,       \* IngestWorker
  holding, pending, committed,    \* the slice a worker executes, its transaction, its commits
  txn, refused                    \* OdbcAutoTxn.active; has the driver refused a transaction?

queueVars  == <<queue, qdone, qfailed>>
pumpVars   == <<ppc, started, batch, slice, status, blame, total>>
txnVars    == <<txn, refused>>
workerVars == <<wpc, wstatus, collateral, holding, pending, committed, txnVars>>
vars == <<queueVars, pumpVars, refs, workerVars>>

NoItem == <<0, 0>>

Init ==
  /\ queue = <<>> /\ qdone = FALSE /\ qfailed = FALSE
  /\ ppc = "start" /\ started = 0 /\ batch = 0 /\ slice = 0
  /\ status = "ok" /\ blame = 0 /\ total = 0
  /\ refs = [b \in Batches |-> 0]
  /\ wpc = [w \in Workers |-> "off"] /\ wstatus = [w \in Workers |-> "ok"]
  /\ collateral = [w \in Workers |-> FALSE] /\ holding = [w \in Workers |-> NoItem]
  /\ pending = [w \in Workers |-> {}] /\ committed = [w \in Workers |-> {}]
  /\ txn = [w \in Workers |-> FALSE] /\ refused = [w \in Workers |-> FALSE]

-----------------------------------------------------------------------------
(* The queue's condition variables.                                        *)

WakeAllWorkers(pcs) == [w \in Workers |-> IF pcs[w] = "wait" THEN "pop" ELSE pcs[w]]

(* OdbcCondSignal(not_empty) wakes one of the waiting workers, if any.     *)
SignalWorker ==
  \/ /\ \A w \in Workers : wpc[w] # "wait"
     /\ UNCHANGED wpc
  \/ \E w \in Workers : wpc[w] = "wait" /\ wpc' = [wpc EXCEPT ![w] = "pop"]

WokenPump == IF ppc = "waitFull" THEN "push" ELSE ppc

-----------------------------------------------------------------------------
(* The pump.                                                               *)

StartWorker ==
  /\ ppc = "start" /\ started < NConn
  /\ \/ /\ started' = started + 1
        /\ wpc' = [wpc EXCEPT ![started'] = "connect"]
        /\ ppc' = IF started' = NConn THEN "get" ELSE "start"
        /\ UNCHANGED <<status, qfailed>>
     \/ /\ status' = "internal"            \* out of memory, or no thread
        /\ qfailed' = (qfailed \/ started = 0)
        /\ ppc' = "finish"
        /\ UNCHANGED <<started, wpc>>
  /\ UNCHANGED <<queue, qdone, batch, slice, blame, total, refs, wstatus, collateral,
                 holding, pending, committed, txnVars>>

(* The owner of a sliced batch starts with the pump's own reference; a     *)
(* batch queued whole has no owner, and its array is the one reference.    *)
GetBatch ==
  /\ ppc = "get" /\ batch < Len(Slices)
  /\ batch' = batch + 1 /\ slice' = 1
  /\ refs' = [refs EXCEPT ![batch'] = IF Slices[batch'] > 1 THEN 2 ELSE 1]
  /\ ppc' = "push"
  /\ UNCHANGED <<queueVars, started, status, blame, total, workerVars>>

StreamEnds ==
  /\ ppc = "get" /\ batch = Len(Slices)
  /\ ppc' = "finish"
  /\ UNCHANGED <<queueVars, started, batch, slice, status, blame, total, refs, workerVars>>

StreamFails ==
  /\ ppc = "get"
  /\ status' = "stream" /\ qfailed' = TRUE
  /\ wpc' = WakeAllWorkers(wpc)
  /\ ppc' = "finish"
  /\ UNCHANGED <<queue, qdone, started, batch, slice, blame, total, refs, wstatus,
                 collateral, holding, pending, committed, txnVars>>

Full == Len(queue) = Cap

WaitFull ==
  /\ ppc = "push" /\ Full /\ ~qfailed
  /\ ppc' = "waitFull"
  /\ UNCHANGED <<queueVars, started, batch, slice, status, blame, total, refs, workerVars>>

(* A slip: no batch is given an owner.                                     *)
NeverSliced == FALSE

Sliced == Slices[batch] > 1

(* QueuePush, then the reference for the next slice or the pump's unref.   *)
Push ==
  /\ ppc = "push" /\ ~Full /\ ~qfailed
  /\ queue' = Append(queue, <<batch, slice>>)
  /\ SignalWorker
  /\ IF slice < Slices[batch]
     THEN /\ slice' = slice + 1
          /\ refs' = [refs EXCEPT ![batch] = @ + 1]
          /\ UNCHANGED ppc
     ELSE /\ refs' = [refs EXCEPT ![batch] = IF Sliced THEN @ - 1 ELSE @]
          /\ ppc' = "get"
          /\ UNCHANGED slice
  /\ UNCHANGED <<qdone, qfailed, started, batch, status, blame, total, wstatus, collateral,
                 holding, pending, committed, txnVars>>

(* QueuePush says the queue has failed, or the slice could not be made:    *)
(* the slice and the pump's reference are dropped and the pump stops.      *)
Drop ==
  /\ ppc = "push" /\ (qfailed \/ MayRunOut)
  /\ refs' = [refs EXCEPT ![batch] = IF Sliced THEN @ - 2 ELSE @ - 1]
  /\ ppc' = "finish"
  /\ UNCHANGED <<queueVars, started, batch, slice, status, blame, total, workerVars>>

QueueFinish ==
  /\ ppc = "finish"
  /\ qdone' = TRUE
  /\ wpc' = WakeAllWorkers(wpc)
  /\ ppc' = "join"
  /\ UNCHANGED <<queue, qfailed, started, batch, slice, status, blame, total, refs, wstatus,
                 collateral, holding, pending, committed, txnVars>>

(* Slips: no worker is asked, or the first that failed is blamed.          *)
NobodyBlamed == 0
FirstBlamed == LET failed == {w \in Workers : wstatus[w] # "ok"}
               IN  IF status # "ok" \/ failed = {} THEN 0 ELSE Min(failed)

(* The failure to report: the lowest-numbered worker that failed for a     *)
(* reason of its own, or else the lowest-numbered one that failed.         *)
Blame ==
  LET failed == {w \in Workers : wstatus[w] # "ok"}
      own    == {w \in failed : ~collateral[w]}
  IN  IF status # "ok" \/ failed = {} THEN 0
      ELSE IF own # {} THEN Min(own) ELSE Min(failed)

(* How many slices of a batch are still queued.                            *)
Queued(b) == Cardinality({i \in DOMAIN queue : queue[i][1] = b})

(* All joined: pick the error, add up the rows, drop what is still queued. *)
Report ==
  /\ ppc = "join" /\ \A w \in 1..started : wpc[w] = "exit"
  /\ blame' = Blame
  /\ status' = IF blame' = 0 THEN status ELSE wstatus[blame']
  /\ total' = Cardinality(UNION {committed[w] : w \in {v \in Workers : wstatus[v] = "ok"}})
  /\ refs' = [b \in Batches |-> refs[b] - Queued(b)]
  /\ queue' = <<>>
  /\ ppc' = "done"
  /\ UNCHANGED <<qdone, qfailed, started, batch, slice, workerVars>>

Pump == \/ StartWorker \/ GetBatch \/ StreamEnds \/ StreamFails \/ WaitFull \/ Push
        \/ Drop \/ QueueFinish \/ Report

-----------------------------------------------------------------------------
(* A worker: IngestWorkerMain over ExecuteRows.                            *)

Connect(w) ==
  /\ wpc[w] = "connect"
  /\ \/ wpc' = [wpc EXCEPT ![w] = "pop"] /\ UNCHANGED wstatus
     \/ /\ wstatus' = [wstatus EXCEPT ![w] = "error"]
        /\ wpc' = [wpc EXCEPT ![w] = "leave"]
  /\ UNCHANGED <<queueVars, pumpVars, refs, collateral, holding, pending, committed, txnVars>>

PopWait(w) ==
  /\ wpc[w] = "pop" /\ queue = <<>> /\ ~qdone /\ ~qfailed
  /\ wpc' = [wpc EXCEPT ![w] = "wait"]
  /\ UNCHANGED <<queueVars, pumpVars, refs, wstatus, collateral, holding, pending, committed, txnVars>>

(* A slip: a worker asks a tripped queue again and again.                  *)
PopAgain(w) == wpc[w] = "pop" /\ qfailed /\ UNCHANGED vars

(* A tripped queue ends the worker's stream with an error.                 *)
PopFailed(w) ==
  /\ wpc[w] = "pop" /\ qfailed
  /\ collateral' = [collateral EXCEPT ![w] = TRUE]
  /\ wstatus' = [wstatus EXCEPT ![w] = "error"]
  /\ wpc' = [wpc EXCEPT ![w] = "rollback"]
  /\ UNCHANGED <<queueVars, pumpVars, refs, holding, pending, committed, txnVars>>

PopEnd(w) ==
  /\ wpc[w] = "pop" /\ queue = <<>> /\ qdone /\ ~qfailed
  /\ wpc' = [wpc EXCEPT ![w] = "commit"]
  /\ UNCHANGED <<queueVars, pumpVars, refs, wstatus, collateral, holding, pending, committed, txnVars>>

(* A slip: the slice stays in the queue.                                   *)
Peek(w) ==
  /\ wpc[w] = "pop" /\ queue # <<>> /\ ~qfailed
  /\ holding' = [holding EXCEPT ![w] = Head(queue)]
  /\ ppc' = WokenPump
  /\ wpc' = [wpc EXCEPT ![w] = "execute"]
  /\ UNCHANGED <<queueVars, started, batch, slice, status, blame, total, refs, wstatus,
                 collateral, pending, committed, txnVars>>

Pop(w) ==
  /\ wpc[w] = "pop" /\ queue # <<>> /\ ~qfailed
  /\ holding' = [holding EXCEPT ![w] = Head(queue)]
  /\ queue' = Tail(queue)
  /\ ppc' = WokenPump
  /\ wpc' = [wpc EXCEPT ![w] = "execute"]
  /\ UNCHANGED <<qdone, qfailed, started, batch, slice, status, blame, total, refs, wstatus,
                 collateral, pending, committed, txnVars>>

(* A slip: a worker's connection stays in autocommit.                      *)
NeverMany(w) == FALSE

(* A worker has seen a second row: the moment OdbcAutoTxnBegin is called.  *)
ManyRows(w) == pending[w] # {} \/ committed[w] # {} \/ holding[w] \notin Lone

(* The slice goes in or fails; either way it is released.  A driver that   *)
(* has no transactions, or refuses to leave autocommit, commits each row   *)
(* as it comes, also those before one that fails.                          *)
Execute(w) ==
  /\ wpc[w] = "execute"
  /\ \E agreed \in BOOLEAN :
       /\ txn' = [txn EXCEPT ![w] = @ \/ (ManyRows(w) /\ agreed)]
       /\ refused' = [refused EXCEPT ![w] = @ \/ (ManyRows(w) /\ ~txn'[w])]
  /\ \/ /\ IF txn'[w]
           THEN pending' = [pending EXCEPT ![w] = @ \cup {holding[w]}] /\ UNCHANGED committed
           ELSE committed' = [committed EXCEPT ![w] = @ \cup {holding[w]}] /\ UNCHANGED pending
        /\ wpc' = [wpc EXCEPT ![w] = "pop"]
        /\ UNCHANGED wstatus
     \/ /\ wstatus' = [wstatus EXCEPT ![w] = "error"]
        /\ wpc' = [wpc EXCEPT ![w] = "rollback"]
        /\ \/ UNCHANGED committed
           \/ /\ ~txn'[w] /\ holding[w] \notin Lone
              /\ committed' = [committed EXCEPT ![w] = @ \cup {holding[w]}]
        /\ UNCHANGED pending
  /\ refs' = [refs EXCEPT ![holding[w][1]] = @ - 1]
  /\ holding' = [holding EXCEPT ![w] = NoItem]
  /\ UNCHANGED <<queueVars, pumpVars, collateral>>

(* OdbcAutoTxnEnd.  The transaction of an SQLEndTran that fails is gone,   *)
(* or the driver has kept it and the return to autocommit commits it.      *)
Kept(w) ==
  /\ txn[w]
  /\ refused' = [refused EXCEPT ![w] = TRUE]
  /\ committed' = [committed EXCEPT ![w] = @ \cup pending[w]]

Ended(w) == /\ pending' = [pending EXCEPT ![w] = {}]
            /\ txn' = [txn EXCEPT ![w] = FALSE]
            /\ wpc' = [wpc EXCEPT ![w] = "leave"]

Commit(w) ==
  /\ wpc[w] = "commit"
  /\ \/ /\ committed' = [committed EXCEPT ![w] = @ \cup pending[w]]
        /\ UNCHANGED <<wstatus, refused>>
     \/ /\ UNCHANGED <<committed, refused>> \/ Kept(w)
        /\ txn[w] /\ wstatus' = [wstatus EXCEPT ![w] = "error"]
  /\ Ended(w)
  /\ UNCHANGED <<queueVars, pumpVars, refs, collateral, holding>>

(* Whether the rollback succeeds is not looked at.                         *)
Rollback(w) ==
  /\ wpc[w] = "rollback"
  /\ UNCHANGED <<committed, refused>> \/ Kept(w)
  /\ Ended(w)
  /\ UNCHANGED <<queueVars, pumpVars, refs, wstatus, collateral, holding>>

(* QueueFail when the worker failed: everyone who waits is woken.          *)
Leave(w) ==
  /\ wpc[w] = "leave"
  /\ LET left == [wpc EXCEPT ![w] = "exit"]
     IN  IF wstatus[w] = "ok"
         THEN wpc' = left /\ UNCHANGED <<qfailed, ppc>>
         ELSE wpc' = WakeAllWorkers(left) /\ qfailed' = TRUE /\ ppc' = WokenPump
  /\ UNCHANGED <<queue, qdone, started, batch, slice, status, blame, total, refs, wstatus,
                 collateral, holding, pending, committed, txnVars>>

Worker(w) == \/ Connect(w) \/ PopWait(w) \/ PopFailed(w) \/ PopEnd(w) \/ Pop(w)
             \/ Execute(w) \/ Commit(w) \/ Rollback(w) \/ Leave(w)

Returned == ppc = "done" /\ UNCHANGED vars

Next == Pump \/ (\E w \in Workers : Worker(w)) \/ Returned

Spec == Init /\ [][Next]_vars

(* Every thread runs, and every call on a connection returns.              *)
FairSpec == Spec /\ WF_vars(Pump) /\ \A w \in Workers : WF_vars(Worker(w))

-----------------------------------------------------------------------------
(* Properties.                                                             *)

(* Every variable has its type (txn and refused: TxnOK); the queue never   *)
(* exceeds its capacity.                                                   *)
TypeOK ==
  /\ queue \in Seq(Items) /\ Len(queue) <= Cap /\ qdone \in BOOLEAN /\ qfailed \in BOOLEAN
  /\ ppc \in {"start", "get", "push", "waitFull", "finish", "join", "done"}
  /\ started \in 0..NConn /\ batch \in 0..Len(Slices) /\ slice \in Nat
  /\ status \in {"ok", "internal", "stream", "error"} /\ blame \in 0..NConn
  /\ refs \in [Batches -> Int]
  /\ wpc \in [Workers -> {"off", "connect", "pop", "wait", "execute", "commit", "rollback",
                          "leave", "exit"}]
  /\ wstatus \in [Workers -> {"ok", "error"}] /\ collateral \in [Workers -> BOOLEAN]
  /\ holding \in [Workers -> Items \cup {NoItem}]
  /\ pending \in [Workers -> SUBSET Items] /\ committed \in [Workers -> SUBSET Items]

TxnOK == txn \in [Workers -> BOOLEAN] /\ refused \in [Workers -> BOOLEAN]

InTable == UNION {committed[w] : w \in Workers}

(* What a worker holds, has in its transaction or has committed.           *)
Has(w) == {holding[w]} \cup pending[w] \cup committed[w]

(* A call that returns success has committed every slice of the stream,    *)
(* and the rows it reports are the rows in the table.                      *)
SuccessMeansAllRows == ppc = "done" /\ status = "ok" => InTable = Items /\ total = Cardinality(Items)

(* The worker the caller is told about is the one that broke the ingest,   *)
(* never one that only followed it.                                        *)
BlameIsNotCollateral == blame # 0 => ~collateral[blame]

(* A slice is in one place: the queue, a worker's hands, a worker's        *)
(* transaction or a worker's commits.  None is ever ingested twice.        *)
EachSliceOnce ==
  /\ \A i, j \in DOMAIN queue : i # j => queue[i] # queue[j]
  /\ \A w \in Workers :
       /\ \A i \in DOMAIN queue : queue[i] \notin Has(w)
       /\ holding[w] \notin pending[w] \cup committed[w]
       /\ \A v \in Workers \ {w} : Has(v) \cap Has(w) \subseteq {NoItem}

(* A worker that failed leaves none of its share in the table, but for a   *)
(* lone row it ingested before it had seen a second one, unless its driver *)
(* has no transactions or refused to open or to end one.                   *)
FailedShareIsRolledBack ==
  \A w \in Workers : wstatus[w] # "ok" /\ ~refused[w] =>
    committed[w] \subseteq Lone /\ Cardinality(committed[w]) <= 1

(* What a worker that follows another's failure says ("this worker's share *)
(* was rolled back", WorkerStreamGetLastError), whatever the driver.       *)
FollowersShareIsRolledBack ==
  \A w \in Workers : collateral[w] /\ wpc[w] = "exit" =>
    committed[w] \subseteq Lone /\ Cardinality(committed[w]) <= 1

(* The buffers of a batch live exactly as long as a slice of it, or the    *)
(* pump while it slices, refers to them.                                   *)
Held(b)    == Cardinality({w \in Workers : holding[w][1] = b})
PumpRef(b) == IF ppc \in {"push", "waitFull"} /\ b = batch
              THEN (IF Slices[b] > 1 THEN 2 ELSE 1) ELSE 0
Live(b)    == Queued(b) + Held(b) + PumpRef(b)
BuffersLiveWithTheirSlices == \A b \in Batches : refs[b] = Live(b)

(* The call returns: pump and workers never all wait for each other.       *)
CallReturns == <>(ppc = "done")

-----------------------------------------------------------------------------
(* The invariants behind these, which every step preserves.                *)

Cutting == ppc \in {"push", "waitFull"}

(* Where the pump is, and where a worker is that failed, holds a slice or  *)
(* has a transaction.                                                      *)
Places ==
  /\ Cutting => batch \in Batches /\ slice \in 1..Slices[batch]
  /\ ppc \notin {"finish", "join", "done"} => status = "ok"
  /\ ppc # "start" /\ status = "ok" => started = NConn
  /\ qdone => ppc \in {"join", "done"}
  /\ \A w \in Workers :
       /\ w > started => wpc[w] = "off"
       /\ wpc[w] = "execute" <=> holding[w] # NoItem
       /\ wstatus[w] # "ok" => wpc[w] \in {"rollback", "leave", "exit"}
       /\ wpc[w] = "rollback" => wstatus[w] # "ok"
       /\ wpc[w] \in {"off", "connect", "leave", "exit"} => pending[w] = {}

(* A worker follows only a queue that has tripped, and what tripped it was *)
(* the pump or a worker that failed for a reason of its own.               *)
FirstFailure ==
  /\ \A w \in Workers : collateral[w] => qfailed /\ wstatus[w] # "ok"
  /\ qfailed /\ status = "ok" => \E w \in Workers : wstatus[w] # "ok" /\ ~collateral[w]
  /\ blame # 0 => wstatus[blame] # "ok"

(* Until it commits, a worker whose driver refused nothing has at most a   *)
(* lone row in the table.                                                  *)
LoneCommits ==
  \A w \in Workers : ~refused[w] /\ (wstatus[w] # "ok" \/ wpc[w] \notin {"leave", "exit"}) =>
    committed[w] = {} \/ \E x \in Lone : committed[w] = {x}

(* The slices the pump has pushed.                                         *)
Sent == {x \in Items : x[1] < batch \/ (x[1] = batch /\ (x[2] < slice \/ ~Cutting))}

InQueue == {queue[i] : i \in DOMAIN queue}

(* A slice that is anywhere was pushed.                                    *)
OnlySent ==
  /\ InQueue \subseteq Sent
  /\ \A w \in Workers : Has(w) \subseteq Sent \cup {NoItem}

(* While nobody failed nothing is lost, the pump stops only at the end of  *)
(* the stream, and a worker only when nothing is queued any more.          *)
NobodyFailed == status = "ok" /\ \A w \in Workers : wstatus[w] = "ok"

NothingLost ==
  /\ NobodyFailed => Sent \subseteq InQueue \cup UNION {Has(w) : w \in Workers}
  /\ NobodyFailed /\ ppc \in {"finish", "join", "done"} => batch = Len(Slices)
  /\ \A w \in Workers : wpc[w] \in {"commit", "leave", "exit"} /\ wstatus[w] = "ok" =>
       queue = <<>> /\ qdone
  /\ ppc = "done" /\ status = "ok" =>
       /\ \A w \in Workers : wstatus[w] = "ok" /\ wpc[w] = "exit"
       /\ total = Cardinality(InTable)
=============================================================================
