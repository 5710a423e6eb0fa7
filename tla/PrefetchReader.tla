--------------------------- MODULE PrefetchReader ---------------------------
(***************************************************************************)
(* The prefetching result-set reader of odbc_reader.c.  A fetch thread     *)
(* (PrefetchMain) owns the statement handle and fills a ring of rowset     *)
(* slots; the calling thread (ReaderGetNext) pops them and converts them   *)
(* into Arrow batches.  A rowset with a value wider than its buffer makes  *)
(* the thread stop and hand the cursor back: the caller re-reads it row by *)
(* row and reads the rest itself.                                          *)
(*                                                                         *)
(* A critical section under r->mu never blocks, so it is one step.  A      *)
(* thread in OdbcCondWait is in a "wait" state that only a broadcast ends. *)
(* An ODBC call, or the conversion of a slot, lasts as long as the thread  *)
(* stays in the state of that name: the other thread's steps interleave.   *)
(***************************************************************************)
EXTENDS Naturals, Sequences, FiniteSets

CONSTANTS NSlots,        \* r->nslots: prefetch depth + 1
          RowsPerFetch,  \* the rowset ReaderBind settles on
          BatchSize,     \* opts.batch_size
          RepairFloor,   \* repaired rowsets before the reader gives up block fetches
          ResultSets,    \* the result sets a run reads
          Drivers        \* the driver capabilities a run reads them with

Kinds == {"ok", "wide", "bad", "hole"}

ResultSet == [rows : Seq(Kinds), fails : BOOLEAN]

Driver == [getdata : BOOLEAN, bound : BOOLEAN, refetch : BOOLEAN, fixed : BOOLEAN]

(* PrefetchRefusalReason: a one-row rowset never prefetches, and a ring    *)
(* has one slot more than the depth, which is at least 1.                  *)
ASSUME ReaderAssumption ==
  /\ NSlots \in Nat /\ NSlots >= 2
  /\ RowsPerFetch \in Nat /\ RowsPerFetch >= 2
  /\ BatchSize \in Nat \ {0}
  /\ RepairFloor \in Nat
  /\ ResultSets \subseteq ResultSet
  /\ Drivers \subseteq Driver

VARIABLES
  rs, driver,                 \* what is read, and through what (never change)
  cursor,                     \* entries of rs.rows the cursor has passed
  bound,                      \* the slot the handle's columns are bound to
  slot,                       \* r->slots
  head, tail, filled,         \* r->ring_*
  fetchDone, fetchFailed, fetchStop,
  rowsSeen, rowsSeenExact, rowsPerFetch, rowsetsRead, rowsetsRepaired,
  prefetching,                \* r->thread_started and r->prefetching
  curSlot,                    \* r->cur_slot
  done,                       \* r->done
  batch,                      \* the batch ReaderNextBatch is building
  out, phase,                 \* what the consumer got, and how the stream ended
  ppc,                        \* where the fetch thread is
  cpc, after                  \* where the caller is, and what it does once joined

resultVars == <<rs, driver>>
handleVars == <<cursor, bound>>
ringVars   == <<head, tail, filled, fetchDone, fetchFailed, fetchStop>>
countVars  == <<rowsSeen, rowsSeenExact, rowsPerFetch, rowsetsRead, rowsetsRepaired>>
callVars   == <<prefetching, curSlot, done, batch, out, phase, cpc, after>>
vars == <<resultVars, handleVars, slot, ringVars, countVars, callVars, ppc>>

SlotIds == 0..(NSlots - 1)

EmptySlot == [from |-> 0, fetched |-> 0, firstRow |-> 0, eos |-> FALSE, needsRepair |-> FALSE]

Init ==
  /\ rs \in ResultSets /\ driver \in Drivers
  /\ cursor = 0 /\ bound = 0 /\ slot = [s \in SlotIds |-> EmptySlot]
  /\ head = 0 /\ tail = 0 /\ filled = 0
  /\ fetchDone = FALSE /\ fetchFailed = FALSE /\ fetchStop = FALSE
  /\ rowsSeen = 0 /\ rowsSeenExact = TRUE /\ rowsPerFetch = RowsPerFetch
  /\ rowsetsRead = 0 /\ rowsetsRepaired = 0
  /\ prefetching = FALSE /\ curSlot = 0 /\ done = FALSE
  /\ batch = <<>> /\ out = <<>> /\ phase = "open"
  /\ ppc = "none" /\ cpc = "unbound" /\ after = "none"

-----------------------------------------------------------------------------
(* The cursor: a rowset is the next rowsPerFetch entries, or what is left. *)

Fetched == LET left == Len(rs.rows) - cursor
           IN  IF left < rowsPerFetch THEN left ELSE rowsPerFetch

NoData     == Fetched = 0 /\ ~rs.fails
FetchError == Fetched = 0 /\ rs.fails

Entries(s) == (s.from + 1)..(s.from + s.fetched)

Has(s, kind) == \E i \in Entries(s) : rs.rows[i] = kind

(* A slip: the rowset is taken for whole, and its values are cut short.    *)
TruncationMissed(s) == FALSE

RowsetTruncated(s) == Has(s, "wide")

RowsetIsBulk(s) == s.fetched > 0 /\ ~Has(s, "hole") /\ ~Has(s, "bad")

(* What SQLFetch leaves in the slot the columns are bound to.              *)
FetchedSlot == [from |-> cursor, fetched |-> Fetched, firstRow |-> rowsSeen + 1,
                eos |-> FALSE, needsRepair |-> FALSE]

(* A value that outgrew its buffer is whole only if SQLGetData can re-read *)
(* it.                                                                     *)
GetDataWhole(i) == \/ rs.rows[i] # "wide"
                   \/ driver.getdata
                   \/ rowsPerFetch = 1 /\ driver.bound

(* AppendValue: the value that reaches the batch for entry i.              *)
Converted(i) == [row |-> i, whole |-> GetDataWhole(i)]

(* Column by column, every entry of the rowset.                            *)
BulkAppend(s) == [j \in 1..s.fetched |-> Converted(s.from + j)]

(* The j-th smallest member of a set of entries.                           *)
Nth(S, j) == CHOOSE i \in S : Cardinality({k \in S : k <= i}) = j

(* The rows of a slot, in order, without the SQL_ROW_NOROW entries.        *)
ConvertRowset(s) ==
  LET reals == {i \in Entries(s) : rs.rows[i] # "hole"}
  IN  IF RowsetIsBulk(s) THEN BulkAppend(s)
      ELSE [j \in 1..Cardinality(reals) |-> Converted(Nth(reals, j))]

(* RepairRowset: SQLFetchScroll(SQL_FETCH_ABSOLUTE) on each row of the     *)
(* rowset, which counts rows, not entries.                                 *)
Reals == {i \in DOMAIN rs.rows : rs.rows[i] # "hole"}

Absolute(p) == Nth(Reals, p)

RepairFails(s) ==
  \/ ~driver.refetch
  \/ s.firstRow + s.fetched - 1 > Cardinality(Reals)
  \/ \E p \in s.firstRow..(s.firstRow + s.fetched - 1) : rs.rows[Absolute(p)] = "bad"

RepairedRows(s) ==
  [j \in 1..s.fetched |->
     LET i == Absolute(s.firstRow + j - 1)
     IN  [row |-> i, whole |-> rs.rows[i] # "wide" \/ driver.getdata \/ driver.bound]]

RepairedCursor(s) == Absolute(s.firstRow + s.fetched - 1)

-----------------------------------------------------------------------------
(* The fetch thread: PrefetchMain.                                         *)

(* OdbcCondBroadcast: whoever waits on r->cv goes back to its wait loop.   *)
WakeCaller   == cpc' = IF cpc = "wait" THEN "take" ELSE cpc
WakeProducer == ppc' = IF ppc = "wait" THEN "lock" ELSE ppc

(* A slip: one slot too many is handed out.                                *)
RingOverfull == filled > NSlots

RingFull == filled >= NSlots

ProducerWait ==
  /\ ppc = "lock" /\ RingFull /\ ~fetchStop
  /\ ppc' = "wait"
  /\ UNCHANGED <<resultVars, handleVars, slot, ringVars, countVars, callVars>>

ProducerStop ==
  /\ ppc = "lock" /\ fetchStop
  /\ ppc' = "exit"
  /\ UNCHANGED <<resultVars, handleVars, slot, ringVars, countVars, callVars>>

(* Claim the tail slot, reset it and point the handle at it.               *)
ProducerClaim ==
  /\ ppc = "lock" /\ ~RingFull /\ ~fetchStop
  /\ slot' = [slot EXCEPT ![tail].eos = FALSE, ![tail].needsRepair = FALSE,
                          ![tail].fetched = 0]
  /\ bound' = tail
  /\ ppc' = "fetch"
  /\ UNCHANGED <<resultVars, cursor, ringVars, countVars, callVars>>

(* SQLFetch returns; a truncated rowset is marked for the caller.          *)
ProducerFetch ==
  /\ ppc = "fetch"
  /\ IF FetchError
     THEN ppc' = "fail" /\ UNCHANGED <<cursor, slot, rowsSeen>>
     ELSE /\ slot' = [slot EXCEPT ![tail] =
                        IF NoData THEN [@ EXCEPT !.eos = TRUE]
                        ELSE [FetchedSlot EXCEPT !.needsRepair = RowsetTruncated(FetchedSlot)]]
          /\ cursor' = cursor + Fetched
          /\ rowsSeen' = rowsSeen + Fetched
          /\ ppc' = "publish"
  /\ UNCHANGED <<resultVars, bound, ringVars, rowsSeenExact, rowsPerFetch,
                 rowsetsRead, rowsetsRepaired, callVars>>

ProducerPublish ==
  /\ ppc = "publish"
  /\ tail' = (tail + 1) % NSlots
  /\ filled' = filled + 1
  /\ fetchDone' = (fetchDone \/ slot[tail].eos)
  /\ ppc' = IF slot[tail].eos \/ slot[tail].needsRepair THEN "exit" ELSE "lock"
  /\ WakeCaller
  /\ UNCHANGED <<resultVars, handleVars, slot, head, fetchFailed, fetchStop, countVars,
                 prefetching, curSlot, done, batch, out, phase, after>>

(* A failed fetch publishes the error and no slot.                         *)
ProducerFail ==
  /\ ppc = "fail"
  /\ fetchFailed' = TRUE
  /\ ppc' = "exit"
  /\ WakeCaller
  /\ UNCHANGED <<resultVars, handleVars, slot, head, tail, filled, fetchDone, fetchStop,
                 countVars, prefetching, curSlot, done, batch, out, phase, after>>

Producer == \/ ProducerWait \/ ProducerStop \/ ProducerClaim
            \/ ProducerFetch \/ ProducerPublish \/ ProducerFail

-----------------------------------------------------------------------------
(* The calling thread: ReaderGetNext and ReaderNextBatch.                  *)

(* ReaderNextBatch takes another rowset only if it is sure to fit.         *)
WantsMore == (batch = <<>> \/ Len(batch) + rowsPerFetch <= BatchSize) /\ ~done

NextPc == IF prefetching THEN "take" ELSE "fetch"

(* ReaderGetNext on a failure: the batch under construction is dropped.    *)
ReturnError(how) == /\ done' = TRUE /\ batch' = <<>>
                    /\ phase' = how
                    /\ cpc' = "idle"

(* The first get_next: ReaderBind allocates and binds the slots and starts *)
(* the fetch thread.  A thread that cannot be created is not an error.     *)
Bind ==
  /\ cpc = "unbound"
  /\ \/ ReturnError("refused") /\ UNCHANGED <<prefetching, ppc>>
     \/ /\ \E created \in BOOLEAN :
             /\ prefetching' = created
             /\ ppc' = IF created THEN "lock" ELSE "none"
        /\ cpc' = "loop"
        /\ UNCHANGED <<done, batch, phase>>
  /\ UNCHANGED <<resultVars, handleVars, slot, ringVars, countVars, curSlot, out, after>>

GetNext ==
  /\ cpc = "idle" /\ ~done
  /\ cpc' = "loop"
  /\ UNCHANGED <<resultVars, handleVars, slot, ringVars, countVars, prefetching,
                 curSlot, done, batch, out, phase, after, ppc>>

(* get_next on a finished reader answers the end of the stream.            *)
GetNextDone ==
  /\ cpc = "idle" /\ done
  /\ phase' = IF phase = "open" THEN "eos" ELSE phase
  /\ UNCHANGED <<resultVars, handleVars, slot, ringVars, countVars, prefetching,
                 curSlot, done, batch, out, cpc, after, ppc>>

Loop ==
  /\ cpc = "loop" /\ WantsMore
  /\ cpc' = NextPc
  /\ UNCHANGED <<resultVars, handleVars, slot, ringVars, countVars, prefetching,
                 curSlot, done, batch, out, phase, after, ppc>>

(* The loop is over: hand the batch out, or end the stream if it is empty. *)
Return ==
  /\ cpc = "loop" /\ ~WantsMore
  /\ out' = out \o batch
  /\ batch' = <<>>
  /\ phase' = IF batch = <<>> THEN "eos" ELSE phase
  /\ cpc' = "idle"
  /\ UNCHANGED <<resultVars, handleVars, slot, ringVars, countVars, prefetching,
                 curSlot, done, after, ppc>>

(* PrefetchNextRowset up to the unlock: wait, or see what there is.        *)
CallerWait ==
  /\ cpc = "take" /\ filled = 0 /\ ~fetchFailed /\ ~fetchDone
  /\ cpc' = "wait"
  /\ UNCHANGED <<resultVars, handleVars, slot, ringVars, countVars, prefetching,
                 curSlot, done, batch, out, phase, after, ppc>>

Drained ==
  /\ cpc = "take" /\ filled = 0 /\ (fetchFailed \/ fetchDone)
  /\ cpc' = "join"
  /\ after' = IF fetchFailed THEN "failed" ELSE "ended"
  /\ UNCHANGED <<resultVars, handleVars, slot, ringVars, countVars, prefetching,
                 curSlot, done, batch, out, phase, ppc>>

(* A slot at the end of the stream ends it; any other becomes the slot the *)
(* columns read (ReaderUseSlot), to be converted or repaired.              *)
TakeSlot ==
  /\ cpc = "take" /\ filled > 0
  /\ LET s == slot[head]
     IN  /\ curSlot' = IF s.eos THEN curSlot ELSE head
         /\ cpc' = IF s.eos \/ s.needsRepair THEN "join" ELSE "convert"
         /\ after' = IF s.eos THEN "ended" ELSE IF s.needsRepair THEN "repair" ELSE after
  /\ UNCHANGED <<resultVars, handleVars, slot, ringVars, countVars, prefetching,
                 done, batch, out, phase, ppc>>

(* ConvertRowset, then the slot goes back to the ring, whatever it said.   *)
Convert ==
  /\ cpc = "convert"
  /\ LET s == slot[curSlot]
     IN  /\ rowsSeenExact' = (rowsSeenExact /\ RowsetIsBulk(s))
         /\ IF Has(s, "bad")
            THEN ReturnError("error")
            ELSE /\ batch' = batch \o ConvertRowset(s)
                 /\ cpc' = "loop"
                 /\ UNCHANGED <<done, phase>>
  /\ rowsetsRead' = rowsetsRead + 1
  /\ head' = (head + 1) % NSlots
  /\ filled' = filled - 1
  /\ WakeProducer
  /\ UNCHANGED <<resultVars, handleVars, slot, tail, fetchDone, fetchFailed, fetchStop,
                 rowsSeen, rowsPerFetch, rowsetsRepaired, prefetching, curSlot, out, after>>

(* PrefetchJoin: raise the stop flag, then wait for the thread to exit.    *)
JoinStop ==
  /\ cpc = "join"
  /\ fetchStop' = TRUE
  /\ WakeProducer
  /\ cpc' = "joining"
  /\ UNCHANGED <<resultVars, handleVars, slot, head, tail, filled, fetchDone, fetchFailed,
                 countVars, prefetching, curSlot, done, batch, out, phase, after>>

(* A slip: the caller raises the flag and goes on without joining.         *)
NotAwaited == TRUE

(* pthread_join on the fetch thread.                                       *)
ThreadEnded == ppc = "exit"

Joined ==
  /\ cpc = "joining" /\ ThreadEnded
  /\ prefetching' = FALSE
  /\ after' = "none"
  /\ \/ /\ after = "failed"
        /\ ReturnError("error")
     \/ /\ after = "ended"
        /\ done' = TRUE /\ cpc' = "loop"
        /\ UNCHANGED <<batch, phase>>
     \/ /\ after \in {"repair", "close"}
        /\ cpc' = after
        /\ UNCHANGED <<batch, phase, done>>
  /\ UNCHANGED <<resultVars, handleVars, slot, ringVars, countVars, curSlot, out, ppc>>

(* The hand-back: rebind the handle to the slot and re-read its rows.      *)
HandBack ==
  /\ cpc = "repair"
  /\ bound' = curSlot
  /\ LET s == slot[curSlot]
     IN  IF RepairFails(s)
         THEN ReturnError("error") /\ UNCHANGED <<cursor, rowsetsRead, rowsetsRepaired>>
         ELSE /\ batch' = batch \o RepairedRows(s)
              /\ cursor' = RepairedCursor(s)
              /\ rowsetsRead' = rowsetsRead + 1
              /\ rowsetsRepaired' = rowsetsRepaired + 1
              /\ cpc' = "loop"
              /\ UNCHANGED <<done, phase>>
  /\ UNCHANGED <<resultVars, slot, ringVars, rowsSeen, rowsSeenExact, rowsPerFetch,
                 prefetching, curSlot, out, after, ppc>>

-----------------------------------------------------------------------------
(* The synchronous loop body of ReaderNextBatch: after a hand-back, or     *)
(* when the fetch thread could not be created.                             *)

(* A slip: the end of the cursor does not end the loop.                    *)
EndMissed ==
  /\ cpc = "fetch" /\ Fetched = 0
  /\ IF FetchError
     THEN ReturnError("error")
     ELSE cpc' = "loop" /\ UNCHANGED <<done, batch, phase>>
  /\ UNCHANGED <<resultVars, handleVars, slot, ringVars, countVars, prefetching, curSlot,
                 out, after, ppc>>

SyncFetchEnds ==
  /\ cpc = "fetch" /\ Fetched = 0
  /\ IF FetchError
     THEN ReturnError("error")
     ELSE done' = TRUE /\ cpc' = "loop" /\ UNCHANGED <<batch, phase>>
  /\ UNCHANGED <<resultVars, handleVars, slot, ringVars, countVars, prefetching, curSlot,
                 out, after, ppc>>

SyncMayRepair(s) ==
  /\ RowsetIsBulk(s) /\ rowsSeenExact /\ rowsPerFetch > 1
  /\ ~driver.getdata /\ driver.refetch /\ ~driver.fixed
  /\ RowsetTruncated(s)

(* Repairing most rowsets costs more than fetching one row at a time.      *)
GiveUpBlocks == /\ rowsetsRepaired' >= RepairFloor
                /\ rowsetsRepaired' * 4 >= rowsetsRead' * 3

SyncFetch ==
  /\ cpc = "fetch" /\ Fetched > 0
  /\ slot' = [slot EXCEPT ![bound].from = cursor, ![bound].fetched = Fetched]
  /\ rowsSeen' = rowsSeen + Fetched
  /\ rowsetsRead' = rowsetsRead + 1
  /\ LET s == [slot'[curSlot] EXCEPT !.firstRow = rowsSeen + 1]
     IN  /\ rowsSeenExact' = (rowsSeenExact /\ RowsetIsBulk(s))
         /\ IF SyncMayRepair(s)
            THEN \/ /\ RepairFails(s)
                    /\ ReturnError("error")
                    /\ UNCHANGED <<cursor, rowsetsRepaired, rowsPerFetch>>
                 \/ /\ ~RepairFails(s)
                    /\ batch' = batch \o RepairedRows(s)
                    /\ cursor' = RepairedCursor(s)
                    /\ rowsetsRepaired' = rowsetsRepaired + 1
                    /\ rowsPerFetch' = IF GiveUpBlocks THEN 1 ELSE rowsPerFetch
                    /\ cpc' = "loop"
                    /\ UNCHANGED <<done, phase>>
            ELSE /\ cursor' = cursor + Fetched
                 /\ IF Has(s, "bad")
                    THEN ReturnError("error")
                    ELSE /\ batch' = batch \o ConvertRowset(s)
                         /\ cpc' = "loop"
                         /\ UNCHANGED <<done, phase>>
                 /\ UNCHANGED <<rowsetsRepaired, rowsPerFetch>>
  /\ UNCHANGED <<resultVars, bound, ringVars, prefetching, curSlot, out, after, ppc>>

-----------------------------------------------------------------------------
(* ReaderRelease, at any point between two calls: join the thread, then    *)
(* close the cursor and free the slots.                                    *)
Release ==
  /\ cpc \in {"unbound", "idle"}
  /\ cpc' = IF prefetching THEN "join" ELSE "close"
  /\ after' = IF prefetching THEN "close" ELSE after
  /\ UNCHANGED <<resultVars, handleVars, slot, ringVars, countVars, prefetching, curSlot,
                 done, batch, out, phase, ppc>>

CloseCursor ==
  /\ cpc = "close"
  /\ cpc' = "released"
  /\ UNCHANGED <<resultVars, handleVars, slot, ringVars, countVars, prefetching, curSlot,
                 done, batch, out, phase, after, ppc>>

Released == cpc = "released" /\ ppc \in {"none", "exit"} /\ UNCHANGED vars

CallInProgress == \/ Loop \/ Return \/ CallerWait \/ Drained \/ TakeSlot \/ Convert
                  \/ JoinStop \/ Joined \/ HandBack \/ SyncFetchEnds \/ SyncFetch
                  \/ CloseCursor

Caller == Bind \/ GetNext \/ GetNextDone \/ Release \/ CallInProgress

Next == Producer \/ Caller \/ Released

Spec == Init /\ [][Next]_vars

(* Both threads run, and every ODBC call returns; the application may stop *)
(* calling get_next or release whenever it likes.                          *)
FairSpec == Spec /\ WF_vars(Producer) /\ WF_vars(CallInProgress)

-----------------------------------------------------------------------------
(* Properties.                                                             *)

SlotRecord == [from : Nat, fetched : Nat, firstRow : Nat, eos : BOOLEAN, needsRepair : BOOLEAN]

Values == [row : Nat, whole : BOOLEAN]

(* Every variable has its type; the ring indices are slots and the ring    *)
(* never counts more slots than it has.                                    *)
TypeOK ==
  /\ rs \in ResultSets /\ driver \in Drivers
  /\ cursor \in Nat /\ bound \in SlotIds /\ slot \in [SlotIds -> SlotRecord]
  /\ head \in SlotIds /\ tail \in SlotIds /\ filled \in 0..NSlots
  /\ fetchDone \in BOOLEAN /\ fetchFailed \in BOOLEAN /\ fetchStop \in BOOLEAN
  /\ rowsSeen \in Nat /\ rowsSeenExact \in BOOLEAN /\ rowsPerFetch \in {1, RowsPerFetch}
  /\ rowsetsRead \in Nat /\ rowsetsRepaired \in Nat
  /\ prefetching \in BOOLEAN /\ curSlot \in SlotIds /\ done \in BOOLEAN
  /\ batch \in Seq(Values) /\ out \in Seq(Values)
  /\ phase \in {"open", "eos", "error", "refused"}
  /\ ppc \in {"none", "lock", "wait", "fetch", "publish", "fail", "exit"}
  /\ cpc \in {"unbound", "idle", "loop", "take", "wait", "convert", "join", "joining",
              "repair", "fetch", "close", "released"}
  /\ after \in {"none", "failed", "ended", "repair", "close"}

(* The statement handle is touched by one thread at a time: while the      *)
(* caller re-reads a rowset, fetches for itself or closes the cursor, and  *)
(* after the stream is released, the fetch thread has ended.               *)
HandleHasOneOwner ==
  cpc \in {"repair", "fetch", "close", "released"} => ppc \in {"none", "exit"}

(* A slot is either the fetch thread's or the caller's, never both: the    *)
(* slot being converted is not the one being fetched into.                 *)
SlotHasOneOwner ==
  cpc = "convert" /\ ppc \in {"fetch", "publish"} => curSlot # tail

(* Prefetching changes nothing the consumer can see: the reader implements *)
(* RowStream, so every row arrives once, in order and whole, and an error  *)
(* arrives at the row it belongs to.                                       *)
Stream == INSTANCE RowStream WITH RowsPerFetch <- RowsPerFetch, BatchSize <- BatchSize,
                                  rs <- rs, out <- out, phase <- phase
ImplementsRowStream == Stream!Spec

(* A get_next or release that has begun returns: neither thread waits for  *)
(* the other forever, and a broadcast is never missed.                     *)
CallsReturn == [](cpc \notin {"unbound", "idle", "released"}
                    => <>(cpc \in {"idle", "released"}))

-----------------------------------------------------------------------------
(* The inductive invariant behind HandleHasOneOwner and SlotHasOneOwner.   *)

ControlOK ==
  /\ head \in SlotIds /\ tail \in SlotIds /\ filled \in 0..NSlots
  /\ curSlot \in SlotIds
  /\ prefetching \in BOOLEAN
  /\ ppc \in {"none", "lock", "wait", "fetch", "publish", "fail", "exit"}
  /\ cpc \in {"unbound", "idle", "loop", "take", "wait", "convert", "join", "joining",
              "repair", "fetch", "close", "released"}
  /\ after \in {"none", "failed", "ended", "repair", "close"}

(* The tail is filled slots after the head, round the ring.                *)
RingShape == tail = IF head + filled < NSlots THEN head + filled ELSE head + filled - NSlots

(* The fetch thread exists exactly while the caller has not joined it, and *)
(* the caller uses the ring only while it exists.                          *)
ThreadShape ==
  /\ prefetching => ppc # "none"
  /\ ~prefetching => ppc \in {"none", "exit"}
  /\ cpc \in {"take", "wait", "convert", "join", "joining"} => prefetching
  /\ cpc \in {"unbound", "repair", "fetch", "close", "released"} => ~prefetching

(* A claimed slot is free, a slot being converted is the head of the ring. *)
ClaimShape ==
  /\ ppc \in {"fetch", "publish", "fail"} => filled < NSlots
  /\ cpc = "convert" => curSlot = head /\ filled > 0

(* What keeps handle and slots with one owner, by induction: the ring      *)
(* counters agree with each other, the fetch thread exists exactly between *)
(* PrefetchStart and PrefetchJoin, and a claimed slot is outside the ring. *)
OwnershipInv == ControlOK /\ RingShape /\ ThreadShape /\ ClaimShape

-----------------------------------------------------------------------------
(* The inductive invariant behind ImplementsRowStream.                     *)

(* The condition under which the reader keeps RowStream's promise: values  *)
(* that outgrow their buffers come from a driver that can scroll back to   *)
(* them and read them whole, and that skips no rows, so that row numbers   *)
(* count entries.  Where all values fit, every driver will do.             *)
Readable ==
  (\E i \in DOMAIN rs.rows : rs.rows[i] = "wide") =>
    /\ \A i \in DOMAIN rs.rows : rs.rows[i] # "hole"
    /\ driver.refetch
    /\ driver.getdata \/ (driver.bound /\ ~driver.fixed)

(* The slots that hold a rowset, the one about to be published included.   *)
Held == filled + IF ppc = "publish" THEN 1 ELSE 0

At(j) == IF head + j < NSlots THEN head + j ELSE head + j - NSlots

(* Where the j-th of them begins, or where the cursor is.                  *)
Start(j) == IF j < Held /\ ~slot[At(j)].eos THEN slot[At(j)].from ELSE cursor

(* The entries the caller has taken so far.                                *)
Consumed == IF prefetching \/ cpc = "repair" THEN Start(0) ELSE cursor

Joining(why) == cpc \in {"join", "joining"} /\ after = why

Leaving == cpc \in {"close", "released"} \/ Joining("close")

DataOK ==
  /\ rs \in ResultSets /\ driver \in Drivers
  /\ cursor \in 0..Len(rs.rows) /\ bound \in SlotIds /\ slot \in [SlotIds -> SlotRecord]
  /\ fetchDone \in BOOLEAN /\ fetchFailed \in BOOLEAN
  /\ rowsSeen \in Nat /\ rowsSeenExact \in BOOLEAN /\ rowsPerFetch \in {1, RowsPerFetch}
  /\ done \in BOOLEAN

(* The slots hold consecutive rowsets that end where the cursor is; only   *)
(* the last may end the stream or need repair, and then nothing follows.   *)
HeldShape(j) ==
  LET s == slot[At(j)]
  IN  /\ s.eos \/ s.needsRepair => j = Held - 1 /\ ppc \in {"publish", "exit"}
      /\ s.eos => cursor = Len(rs.rows) /\ ~rs.fails
      /\ ~s.eos => /\ s.fetched \in 1..RowsPerFetch /\ s.from + s.fetched <= cursor
                   /\ s.from + s.fetched = Start(j + 1)
                   /\ s.firstRow = s.from + 1
                   /\ s.needsRepair <=> RowsetTruncated(s)

RingHolds == prefetching \/ cpc = "repair" => \A j \in 0..(Held - 1) : HeldShape(j)

ProducerShape ==
  /\ cpc = "unbound" => /\ filled = 0 /\ ~fetchFailed /\ ~fetchDone
                        /\ cursor = 0 /\ bound = curSlot /\ ~done
                        /\ batch = <<>> /\ out = <<>> /\ phase = "open"
  /\ prefetching \/ cpc \in {"unbound", "repair"}
       => rowsSeen = cursor /\ rowsPerFetch = RowsPerFetch
  /\ prefetching => /\ ppc = "fail" \/ fetchFailed => cursor = Len(rs.rows) /\ rs.fails
                    /\ fetchDone => cursor = Len(rs.rows) /\ ~rs.fails
                    /\ fetchDone \/ fetchFailed => ppc = "exit"

(* A call goes for another rowset only while one is sure to fit, and what  *)
(* it does with the rowset is what the rowset needs.                       *)
CallShape ==
  /\ cpc \in {"take", "wait", "convert", "repair", "fetch", "join", "joining"} /\ ~Leaving
       => ~done /\ (batch = <<>> \/ Len(batch) + rowsPerFetch <= BatchSize)
  /\ cpc = "convert" => ~slot[head].eos /\ ~slot[head].needsRepair
  /\ cpc = "repair" \/ Joining("repair")
       => /\ curSlot = head /\ filled > 0 /\ ppc = "exit"
          /\ ~slot[head].eos /\ slot[head].needsRepair
  /\ Joining("ended") \/ Joining("failed")
       => /\ ppc = "exit" /\ Start(0) = Len(rs.rows)
          /\ rs.fails <=> after = "failed"
  /\ ~Joining("none")
  /\ cpc = "idle" => batch = <<>>
  /\ phase # "open" => done /\ (cpc = "idle" \/ Leaving)

RowsIn(lo, hi) == Stream!Rows(Stream!RealsIn(lo, hi))

(* The consumer has the rows up to Pos, the batch those from there up to   *)
(* entry c, and no failure lies before that.                               *)
DeliveredTo(c) ==
  /\ Stream!Pos \in 0..c
  /\ out = RowsIn(1, Stream!Pos) /\ batch = RowsIn(Stream!Pos + 1, c)
  /\ Len(batch) <= Stream!Largest
  /\ \A i \in 1..c : rs.rows[i] # "bad"

Delivered ==
  phase = "open" /\ ~Leaving =>
    /\ DeliveredTo(Consumed)
    /\ done => Consumed = Len(rs.rows) /\ ~rs.fails /\ ~prefetching
    /\ (\A i \in DOMAIN rs.rows : rs.rows[i] # "hole") => rowsSeenExact
    /\ ~prefetching /\ cpc # "repair" /\ ~done => rowsSeen = cursor /\ bound = curSlot

(* What the consumer, the batch, the ring and the cursor hold is always    *)
(* one run of the result set, whichever thread fetched it.                 *)
StreamInv == /\ OwnershipInv /\ DataOK /\ Readable
             /\ RingHolds /\ ProducerShape /\ CallShape /\ Delivered
=============================================================================
