------------------------ MODULE ParallelIngest_proofs ------------------------
(* Proofs about ParallelIngest, for every number of workers, capacity of   *)
(* the queue and stream of batches.                                        *)
EXTENDS ParallelIngest, FiniteSetTheorems, WellFoundedInduction, TLAPS

(* The lowest-numbered worker of a set of workers is one of them.          *)
LEMMA LowestWorker ==
  ASSUME NEW T \in SUBSET Workers, T # {}
  PROVE  Min(T) \in T
<1>1. T \subseteq Nat
  BY ParallelAssumption DEF Workers
<1>2. PICK x \in T : \A y \in T : ~(<<y, x>> \in OpToRel(<, Nat))
  BY <1>1, WFMin, NatLessThanWellFounded
<1>3. \A y \in T : x <= y
  <2> SUFFICES ASSUME NEW y \in T PROVE x <= y
    OBVIOUS
  <2>1. x \in Nat /\ y \in Nat
    BY <1>1
  <2>2. y < x => <<y, x>> \in OpToRel(<, Nat)
    BY <2>1, Zenon DEF OpToRel
  <2>3. ~(y < x)
    BY <1>2, <2>2, Zenon
  <2> QED BY <2>1, <2>3
<1> QED BY <1>3 DEF Min

-----------------------------------------------------------------------------
(* Slices of the stream.                                                   *)
LEMMA BatchFacts ==
  /\ Batches = 1..Len(Slices) /\ Len(Slices) \in Nat
  /\ \A b \in Batches : Slices[b] \in Nat /\ Slices[b] >= 1
<1>1. Slices \in Seq(Nat \ {0})
  BY ParallelAssumption
<1>2. Batches = 1..Len(Slices) /\ Len(Slices) \in Nat
  BY <1>1 DEF Batches
<1>3. \A b \in Batches : Slices[b] \in Nat \ {0}
  BY <1>1, <1>2
<1> QED BY <1>2, <1>3

(* A slice is named by its batch and its place in it; no item is no slice. *)
LEMMA ItemFacts ==
  /\ \A b \in Batches : \A k \in 1..Slices[b] : <<b, k>> \in Items
  /\ \A x \in Items : x[1] \in Batches /\ x[2] \in 1..Slices[x[1]] /\ x = <<x[1], x[2]>>
  /\ NoItem \notin Items /\ NoItem[1] \notin Batches
<1>1. \A b \in Batches : \A k \in 1..Slices[b] : <<b, k>> \in Items
  BY DEF Items
<1>2. \A x \in Items : x[1] \in Batches /\ x[2] \in 1..Slices[x[1]] /\ x = <<x[1], x[2]>>
  BY DEF Items
<1>3. NoItem[1] = 0 /\ 0 \notin Batches
  BY BatchFacts DEF NoItem
<1> QED BY <1>1, <1>2, <1>3

(* Waking workers changes "wait" to "pop" and nothing else.                *)
LEMMA WakeFacts ==
  ASSUME NEW pcs \in [Workers -> {"off", "connect", "pop", "wait", "execute", "commit",
                                  "rollback", "leave", "exit"}]
  PROVE  /\ WakeAllWorkers(pcs) \in [Workers -> {"off", "connect", "pop", "wait", "execute",
                                                 "commit", "rollback", "leave", "exit"}]
         /\ \A w \in Workers : WakeAllWorkers(pcs)[w] = IF pcs[w] = "wait" THEN "pop" ELSE pcs[w]
BY DEF WakeAllWorkers

(* The failure reported is a worker's that failed, and one that failed for *)
(* a reason of its own if there is any.                                    *)
LEMMA BlameFacts ==
  /\ Blame = 0 \/ (Blame \in Workers /\ wstatus[Blame] # "ok" /\ status = "ok")
  /\ Blame # 0 /\ (\E w \in Workers : wstatus[w] # "ok" /\ ~collateral[w]) => ~collateral[Blame]
  /\ Blame = 0 /\ status = "ok" => \A w \in Workers : wstatus[w] = "ok"
<1> DEFINE failed == {w \in Workers : wstatus[w] # "ok"}
           own    == {w \in failed : ~collateral[w]}
<1>1. own # {} => Min(own) \in own
  BY LowestWorker
<1>2. failed # {} => Min(failed) \in failed
  BY LowestWorker
<1>3. 0 \notin Workers
  BY DEF Workers
<1>4. Blame = IF status # "ok" \/ failed = {} THEN 0
              ELSE IF own # {} THEN Min(own) ELSE Min(failed)
  BY DEF Blame
<1> QED BY <1>1, <1>2, <1>3, <1>4

(* The types hold before the first worker is started.                      *)
LEMMA TypeInit == Init => TypeOK
<1> SUFFICES ASSUME Init PROVE TypeOK
  OBVIOUS
<1>1. /\ queue \in Seq(Items) /\ Len(queue) = 0
  BY DEF Init
<1>2. /\ NConn \in Nat /\ Cap \in Nat /\ Len(Slices) \in Nat
  BY ParallelAssumption, BatchFacts
<1>3. started \in 0..NConn /\ blame \in 0..NConn /\ batch \in 0..Len(Slices)
  BY <1>2 DEF Init
<1>4. Len(queue) <= Cap
  BY <1>1, <1>2
<1>5. refs \in [Batches -> Int] /\ slice \in Nat
  BY DEF Init
<1>6. /\ wpc \in [Workers -> {"off"}] /\ wstatus \in [Workers -> {"ok"}]
      /\ collateral \in [Workers -> BOOLEAN] /\ holding \in [Workers -> {NoItem}]
      /\ pending \in [Workers -> SUBSET Items] /\ committed \in [Workers -> SUBSET Items]
  BY DEF Init
<1>7. qdone = FALSE /\ qfailed = FALSE /\ ppc = "start" /\ status = "ok"
  BY DEF Init
<1> QED BY <1>1, <1>3, <1>4, <1>5, <1>6, <1>7 DEF TypeOK

(* Every step keeps the types; where the steps are is needed for those     *)
(* that index a batch.                                                     *)
LEMMA TypeStep == TypeOK /\ Places /\ [Next]_vars => TypeOK'
<1> SUFFICES ASSUME TypeOK, Places, [Next]_vars PROVE TypeOK'
  OBVIOUS
<1> USE DEF TypeOK
<1>c. /\ NConn \in Nat /\ Cap \in Nat /\ Len(Slices) \in Nat
  BY ParallelAssumption, BatchFacts
<1>1. CASE StartWorker
  <2>1. started' \in 0..NConn
    BY <1>1, <1>c DEF StartWorker
  <2>2. wpc' \in [Workers -> {"off", "connect", "pop", "wait", "execute", "commit", "rollback",
                             "leave", "exit"}]
    BY <1>1 DEF StartWorker
  <2> QED BY <1>1, <2>1, <2>2 DEF StartWorker
<1>2. CASE GetBatch
  BY <1>2, <1>c, BatchFacts DEF GetBatch, queueVars, workerVars, txnVars
<1>3. CASE StreamEnds \/ WaitFull
  BY <1>3 DEF StreamEnds, WaitFull, queueVars, workerVars, txnVars
<1>4. CASE StreamFails \/ QueueFinish
  BY <1>4, WakeFacts DEF StreamFails, QueueFinish
<1>5. CASE Push
  <2>1. batch \in Batches /\ slice \in 1..Slices[batch] /\ Slices[batch] \in Nat
    BY <1>5, BatchFacts DEF Push, Places, Cutting
  <2>2. queue' \in Seq(Items) /\ Len(queue') <= Cap
    <3>1. <<batch, slice>> \in Items
      BY <2>1, ItemFacts
    <3>2. Len(queue) + 1 <= Cap /\ queue' = Append(queue, <<batch, slice>>)
      BY <1>5, <1>c DEF Push, Full
    <3> QED BY <3>1, <3>2
  <2>3. refs' \in [Batches -> Int] /\ slice' \in Nat
    <3> DEFINE up == refs[batch] + 1  down == refs[batch] - 1
    <3>1. up \in Int /\ down \in Int /\ refs \in [Batches -> Int]
      BY <2>1
    <3>2. refs' \in {refs, [refs EXCEPT ![batch] = up], [refs EXCEPT ![batch] = down],
                      [refs EXCEPT ![batch] = refs[batch]]}
      BY <1>5 DEF Push
    <3>3. slice' \in Nat
      BY <1>5, <2>1 DEF Push
    <3> HIDE DEF TypeOK, up, down
    <3> QED BY <3>1, <3>2, <3>3
  <2>4. wpc' \in [Workers -> {"off", "connect", "pop", "wait", "execute", "commit", "rollback",
                             "leave", "exit"}]
    BY <1>5 DEF Push, SignalWorker
  <2> QED BY <1>5, <2>2, <2>3, <2>4 DEF Push
<1>6. CASE Drop
  <2>1. refs' \in [Batches -> Int]
    BY <1>6 DEF Drop, Places, Cutting
  <2> QED BY <1>6, <2>1 DEF Drop, queueVars, workerVars, txnVars
<1>7. CASE Report
  <2>1. queue' \in Seq(Items) /\ Len(queue') <= Cap
    BY <1>7, <1>c DEF Report
  <2>2. refs' \in [Batches -> Int]
    <3>1. \A b \in Batches : Queued(b) \in Nat
      <4> SUFFICES ASSUME NEW b \in Batches PROVE Queued(b) \in Nat
        OBVIOUS
      <4>1. IsFiniteSet(DOMAIN queue)
        BY FS_Interval
      <4> QED BY <4>1, FS_Subset, FS_CardinalityType DEF Queued
    <3>2. refs' = [b \in Batches |-> refs[b] - Queued(b)]
      BY <1>7 DEF Report
    <3> QED BY <3>1, <3>2
  <2>3. blame' \in 0..NConn /\ (blame' # 0 => blame' \in Workers)
    BY <1>7, <1>c, BlameFacts DEF Report, Workers
  <2>4. status' \in {"ok", "internal", "stream", "error"}
    BY <1>7, <2>3 DEF Report
  <2> QED BY <1>7, <2>1, <2>2, <2>3, <2>4 DEF Report, workerVars, txnVars
<1>8. ASSUME NEW w \in Workers, Worker(w) PROVE TypeOK'
  <2>1. CASE Connect(w)
    BY <2>1 DEF Connect, queueVars, pumpVars
  <2>2. CASE PopWait(w) \/ PopFailed(w) \/ PopEnd(w)
    BY <2>2 DEF PopWait, PopFailed, PopEnd, queueVars, pumpVars
  <2>3. CASE Pop(w)
    BY <2>3, <1>c DEF Pop, WokenPump
  <2>4. CASE Execute(w)
    <3>1. holding[w] \in Items
      BY <2>4 DEF Execute, Places
    <3>2. /\ pending' \in [Workers -> SUBSET Items] /\ committed' \in [Workers -> SUBSET Items]
      <4> DEFINE more == pending[w] \cup {holding[w]}  lone == committed[w] \cup {holding[w]}
      <4>1. more \in SUBSET Items /\ lone \in SUBSET Items
        BY <3>1
      <4>2. pending' = pending \/ pending' = [pending EXCEPT ![w] = more]
        BY <2>4 DEF Execute
      <4>3. committed' = committed \/ committed' = [committed EXCEPT ![w] = lone]
        BY <2>4 DEF Execute
      <4>4. pending \in [Workers -> SUBSET Items] /\ committed \in [Workers -> SUBSET Items]
        OBVIOUS
      <4> HIDE DEF TypeOK, more, lone
      <4> QED BY <4>1, <4>2, <4>3, <4>4
    <3>3. refs' \in [Batches -> Int]
      BY <2>4, <3>1, ItemFacts DEF Execute
    <3>4. wstatus' \in [Workers -> {"ok", "error"}] /\ holding' \in [Workers -> Items \cup {NoItem}]
      BY <2>4 DEF Execute
    <3>5. wpc' \in [Workers -> {"off", "connect", "pop", "wait", "execute", "commit", "rollback",
                               "leave", "exit"}]
      BY <2>4 DEF Execute
    <3> QED BY <2>4, <3>2, <3>3, <3>4, <3>5 DEF Execute, queueVars, pumpVars
  <2>5. CASE Commit(w) \/ Rollback(w)
    <3>1. /\ wpc' = [wpc EXCEPT ![w] = "leave"] /\ pending' = [pending EXCEPT ![w] = {}]
          /\ wstatus' = wstatus \/ wstatus' = [wstatus EXCEPT ![w] = "error"]
          /\ committed' = committed \/ committed' = [committed EXCEPT ![w] = committed[w] \cup pending[w]]
      BY <2>5 DEF Commit, Rollback, Kept, Ended
    <3>2. UNCHANGED <<queueVars, pumpVars, refs, collateral, holding>>
      BY <2>5 DEF Commit, Rollback
    <3>3. /\ wpc' \in [Workers -> {"off", "connect", "pop", "wait", "execute", "commit", "rollback",
                                  "leave", "exit"}]
          /\ wstatus' \in [Workers -> {"ok", "error"}]
          /\ pending' \in [Workers -> SUBSET Items] /\ committed' \in [Workers -> SUBSET Items]
      BY <3>1
    <3> QED BY <3>2, <3>3 DEF queueVars, pumpVars
  <2>6. CASE Leave(w)
    <3> DEFINE left == [wpc EXCEPT ![w] = "exit"]
    <3>1. left \in [Workers -> {"off", "connect", "pop", "wait", "execute", "commit", "rollback",
                               "leave", "exit"}]
      OBVIOUS
    <3>2. wpc' = left \/ wpc' = WakeAllWorkers(left)
      BY <2>6 DEF Leave
    <3>3. ppc' \in {"start", "get", "push", "waitFull", "finish", "join", "done"}
          /\ qfailed' \in BOOLEAN
      BY <2>6 DEF Leave, WokenPump
    <3> HIDE DEF left
    <3>4. wpc' \in [Workers -> {"off", "connect", "pop", "wait", "execute", "commit", "rollback",
                               "leave", "exit"}]
      BY <3>1, <3>2, WakeFacts
    <3> QED BY <2>6, <3>3, <3>4 DEF Leave
  <2> QED BY <1>8, <2>1, <2>2, <2>3, <2>4, <2>5, <2>6 DEF Worker
<1>9. CASE Returned \/ UNCHANGED vars
  BY <1>9 DEF Returned, vars, queueVars, pumpVars, workerVars, txnVars
<1> QED BY <1>1, <1>2, <1>3, <1>4, <1>5, <1>6, <1>7, <1>8, <1>9 DEF Next, Pump

-----------------------------------------------------------------------------
(* At first no worker is started and nothing is cut.                       *)
LEMMA PlacesInit == Init => Places
<1> SUFFICES ASSUME Init PROVE Places
  OBVIOUS
<1> QED BY DEF Init, Places, Cutting

(* Every step of the reader and of a worker leaves both at a place that    *)
(* fits what they hold.                                                    *)
LEMMA PlacesStep == TypeOK /\ Places /\ [Next]_vars => Places'
<1> SUFFICES ASSUME TypeOK, Places, [Next]_vars PROVE Places'
  OBVIOUS
<1> USE DEF Places, Cutting
<1>c. NConn \in Nat /\ started \in 0..NConn /\ started \in Nat
  BY ParallelAssumption DEF TypeOK
<1>t. /\ wpc \in [Workers -> {"off", "connect", "pop", "wait", "execute", "commit", "rollback",
                            "leave", "exit"}]
      /\ wstatus \in [Workers -> {"ok", "error"}]
      /\ holding \in [Workers -> Items \cup {NoItem}]
      /\ pending \in [Workers -> SUBSET Items]
  BY DEF TypeOK
<1>1. CASE StartWorker
  <2>1. CASE /\ started' = started + 1
             /\ wpc' = [wpc EXCEPT ![started'] = "connect"]
             /\ ppc' = IF started' = NConn THEN "get" ELSE "start"
             /\ UNCHANGED <<status, qfailed>>
    <3>1. started + 1 \in Workers /\ wpc[started + 1] = "off"
      BY <1>1, <1>c DEF StartWorker, Workers
    <3>2. \A w \in Workers : wpc'[w] = IF w = started + 1 THEN "connect" ELSE wpc[w]
      BY <1>t, <2>1, <3>1
    <3>3. \A w \in Workers : w \in Nat
      BY DEF Workers
    <3>4. ppc = "start" /\ UNCHANGED <<qdone, wstatus, holding, pending>>
      BY <1>1 DEF StartWorker
    <3> QED BY <1>c, <1>t, <2>1, <3>1, <3>2, <3>3, <3>4
  <2>2. CASE status' = "internal" /\ ppc' = "finish" /\ UNCHANGED <<started, wpc>>
    BY <1>1, <2>2 DEF StartWorker
  <2> QED BY <1>1, <2>1, <2>2 DEF StartWorker
<1>2. CASE GetBatch
  <2>1. batch' \in Batches /\ slice' = 1 /\ 1 \in 1..Slices[batch']
    BY <1>2, BatchFacts DEF GetBatch, TypeOK
  <2> QED BY <1>2, <2>1 DEF GetBatch, queueVars, workerVars, txnVars
<1>3. CASE StreamEnds \/ WaitFull \/ Drop
  BY <1>3 DEF StreamEnds, WaitFull, Drop, queueVars, workerVars, txnVars
<1>4. CASE StreamFails \/ QueueFinish
  <2>1. \A w \in Workers : wpc'[w] = IF wpc[w] = "wait" THEN "pop" ELSE wpc[w]
    BY <1>4, <1>t, WakeFacts DEF StreamFails, QueueFinish
  <2>2. UNCHANGED <<started, batch, slice, wstatus, holding, pending>>
    BY <1>4 DEF StreamFails, QueueFinish
  <2>3. \/ ppc' = "finish" /\ status' = "stream" /\ qdone' = qdone /\ ppc = "get"
        \/ ppc' = "join" /\ status' = status /\ ppc = "finish"
    BY <1>4 DEF StreamFails, QueueFinish
  <2> QED BY <2>1, <2>2, <2>3
<1>5. CASE Push
  <2>1. \A w \in Workers : wpc'[w] = wpc[w] \/ (wpc[w] = "wait" /\ wpc'[w] = "pop")
    BY <1>5, <1>t DEF Push, SignalWorker
  <2>2. batch \in Batches /\ slice \in 1..Slices[batch] /\ Slices[batch] \in Nat
    BY <1>5, BatchFacts DEF Push
  <2>3. \/ ppc' = "push" /\ slice' \in 1..Slices[batch]
        \/ ppc' = "get"
    BY <1>5, <2>2 DEF Push
  <2> QED BY <1>5, <2>1, <2>2, <2>3 DEF Push
<1>6. CASE Report
  <2>1. status' = "ok" => status = "ok"
    <3>1. blame' # 0 => wstatus[blame'] # "ok"
      BY <1>6, BlameFacts DEF Report
    <3> QED BY <1>6, <3>1 DEF Report
  <2> QED BY <1>6, <2>1 DEF Report, workerVars, txnVars
<1>7. ASSUME NEW w \in Workers, Worker(w) PROVE Places'
  <2>1. CASE Connect(w)
    BY <1>t, <2>1 DEF Connect, queueVars, pumpVars
  <2>2. CASE PopWait(w) \/ PopFailed(w) \/ PopEnd(w)
    BY <1>t, <2>2 DEF PopWait, PopFailed, PopEnd, queueVars, pumpVars
  <2>3. CASE Pop(w)
    <3>1. Head(queue) \in Items
      BY <2>3 DEF Pop, TypeOK
    <3>2. Head(queue) # NoItem
      BY <3>1, ItemFacts
    <3>3. /\ ppc' = (IF ppc = "waitFull" THEN "push" ELSE ppc)
          /\ UNCHANGED <<qdone, started, batch, slice, status, wstatus, pending>>
      BY <2>3 DEF Pop, WokenPump
    <3>4. \A v \in Workers : /\ wpc'[v] = IF v = w THEN "execute" ELSE wpc[v]
                             /\ holding'[v] = IF v = w THEN Head(queue) ELSE holding[v]
      BY <1>t, <2>3 DEF Pop
    <3>5. wpc[w] = "pop"
      BY <2>3 DEF Pop
    <3> QED BY <1>t, <3>2, <3>3, <3>4, <3>5
  <2>4. CASE Execute(w)
    <3>1. UNCHANGED <<ppc, qdone, started, batch, slice, status>>
      BY <2>4 DEF Execute, queueVars, pumpVars
    <3>2. \A v \in Workers \ {w} : /\ wpc'[v] = wpc[v] /\ holding'[v] = holding[v]
                                   /\ wstatus'[v] = wstatus[v] /\ pending'[v] = pending[v]
      BY <1>t, <2>4 DEF Execute
    <3>3. /\ holding'[w] = NoItem
          /\ \/ wpc'[w] = "pop" /\ wstatus'[w] = wstatus[w]
             \/ wpc'[w] = "rollback" /\ wstatus'[w] = "error"
          /\ wpc[w] = "execute"
      BY <1>t, <2>4 DEF Execute
    <3> QED BY <3>1, <3>2, <3>3
  <2>5. CASE Commit(w) \/ Rollback(w)
    BY <1>t, <2>5 DEF Commit, Rollback, Kept, Ended, queueVars, pumpVars
  <2>6. CASE Leave(w)
    <3>1. \A v \in Workers : v # w => wpc'[v] = wpc[v] \/ (wpc[v] = "wait" /\ wpc'[v] = "pop")
      BY <1>t, <2>6 DEF Leave, WakeAllWorkers
    <3>2. wpc[w] = "leave" /\ wpc'[w] = "exit"
      BY <1>t, <2>6 DEF Leave, WakeAllWorkers
    <3>3. /\ ppc' = ppc \/ (ppc = "waitFull" /\ ppc' = "push")
          /\ UNCHANGED <<qdone, started, batch, slice, status, wstatus, holding, pending>>
      BY <2>6 DEF Leave, WokenPump
    <3> QED BY <1>c, <3>1, <3>2, <3>3
  <2> QED BY <1>7, <2>1, <2>2, <2>3, <2>4, <2>5, <2>6 DEF Worker
<1>8. CASE Returned \/ UNCHANGED vars
  BY <1>8 DEF Returned, vars, queueVars, pumpVars, workerVars, txnVars
<1> QED BY <1>1, <1>2, <1>3, <1>4, <1>5, <1>6, <1>7, <1>8 DEF Next, Pump

-----------------------------------------------------------------------------
(* Who is to blame.  A worker that follows is never the first to fail, so  *)
(* there is always one, or the pump, that failed for a reason of its own.  *)
LEMMA BlameStep ==
  TypeOK /\ Places /\ FirstFailure /\ BlameIsNotCollateral /\ [Next]_vars
    => FirstFailure' /\ BlameIsNotCollateral'
<1> SUFFICES ASSUME TypeOK, Places, FirstFailure, BlameIsNotCollateral, [Next]_vars
             PROVE  FirstFailure' /\ BlameIsNotCollateral'
  OBVIOUS
<1> USE DEF FirstFailure, BlameIsNotCollateral
<1>t. /\ wpc \in [Workers -> {"off", "connect", "pop", "wait", "execute", "commit", "rollback",
                            "leave", "exit"}]
      /\ wstatus \in [Workers -> {"ok", "error"}] /\ collateral \in [Workers -> BOOLEAN]
      /\ blame # 0 => blame \in Workers
      /\ qfailed \in BOOLEAN /\ started \in Nat
  BY ParallelAssumption DEF TypeOK, Workers
<1>1. CASE StartWorker
  <2>1. /\ UNCHANGED <<blame, wstatus, collateral>>
        /\ \/ qfailed' = qfailed /\ status' = status
           \/ qfailed' = (qfailed \/ started = 0) /\ status' # "ok"
    BY <1>1 DEF StartWorker
  <2> QED BY <1>1, <1>t, <2>1
<1>2. CASE StreamFails
  BY <1>2, <1>t DEF StreamFails
<1>3. CASE GetBatch \/ StreamEnds \/ WaitFull \/ Push \/ Drop \/ QueueFinish
  <2>1. UNCHANGED <<status, blame, qfailed, wstatus, collateral>>
    BY <1>3 DEF GetBatch, StreamEnds, WaitFull, Push, Drop, QueueFinish, queueVars, workerVars, txnVars
  <2> QED BY <2>1
<1>4. CASE Report
  <2>1. /\ blame' = Blame /\ UNCHANGED <<qfailed, wstatus, collateral>>
        /\ status' = IF blame' = 0 THEN status ELSE wstatus[blame']
    BY <1>4 DEF Report, workerVars, txnVars
  <2>2. blame' # 0 => /\ blame' \in Workers /\ wstatus[blame'] # "ok" /\ status = "ok"
                      /\ ~collateral[blame']
    <3>1. ASSUME Blame # 0 PROVE \E w \in Workers : wstatus[w] # "ok" /\ ~collateral[w]
      <4>1. Blame \in Workers /\ wstatus[Blame] # "ok" /\ status = "ok"
        BY <3>1, BlameFacts
      <4>2. CASE collateral[Blame]
        BY <4>1, <4>2
      <4>3. CASE ~collateral[Blame]
        BY <4>1, <4>3
      <4> QED BY <4>2, <4>3
    <3> QED BY <2>1, <3>1, BlameFacts
  <2> QED BY <2>1, <2>2
<1>5. ASSUME NEW w \in Workers, Worker(w) PROVE FirstFailure' /\ BlameIsNotCollateral'
  <2>1. CASE Connect(w) \/ Execute(w) \/ Commit(w)
    <3>1. UNCHANGED <<status, blame, qfailed, collateral>>
      BY <2>1 DEF Connect, Execute, Commit, Kept, Ended, queueVars, pumpVars
    <3>2. \A v \in Workers : wstatus'[v] = wstatus[v] \/ (v = w /\ wstatus'[v] = "error")
      BY <1>t, <2>1 DEF Connect, Execute, Commit, Kept, Ended
    <3> QED BY <1>t, <3>1, <3>2
  <2>2. CASE PopWait(w) \/ PopEnd(w) \/ Pop(w) \/ Rollback(w)
    <3>1. UNCHANGED <<status, blame, qfailed, wstatus, collateral>>
      BY <2>2 DEF PopWait, PopEnd, Pop, Rollback, Kept, Ended, queueVars, pumpVars
    <3> QED BY <3>1
  <2>3. CASE PopFailed(w)
    <3>1. qfailed /\ wpc[w] = "pop" /\ UNCHANGED <<status, blame, qfailed>>
      BY <2>3 DEF PopFailed, queueVars, pumpVars
    <3>2. \A v \in Workers : /\ wstatus'[v] = IF v = w THEN "error" ELSE wstatus[v]
                             /\ collateral'[v] = IF v = w THEN TRUE ELSE collateral[v]
      BY <1>t, <2>3 DEF PopFailed
    <3>3. wstatus[w] = "ok"
      BY <1>t, <3>1 DEF Places
    <3> QED BY <1>t, <3>1, <3>2, <3>3
  <2>4. CASE Leave(w)
    <3>1. /\ UNCHANGED <<status, blame, wstatus, collateral>>
          /\ \/ wstatus[w] = "ok" /\ qfailed' = qfailed
             \/ wstatus[w] # "ok" /\ qfailed' = TRUE
      BY <2>4 DEF Leave
    <3> QED BY <1>t, <3>1
  <2> QED BY <1>5, <2>1, <2>2, <2>3, <2>4 DEF Worker
<1>6. CASE Returned \/ UNCHANGED vars
  BY <1>6 DEF Returned, vars, queueVars, pumpVars, workerVars, txnVars
<1> QED BY <1>1, <1>2, <1>3, <1>4, <1>5, <1>6 DEF Next, Pump

-----------------------------------------------------------------------------
(* What a worker has in the table before it commits.  What is known of a   *)
(* worker stays known when it refused before, stays where it was, or goes  *)
(* on with the same commits.                                               *)
LEMMA LoneKeeps ==
  ASSUME LoneCommits,
         \A w \in Workers : \/ refused'[w]
                            \/ /\ refused'[w] = refused[w] /\ committed'[w] = committed[w]
                               /\ \/ wstatus'[w] = wstatus[w] /\ wpc'[w] = wpc[w]
                                  \/ wstatus[w] # "ok" \/ wpc[w] \notin {"leave", "exit"}
                            \/ wstatus'[w] = "ok" /\ wpc'[w] \in {"leave", "exit"}
                            \/ committed'[w] = {} \/ \E x \in Lone : committed'[w] = {x}
  PROVE  LoneCommits'
BY DEF LoneCommits

(* A step of anyone leaves a worker whose driver refused nothing with at   *)
(* most a lone row in the table until it commits.                          *)
LEMMA LoneStep ==
  TypeOK /\ Places /\ TxnOK /\ LoneCommits /\ [Next]_vars => TxnOK' /\ LoneCommits'
<1> SUFFICES ASSUME TypeOK, Places, TxnOK, LoneCommits, [Next]_vars PROVE TxnOK' /\ LoneCommits'
  OBVIOUS
<1>t. /\ wpc \in [Workers -> {"off", "connect", "pop", "wait", "execute", "commit", "rollback",
                            "leave", "exit"}]
      /\ wstatus \in [Workers -> {"ok", "error"}]
      /\ committed \in [Workers -> SUBSET Items]
      /\ started \in Nat
  BY ParallelAssumption DEF TypeOK
<1>b. txn \in [Workers -> BOOLEAN] /\ refused \in [Workers -> BOOLEAN]
  BY DEF TxnOK
<1>1. CASE Pump
  <2>1. wstatus' = wstatus /\ committed' = committed /\ refused' = refused /\ txn' = txn
    BY <1>1 DEF Pump, StartWorker, GetBatch, StreamEnds, StreamFails, WaitFull, Push, Drop,
                QueueFinish, Report, workerVars, txnVars
  <2>2. \A w \in Workers : wpc'[w] = wpc[w] \/ wpc[w] \notin {"leave", "exit"}
    <3>1. CASE StartWorker
      <4>1. wpc' = wpc \/ wpc' = [wpc EXCEPT ![started + 1] = "connect"]
        BY <3>1 DEF StartWorker
      <4>2. started + 1 \in Workers => wpc[started + 1] = "off"
        BY <1>t DEF Places, Workers
      <4> QED BY <1>t, <4>1, <4>2
    <3>2. CASE StreamFails \/ QueueFinish
      BY <1>t, <3>2, WakeFacts DEF StreamFails, QueueFinish
    <3>3. CASE Push
      BY <1>t, <3>3 DEF Push, SignalWorker
    <3>4. CASE GetBatch \/ StreamEnds \/ WaitFull \/ Drop \/ Report
      BY <3>4 DEF GetBatch, StreamEnds, WaitFull, Drop, Report, workerVars
    <3> QED BY <1>1, <3>1, <3>2, <3>3, <3>4 DEF Pump
  <2> QED BY <2>1, <2>2, LoneKeeps DEF TxnOK
<1>2. ASSUME NEW w \in Workers, Worker(w) PROVE TxnOK' /\ LoneCommits'
  <2>1. CASE Connect(w) \/ PopWait(w) \/ PopFailed(w) \/ PopEnd(w) \/ Pop(w)
    <3>1. committed' = committed /\ refused' = refused /\ txn' = txn
      BY <2>1 DEF Connect, PopWait, PopFailed, PopEnd, Pop, txnVars
    <3>2. \A v \in Workers \ {w} : wstatus'[v] = wstatus[v] /\ wpc'[v] = wpc[v]
      BY <1>t, <2>1 DEF Connect, PopWait, PopFailed, PopEnd, Pop
    <3>3. wpc[w] \notin {"leave", "exit"}
      BY <2>1 DEF Connect, PopWait, PopFailed, PopEnd, Pop
    <3> QED BY <3>1, <3>2, <3>3, LoneKeeps DEF TxnOK
  <2>2. CASE Execute(w)
    <3>1. wpc[w] = "execute"
      BY <2>2 DEF Execute
    <3>2. PICK agreed \in BOOLEAN :
            /\ txn' = [txn EXCEPT ![w] = txn[w] \/ (ManyRows(w) /\ agreed)]
            /\ refused' = [refused EXCEPT ![w] = refused[w] \/ (ManyRows(w) /\ ~txn'[w])]
      BY <2>2, Zenon DEF Execute
    <3>3. /\ TxnOK'
          /\ \A v \in Workers \ {w} : refused'[v] = refused[v]
          /\ ~refused'[w] => ~refused[w] /\ (txn'[w] \/ ~ManyRows(w))
      <4> DEFINE a == txn[w] \/ (ManyRows(w) /\ agreed)
                 b == refused[w] \/ (ManyRows(w) /\ ~txn'[w])
      <4>1. a \in BOOLEAN /\ b \in BOOLEAN
        BY Zenon
      <4>2. txn' = [txn EXCEPT ![w] = a] /\ refused' = [refused EXCEPT ![w] = b]
        BY <3>2, Zenon
      <4>3. ~b => ~refused[w] /\ (txn'[w] \/ ~ManyRows(w))
        BY Zenon
      <4> HIDE DEF a, b
      <4> QED BY <1>b, <4>1, <4>2, <4>3 DEF TxnOK
    <3>4. \A v \in Workers \ {w} : /\ wstatus'[v] = wstatus[v] /\ wpc'[v] = wpc[v]
                                   /\ committed'[v] = committed[v]
      BY <1>t, <2>2 DEF Execute
    <3>5. \/ committed'[w] = committed[w]
          \/ ~txn'[w] /\ committed'[w] = committed[w] \cup {holding[w]}
      BY <1>t, <2>2 DEF Execute
    <3>6. CASE committed'[w] = committed[w] /\ ~refused'[w]
      <4>1. refused[w] = refused'[w]
        BY <1>b, <3>3, <3>6 DEF TxnOK
      <4> QED BY <3>1, <3>3, <3>4, <3>6, <4>1, LoneKeeps
    <3>7. CASE refused'[w]
      BY <3>3, <3>4, <3>7, LoneKeeps
    <3>8. CASE ~refused'[w] /\ ~txn'[w] /\ committed'[w] = committed[w] \cup {holding[w]}
      <4>1. committed[w] = {} /\ holding[w] \in Lone
        BY <3>3, <3>8 DEF ManyRows
      <4>2. \E x \in Lone : committed'[w] = {x}
        BY <3>8, <4>1
      <4> QED BY <3>3, <3>4, <4>2, LoneKeeps
    <3> QED BY <3>5, <3>6, <3>7, <3>8
  <2>3. CASE Commit(w) \/ Rollback(w)
    <3>1. /\ txn' = [txn EXCEPT ![w] = FALSE]
          /\ refused' = refused \/ refused' = [refused EXCEPT ![w] = TRUE]
      BY <2>3 DEF Commit, Rollback, Kept, Ended
    <3>2. TxnOK' /\ \A v \in Workers \ {w} : refused'[v] = refused[v]
      BY <1>b, <3>1 DEF TxnOK
    <3>3. /\ \A v \in Workers \ {w} : /\ wstatus'[v] = wstatus[v] /\ wpc'[v] = wpc[v]
                                      /\ committed'[v] = committed[v]
          /\ wpc[w] \in {"commit", "rollback"} /\ wpc'[w] = "leave"
      BY <1>t, <2>3 DEF Commit, Rollback, Kept, Ended
    <3>4. \/ refused'[w]
          \/ refused'[w] = refused[w] /\ committed'[w] = committed[w]
          \/ wpc[w] = "commit" /\ wstatus'[w] = wstatus[w]
      <4>1. CASE Rollback(w)
        BY <1>b, <4>1 DEF Rollback, Kept
      <4>2. CASE Commit(w)
        BY <1>b, <4>2 DEF Commit, Kept
      <4> QED BY <2>3, <4>1, <4>2
    <3>5. wpc[w] = "commit" => wstatus[w] = "ok"
      BY <1>t DEF Places
    <3> QED BY <3>2, <3>3, <3>4, <3>5, LoneKeeps
  <2>4. CASE Leave(w)
    <3>1. UNCHANGED <<wstatus, committed, txn, refused>>
      BY <2>4 DEF Leave, txnVars
    <3>2. \A v \in Workers : /\ v # w => wpc'[v] = wpc[v] \/ wpc[v] = "wait"
                             /\ v = w => wpc[v] = "leave" /\ wpc'[v] = "exit"
      BY <1>t, <2>4 DEF Leave, WakeAllWorkers
    <3>3. wstatus[w] = "ok" \/ wstatus[w] # "ok"
      OBVIOUS
    <3> QED BY <3>1, <3>2, <3>3, LoneKeeps DEF TxnOK
  <2> QED BY <1>2, <2>1, <2>2, <2>3, <2>4 DEF Worker
<1>3. CASE Returned \/ UNCHANGED vars
  <2>1. UNCHANGED <<wstatus, committed, txn, refused, wpc>>
    BY <1>3 DEF Returned, vars, workerVars, txnVars
  <2> QED BY <2>1, LoneKeeps DEF TxnOK
<1> QED BY <1>1, <1>2, <1>3 DEF Next

-----------------------------------------------------------------------------
(* Where the slices are.                                                   *)

(* What is pushed stays pushed; only a push adds to it, and what it adds   *)
(* is new.                                                                 *)
LEMMA SentGrows ==
  ASSUME TypeOK, Places, [Next]_vars, ~Push
  PROVE  Sent \subseteq Sent' /\ (~Drop => Sent' = Sent)
<1>t. batch \in Nat /\ slice \in Nat /\ \A x \in Items : x[1] \in Nat /\ x[2] \in Nat /\ x[2] >= 1
  BY BatchFacts, ItemFacts DEF TypeOK
<1>1. CASE GetBatch
  <2>1. ~Cutting /\ Cutting' /\ batch' = batch + 1 /\ slice' = 1
    BY <1>1 DEF GetBatch, Cutting
  <2> QED BY <1>t, <2>1 DEF Sent
<1>2. CASE Drop
  BY <1>2 DEF Drop, Sent, Cutting
<1>3. CASE ~GetBatch /\ ~Drop
  <2>1. Cutting' = Cutting /\ batch' = batch /\ slice' = slice
    <3>1. CASE Pump
      BY <1>3, <3>1 DEF Pump, StartWorker, StreamEnds, StreamFails, WaitFull, QueueFinish,
                        Report, Cutting
    <3>2. ASSUME NEW w \in Workers, Worker(w)
          PROVE  Cutting' = Cutting /\ batch' = batch /\ slice' = slice
      BY <3>2 DEF Worker, Connect, PopWait, PopFailed, PopEnd, Pop, Execute, Commit, Rollback, Kept, Ended,
                  Leave, WokenPump, pumpVars, Cutting
    <3>3. CASE Returned \/ UNCHANGED vars
      BY <3>3 DEF Returned, vars, pumpVars, Cutting
    <3> QED BY <3>1, <3>2, <3>3 DEF Next
  <2> QED BY <2>1 DEF Sent
<1> QED BY <1>1, <1>2, <1>3

(* The slice the reader pushes had not been sent before, and is now.       *)
LEMMA PushSends ==
  ASSUME TypeOK, Places, Push
  PROVE  /\ <<batch, slice>> \in Items \ Sent
         /\ Sent' = Sent \cup {<<batch, slice>>}
<1>1. /\ batch \in Batches /\ slice \in 1..Slices[batch] /\ Slices[batch] \in Nat
      /\ batch \in Nat /\ slice \in Nat
  BY BatchFacts DEF Push, Places, Cutting, TypeOK
<1>2. <<batch, slice>> \in Items
  BY <1>1, ItemFacts
<1>3. \A x \in Items : /\ x[1] \in Nat /\ x[2] \in 1..Slices[x[1]] /\ x[2] \in Nat
                       /\ x = <<x[1], x[2]>>
  BY BatchFacts, ItemFacts
<1>4. <<batch, slice>> \notin Sent
  BY <1>1 DEF Push, Sent, Cutting
<1>5. CASE slice < Slices[batch]
  <2>1. batch' = batch /\ slice' = slice + 1 /\ Cutting' /\ Cutting
    BY <1>5 DEF Push, Cutting
  <2>2. \A x \in Items : x \in Sent' <=> x \in Sent \/ x = <<batch, slice>>
    BY <1>1, <1>3, <2>1 DEF Sent
  <2> QED BY <1>2, <1>4, <2>2 DEF Sent
<1>6. CASE slice = Slices[batch]
  <2>1. batch' = batch /\ slice' = slice /\ ~Cutting' /\ Cutting
    BY <1>1, <1>6 DEF Push, Cutting
  <2>2. \A x \in Items : x \in Sent' <=> x \in Sent \/ x = <<batch, slice>>
    BY <1>1, <1>3, <1>6, <2>1 DEF Sent
  <2> QED BY <1>2, <1>4, <2>2 DEF Sent
<1> QED BY <1>1, <1>5, <1>6

(* What QueuePush and QueuePop do to the slices in the queue.              *)
LEMMA AppendFacts ==
  ASSUME NEW q \in Seq(Items), NEW x \in Items
  PROVE  /\ Append(q, x) \in Seq(Items) /\ Len(Append(q, x)) = Len(q) + 1
         /\ DOMAIN Append(q, x) = DOMAIN q \cup {Len(q) + 1} /\ Len(q) + 1 \notin DOMAIN q
         /\ \A i \in DOMAIN q : Append(q, x)[i] = q[i]
         /\ Append(q, x)[Len(q) + 1] = x
<1>1. DOMAIN q = 1..Len(q) /\ Len(q) \in Nat
  OBVIOUS
<1>2. Append(q, x) \in Seq(Items) /\ Len(Append(q, x)) = Len(q) + 1
  OBVIOUS
<1>3. DOMAIN Append(q, x) = 1..Len(q) + 1
  BY <1>1, <1>2
<1> QED BY <1>1, <1>2, <1>3

(* Taking the head of the queue shifts the other slices by one place.      *)
LEMMA TailFacts ==
  ASSUME NEW q \in Seq(Items), q # <<>>
  PROVE  /\ 1 \in DOMAIN q /\ Head(q) = q[1] /\ Tail(q) \in Seq(Items)
         /\ \A i \in DOMAIN Tail(q) : i + 1 \in DOMAIN q /\ i + 1 # 1 /\ Tail(q)[i] = q[i + 1]
         /\ \A i \in DOMAIN q \ {1} : i - 1 \in DOMAIN Tail(q) /\ (i - 1) + 1 = i
<1>1. DOMAIN q = 1..Len(q) /\ Len(q) \in Nat /\ Len(q) # 0
  OBVIOUS
<1>2. Tail(q) \in Seq(Items) /\ Len(Tail(q)) = Len(q) - 1 /\ DOMAIN Tail(q) = 1..Len(q) - 1
  BY <1>1
<1>3. \A i \in DOMAIN Tail(q) : Tail(q)[i] = q[i + 1]
  BY <1>1, <1>2
<1> QED BY <1>1, <1>2, <1>3

(* A step that only drops slices, or moves them within a worker, keeps     *)
(* each of them in one place.                                              *)
LEMMA OnceShrinks ==
  ASSUME TypeOK, EachSliceOnce, queue' = queue \/ queue' = <<>>,
         \A v \in Workers : /\ Has(v)' \subseteq Has(v) \cup {NoItem}
                            /\ holding'[v] \notin pending'[v] \cup committed'[v]
  PROVE  EachSliceOnce'
<1>1. /\ DOMAIN queue' \subseteq DOMAIN queue
      /\ \A i \in DOMAIN queue' : queue'[i] = queue[i] /\ queue[i] \in Items /\ queue[i] # NoItem
  BY ItemFacts DEF TypeOK
<1> QED BY <1>1 DEF EachSliceOnce

(* At first no slice is anywhere.                                          *)
LEMMA SlicesInit == Init => EachSliceOnce /\ OnlySent
<1> SUFFICES ASSUME Init PROVE EachSliceOnce /\ OnlySent
  OBVIOUS
<1>1. DOMAIN queue = {} /\ \A w \in Workers : holding[w] = NoItem /\ pending[w] = {} /\ committed[w] = {}
  BY DEF Init
<1>2. \A w \in Workers : Has(w) = {NoItem}
  BY <1>1 DEF Has
<1> QED BY <1>1, <1>2 DEF EachSliceOnce, OnlySent, InQueue

(* No slice is ever in two places, and only pushed ones are anywhere.      *)
LEMMA SlicesStep ==
  TypeOK /\ Places /\ EachSliceOnce /\ OnlySent /\ [Next]_vars => EachSliceOnce' /\ OnlySent'
<1> SUFFICES ASSUME TypeOK, Places, EachSliceOnce, OnlySent, [Next]_vars
             PROVE  EachSliceOnce' /\ OnlySent'
  OBVIOUS
<1>t. /\ queue \in Seq(Items) /\ NoItem \notin Items
      /\ holding \in [Workers -> Items \cup {NoItem}]
      /\ pending \in [Workers -> SUBSET Items] /\ committed \in [Workers -> SUBSET Items]
  BY ItemFacts DEF TypeOK
<1>1. ASSUME ~Push, queue' = queue \/ queue' = <<>>,
             \A v \in Workers : /\ Has(v)' \subseteq Has(v) \cup {NoItem}
                                /\ holding'[v] \notin pending'[v] \cup committed'[v]
      PROVE  EachSliceOnce' /\ OnlySent'
  <2>1. EachSliceOnce'
    BY <1>1, OnceShrinks
  <2>2. Sent \subseteq Sent'
    BY <1>1, SentGrows
  <2>3. InQueue' \subseteq InQueue
    BY <1>1 DEF InQueue
  <2>4. OnlySent'
    BY <1>1, <2>2, <2>3 DEF OnlySent
  <2> QED BY <2>1, <2>4
<1>2. CASE Push
  <2>1. /\ <<batch, slice>> \in Items \ Sent /\ Sent' = Sent \cup {<<batch, slice>>}
    BY <1>2, PushSends
  <2>2. queue' = Append(queue, <<batch, slice>>) /\ UNCHANGED <<holding, pending, committed>>
    BY <1>2 DEF Push
  <2>3. /\ DOMAIN queue' = DOMAIN queue \cup {Len(queue) + 1} /\ Len(queue) + 1 \notin DOMAIN queue
        /\ \A i \in DOMAIN queue : queue'[i] = queue[i]
        /\ queue'[Len(queue) + 1] = <<batch, slice>>
    BY <1>t, <2>1, <2>2, AppendFacts
  <2>4. \A v \in Workers : Has(v)' = Has(v)
    BY <2>2 DEF Has
  <2>5. /\ \A i \in DOMAIN queue : queue[i] # <<batch, slice>>
        /\ \A v \in Workers : <<batch, slice>> \notin Has(v)
    BY <1>t, <2>1 DEF OnlySent, InQueue
  <2>6. EachSliceOnce'
    BY <2>2, <2>3, <2>4, <2>5 DEF EachSliceOnce
  <2>7. OnlySent'
    BY <2>1, <2>3, <2>4 DEF OnlySent, InQueue
  <2> QED BY <2>6, <2>7
<1>3. ASSUME NEW w \in Workers, Pop(w) PROVE EachSliceOnce' /\ OnlySent'
  <2>1. /\ queue # <<>> /\ queue' = Tail(queue) /\ holding' = [holding EXCEPT ![w] = Head(queue)]
        /\ UNCHANGED <<pending, committed>> /\ wpc[w] = "pop"
    BY <1>3 DEF Pop
  <2>2. /\ 1 \in DOMAIN queue /\ Head(queue) = queue[1]
        /\ \A i \in DOMAIN queue' : i + 1 \in DOMAIN queue /\ i + 1 # 1 /\ queue'[i] = queue[i + 1]
    BY <1>t, <2>1, TailFacts
  <2>3. \A v \in Workers : Has(v)' \subseteq IF v = w THEN Has(v) \cup {queue[1]} ELSE Has(v)
    BY <1>t, <2>1, <2>2 DEF Has
  <2>4. /\ \A v \in Workers \ {w} : holding'[v] = holding[v]
        /\ holding'[w] = queue[1]
    BY <1>t, <2>1, <2>2
  <2>5. EachSliceOnce'
    <3>1. \A i, j \in DOMAIN queue' : i # j => queue'[i] # queue'[j]
      <4> SUFFICES ASSUME NEW i \in DOMAIN queue', NEW j \in DOMAIN queue', i # j
                   PROVE  queue'[i] # queue'[j]
        OBVIOUS
      <4>1. i \in Int /\ j \in Int
        BY <1>t, <2>1, TailFacts
      <4>2. i + 1 # j + 1
        BY <4>1
      <4> QED BY <2>2, <4>2 DEF EachSliceOnce
    <3>2. \A v \in Workers : \A i \in DOMAIN queue' : queue'[i] \notin Has(v)'
      BY <2>2, <2>3 DEF EachSliceOnce
    <3>3. \A v \in Workers : holding'[v] \notin pending'[v] \cup committed'[v]
      BY <2>1, <2>2, <2>4 DEF EachSliceOnce, Has
    <3>4. \A v, u \in Workers : v # u => Has(u)' \cap Has(v)' \subseteq {NoItem}
      BY <2>2, <2>3 DEF EachSliceOnce
    <3> QED BY <3>1, <3>2, <3>3, <3>4 DEF EachSliceOnce
  <2>6. OnlySent'
    <3>1. Sent \subseteq Sent'
      <4>1. ~Push
        BY <2>1, <1>t DEF Push, Pop, TypeOK
      <4> QED BY <4>1, SentGrows
    <3>2. InQueue' \subseteq InQueue /\ queue[1] \in InQueue
      BY <2>2 DEF InQueue
    <3> QED BY <2>3, <3>1, <3>2 DEF OnlySent
  <2> QED BY <2>5, <2>6
<1>4. CASE Pump /\ ~Push
  <2>1. (queue' = queue \/ queue' = <<>>) /\ UNCHANGED <<holding, pending, committed>>
    BY <1>4 DEF Pump, StartWorker, GetBatch, StreamEnds, StreamFails, WaitFull, Drop,
                QueueFinish, Report, queueVars, workerVars
  <2>2. \A v \in Workers : Has(v)' = Has(v)
    BY <2>1 DEF Has
  <2> QED BY <1>1, <1>4, <2>1, <2>2 DEF EachSliceOnce
<1>5. ASSUME NEW w \in Workers, Worker(w), ~Pop(w), ~Push PROVE EachSliceOnce' /\ OnlySent'
  <2>1. queue' = queue
    BY <1>5 DEF Worker, Connect, PopWait, PopFailed, PopEnd, Execute, Commit, Rollback, Kept, Ended, Leave,
                queueVars
  <2>2. CASE Execute(w)
    <3>1. wpc[w] = "execute" /\ holding'[w] = NoItem
      BY <1>t, <2>2 DEF Execute
    <3>2. \A v \in Workers \ {w} : /\ holding'[v] = holding[v] /\ pending'[v] = pending[v]
                                   /\ committed'[v] = committed[v]
      BY <1>t, <2>2 DEF Execute
    <3>3. /\ pending'[w] \subseteq pending[w] \cup {holding[w]}
          /\ committed'[w] \subseteq committed[w] \cup {holding[w]}
      BY <1>t, <2>2 DEF Execute
    <3>4. holding[w] \in Items
      BY <1>t, <3>1 DEF Places
    <3>5. \A v \in Workers : Has(v)' \subseteq Has(v) \cup {NoItem}
      BY <3>1, <3>2, <3>3 DEF Has
    <3>6. \A v \in Workers : holding'[v] \notin pending'[v] \cup committed'[v]
      BY <1>t, <3>1, <3>2, <3>3, <3>4 DEF EachSliceOnce
    <3> QED BY <1>1, <1>5, <2>1, <3>5, <3>6
  <2>3. CASE ~Execute(w)
    <3>1. /\ holding' = holding
          /\ \A v \in Workers : /\ pending'[v] \subseteq pending[v]
                                /\ committed'[v] \subseteq committed[v] \cup pending[v]
      BY <1>5, <1>t, <2>3 DEF Worker, Connect, PopWait, PopFailed, PopEnd, Commit, Rollback, Kept, Ended, Leave
    <3>2. \A v \in Workers : Has(v)' \subseteq Has(v)
      BY <3>1 DEF Has
    <3>3. \A v \in Workers : holding'[v] \notin pending'[v] \cup committed'[v]
      BY <3>1 DEF EachSliceOnce
    <3> QED BY <1>1, <1>5, <2>1, <3>2, <3>3
  <2> QED BY <2>2, <2>3
<1>6. CASE Returned \/ UNCHANGED vars
  BY <1>6 DEF Returned, vars, queueVars, pumpVars, workerVars, txnVars, EachSliceOnce, OnlySent, Has,
              InQueue, Sent, Cutting
<1> QED BY <1>2, <1>3, <1>4, <1>5, <1>6 DEF Next

-----------------------------------------------------------------------------
(* Nobody recovers from a failure.                                         *)
LEMMA FailureLasts ==
  ASSUME TypeOK, [Next]_vars
  PROVE  /\ status' = "ok" => status = "ok"
         /\ \A v \in Workers : wstatus'[v] = "ok" => wstatus[v] = "ok"
<1>t. wstatus \in [Workers -> {"ok", "error"}]
  BY DEF TypeOK
<1>1. CASE Report
  <2>1. /\ blame' = Blame /\ wstatus' = wstatus
        /\ status' = IF blame' = 0 THEN status ELSE wstatus[blame']
    BY <1>1 DEF Report, workerVars, txnVars
  <2> QED BY <2>1, BlameFacts
<1>2. CASE Pump /\ ~Report
  BY <1>2 DEF Pump, StartWorker, GetBatch, StreamEnds, StreamFails, WaitFull, Push, Drop,
              QueueFinish, workerVars
<1>3. ASSUME NEW w \in Workers, Worker(w)
      PROVE  status' = status /\ \A v \in Workers : wstatus'[v] = "ok" => wstatus[v] = "ok"
  BY <1>t, <1>3 DEF Worker, Connect, PopWait, PopFailed, PopEnd, Pop, Execute, Commit, Rollback, Kept, Ended,
                    Leave, pumpVars
<1>4. CASE Returned \/ UNCHANGED vars
  BY <1>4 DEF Returned, vars, pumpVars, workerVars, txnVars
<1> QED BY <1>1, <1>2, <1>3, <1>4 DEF Next

(* All that was pushed is where it was, or moved on.                       *)
LEMMA NothingDropped ==
  ASSUME TypeOK, Places, FirstFailure, EachSliceOnce, NothingLost, [Next]_vars,
         NobodyFailed', ~MayRunOut
  PROVE  Sent' \subseteq InQueue' \cup UNION {Has(v)' : v \in Workers}
<1>t. /\ queue \in Seq(Items) /\ NoItem \notin Items
      /\ holding \in [Workers -> Items \cup {NoItem}]
      /\ pending \in [Workers -> SUBSET Items] /\ committed \in [Workers -> SUBSET Items]
      /\ wstatus \in [Workers -> {"ok", "error"}] /\ NConn \in Nat /\ NConn >= 1
  BY ItemFacts, ParallelAssumption DEF TypeOK
<1>n. /\ NobodyFailed /\ ~qfailed
      /\ \A x \in Sent : x \in InQueue \/ \E v \in Workers : x \in Has(v)
      /\ \A x \in Sent' : x # NoItem
  <2>1. NobodyFailed
    BY FailureLasts DEF NobodyFailed
  <2> QED BY <1>t, <2>1 DEF FirstFailure, NobodyFailed, NothingLost, Sent
<1>d. ~Drop
  BY <1>n DEF Drop
<1>1. ASSUME ~Push, InQueue \subseteq InQueue',
             \A v \in Workers : Has(v) \ {NoItem} \subseteq Has(v)'
      PROVE  Sent' \subseteq InQueue' \cup UNION {Has(v)' : v \in Workers}
  <2>1. Sent' = Sent
    BY <1>1, <1>d, SentGrows
  <2> QED BY <1>1, <1>n, <2>1
<1>2. CASE Push
  <2>1. <<batch, slice>> \in Items /\ Sent' = Sent \cup {<<batch, slice>>}
    BY <1>2, PushSends
  <2>2. queue' = Append(queue, <<batch, slice>>) /\ UNCHANGED <<holding, pending, committed>>
    BY <1>2 DEF Push
  <2>3. /\ DOMAIN queue' = DOMAIN queue \cup {Len(queue) + 1}
        /\ \A i \in DOMAIN queue : queue'[i] = queue[i]
        /\ queue'[Len(queue) + 1] = <<batch, slice>>
    BY <1>t, <2>1, <2>2, AppendFacts
  <2>4. InQueue \subseteq InQueue' /\ <<batch, slice>> \in InQueue'
    BY <2>3 DEF InQueue
  <2>5. \A v \in Workers : Has(v)' = Has(v)
    BY <2>2 DEF Has
  <2> QED BY <1>n, <2>1, <2>4, <2>5
<1>3. ASSUME NEW w \in Workers, Pop(w)
      PROVE  Sent' \subseteq InQueue' \cup UNION {Has(v)' : v \in Workers}
  <2>1. /\ queue # <<>> /\ queue' = Tail(queue) /\ holding' = [holding EXCEPT ![w] = Head(queue)]
        /\ UNCHANGED <<pending, committed>> /\ wpc[w] = "pop"
    BY <1>3 DEF Pop
  <2>2. /\ Head(queue) = queue[1]
        /\ \A i \in DOMAIN queue \ {1} : i - 1 \in DOMAIN queue' /\ (i - 1) + 1 = i
        /\ \A i \in DOMAIN queue' : queue'[i] = queue[i + 1]
    BY <1>t, <2>1, TailFacts
  <2>3. InQueue \subseteq InQueue' \cup {queue[1]}
    BY <2>2 DEF InQueue
  <2>4. holding[w] = NoItem
    BY <2>1 DEF Places
  <2>5. /\ \A v \in Workers : Has(v) \ {NoItem} \subseteq Has(v)'
        /\ queue[1] \in Has(w)'
    BY <1>t, <2>1, <2>2, <2>4 DEF Has
  <2>6. Sent' = Sent
    <3>1. ~Push
      BY <2>1, <1>t DEF Push, Pop, TypeOK
    <3> QED BY <1>d, <3>1, SentGrows
  <2> QED BY <1>n, <2>3, <2>5, <2>6
<1>4. CASE Pump /\ ~Push
  <2>1. UNCHANGED <<holding, pending, committed>>
    BY <1>4 DEF Pump, StartWorker, GetBatch, StreamEnds, StreamFails, WaitFull, Drop,
                QueueFinish, Report, workerVars
  <2>2. queue' = queue
    <3>1. CASE Report
      <4>1. ppc = "join" /\ \A v \in 1..started : wpc[v] = "exit"
        BY <3>1 DEF Report
      <4>2. started = NConn
        BY <1>n, <4>1 DEF Places, NobodyFailed
      <4>3. 1 \in Workers /\ wpc[1] = "exit" /\ wstatus[1] = "ok"
        BY <1>n, <1>t, <4>1, <4>2 DEF Workers, NobodyFailed
      <4>4. queue = <<>> /\ queue' = <<>>
        BY <3>1, <4>3 DEF NothingLost, Report
      <4> QED BY <4>4
    <3>2. CASE ~Report
      BY <1>4, <3>2 DEF Pump, StartWorker, GetBatch, StreamEnds, StreamFails, WaitFull, Drop,
                        QueueFinish, queueVars
    <3> QED BY <3>1, <3>2
  <2>3. InQueue' = InQueue /\ \A v \in Workers : Has(v)' = Has(v)
    BY <2>1, <2>2 DEF InQueue, Has
  <2> QED BY <1>1, <1>4, <2>3
<1>5. ASSUME NEW w \in Workers, Worker(w), ~Pop(w), ~Push
      PROVE  Sent' \subseteq InQueue' \cup UNION {Has(v)' : v \in Workers}
  <2>1. queue' = queue
    BY <1>5 DEF Worker, Connect, PopWait, PopFailed, PopEnd, Execute, Commit, Rollback, Kept, Ended, Leave,
                queueVars
  <2>2. wstatus[w] = "ok" /\ wstatus'[w] = "ok"
    BY <1>n DEF NobodyFailed
  <2>3. \A v \in Workers : Has(v) \ {NoItem} \subseteq Has(v)'
    <3>1. CASE Execute(w)
      <4>1. \A v \in Workers \ {w} : /\ holding'[v] = holding[v] /\ pending'[v] = pending[v]
                                     /\ committed'[v] = committed[v]
        BY <1>t, <3>1 DEF Execute
      <4>2. \/ pending'[w] = pending[w] \cup {holding[w]} /\ committed'[w] = committed[w]
            \/ committed'[w] = committed[w] \cup {holding[w]} /\ pending'[w] = pending[w]
        BY <1>t, <2>2, <3>1 DEF Execute
      <4> QED BY <4>1, <4>2 DEF Has
    <3>2. CASE Commit(w)
      <4>1. /\ holding' = holding
            /\ \A v \in Workers \ {w} : pending'[v] = pending[v] /\ committed'[v] = committed[v]
            /\ committed'[w] = committed[w] \cup pending[w]
        BY <1>t, <2>2, <3>2 DEF Commit, Kept, Ended
      <4> QED BY <4>1 DEF Has
    <3>3. CASE ~Execute(w) /\ ~Commit(w)
      <4>1. UNCHANGED <<holding, pending, committed>>
        BY <1>5, <2>2, <3>3 DEF Worker, Connect, PopWait, PopFailed, PopEnd, Rollback, Kept, Ended, Leave, Places
      <4> QED BY <4>1 DEF Has
    <3> QED BY <3>1, <3>2, <3>3
  <2> QED BY <1>1, <1>5, <2>1, <2>3 DEF InQueue
<1>6. CASE Returned \/ UNCHANGED vars
  <2>1. UNCHANGED <<queue, holding, pending, committed, batch, slice, ppc>>
    BY <1>6 DEF Returned, vars, queueVars, pumpVars, workerVars, txnVars
  <2>2. InQueue' = InQueue /\ Sent' = Sent /\ \A v \in Workers : Has(v)' = Has(v)
    BY <2>1 DEF InQueue, Sent, Cutting, Has
  <2> QED BY <1>n, <2>2
<1> QED BY <1>2, <1>3, <1>4, <1>5, <1>6 DEF Next

(* While nobody failed the pump goes on to the end of the stream, a worker *)
(* leaves only an empty queue, and the total is what the workers committed. *)
LEMMA NothingLostStep ==
  ASSUME ~MayRunOut
  PROVE  TypeOK /\ Places /\ FirstFailure /\ EachSliceOnce /\ NothingLost /\ [Next]_vars
           => NothingLost'
<1> SUFFICES ASSUME TypeOK, Places, FirstFailure, EachSliceOnce, NothingLost, [Next]_vars
             PROVE  NothingLost'
  OBVIOUS
<1>t. /\ wpc \in [Workers -> {"off", "connect", "pop", "wait", "execute", "commit", "rollback",
                            "leave", "exit"}]
      /\ wstatus \in [Workers -> {"ok", "error"}] /\ committed \in [Workers -> SUBSET Items]
      /\ NConn \in Nat /\ started \in Nat
  BY ParallelAssumption DEF TypeOK
<1>1. NobodyFailed' => Sent' \subseteq InQueue' \cup UNION {Has(v)' : v \in Workers}
  BY NothingDropped
<1>2. NobodyFailed' /\ ppc' \in {"finish", "join", "done"} => batch' = Len(Slices)
  <2> SUFFICES ASSUME NobodyFailed', ppc' \in {"finish", "join", "done"}
               PROVE  batch' = Len(Slices)
    OBVIOUS
  <2>1. NobodyFailed
    BY FailureLasts DEF NobodyFailed
  <2>2. ~qfailed
    BY <1>t, <2>1 DEF FirstFailure, NobodyFailed
  <2>3. CASE Pump
    <3>1. CASE StartWorker \/ StreamFails
      BY <2>1, <3>1 DEF StartWorker, StreamFails, NobodyFailed
    <3>2. CASE Drop
      BY <2>2, <3>2 DEF Drop
    <3>3. CASE StreamEnds \/ GetBatch \/ WaitFull \/ Push
      BY <3>3 DEF StreamEnds, GetBatch, WaitFull, Push
    <3>4. CASE QueueFinish \/ Report
      BY <2>1, <3>4 DEF QueueFinish, Report, NothingLost
    <3> QED BY <2>3, <3>1, <3>2, <3>3, <3>4 DEF Pump
  <2>4. ASSUME NEW w \in Workers, Worker(w) PROVE batch' = Len(Slices)
    <3>1. batch' = batch /\ (ppc' = ppc \/ ppc' = "push")
      BY <2>4 DEF Worker, Connect, PopWait, PopFailed, PopEnd, Pop, Execute, Commit, Rollback, Kept, Ended,
                  Leave, WokenPump, pumpVars
    <3> QED BY <2>1, <3>1 DEF NothingLost
  <2>5. CASE Returned \/ UNCHANGED vars
    BY <2>1, <2>5 DEF Returned, vars, pumpVars, NothingLost
  <2> QED BY <2>3, <2>4, <2>5 DEF Next
<1>3. \A v \in Workers : wpc'[v] \in {"commit", "leave", "exit"} /\ wstatus'[v] = "ok" =>
        queue' = <<>> /\ qdone'
  <2> SUFFICES ASSUME NEW v \in Workers, wpc'[v] \in {"commit", "leave", "exit"},
                      wstatus'[v] = "ok"
               PROVE  queue' = <<>> /\ qdone'
    OBVIOUS
  <2>1. wstatus[v] = "ok"
    BY FailureLasts
  <2>2. wpc[v] \in {"commit", "leave", "exit"} => queue = <<>> /\ qdone /\ ~Push
    BY <2>1 DEF NothingLost, Places, Push
  <2>3. CASE Pump
    <3>1. wpc'[v] = wpc[v]
      <4>1. CASE StartWorker
        BY <1>t, <4>1 DEF StartWorker
      <4>2. CASE StreamFails \/ QueueFinish
        BY <1>t, <4>2, WakeFacts DEF StreamFails, QueueFinish
      <4>3. CASE Push
        BY <1>t, <4>3 DEF Push, SignalWorker
      <4>4. CASE GetBatch \/ StreamEnds \/ WaitFull \/ Drop \/ Report
        BY <4>4 DEF GetBatch, StreamEnds, WaitFull, Drop, Report, workerVars, txnVars
      <4> QED BY <2>3, <4>1, <4>2, <4>3, <4>4 DEF Pump
    <3>2. queue = <<>> /\ qdone /\ ~Push
      BY <2>2, <3>1
    <3> QED BY <2>3, <3>2 DEF Pump, StartWorker, GetBatch, StreamEnds, StreamFails, WaitFull,
                              Drop, QueueFinish, Report, queueVars
  <2>4. ASSUME NEW w \in Workers, Worker(w) PROVE queue' = <<>> /\ qdone'
    <3>1. CASE Connect(w) \/ PopWait(w) \/ PopFailed(w) \/ Execute(w)
      <4>1. UNCHANGED queueVars /\ \A u \in Workers \ {w} : wpc'[u] = wpc[u]
        BY <1>t, <3>1 DEF Connect, PopWait, PopFailed, Execute
      <4>2. wpc'[w] \in {"commit", "leave", "exit"} => wstatus'[w] # "ok"
        BY <1>t, <3>1 DEF Connect, PopWait, PopFailed, Execute
      <4> QED BY <2>2, <4>1, <4>2 DEF queueVars
    <3>2. CASE PopEnd(w)
      BY <1>t, <2>2, <3>2 DEF PopEnd, queueVars
    <3>3. CASE Pop(w)
      <4>1. wpc'[v] = IF v = w THEN "execute" ELSE wpc[v]
        BY <1>t, <3>3 DEF Pop
      <4>2. queue # <<>>
        BY <3>3 DEF Pop
      <4> QED BY <2>2, <4>1, <4>2
    <3>4. CASE Commit(w) \/ Rollback(w) \/ Leave(w)
      <4>1. UNCHANGED <<queue, qdone>>
        BY <3>4 DEF Commit, Rollback, Kept, Ended, Leave, queueVars
      <4>2. wpc[v] \in {"commit", "leave", "exit"}
        BY <1>t, <2>1, <3>4 DEF Commit, Rollback, Kept, Ended, Leave, WakeAllWorkers, Places
      <4> QED BY <2>2, <4>1, <4>2
    <3> QED BY <2>4, <3>1, <3>2, <3>3, <3>4 DEF Worker
  <2>5. CASE Returned \/ UNCHANGED vars
    BY <2>2, <2>5 DEF Returned, vars, queueVars, workerVars, txnVars
  <2> QED BY <2>3, <2>4, <2>5 DEF Next
<1>4. ppc' = "done" /\ status' = "ok" =>
        /\ \A v \in Workers : wstatus'[v] = "ok" /\ wpc'[v] = "exit"
        /\ total' = Cardinality(InTable')
  <2> SUFFICES ASSUME ppc' = "done", status' = "ok"
               PROVE  /\ \A v \in Workers : wstatus'[v] = "ok" /\ wpc'[v] = "exit"
                      /\ total' = Cardinality(InTable')
    OBVIOUS
  <2>1. status = "ok"
    BY FailureLasts
  <2>2. CASE Report
    <3>1. /\ ppc = "join" /\ blame' = Blame /\ \A v \in 1..started : wpc[v] = "exit"
          /\ status' = IF blame' = 0 THEN status ELSE wstatus[blame']
          /\ UNCHANGED <<wstatus, wpc, committed>>
          /\ total' = Cardinality(UNION {committed[w] : w \in {v \in Workers : wstatus[v] = "ok"}})
      BY <2>2 DEF Report, workerVars, txnVars
    <3>2. \A v \in Workers : wstatus[v] = "ok"
      BY <2>1, <3>1, BlameFacts
    <3>3. \A v \in Workers : wpc[v] = "exit"
      BY <1>t, <2>1, <3>1 DEF Places, Workers
    <3>4. {v \in Workers : wstatus[v] = "ok"} = Workers
      BY <3>2
    <3>5. total' = Cardinality(InTable')
      BY <3>1, <3>4 DEF InTable
    <3> QED BY <3>1, <3>2, <3>3, <3>5
  <2>3. CASE ppc = "done"
    <3>1. \A v \in Workers : wstatus[v] = "ok" /\ wpc[v] = "exit"
      BY <2>1, <2>3 DEF NothingLost
    <3>2. UNCHANGED <<total, wstatus, wpc, committed>>
      <4>1. CASE Pump
        BY <2>3, <4>1 DEF Pump, StartWorker, GetBatch, StreamEnds, StreamFails, WaitFull, Push,
                          Drop, QueueFinish, Report
      <4>2. ASSUME NEW w \in Workers, Worker(w) PROVE FALSE
        BY <3>1, <4>2 DEF Worker, Connect, PopWait, PopFailed, PopEnd, Pop, Execute, Commit, Kept, Ended,
                          Rollback, Leave
      <4>3. CASE Returned \/ UNCHANGED vars
        BY <4>3 DEF Returned, vars, pumpVars, workerVars, txnVars
      <4> QED BY <4>1, <4>2, <4>3 DEF Next
    <3> QED BY <2>1, <2>3, <3>1, <3>2 DEF NothingLost, InTable
  <2>4. CASE ~Report /\ ppc # "done"
    <3>1. CASE Pump
      BY <2>4, <3>1 DEF Pump, StartWorker, GetBatch, StreamEnds, StreamFails, WaitFull, Push,
                        Drop, QueueFinish
    <3>2. ASSUME NEW w \in Workers, Worker(w) PROVE FALSE
      BY <2>4, <3>2 DEF Worker, Connect, PopWait, PopFailed, PopEnd, Pop, Execute, Commit, Kept, Ended,
                        Rollback, Leave, WokenPump, pumpVars
    <3>3. CASE Returned \/ UNCHANGED vars
      BY <2>4, <3>3 DEF Returned, vars, pumpVars
    <3> QED BY <3>1, <3>2, <3>3 DEF Next
  <2> QED BY <2>2, <2>3, <2>4
<1>5. (UNION {Has(w) : w \in Workers})' = UNION {Has(v)' : v \in Workers}
  BY DEF Workers
<1> QED BY <1>1, <1>2, <1>3, <1>4, <1>5 DEF NothingLost

-----------------------------------------------------------------------------
(* TypeOK and Places hold in every state.                                  *)
THEOREM TypeAlways == Spec => [](TypeOK /\ Places)
<1>1. TypeOK /\ Places /\ [Next]_vars => TypeOK' /\ Places'
  BY TypeStep, PlacesStep
<1> QED BY TypeInit, PlacesInit, <1>1, PTL DEF Spec

(* The error the caller gets is that of the worker that broke the ingest,  *)
(* never of one that only found the queue tripped, for any number of       *)
(* workers that fail in any order.                                         *)
THEOREM BlameIsNotCollateralAlways == Spec => []BlameIsNotCollateral
<1>1. Init => FirstFailure /\ BlameIsNotCollateral
  BY DEF Init, FirstFailure, BlameIsNotCollateral
<1> QED BY <1>1, TypeAlways, BlameStep, PTL DEF Spec

(* A worker that failed has left at most the lone row it ingested before   *)
(* it opened its transaction, if its driver opens and ends it when asked.  *)
THEOREM FailedShareIsRolledBackAlways == Spec => []FailedShareIsRolledBack
<1>1. Init => TxnOK /\ LoneCommits
  BY DEF Init, LoneCommits, TxnOK
<1>2. LoneCommits => FailedShareIsRolledBack
  <2> SUFFICES ASSUME LoneCommits, NEW w \in Workers, wstatus[w] # "ok", ~refused[w]
               PROVE  committed[w] \subseteq Lone /\ Cardinality(committed[w]) <= 1
    BY DEF FailedShareIsRolledBack
  <2>1. CASE committed[w] = {}
    BY <2>1, FS_EmptySet
  <2>2. ASSUME NEW x \in Lone, committed[w] = {x}
        PROVE  committed[w] \subseteq Lone /\ Cardinality(committed[w]) <= 1
    <3>1. Cardinality({x}) = 1
      BY FS_Singleton, Zenon
    <3> QED BY <2>2, <3>1
  <2> QED BY <2>1, <2>2 DEF LoneCommits
<1> QED BY <1>1, <1>2, TypeAlways, LoneStep, PTL DEF Spec

(* No slice is ingested twice: at any time it is in the queue, in one      *)
(* worker's hands, in one worker's transaction or in one worker's commits. *)
THEOREM EachSliceOnceAlways == Spec => []EachSliceOnce
BY SlicesInit, TypeAlways, SlicesStep, PTL DEF Spec

(* A call that returns success has put every slice of the stream into the  *)
(* table and counted them, unless the pump ran out of memory unnoticed.    *)
THEOREM SuccessMeansAllRowsAlways ==
  ASSUME ~MayRunOut
  PROVE  Spec => []SuccessMeansAllRows
<1>1. Init => FirstFailure /\ BlameIsNotCollateral
  BY DEF Init, FirstFailure, BlameIsNotCollateral
<1>2. Init => NothingLost
  <2> SUFFICES ASSUME Init PROVE NothingLost
    OBVIOUS
  <2>1. Sent = {}
    BY BatchFacts, ItemFacts DEF Init, Sent
  <2> QED BY <2>1 DEF Init, NothingLost
<1>3. TypeOK /\ Places /\ FirstFailure /\ EachSliceOnce /\ NothingLost /\ [Next]_vars
        => NothingLost'
  BY NothingLostStep
<1>4. TypeOK /\ Places /\ NothingLost => SuccessMeansAllRows
  <2> SUFFICES ASSUME TypeOK, Places, NothingLost, ppc = "done", status = "ok"
               PROVE  InTable = Items /\ total = Cardinality(Items)
    BY DEF SuccessMeansAllRows
  <2>1. /\ \A w \in Workers : wstatus[w] = "ok" /\ wpc[w] = "exit"
        /\ total = Cardinality(InTable) /\ 1 \in Workers
    BY ParallelAssumption DEF NothingLost, Workers
  <2>2. NobodyFailed /\ queue = <<>> /\ batch = Len(Slices)
    BY <2>1 DEF NobodyFailed, NothingLost
  <2>3. \A w \in Workers : holding[w] = NoItem /\ pending[w] = {} /\ committed[w] \subseteq Items
    BY <2>1 DEF Places, TypeOK
  <2>4. Items \subseteq Sent
    BY <2>2, BatchFacts, ItemFacts DEF Sent, Cutting
  <2>5. InQueue = {}
    BY <2>2 DEF InQueue
  <2>6. Items \subseteq InTable
    <3> SUFFICES ASSUME NEW x \in Items PROVE x \in InTable
      OBVIOUS
    <3>1. PICK w \in Workers : x \in Has(w)
      BY <2>2, <2>4, <2>5 DEF NothingLost
    <3>2. x # NoItem
      BY ItemFacts
    <3> QED BY <2>3, <3>1, <3>2 DEF Has, InTable
  <2>7. InTable = Items
    BY <2>3, <2>6 DEF InTable
  <2> QED BY <2>1, <2>7
<1> QED BY <1>1, <1>2, <1>3, <1>4, TypeAlways, BlameStep, EachSliceOnceAlways, PTL DEF Spec

-----------------------------------------------------------------------------
(* The references to a batch.  Counting the queued slices of a batch: one  *)
(* more at the end, one less at the front.                                 *)
CountIn(q, b) == Cardinality({i \in DOMAIN q : q[i][1] = b})

(* How many slices of a batch a queue holds is a number.                   *)
LEMMA CountType ==
  ASSUME NEW q \in Seq(Items), NEW b
  PROVE  IsFiniteSet({i \in DOMAIN q : q[i][1] = b}) /\ CountIn(q, b) \in Nat
<1>1. DOMAIN q = 1..Len(q) /\ Len(q) \in Nat
  OBVIOUS
<1>2. IsFiniteSet(DOMAIN q)
  BY <1>1, FS_Interval
<1>3. IsFiniteSet({i \in DOMAIN q : q[i][1] = b})
  BY <1>2, FS_Subset
<1> QED BY <1>3, FS_CardinalityType DEF CountIn

(* Appending a slice adds one to the count of its batch and to no other.   *)
LEMMA CountAppend ==
  ASSUME NEW q \in Seq(Items), NEW x \in Items, NEW b
  PROVE  CountIn(Append(q, x), b) = CountIn(q, b) + IF x[1] = b THEN 1 ELSE 0
<1> DEFINE old == {i \in DOMAIN q : q[i][1] = b}
           new == {i \in DOMAIN Append(q, x) : Append(q, x)[i][1] = b}
<1>1. new = IF x[1] = b THEN old \cup {Len(q) + 1} ELSE old
  BY AppendFacts
<1>2. Len(q) + 1 \notin old
  BY AppendFacts
<1>3. IsFiniteSet(old) /\ CountIn(q, b) \in Nat
  BY CountType
<1>4. CountIn(q, b) = Cardinality(old) /\ CountIn(Append(q, x), b) = Cardinality(new)
  BY DEF CountIn
<1> HIDE DEF old, new
<1>5. Cardinality(old \cup {Len(q) + 1}) = Cardinality(old) + 1
  <2>1. Cardinality(old \cup {Len(q) + 1})
          = IF Len(q) + 1 \in old THEN Cardinality(old) ELSE Cardinality(old) + 1
    BY <1>3, FS_AddElement, Zenon
  <2> QED BY <1>2, <2>1
<1>6. CASE x[1] = b
  BY <1>1, <1>4, <1>5, <1>6
<1>7. CASE x[1] # b
  BY <1>1, <1>3, <1>4, <1>7
<1> QED BY <1>6, <1>7

(* Taking the head takes one from the count of its batch and from no       *)
(* other.                                                                  *)
LEMMA CountTail ==
  ASSUME NEW q \in Seq(Items), q # <<>>, NEW b
  PROVE  CountIn(Tail(q), b) = CountIn(q, b) - IF Head(q)[1] = b THEN 1 ELSE 0
<1> DEFINE old  == {i \in DOMAIN q : q[i][1] = b}
           new  == {i \in DOMAIN Tail(q) : Tail(q)[i][1] = b}
           next == [i \in new |-> i + 1]
<1>1. IsFiniteSet(old) /\ CountIn(q, b) \in Nat /\ IsFiniteSet(new)
  <2>1. Tail(q) \in Seq(Items)
    BY TailFacts
  <2>2. IsFiniteSet(old) /\ CountIn(q, b) \in Nat
    BY CountType
  <2>3. IsFiniteSet(new)
    BY <2>1, CountType
  <2> QED BY <2>2, <2>3
<1>2. old \ {1} = {i + 1 : i \in new}
  BY TailFacts
<1>3. ExistsBijection(new, old \ {1})
  <2>1. new \subseteq Int
    BY TailFacts
  <2>2. next \in Bijection(new, old \ {1})
    BY <1>2, <2>1 DEF Bijection, Injection, Surjection, IsInjective
  <2> QED BY <2>2 DEF ExistsBijection
<1>4. 1 \in old <=> Head(q)[1] = b
  BY TailFacts
<1>5. CountIn(q, b) = Cardinality(old) /\ CountIn(Tail(q), b) = Cardinality(new)
  BY DEF CountIn
<1> HIDE DEF old, new
<1>6. Cardinality(old \ {1}) = Cardinality(new)
  BY <1>1, <1>3, FS_Bijection
<1>7. Cardinality(old \ {1}) = IF 1 \in old THEN Cardinality(old) - 1 ELSE Cardinality(old)
  BY <1>1, FS_RemoveElement, Zenon
<1>8. CASE Head(q)[1] = b
  BY <1>4, <1>5, <1>6, <1>7, <1>8
<1>9. CASE Head(q)[1] # b
  BY <1>1, <1>4, <1>5, <1>6, <1>7, <1>9
<1> QED BY <1>8, <1>9


(* The same for the slices of a batch that workers hold: one more when a   *)
(* worker with nothing takes a slice, one less when it lets go of it.      *)
HeldIn(h, b) == Cardinality({w \in Workers : h[w][1] = b})

(* A worker that takes a slice adds one to those held of its batch.        *)
LEMMA HeldTaken ==
  ASSUME NEW h \in [Workers -> Items \cup {NoItem}], NEW w \in Workers, NEW x \in Items,
         h[w] = NoItem, NEW b \in Batches
  PROVE  /\ HeldIn(h, b) \in Nat
         /\ HeldIn([h EXCEPT ![w] = x], b) = HeldIn(h, b) + IF x[1] = b THEN 1 ELSE 0
<1> DEFINE old == {v \in Workers : h[v][1] = b}
           new == {v \in Workers : [h EXCEPT ![w] = x][v][1] = b}
<1>1. w \notin old
  BY ItemFacts
<1>2. new = IF x[1] = b THEN old \cup {w} ELSE old
  BY <1>1
<1>3. IsFiniteSet(old) /\ Cardinality(old) \in Nat
  <2>1. IsFiniteSet(Workers)
    BY ParallelAssumption, FS_Interval DEF Workers
  <2>2. IsFiniteSet(old)
    BY <2>1, FS_Subset
  <2> QED BY <2>2, FS_CardinalityType
<1>4. HeldIn(h, b) = Cardinality(old) /\ HeldIn([h EXCEPT ![w] = x], b) = Cardinality(new)
  BY DEF HeldIn
<1> HIDE DEF old, new
<1>5. Cardinality(old \cup {w}) = Cardinality(old) + 1
  <2>1. Cardinality(old \cup {w}) = IF w \in old THEN Cardinality(old) ELSE Cardinality(old) + 1
    BY <1>3, FS_AddElement, Zenon
  <2> QED BY <1>1, <2>1
<1>6. CASE x[1] = b
  BY <1>2, <1>3, <1>4, <1>5, <1>6
<1>7. CASE x[1] # b
  BY <1>2, <1>3, <1>4, <1>7
<1> QED BY <1>6, <1>7

(* A worker that is done with a slice takes one from those held of its     *)
(* batch.                                                                  *)
LEMMA HeldReleased ==
  ASSUME NEW h \in [Workers -> Items \cup {NoItem}], NEW w \in Workers, h[w] # NoItem,
         NEW b \in Batches
  PROVE  /\ HeldIn([h EXCEPT ![w] = NoItem], b) \in Nat
         /\ HeldIn(h, b) = HeldIn([h EXCEPT ![w] = NoItem], b) + IF h[w][1] = b THEN 1 ELSE 0
<1> DEFINE g == [h EXCEPT ![w] = NoItem]
<1>1. g \in [Workers -> Items \cup {NoItem}] /\ g[w] = NoItem /\ h[w] \in Items
  OBVIOUS
<1>2. [g EXCEPT ![w] = h[w]] = h
  OBVIOUS
<1> HIDE DEF g
<1>3. /\ HeldIn(g, b) \in Nat
      /\ HeldIn([g EXCEPT ![w] = h[w]], b) = HeldIn(g, b) + IF h[w][1] = b THEN 1 ELSE 0
  BY <1>1, HeldTaken
<1> QED BY <1>2, <1>3 DEF g


(* Every step changes a batch's count by the references it adds or drops.  *)
LEMMA BuffersStep ==
  TypeOK /\ Places /\ OnlySent /\ BuffersLiveWithTheirSlices /\ [Next]_vars
    => BuffersLiveWithTheirSlices'
<1> SUFFICES ASSUME TypeOK, Places, OnlySent, BuffersLiveWithTheirSlices, [Next]_vars,
                    NEW b \in Batches
             PROVE  refs'[b] = Live(b)'
  BY DEF BuffersLiveWithTheirSlices
<1> DEFINE P == IF Slices[b] > 1 THEN 2 ELSE 1
<1>1. refs[b] = CountIn(queue, b) + HeldIn(holding, b) + PumpRef(b)
  BY DEF BuffersLiveWithTheirSlices, Live, Queued, Held, CountIn, HeldIn
<1>2. Live(b)' = CountIn(queue', b) + HeldIn(holding', b) + PumpRef(b)'
  BY DEF Live, Queued, Held, CountIn, HeldIn
<1>3. /\ refs \in [Batches -> Int] /\ refs[b] \in Int /\ queue \in Seq(Items)
      /\ holding \in [Workers -> Items \cup {NoItem}] /\ b \in Nat
  <2>1. b \in Nat
    BY BatchFacts
  <2>2. /\ refs \in [Batches -> Int] /\ queue \in Seq(Items)
        /\ holding \in [Workers -> Items \cup {NoItem}]
    BY DEF TypeOK
  <2> QED BY <2>1, <2>2, Zenon
<1>4. CountIn(queue, b) \in Nat
  BY <1>3, CountType
<1>5. PumpRef(b) = IF Cutting /\ b = batch THEN P ELSE 0
  BY DEF PumpRef, Cutting
<1>6. PumpRef(b)' = IF Cutting' /\ b = batch' THEN P ELSE 0
  BY DEF PumpRef, Cutting
<1>7. P \in Nat
  OBVIOUS
<1>8. HeldIn(holding, b) \in Nat
  <2>1. IsFiniteSet(Workers)
    BY ParallelAssumption, FS_Interval DEF Workers
  <2>2. IsFiniteSet({v \in Workers : holding[v][1] = b})
    BY <2>1, FS_Subset
  <2> QED BY <2>2, FS_CardinalityType DEF HeldIn
<1> HIDE DEF P
<1>9. ASSUME refs' = refs, queue' = queue, holding' = holding, batch' = batch, Cutting' = Cutting
      PROVE  refs'[b] = Live(b)'
  BY <1>1, <1>2, <1>5, <1>6, <1>9
<1>10. CASE UNCHANGED vars
  BY <1>9, <1>10 DEF vars, queueVars, pumpVars, workerVars, txnVars, Cutting
<1>11. CASE GetBatch
  <2>1. batch' = batch + 1 /\ batch' \in Batches /\ batch' # batch /\ Cutting' /\ ~Cutting
    BY <1>11, BatchFacts DEF GetBatch, TypeOK, Cutting
  <2>2. queue' = queue /\ holding' = holding
        /\ refs' = [refs EXCEPT ![batch'] = IF Slices[batch'] > 1 THEN 2 ELSE 1]
    BY <1>11 DEF GetBatch, queueVars, workerVars, txnVars
  <2>3. CASE b = batch'
    <3>1. refs'[b] = P
      BY <1>3, <2>2, <2>3 DEF P
    <3>2. \A x \in Sent \cup {NoItem} : x[1] # b
      BY <2>1, <2>3, BatchFacts, ItemFacts DEF Sent, TypeOK
    <3>3. {i \in DOMAIN queue : queue[i][1] = b} = {}
      BY <3>2 DEF OnlySent, InQueue
    <3>4. {v \in Workers : holding[v][1] = b} = {}
      BY <3>2 DEF OnlySent, Has
    <3>5. CountIn(queue, b) = 0 /\ HeldIn(holding, b) = 0
      BY <3>3, <3>4, FS_EmptySet DEF CountIn, HeldIn
    <3> QED BY <1>2, <1>6, <1>7, <2>1, <2>2, <2>3, <3>1, <3>5
  <2>4. CASE b # batch'
    <3>1. refs'[b] = refs[b]
      BY <1>3, <2>2, <2>4
    <3> QED BY <1>1, <1>2, <1>5, <1>6, <2>1, <2>2, <2>4, <3>1
  <2> QED BY <2>3, <2>4
<1>12. CASE Push
  <2>1. /\ Cutting /\ batch' = batch /\ holding' = holding /\ queue' = Append(queue, <<batch, slice>>)
        /\ batch \in Batches /\ slice \in 1..Slices[batch] /\ <<batch, slice>> \in Items
    BY <1>12, ItemFacts DEF Push, Cutting, Places
  <2>2. CountIn(queue', b) = CountIn(queue, b) + IF batch = b THEN 1 ELSE 0
    BY <1>3, <2>1, CountAppend
  <2>3. CASE slice < Slices[batch]
    <3>1. Cutting' /\ refs' = [refs EXCEPT ![batch] = @ + 1]
      BY <1>12, <2>3 DEF Push, Cutting
    <3>2. refs'[b] = refs[b] + IF batch = b THEN 1 ELSE 0
      BY <1>3, <3>1
    <3> QED BY <1>1, <1>2, <1>3, <1>4, <1>5, <1>6, <1>7, <1>8, <2>1, <2>2, <3>1, <3>2
  <2>4. CASE ~(slice < Slices[batch])
    <3>1. ~Cutting' /\ refs' = [refs EXCEPT ![batch] = IF Sliced THEN @ - 1 ELSE @]
      BY <1>12, <2>4 DEF Push, Cutting
    <3>2. refs'[b] = refs[b] - IF batch = b THEN P - 1 ELSE 0
      BY <1>3, <3>1 DEF P, Sliced
    <3> QED BY <1>1, <1>2, <1>3, <1>4, <1>5, <1>6, <1>7, <1>8, <2>1, <2>2, <3>1, <3>2
  <2> QED BY <2>3, <2>4
<1>13. CASE Drop
  <2>1. /\ Cutting /\ ~Cutting' /\ queue' = queue /\ holding' = holding
        /\ refs' = [refs EXCEPT ![batch] = IF Sliced THEN @ - 2 ELSE @ - 1]
    BY <1>13 DEF Drop, Cutting, queueVars, workerVars, txnVars
  <2>2. refs'[b] = refs[b] - IF batch = b THEN P ELSE 0
    BY <1>3, <2>1 DEF P, Sliced
  <2> QED BY <1>1, <1>2, <1>3, <1>4, <1>5, <1>6, <1>7, <1>8, <2>1, <2>2
<1>14. CASE Report
  <2>1. /\ ~Cutting /\ ~Cutting' /\ queue' = <<>> /\ holding' = holding
        /\ refs'[b] = refs[b] - CountIn(queue, b)
    BY <1>3, <1>14 DEF Report, Cutting, workerVars, txnVars, Queued, CountIn
  <2>2. CountIn(<<>>, b) = 0
    BY FS_EmptySet DEF CountIn
  <2> QED BY <1>1, <1>2, <1>3, <1>4, <1>5, <1>6, <1>8, <2>1, <2>2
<1>15. ASSUME NEW w \in Workers, Pop(w)
       PROVE  refs'[b] = Live(b)'
  <2>1. /\ queue # <<>> /\ queue' = Tail(queue) /\ refs' = refs /\ batch' = batch
        /\ holding' = [holding EXCEPT ![w] = Head(queue)] /\ Cutting' = Cutting
    BY <1>15 DEF Pop, Cutting, WokenPump
  <2>2. holding[w] = NoItem
    BY <1>15 DEF Pop, Places
  <2>3. Head(queue) \in Items
    BY <1>3, <2>1, TailFacts
  <2>4. CountIn(queue', b) = CountIn(queue, b) - IF Head(queue)[1] = b THEN 1 ELSE 0
    BY <1>3, <2>1, CountTail
  <2>5. HeldIn(holding', b) = HeldIn(holding, b) + IF Head(queue)[1] = b THEN 1 ELSE 0
    BY <1>3, <2>1, <2>2, <2>3, HeldTaken
  <2> QED BY <1>1, <1>2, <1>3, <1>4, <1>5, <1>6, <1>7, <1>8, <2>1, <2>4, <2>5
<1>16. ASSUME NEW w \in Workers, Execute(w)
       PROVE  refs'[b] = Live(b)'
  <2>1. /\ queue' = queue /\ batch' = batch /\ Cutting' = Cutting
        /\ holding' = [holding EXCEPT ![w] = NoItem]
        /\ refs' = [refs EXCEPT ![holding[w][1]] = @ - 1]
    BY <1>16 DEF Execute, Cutting, queueVars, pumpVars
  <2>2. holding[w] # NoItem
    BY <1>16 DEF Execute, Places
  <2>3. /\ HeldIn(holding', b) \in Nat
        /\ HeldIn(holding, b) = HeldIn(holding', b) + IF holding[w][1] = b THEN 1 ELSE 0
    BY <1>3, <2>1, <2>2, HeldReleased
  <2>4. refs'[b] = refs[b] - IF holding[w][1] = b THEN 1 ELSE 0
    BY <1>3, <2>1
  <2> QED BY <1>1, <1>2, <1>3, <1>4, <1>5, <1>6, <1>7, <2>1, <2>3, <2>4
<1>17. CASE StartWorker \/ StreamEnds \/ StreamFails \/ WaitFull \/ QueueFinish \/ Returned
  <2>1. /\ refs' = refs /\ queue' = queue /\ holding' = holding /\ batch' = batch
        /\ Cutting' = Cutting
    BY <1>17 DEF StartWorker, StreamEnds, StreamFails, WaitFull, QueueFinish, Returned, vars,
         queueVars, pumpVars, workerVars, Cutting
  <2> QED BY <1>9, <2>1
<1>18. ASSUME NEW w \in Workers,
              \/ Connect(w) \/ PopWait(w) \/ PopFailed(w) \/ PopEnd(w)
              \/ Commit(w) \/ Rollback(w) \/ Leave(w)
       PROVE  refs'[b] = Live(b)'
  <2>1. /\ refs' = refs /\ queue' = queue /\ holding' = holding /\ batch' = batch
        /\ Cutting' = Cutting
    BY <1>18 DEF Connect, PopWait, PopFailed, PopEnd, Commit, Rollback, Kept, Ended, Leave, queueVars,
         pumpVars, WokenPump, Cutting
  <2> QED BY <1>9, <2>1
<1> QED BY <1>10, <1>11, <1>12, <1>13, <1>14, <1>15, <1>16, <1>17, <1>18 DEF Next, Pump, Worker

(* A batch's buffers are released when the last slice of it is, and never  *)
(* before.                                                                 *)
THEOREM BuffersLiveWithTheirSlicesAlways == Spec => []BuffersLiveWithTheirSlices
<1>1. Init => BuffersLiveWithTheirSlices
  <2> SUFFICES ASSUME Init, NEW b \in Batches PROVE refs[b] = Live(b)
    BY DEF BuffersLiveWithTheirSlices
  <2>1. /\ {i \in DOMAIN queue : queue[i][1] = b} = {} /\ {v \in Workers : holding[v][1] = b} = {}
        /\ PumpRef(b) = 0 /\ refs[b] = 0
    BY ItemFacts DEF Init, PumpRef
  <2>2. Queued(b) = 0 /\ Held(b) = 0
    BY <2>1, FS_EmptySet DEF Queued, Held
  <2> QED BY <2>1, <2>2 DEF Live
<1> QED BY <1>1, SlicesInit, SlicesStep, TypeAlways, BuffersStep, PTL DEF Spec
=============================================================================
