------------------------ MODULE PrefetchReader_proofs ------------------------
(* Proofs about PrefetchReader, for every ring size and every result set.  *)
EXTENDS PrefetchReader, FiniteSetTheorems, TLAPS

(* The ring index arithmetic of PrefetchMain and PrefetchNextRowset.       *)
LEMMA ModSucc ==
  ASSUME NEW n \in Nat, n >= 2, NEW i \in 0..(n - 1)
  PROVE  (i + 1) % n = IF i + 1 = n THEN 0 ELSE i + 1
<1>1. CASE i + 1 = n
  BY <1>1, Z3
<1>2. CASE i + 1 < n
  BY <1>2, Z3
<1> QED BY <1>1, <1>2

-----------------------------------------------------------------------------
(* Who owns the handle and the slots: the control part of the state.       *)

(* Before the first get_next there is no thread and the ring is empty.     *)
LEMMA OwnershipInit == Init => OwnershipInv
<1> SUFFICES ASSUME Init PROVE OwnershipInv
  OBVIOUS
<1>1. NSlots \in Nat /\ 0 < NSlots /\ 0 \in SlotIds
  BY ReaderAssumption DEF SlotIds
<1>2. /\ head = 0 /\ tail = 0 /\ filled = 0 /\ curSlot = 0 /\ prefetching = FALSE
      /\ ppc = "none" /\ cpc = "unbound" /\ after = "none"
  BY DEF Init
<1>3. ControlOK
  <2>1. head \in SlotIds /\ tail \in SlotIds /\ curSlot \in SlotIds /\ filled \in 0..NSlots
    BY <1>1, <1>2
  <2> QED BY <1>2, <2>1, Zenon DEF ControlOK
<1>4. RingShape BY <1>1, <1>2 DEF RingShape
<1>5. ThreadShape BY <1>2, Zenon DEF ThreadShape
<1>6. ClaimShape BY <1>1, <1>2 DEF ClaimShape
<1> QED BY <1>3, <1>4, <1>5, <1>6 DEF OwnershipInv

(* PrefetchMain claims a slot only when one is free, and publishes it at   *)
(* the tail.                                                               *)
LEMMA OwnershipProducer ==
  ASSUME OwnershipInv, Producer
  PROVE  OwnershipInv'
<1> USE DEF OwnershipInv, ControlOK, RingShape, ThreadShape, ClaimShape
<1>1. CASE ProducerWait
  BY <1>1 DEF ProducerWait, RingFull, ringVars, callVars
<1>2. CASE ProducerStop
  BY <1>2 DEF ProducerStop, ringVars, callVars
<1>3. CASE ProducerClaim
  BY <1>3, ReaderAssumption DEF ProducerClaim, RingFull, ringVars, callVars, SlotIds
<1>4. CASE ProducerFetch
  BY <1>4 DEF ProducerFetch, ringVars, callVars
<1>5. CASE ProducerPublish
  <2>1. tail' = IF tail + 1 = NSlots THEN 0 ELSE tail + 1
    BY <1>5, ModSucc, ReaderAssumption DEF ProducerPublish, SlotIds
  <2>2. /\ filled' = filled + 1 /\ filled < NSlots
        /\ head' = head /\ curSlot' = curSlot /\ prefetching' = prefetching /\ after' = after
        /\ ppc' \in {"exit", "lock"} /\ prefetching
        /\ cpc' = IF cpc = "wait" THEN "take" ELSE cpc
    BY <1>5 DEF ProducerPublish, WakeCaller
  <2> QED BY <2>1, <2>2, ReaderAssumption DEF SlotIds
<1>6. CASE ProducerFail
  BY <1>6 DEF ProducerFail, WakeCaller
<1> QED BY <1>1, <1>2, <1>3, <1>4, <1>5, <1>6 DEF Producer

(* The caller frees only the head slot it has converted, and forgets the   *)
(* thread only after PrefetchJoin.                                         *)
LEMMA OwnershipCaller ==
  ASSUME OwnershipInv, Caller
  PROVE  OwnershipInv'
<1> USE DEF OwnershipInv, ControlOK, RingShape, ThreadShape, ClaimShape
<1>1. CASE Bind
  BY <1>1 DEF Bind, ReturnError, ringVars
<1>2. CASE GetNext
  BY <1>2 DEF GetNext, ringVars
<1>3. CASE GetNextDone
  BY <1>3 DEF GetNextDone, ringVars
<1>4. CASE Release
  BY <1>4 DEF Release, ringVars
<1>5. CASE Loop
  BY <1>5 DEF Loop, NextPc, ringVars
<1>6. CASE Return
  BY <1>6 DEF Return, ringVars
<1>7. CASE CallerWait
  BY <1>7 DEF CallerWait, ringVars
<1>8. CASE Drained
  BY <1>8 DEF Drained, ringVars
<1>9. CASE TakeSlot
  BY <1>9 DEF TakeSlot, ringVars
<1>10. CASE Convert
  <2>1. head' = IF head + 1 = NSlots THEN 0 ELSE head + 1
    BY <1>10, ModSucc, ReaderAssumption DEF Convert, SlotIds
  <2>2. /\ filled' = filled - 1 /\ filled > 0
        /\ tail' = tail /\ curSlot' = curSlot /\ prefetching' = prefetching /\ after' = after
        /\ cpc' \in {"idle", "loop"} /\ prefetching
        /\ ppc' = IF ppc = "wait" THEN "lock" ELSE ppc
    BY <1>10 DEF Convert, WakeProducer, ReturnError
  <2> QED BY <2>1, <2>2, ReaderAssumption DEF SlotIds
<1>11. CASE JoinStop
  BY <1>11 DEF JoinStop, WakeProducer
<1>12. CASE Joined
  BY <1>12 DEF Joined, ThreadEnded, ReturnError, ringVars
<1>13. CASE HandBack
  BY <1>13 DEF HandBack, ReturnError, ringVars
<1>14. CASE SyncFetchEnds
  BY <1>14 DEF SyncFetchEnds, ReturnError, ringVars
<1>15. CASE SyncFetch
  <2>1. cpc' \in {"idle", "loop"}
    BY <1>15 DEF SyncFetch, ReturnError
  <2>2. UNCHANGED <<head, tail, filled, curSlot, prefetching, ppc, after>> /\ cpc = "fetch"
    BY <1>15 DEF SyncFetch, ringVars
  <2> QED BY <2>1, <2>2
<1>16. CASE CloseCursor
  BY <1>16 DEF CloseCursor, ringVars
<1> QED BY <1>1, <1>2, <1>3, <1>4, <1>5, <1>6, <1>7, <1>8, <1>9, <1>10, <1>11, <1>12,
           <1>13, <1>14, <1>15, <1>16 DEF Caller, CallInProgress

(* The ring counters, the two threads' places in the code and the join     *)
(* flag stay consistent, whatever the interleaving: the state has its type *)
(* and the tail is always "filled" slots past the head.                    *)
THEOREM OwnershipInvariance == Spec => []OwnershipInv
<1>1. OwnershipInv /\ [Next]_vars => OwnershipInv'
  <2> SUFFICES ASSUME OwnershipInv, [Next]_vars PROVE OwnershipInv'
    OBVIOUS
  <2>1. CASE Producer BY <2>1, OwnershipProducer
  <2>2. CASE Caller BY <2>2, OwnershipCaller
  <2>3. CASE UNCHANGED vars
    BY <2>3 DEF vars, ringVars, callVars, OwnershipInv, ControlOK, RingShape, ThreadShape,
                ClaimShape
  <2> QED BY <2>1, <2>2, <2>3 DEF Next, Released
<1> QED BY <1>1, OwnershipInit, PTL DEF Spec

(* The handle is touched by one thread at a time: the caller never scrolls,*)
(* fetches or closes the cursor before the fetch thread has ended.         *)
THEOREM HandleOwnership == Spec => []HandleHasOneOwner
<1>1. OwnershipInv => HandleHasOneOwner
  BY DEF OwnershipInv, ThreadShape, HandleHasOneOwner
<1> QED BY <1>1, OwnershipInvariance, PTL

(* No slot is converted while the fetch thread fills it.                   *)
THEOREM SlotOwnership == Spec => []SlotHasOneOwner
<1>1. OwnershipInv => SlotHasOneOwner
  BY ReaderAssumption
  DEF OwnershipInv, ControlOK, RingShape, ClaimShape, SlotHasOneOwner, SlotIds
<1> QED BY <1>1, OwnershipInvariance, PTL

-----------------------------------------------------------------------------
(* The rows of a set of entries, in order.                                 *)

(* How many members of S lie at or below i.                                *)
UpTo(S, i) == {k \in S : k <= i}

(* RowStream counts as its reader does.                                    *)
LEMMA SameCount == ASSUME NEW S PROVE Stream!Cardinality(S) = Cardinality(S)
BY DEF Stream!Cardinality, Cardinality

(* RowStream and the reader take the members of a set in the same order.   *)
LEMMA SameNth == ASSUME NEW S, NEW j PROVE Stream!Nth(S, j) = Nth(S, j)
BY DEF Stream!Nth, Nth, Stream!Cardinality, Cardinality

(* Every member of a finite set has its own rank.                          *)
LEMMA RankFacts ==
  ASSUME NEW S \in SUBSET Nat, IsFiniteSet(S)
  PROVE  /\ Cardinality(S) \in Nat
         /\ \A i \in S : Cardinality(UpTo(S, i)) \in 1..Cardinality(S)
         /\ \A i, j \in S : i < j => Cardinality(UpTo(S, i)) < Cardinality(UpTo(S, j))
<1>1. Cardinality(S) \in Nat
  BY FS_CardinalityType
<1>2. ASSUME NEW i \in S
      PROVE  /\ IsFiniteSet(UpTo(S, i))
             /\ Cardinality(UpTo(S, i)) \in 1..Cardinality(S)
  <2>1. UpTo(S, i) \in SUBSET S /\ i \in UpTo(S, i)
    BY DEF UpTo
  <2>2. IsFiniteSet(UpTo(S, i)) /\ Cardinality(UpTo(S, i)) <= Cardinality(S)
    BY <2>1, FS_Subset
  <2>3. Cardinality(UpTo(S, i)) \in Nat /\ Cardinality(UpTo(S, i)) # 0
    BY <2>1, <2>2, FS_CardinalityType, FS_EmptySet
  <2> QED BY <1>1, <2>2, <2>3
<1>3. ASSUME NEW i \in S, NEW j \in S, i < j
      PROVE  Cardinality(UpTo(S, i)) < Cardinality(UpTo(S, j))
  <2>1. UpTo(S, i) \in SUBSET UpTo(S, j) /\ UpTo(S, i) # UpTo(S, j)
    <3>1. j \in UpTo(S, j) /\ j \notin UpTo(S, i)
      BY <1>3 DEF UpTo
    <3>2. \A k \in S : k <= i => k <= j
      BY <1>3
    <3> QED BY <3>1, <3>2 DEF UpTo
  <2>2. /\ Cardinality(UpTo(S, i)) <= Cardinality(UpTo(S, j))
        /\ Cardinality(UpTo(S, j)) = Cardinality(UpTo(S, i)) => UpTo(S, j) = UpTo(S, i)
    <3> HIDE DEF UpTo
    <3> QED BY <1>2, <2>1, FS_Subset
  <2>3. Cardinality(UpTo(S, i)) \in Nat /\ Cardinality(UpTo(S, j)) \in Nat
    BY <1>2
  <2> QED BY <2>1, <2>2, <2>3
<1> QED BY <1>1, <1>2, <1>3

(* Nth inverts the rank.                                                   *)
LEMMA NthIs ==
  ASSUME NEW S \in SUBSET Nat, IsFiniteSet(S), NEW i \in S
  PROVE  Nth(S, Cardinality(UpTo(S, i))) = i
<1>1. \A j \in S : Cardinality(UpTo(S, j)) = Cardinality(UpTo(S, i)) => j = i
  <2> TAKE j \in S
  <2>1. Cardinality(UpTo(S, i)) \in Nat /\ Cardinality(UpTo(S, j)) \in Nat
    BY RankFacts
  <2>2. i < j \/ j < i \/ i = j
    OBVIOUS
  <2> QED BY <2>1, <2>2, RankFacts
<1> QED BY <1>1 DEF Nth, UpTo

(* Every rank up to the number of members is the rank of a member.         *)
LEMMA NthFacts ==
  ASSUME NEW S \in SUBSET Nat, IsFiniteSet(S), NEW p \in 1..Cardinality(S)
  PROVE  Nth(S, p) \in S /\ Cardinality(UpTo(S, Nth(S, p))) = p
<1> DEFINE n == Cardinality(S)
           f == [i \in S |-> Cardinality(UpTo(S, i))]
<1>1. n \in Nat /\ IsFiniteSet(1..n) /\ Cardinality(1..n) = n
  BY RankFacts, FS_Interval
<1>2. f \in Injection(S, 1..n)
  <2>1. f \in [S -> 1..n]
    BY RankFacts
  <2>2. \A i, j \in S : f[i] = f[j] => i = j
    <3> TAKE i, j \in S
    <3>1. i < j \/ j < i \/ i = j
      OBVIOUS
    <3> QED BY <2>1, <3>1, RankFacts
  <2> QED BY <2>1, <2>2 DEF Injection, IsInjective
<1>3. f \in Surjection(S, 1..n)
  <2> HIDE DEF f
  <2> QED BY <1>1, <1>2, FS_Injection
<1>4. \E i \in S : f[i] = p
  BY <1>3 DEF Surjection
<1> QED BY <1>4 DEF Nth, UpTo

(* The rows of a finite set of entries are values in its order.            *)
LEMMA RowsAre ==
  ASSUME NEW S
  PROVE  Stream!Rows(S) = [j \in 1..Cardinality(S) |-> [row |-> Nth(S, j), whole |-> TRUE]]
BY SameCount, SameNth DEF Stream!Rows

(* The rows of a finite set of entries are a sequence of whole values, one *)
(* for each entry.                                                         *)
LEMMA RowsType ==
  ASSUME NEW S \in SUBSET Nat, IsFiniteSet(S)
  PROVE  /\ Stream!Rows(S) \in Seq(Values) /\ Len(Stream!Rows(S)) = Cardinality(S)
         /\ Stream!Rows(S) = <<>> <=> S = {}
<1> DEFINE n == Cardinality(S)
           q == Stream!Rows(S)
<1>1. n \in Nat /\ (n = 0 <=> S = {})
  BY RankFacts, FS_EmptySet
<1>2. \A j \in 1..n : Nth(S, j) \in Nat
  BY NthFacts
<1>3. q = [j \in 1..n |-> [row |-> Nth(S, j), whole |-> TRUE]]
  BY RowsAre
<1>4. q \in [1..n -> Values]
  BY <1>2, <1>3 DEF Values
<1> HIDE DEF n, q
<1>5. q \in Seq(Values) /\ Len(q) = n
  BY <1>1, <1>4
<1>6. q = <<>> <=> n = 0
  BY <1>5
<1> QED BY <1>1, <1>5, <1>6 DEF n, q

(* The last of them is the largest.                                        *)
LEMMA LastRow ==
  ASSUME NEW S \in SUBSET Nat, IsFiniteSet(S), S # {},
         NEW last, last = Stream!Rows(S)[Cardinality(S)].row
  PROVE  last \in S /\ \A k \in S : k <= last
<1>1. Cardinality(S) \in Nat /\ Cardinality(S) # 0
  BY RankFacts, FS_EmptySet
<1>2. last = Nth(S, Cardinality(S))
  BY <1>1, RowsAre
<1>3. last \in S /\ Cardinality(UpTo(S, last)) = Cardinality(S)
  BY <1>1, <1>2, NthFacts
<1>4. UpTo(S, last) \in SUBSET S
  BY DEF UpTo
<1>5. S = UpTo(S, last)
  BY <1>3, <1>4, FS_Subset
<1> QED BY <1>3, <1>5 DEF UpTo

(* Two sequences that agree in length and in every element are one.       *)
LEMMA SequencesEqual ==
  ASSUME NEW S, NEW s \in Seq(S), NEW t \in Seq(S),
         Len(s) = Len(t), \A j \in 1..Len(s) : s[j] = t[j]
  PROVE  s = t
OBVIOUS

(* Rows that lie after others follow them.                                 *)
LEMMA RowsJoin ==
  ASSUME NEW S \in SUBSET Nat, IsFiniteSet(S), NEW T \in SUBSET Nat, IsFiniteSet(T),
         \A s \in S : \A t \in T : s < t
  PROVE  Stream!Rows(S) \o Stream!Rows(T) = Stream!Rows(S \cup T)
<1> DEFINE n == Cardinality(S)
           m == Cardinality(T)
           U == S \cup T
<1>1. n \in Nat /\ m \in Nat
  BY RankFacts
<1>2. U \in SUBSET Nat /\ IsFiniteSet(U) /\ Cardinality(U) = n + m
  <2>1. S \cap T = {} /\ Cardinality({}) = 0
    BY FS_EmptySet
  <2>2. /\ IsFiniteSet(U)
        /\ Cardinality(U) = Cardinality(S) + Cardinality(T) - Cardinality(S \cap T)
    BY FS_Union
  <2>3. Cardinality(S \cap T) = 0
    BY <2>1, Zenon
  <2>4. Cardinality(U) = n + m
    BY <1>1, <2>2, <2>3
  <2> QED BY <2>2, <2>4
<1>3. ASSUME NEW j \in 1..n
      PROVE  Nth(U, j) = Nth(S, j)
  <2>1. PICK i \in S : i = Nth(S, j) /\ Cardinality(UpTo(S, i)) = j
    BY NthFacts
  <2>2. UpTo(U, i) = UpTo(S, i)
    <3>1. \A t \in T : i < t /\ t \in Nat /\ i \in Nat
      OBVIOUS
    <3>2. \A t \in T : ~(t <= i)
      BY <3>1
    <3> QED BY <3>2 DEF UpTo
  <2>3. Nth(U, Cardinality(UpTo(U, i))) = i
    BY <1>2, NthIs
  <2> QED BY <2>1, <2>2, <2>3
<1>4. ASSUME NEW j \in 1..m
      PROVE  Nth(U, n + j) = Nth(T, j)
  <2>1. PICK i \in T : i = Nth(T, j) /\ Cardinality(UpTo(T, i)) = j
    BY NthFacts
  <2>2. UpTo(U, i) = S \cup UpTo(T, i) /\ S \cap UpTo(T, i) = {}
    <3>1. \A s \in S : s < i /\ s \in Nat /\ i \in Nat
      OBVIOUS
    <3>2. \A s \in S : s <= i
      BY <3>1
    <3>3. S \cap T = {}
      OBVIOUS
    <3> QED BY <3>2, <3>3 DEF UpTo
  <2>3. IsFiniteSet(UpTo(T, i))
    <3>1. UpTo(T, i) \in SUBSET T
      BY DEF UpTo
    <3> QED BY <3>1, FS_Subset
  <2>4. Cardinality(UpTo(U, i)) = n + j
    <3>1. Cardinality({}) = 0
      BY FS_EmptySet
    <3>2. Cardinality(S \cup UpTo(T, i))
            = Cardinality(S) + Cardinality(UpTo(T, i)) - Cardinality(S \cap UpTo(T, i))
      BY <2>3, FS_Union
    <3>3. Cardinality(S \cap UpTo(T, i)) = 0 /\ Cardinality(UpTo(U, i)) = Cardinality(S \cup UpTo(T, i))
      BY <2>2, <3>1, Zenon
    <3> QED BY <1>1, <2>1, <3>2, <3>3
  <2>5. Nth(U, Cardinality(UpTo(U, i))) = i
    BY <1>2, NthIs
  <2> QED BY <2>1, <2>4, <2>5
<1> DEFINE a == Stream!Rows(S)
           b == Stream!Rows(T)
           c == Stream!Rows(U)
<1>5. /\ a \in Seq(Values) /\ Len(a) = n
      /\ b \in Seq(Values) /\ Len(b) = m
      /\ c \in Seq(Values) /\ Len(c) = n + m
  BY <1>2, RowsType
<1>6. /\ \A j \in 1..n : c[j] = a[j]
      /\ \A j \in 1..m : c[n + j] = b[j]
  <2>1. /\ \A j \in 1..n : a[j] = [row |-> Nth(S, j), whole |-> TRUE]
        /\ \A j \in 1..m : b[j] = [row |-> Nth(T, j), whole |-> TRUE]
        /\ \A j \in 1..(n + m) : c[j] = [row |-> Nth(U, j), whole |-> TRUE]
    BY <1>2, RowsAre
  <2>2. \A j \in 1..n : j \in 1..(n + m)
    BY <1>1
  <2>3. \A j \in 1..m : n + j \in 1..(n + m)
    BY <1>1
  <2> HIDE DEF a, b, c, n, m, U
  <2> QED BY <1>3, <1>4, <2>1, <2>2, <2>3
<1> HIDE DEF a, b, c, n, m, U
<1>7. a \o b = c
  <2>1. a \o b \in Seq(Values) /\ Len(a \o b) = n + m
    BY <1>5
  <2>2. ASSUME NEW j \in 1..(n + m)
        PROVE  (a \o b)[j] = c[j]
    <3>1. CASE j <= n
      BY <1>1, <1>5, <1>6, <3>1
    <3>2. CASE ~(j <= n)
      <4>1. j - n \in 1..m /\ n + (j - n) = j
        BY <1>1, <3>2
      <4>2. (a \o b)[j] = b[j - n]
        BY <1>1, <1>5, <3>2
      <4>3. c[n + (j - n)] = b[j - n]
        BY <1>6, <4>1
      <4> QED BY <4>1, <4>2, <4>3
    <3> QED BY <3>1, <3>2
  <2> DEFINE d == a \o b
  <2>3. c \in Seq(Values) /\ d \in Seq(Values) /\ Len(d) = n + m /\ Len(c) = n + m
    BY <1>5, <2>1
  <2>4. \A j \in 1..(n + m) : d[j] = c[j]
    BY <2>2, Zenon
  <2> HIDE DEF d
  <2>5. Len(d) = Len(c) /\ \A j \in 1..Len(d) : d[j] = c[j]
    BY <2>3, <2>4, Zenon
  <2>6. d = c
    BY <2>3, <2>5, SequencesEqual, Zenon
  <2> QED BY <2>6, Zenon DEF d
<1> QED BY <1>7 DEF a, b, c, U

(* How many entries a run has, and which they are.                         *)
LEMMA RunLength ==
  ASSUME NEW a \in Nat, NEW n \in Nat
  PROVE  Cardinality((a + 1)..(a + n)) = n
<1>1. a + 1 \in Int /\ a + n \in Int
  OBVIOUS
<1>2. Cardinality((a + 1)..(a + n)) = IF a + 1 > a + n THEN 0 ELSE (a + n) - (a + 1) + 1
  BY <1>1, FS_Interval
<1> QED BY <1>2

(* The j-th entry of an unbroken run is j places after where it begins.    *)
LEMMA NthOfRun ==
  ASSUME NEW a \in Nat, NEW n \in Nat, NEW j \in 1..n
  PROVE  Nth((a + 1)..(a + n), j) = a + j
<1> DEFINE S == (a + 1)..(a + n)
<1>1. S \in SUBSET Nat /\ IsFiniteSet(S) /\ a + j \in S
  BY FS_Interval
<1>2. UpTo(S, a + j) = (a + 1)..(a + j)
  BY DEF UpTo
<1>3. Cardinality((a + 1)..(a + j)) = j
  BY RunLength
<1> QED BY <1>1, <1>2, <1>3, NthIs

-----------------------------------------------------------------------------
(* The rows of a run of entries.                                           *)

(* The entries of a run that carry a row are finitely many, and at most as *)
(* many as the run is long.                                                *)
LEMMA RealsFacts ==
  ASSUME NEW lo \in Nat, NEW hi \in Nat
  PROVE  /\ Stream!RealsIn(lo, hi) \in SUBSET Nat /\ Stream!RealsIn(lo, hi) \subseteq lo..hi
         /\ IsFiniteSet(Stream!RealsIn(lo, hi))
         /\ Cardinality(Stream!RealsIn(lo, hi)) \in Nat
         /\ lo <= hi + 1 => Cardinality(Stream!RealsIn(lo, hi)) <= hi - lo + 1
<1>1. Stream!RealsIn(lo, hi) \in SUBSET (lo..hi)
  BY DEF Stream!RealsIn
<1>2. IsFiniteSet(lo..hi) /\ Cardinality(lo..hi) = IF lo > hi THEN 0 ELSE hi - lo + 1
  BY FS_Interval
<1>3. /\ IsFiniteSet(Stream!RealsIn(lo, hi))
      /\ Cardinality(Stream!RealsIn(lo, hi)) <= Cardinality(lo..hi)
  BY <1>1, <1>2, FS_Subset
<1>4. Cardinality(Stream!RealsIn(lo, hi)) \in Nat
  BY <1>3, FS_CardinalityType
<1>5. lo..hi \subseteq Nat
  OBVIOUS
<1> QED BY <1>1, <1>2, <1>3, <1>4, <1>5

(* The rows of a run of entries: how many, and when there are none.        *)
LEMMA RowsInFacts ==
  ASSUME NEW lo \in Nat, NEW hi \in Nat
  PROVE  /\ RowsIn(lo, hi) \in Seq(Values)
         /\ Len(RowsIn(lo, hi)) = Cardinality(Stream!RealsIn(lo, hi))
         /\ RowsIn(lo, hi) = <<>> <=> Stream!RealsIn(lo, hi) = {}
         /\ lo <= hi + 1 => Len(RowsIn(lo, hi)) <= hi - lo + 1
BY RealsFacts, RowsType DEF RowsIn

(* Two runs of entries one after the other.                                *)
LEMMA RowsInJoin ==
  ASSUME NEW lo \in Nat, NEW mid \in Nat, NEW hi \in Nat, lo <= mid + 1, mid <= hi
  PROVE  /\ RowsIn(lo, mid) \o RowsIn(mid + 1, hi) = RowsIn(lo, hi)
         /\ Stream!RealsIn(lo, mid) \cup Stream!RealsIn(mid + 1, hi) = Stream!RealsIn(lo, hi)
         /\ Len(RowsIn(lo, hi)) = Len(RowsIn(lo, mid)) + Len(RowsIn(mid + 1, hi))
<1> DEFINE S == Stream!RealsIn(lo, mid)
           T == Stream!RealsIn(mid + 1, hi)
<1>1. S \cup T = Stream!RealsIn(lo, hi)
  <2>1. \A i : i \in lo..hi <=> i \in lo..mid \/ i \in (mid + 1)..hi
    OBVIOUS
  <2> QED BY <2>1 DEF Stream!RealsIn
<1>2. /\ S \in SUBSET Nat /\ IsFiniteSet(S) /\ S \subseteq lo..mid
      /\ T \in SUBSET Nat /\ IsFiniteSet(T) /\ T \subseteq (mid + 1)..hi
  <2>1. mid + 1 \in Nat
    OBVIOUS
  <2> HIDE DEF S, T
  <2> QED BY <2>1, RealsFacts DEF S, T
<1>3. \A s \in S : \A t \in T : s < t
  <2>1. \A s \in lo..mid : \A t \in (mid + 1)..hi : s < t
    OBVIOUS
  <2> QED BY <1>2, <2>1
<1>4. Stream!Rows(S) \o Stream!Rows(T) = Stream!Rows(S \cup T)
  <2> HIDE DEF S, T
  <2> QED BY <1>2, <1>3, RowsJoin
<1>5. RowsIn(lo, mid) \o RowsIn(mid + 1, hi) = RowsIn(lo, hi)
  BY <1>1, <1>4, Zenon DEF RowsIn
<1>6. RowsIn(lo, mid) \in Seq(Values) /\ RowsIn(mid + 1, hi) \in Seq(Values)
  BY RowsInFacts
<1>7. Len(RowsIn(lo, mid) \o RowsIn(mid + 1, hi)) = Len(RowsIn(lo, mid)) + Len(RowsIn(mid + 1, hi))
  BY <1>6
<1> QED BY <1>1, <1>5, <1>7

LastOf(lo, hi) == RowsIn(lo, hi)[Len(RowsIn(lo, hi))].row

(* The last row of a run: nothing of the run comes after it.               *)
LEMMA RowsInLast ==
  ASSUME NEW lo \in Nat, NEW hi \in Nat, lo >= 1, Stream!RealsIn(lo, hi) # {}
  PROVE  /\ LastOf(lo, hi) \in lo..hi /\ Stream!Real(LastOf(lo, hi))
         /\ Stream!RealsIn(LastOf(lo, hi) + 1, hi) = {}
         /\ RowsIn(lo, LastOf(lo, hi)) = RowsIn(lo, hi)
<1> DEFINE S == Stream!RealsIn(lo, hi)
           last == LastOf(lo, hi)
<1>1. S \in SUBSET Nat /\ IsFiniteSet(S) /\ S # {} /\ S \subseteq lo..hi
  BY RealsFacts, RowsInFacts
<1>2. last = Stream!Rows(S)[Cardinality(S)].row
  BY RowsInFacts DEF RowsIn, LastOf
<1> HIDE DEF last
<1>3. last \in S /\ \A k \in S : k <= last
  <2> HIDE DEF S
  <2> QED BY <1>1, <1>2, LastRow
<1>4. last \in lo..hi /\ last \in Nat
  BY <1>1, <1>3
<1>5. Stream!Real(last)
  BY <1>3 DEF Stream!RealsIn
<1>6. Stream!RealsIn(last + 1, hi) = {}
  <2> SUFFICES ASSUME NEW k \in Stream!RealsIn(last + 1, hi) PROVE FALSE
    OBVIOUS
  <2>1. k \in (last + 1)..hi /\ Stream!Real(k)
    BY DEF Stream!RealsIn
  <2>2. k \in lo..hi
    BY <1>4, <2>1
  <2>3. k \in S
    BY <2>1, <2>2 DEF Stream!RealsIn
  <2> QED BY <1>3, <1>4, <2>1, <2>3
<1>7. Stream!RealsIn(lo, last) \cup Stream!RealsIn(last + 1, hi) = S
  <2>1. last \in Nat /\ lo <= last + 1 /\ last <= hi
    BY <1>4
  <2> QED BY <2>1, RowsInJoin
<1>8. RowsIn(lo, last) = RowsIn(lo, hi)
  BY <1>6, <1>7 DEF RowsIn
<1> QED BY <1>4, <1>5, <1>6, <1>8 DEF last

(* What ConvertRowset and RepairRowset make of a rowset whose values can   *)
(* be read whole is its rows, in order.                                    *)
LEMMA ConvertedRows ==
  ASSUME NEW s, s.from \in Nat, s.fetched \in Nat, \A i \in Entries(s) : GetDataWhole(i)
  PROVE  ConvertRowset(s) = RowsIn(s.from + 1, s.from + s.fetched)
<1> DEFINE a == s.from
           n == s.fetched
           S == Stream!RealsIn(a + 1, a + n)
<1>1. Entries(s) = (a + 1)..(a + n)
  BY DEF Entries
<1>2. S = {i \in Entries(s) : rs.rows[i] # "hole"}
  BY <1>1 DEF Stream!RealsIn, Stream!Real
<1>3. a + 1 \in Nat /\ a + n \in Nat
  OBVIOUS
<1>4. S \in SUBSET Nat /\ IsFiniteSet(S)
  BY <1>3, RealsFacts
<1>5. RowsIn(a + 1, a + n) = [j \in 1..Cardinality(S) |-> [row |-> Nth(S, j), whole |-> TRUE]]
  BY RowsAre DEF RowsIn
<1>6. CASE RowsetIsBulk(s)
  <2>1. S = (a + 1)..(a + n)
    BY <1>1, <1>2, <1>6 DEF RowsetIsBulk, Has
  <2>2. Cardinality(S) = n
    BY <2>1, RunLength
  <2>3. \A j \in 1..n : Nth(S, j) = a + j /\ a + j \in Entries(s)
    BY <1>1, <2>1, NthOfRun
  <2>4. BulkAppend(s) = [j \in 1..n |-> [row |-> Nth(S, j), whole |-> TRUE]]
    BY <2>3 DEF BulkAppend, Converted, GetDataWhole
  <2> HIDE DEF S
  <2> QED BY <1>5, <1>6, <2>2, <2>4 DEF ConvertRowset
<1>7. CASE ~RowsetIsBulk(s)
  <2>1. \A j \in 1..Cardinality(S) : Nth(S, j) \in Entries(s)
    BY <1>2, <1>4, NthFacts
  <2>2. ConvertRowset(s) = [j \in 1..Cardinality(S) |-> Converted(Nth(S, j))]
    BY <1>2, <1>7 DEF ConvertRowset
  <2> HIDE DEF S
  <2> QED BY <1>5, <2>1, <2>2 DEF Converted, GetDataWhole
<1> QED BY <1>6, <1>7

(* Re-reading a rowset by absolute row number gives its own rows and       *)
(* leaves the cursor at its end, where no entry is without a row.          *)
LEMMA RepairedRowset ==
  ASSUME rs \in ResultSet, \A i \in DOMAIN rs.rows : rs.rows[i] # "hole",
         NEW s, s.from \in Nat, s.fetched \in Nat \ {0}, s.from + s.fetched <= Len(rs.rows),
         s.firstRow = s.from + 1, driver.getdata \/ driver.bound
  PROVE  /\ RepairedRows(s) = RowsIn(s.from + 1, s.from + s.fetched)
         /\ RepairedCursor(s) = s.from + s.fetched
         /\ RepairFails(s) <=> ~driver.refetch \/ Has(s, "bad")
<1> DEFINE a == s.from
           n == s.fetched
           S == (a + 1)..(a + n)
<1>1. Len(rs.rows) \in Nat /\ DOMAIN rs.rows = 1..Len(rs.rows)
  BY DEF ResultSet
<1>2. Reals = (0 + 1)..(0 + Len(rs.rows)) /\ Cardinality(Reals) = Len(rs.rows)
  <2>1. Reals = 1..Len(rs.rows)
    BY <1>1 DEF Reals
  <2>2. Cardinality(1..Len(rs.rows)) = Len(rs.rows)
    BY <1>1, FS_Interval
  <2> QED BY <1>1, <2>1, <2>2
<1>3. \A p \in 1..Len(rs.rows) : Absolute(p) = p
  <2> TAKE p \in 1..Len(rs.rows)
  <2>1. Nth((0 + 1)..(0 + Len(rs.rows)), p) = 0 + p
    BY <1>1, NthOfRun
  <2> QED BY <1>2, <2>1 DEF Absolute
<1>4. S = Entries(s) /\ S \subseteq DOMAIN rs.rows /\ S = s.firstRow..(s.firstRow + n - 1)
  BY <1>1 DEF Entries
<1>5. Stream!RealsIn(a + 1, a + n) = S
  BY <1>4 DEF Stream!RealsIn, Stream!Real
<1>6. Cardinality(S) = n
  BY RunLength
<1>7. \A j \in 1..n : Nth(S, j) = a + j /\ Absolute(s.firstRow + j - 1) = a + j
  <2> TAKE j \in 1..n
  <2>1. Nth(S, j) = a + j
    BY NthOfRun
  <2>2. s.firstRow + j - 1 = a + j /\ a + j \in 1..Len(rs.rows)
    BY <1>1
  <2> QED BY <1>3, <2>1, <2>2
<1>8. RowsIn(a + 1, a + n) = [j \in 1..n |-> [row |-> Nth(S, j), whole |-> TRUE]]
  BY <1>5, <1>6, RowsAre DEF RowsIn
<1>9. RepairedRows(s) = [j \in 1..n |-> [row |-> a + j, whole |-> TRUE]]
  BY <1>7 DEF RepairedRows
<1>10. RepairedRows(s) = RowsIn(a + 1, a + n)
  BY <1>7, <1>8, <1>9
<1>11. RepairedCursor(s) = a + n
  <2>1. s.firstRow + n - 1 = a + n /\ a + n \in 1..Len(rs.rows)
    BY <1>1
  <2> QED BY <1>3, <2>1 DEF RepairedCursor
<1>12. RepairFails(s) <=> ~driver.refetch \/ Has(s, "bad")
  <2>1. ~(s.firstRow + n - 1 > Cardinality(Reals))
    BY <1>1, <1>2
  <2>2. \A p \in S : Absolute(p) = p
    BY <1>1, <1>3, <1>4
  <2> QED BY <1>4, <2>1, <2>2 DEF RepairFails, Has
<1> QED BY <1>10, <1>11, <1>12

-----------------------------------------------------------------------------
(* The ring: which slots hold a rowset, and where each begins.             *)

(* The result set, the cursor's place in it and the rowset size.           *)
LEMMA ResultFacts ==
  ASSUME DataOK
  PROVE  /\ rs \in ResultSet /\ rs.rows \in Seq(Kinds) /\ rs.fails \in BOOLEAN
         /\ Len(rs.rows) \in Nat /\ DOMAIN rs.rows = 1..Len(rs.rows)
         /\ cursor \in Nat /\ cursor <= Len(rs.rows)
         /\ rowsPerFetch \in Nat \ {0} /\ rowsPerFetch <= RowsPerFetch
         /\ RowsPerFetch \in Nat /\ RowsPerFetch >= 2
BY ReaderAssumption DEF DataOK, ResultSet

(* The slots of the ring are distinct from the tail while it has room.     *)
LEMMA RingSlots ==
  ASSUME ControlOK, RingShape
  PROVE  /\ At(0) = head
         /\ \A j \in 0..(NSlots - 1) : At(j) \in SlotIds
         /\ filled < NSlots => At(filled) = tail
         /\ filled < NSlots => \A j \in 0..(filled - 1) : At(j) # tail
BY ReaderAssumption DEF ControlOK, RingShape, At, SlotIds

(* A change to the slot at the tail is no change to the ring.              *)
LEMMA OutsideRing ==
  ASSUME ControlOK, RingShape, filled < NSlots, head' = head,
         \A s \in SlotIds : s # tail => slot'[s] = slot[s]
  PROVE  \A j \in 0..(filled - 1) : At(j)' = At(j) /\ slot'[At(j)] = slot[At(j)]
<1> TAKE j \in 0..(filled - 1)
<1>1. At(j)' = At(j)
  BY DEF At
<1>2. filled \in Nat /\ j \in 0..(NSlots - 1)
  BY ReaderAssumption DEF ControlOK
<1>3. At(j) \in SlotIds /\ At(j) # tail
  BY <1>2, RingSlots
<1> QED BY <1>1, <1>3

(* How many slots hold a rowset.                                           *)
LEMMA HeldFacts ==
  ASSUME ControlOK, ClaimShape
  PROVE  /\ Held \in Nat /\ Held <= NSlots /\ filled <= Held
         /\ Held = IF ppc = "publish" THEN filled + 1 ELSE filled
BY ReaderAssumption DEF ControlOK, ClaimShape, Held

(* What is read and through what never changes.                            *)
LEMMA Steady ==
  ASSUME [Next]_vars
  PROVE  rs' = rs /\ driver' = driver
<1> USE DEF resultVars
<1>1. CASE Producer
  BY <1>1 DEF Producer, ProducerWait, ProducerStop, ProducerClaim, ProducerFetch,
              ProducerPublish, ProducerFail
<1>2. CASE Caller
  BY <1>2 DEF Caller, CallInProgress, Bind, GetNext, GetNextDone, Release, Loop, Return,
              CallerWait, Drained, TakeSlot, Convert, JoinStop, Joined, HandBack,
              SyncFetchEnds, SyncFetch, CloseCursor
<1>3. CASE UNCHANGED vars
  BY <1>3 DEF vars
<1> QED BY <1>1, <1>2, <1>3 DEF Next, Released

(* Whether the result set can be read whole does not change.               *)
LEMMA ReadableStep ==
  ASSUME Readable, rs' = rs, driver' = driver
  PROVE  Readable'
BY DEF Readable

(* A step that leaves the slots and the cursor alone.                      *)
LEMMA StartStays ==
  ASSUME UNCHANGED <<slot, cursor, head>>, Held' = Held
  PROVE  \A j : Start(j)' = Start(j)
BY DEF Start, At

(* A step that leaves the slots, the head and the cursor alone leaves the  *)
(* ring as it was.                                                         *)
LEMMA RingStays ==
  ASSUME RingHolds, UNCHANGED <<rs, slot, cursor, head>>, Held' = Held,
         prefetching' \/ cpc' = "repair" => prefetching \/ cpc = "repair",
         ppc \in {"publish", "exit"} => ppc' \in {"publish", "exit"}
  PROVE  RingHolds'
<1> SUFFICES ASSUME prefetching' \/ cpc' = "repair", NEW j \in 0..(Held - 1)
             PROVE  HeldShape(j)'
  BY DEF RingHolds
<1>1. HeldShape(j)
  BY DEF RingHolds
<1>2. Start(j + 1)' = Start(j + 1)
  BY StartStays
<1> QED BY <1>1, <1>2 DEF HeldShape, At, RowsetTruncated, Has, Entries

(* A step that delivers nothing and takes nothing.                         *)
LEMMA DeliveredToStays ==
  ASSUME DeliveredTo(Consumed), UNCHANGED <<rs, out, batch>>, Consumed' = Consumed
  PROVE  DeliveredTo(Consumed)'
BY DEF DeliveredTo, RowsIn, Stream!Rows, Stream!RealsIn, Stream!Real, Stream!Pos, Stream!Largest

(* A step that takes no rowset and hands out no batch leaves the delivery  *)
(* as it was.                                                              *)
LEMMA DeliveredStays ==
  ASSUME Delivered, UNCHANGED <<rs, out, batch, done, phase, rowsSeenExact>>,
         phase = "open" /\ ~Leaving' =>
           /\ ~Leaving /\ Consumed' = Consumed
           /\ done => ~prefetching'
           /\ ~prefetching' /\ cpc' # "repair" /\ ~done => rowsSeen' = cursor' /\ bound' = curSlot'
  PROVE  Delivered'
<1> SUFFICES ASSUME phase = "open", ~Leaving'
             PROVE  /\ DeliveredTo(Consumed)'
                    /\ done => Consumed' = Len(rs.rows) /\ ~rs.fails /\ ~prefetching'
                    /\ (\A i \in DOMAIN rs.rows : rs.rows[i] # "hole") => rowsSeenExact
                    /\ ~prefetching' /\ cpc' # "repair" /\ ~done
                         => rowsSeen' = cursor' /\ bound' = curSlot'
  BY DEF Delivered
<1>1. DeliveredTo(Consumed) /\ Consumed' = Consumed
  BY DEF Delivered
<1>2. DeliveredTo(Consumed)'
  BY <1>1, DeliveredToStays
<1> QED BY <1>2 DEF Delivered

-----------------------------------------------------------------------------
(* The fetch thread's steps.                                               *)

(* What the fetch thread never touches, and when it runs at all.           *)
LEMMA ProducerFrame ==
  ASSUME StreamInv, Producer
  PROVE  /\ prefetching /\ ppc \notin {"none", "exit"} /\ cpc \notin {"unbound", "repair"}
         /\ UNCHANGED <<rs, driver, head, rowsSeenExact, rowsPerFetch, prefetching, curSlot,
                        done, batch, out, phase, after>>
         /\ cpc' = cpc \/ (cpc = "wait" /\ cpc' = "take")
<1>1. ppc \notin {"none", "exit"}
  BY DEF Producer, ProducerWait, ProducerStop, ProducerClaim, ProducerFetch,
         ProducerPublish, ProducerFail
<1>2. prefetching /\ cpc \notin {"unbound", "repair"}
  BY <1>1 DEF StreamInv, OwnershipInv, ThreadShape
<1>3. /\ UNCHANGED <<rs, driver, head, rowsSeenExact, rowsPerFetch, prefetching, curSlot,
                     done, batch, out, phase, after>>
      /\ cpc' = cpc \/ (cpc = "wait" /\ cpc' = "take")
  BY DEF Producer, ProducerWait, ProducerStop, ProducerClaim, ProducerFetch, ProducerPublish,
         ProducerFail, WakeCaller, resultVars, ringVars, countVars, callVars
<1> QED BY <1>1, <1>2, <1>3

(* What the caller sees of a step of the fetch thread.                     *)
LEMMA ProducerUnseen ==
  ASSUME StreamInv, Producer, Start(0)' = Start(0),
         cpc = "convert" => slot'[head] = slot[head]
  PROVE  CallShape' /\ Delivered'
<1>1. /\ prefetching /\ ppc \notin {"none", "exit"} /\ cpc \notin {"unbound", "repair"}
      /\ UNCHANGED <<rs, driver, head, rowsSeenExact, rowsPerFetch, prefetching, curSlot,
                     done, batch, out, phase, after>>
      /\ cpc' = cpc \/ (cpc = "wait" /\ cpc' = "take")
  BY ProducerFrame
<1>2. CallShape /\ Delivered
  BY DEF StreamInv
<1>3. /\ ~Joining("repair") /\ ~Joining("ended") /\ ~Joining("failed")
  BY <1>1, <1>2 DEF CallShape
<1>4. \A why : Joining(why)' <=> Joining(why)
  BY <1>1 DEF Joining
<1>5. Leaving' <=> Leaving
  BY <1>1, <1>4 DEF Leaving
<1>6. cpc' = "convert" <=> cpc = "convert"
  BY <1>1
<1>7. CallShape'
  BY <1>1, <1>2, <1>3, <1>4, <1>5, <1>6 DEF CallShape
<1>8. Consumed' = Consumed
  BY <1>1 DEF Consumed
<1>9. Delivered'
  <2>1. phase = "open" /\ ~Leaving /\ done => ~prefetching
    BY <1>2 DEF Delivered
  <2> QED BY <1>1, <1>2, <1>5, <1>8, <2>1, DeliveredStays
<1> QED BY <1>7, <1>9

(* While it waits for a slot, or learns that it is to stop.                *)
LEMMA StreamProducerIdle ==
  ASSUME StreamInv, ProducerWait \/ ProducerStop
  PROVE  DataOK' /\ RingHolds' /\ ProducerShape' /\ CallShape' /\ Delivered'
<1> USE DEF ProducerWait, ProducerStop, resultVars, handleVars, ringVars, countVars, callVars
<1>1. Producer
  BY DEF Producer
<1>2. UNCHANGED <<rs, driver, slot, cursor, bound, head, filled, fetchDone, fetchFailed, rowsSeen,
                  rowsSeenExact, rowsPerFetch, done, prefetching, cpc, batch, out, phase, curSlot>>
      /\ ppc = "lock" /\ ppc' \in {"wait", "exit"}
  OBVIOUS
<1>3. Held' = Held
  BY <1>2 DEF Held
<1>4. Start(0)' = Start(0)
  BY <1>2, <1>3, StartStays
<1>5. CallShape' /\ Delivered'
  BY <1>1, <1>2, <1>4, ProducerUnseen
<1>6. RingHolds'
  BY <1>2, <1>3, RingStays DEF StreamInv
<1>7. DataOK'
  BY <1>2 DEF StreamInv, DataOK
<1>8. ProducerShape'
  BY <1>2 DEF StreamInv, ProducerShape
<1> QED BY <1>5, <1>6, <1>7, <1>8

(* A claimed slot is outside the ring.                                     *)
LEMMA StreamProducerClaim ==
  ASSUME StreamInv, ProducerClaim
  PROVE  DataOK' /\ RingHolds' /\ ProducerShape' /\ CallShape' /\ Delivered'
<1>1. Producer
  BY DEF Producer
<1>2. /\ UNCHANGED <<rs, driver, cursor, head, tail, filled, fetchDone, fetchFailed, rowsSeen,
                     rowsSeenExact, rowsPerFetch, done, prefetching, cpc, batch, out, phase, curSlot>>
      /\ ppc = "lock" /\ ppc' = "fetch" /\ filled < NSlots /\ bound' = tail
      /\ slot' = [slot EXCEPT ![tail].eos = FALSE, ![tail].needsRepair = FALSE,
                              ![tail].fetched = 0]
  BY ReaderAssumption
  DEF ProducerClaim, RingFull, resultVars, ringVars, countVars, callVars, StreamInv, OwnershipInv,
      ControlOK
<1>3. /\ ControlOK /\ RingShape /\ ClaimShape /\ DataOK /\ RingHolds /\ ProducerShape
      /\ tail \in SlotIds /\ slot \in [SlotIds -> SlotRecord]
  BY DEF StreamInv, OwnershipInv, ControlOK, DataOK
<1>4. slot' \in [SlotIds -> SlotRecord] /\ \A s \in SlotIds : s # tail => slot'[s] = slot[s]
  BY <1>2, <1>3 DEF SlotRecord
<1>5. Held = filled /\ Held' = filled /\ filled \in 0..(NSlots - 1)
  BY <1>2, <1>3, ReaderAssumption DEF Held, ControlOK
<1>6. \A j \in 0..(filled - 1) : At(j)' = At(j) /\ slot'[At(j)] = slot[At(j)]
  BY <1>2, <1>3, <1>4, OutsideRing
<1>7. \A j \in 0..(filled - 1) : slot'[At(j)] = slot[At(j)]
  BY <1>6
<1>8. \A j \in 0..filled : Start(j)' = Start(j)
  <2> TAKE j \in 0..filled
  <2>1. CASE j < filled
    <3>1. At(j)' = At(j) /\ slot'[At(j)] = slot[At(j)]
      BY <1>5, <1>6, <2>1
    <3>2. cursor' = cursor
      BY <1>2
    <3> QED BY <1>5, <2>1, <3>1, <3>2, Zenon DEF Start
  <2>2. CASE j = filled
    BY <1>2, <1>5, <2>2 DEF Start
  <2> QED BY <1>5, <2>1, <2>2
<1>9. cpc = "convert" => slot'[head] = slot[head]
  <2>1. cpc = "convert" => filled > 0
    BY <1>3 DEF ClaimShape
  <2>2. At(0) = head
    BY <1>3, RingSlots
  <2> QED BY <1>5, <1>7, <2>1, <2>2
<1>10. CallShape' /\ Delivered'
  <2>1. Start(0)' = Start(0)
    BY <1>5, <1>8
  <2> QED BY <1>1, <1>9, <2>1, ProducerUnseen
<1>11. RingHolds'
  <2> SUFFICES ASSUME prefetching, NEW j \in 0..(filled - 1)
               PROVE  HeldShape(j)'
    BY <1>1, <1>2, <1>5, ProducerFrame DEF RingHolds
  <2>1. HeldShape(j)
    BY <1>3, <1>5 DEF RingHolds
  <2>2. Start(j + 1)' = Start(j + 1)
    BY <1>5, <1>8
  <2>3. ~slot[At(j)].eos /\ ~slot[At(j)].needsRepair
    BY <1>2, <2>1 DEF HeldShape
  <2> QED BY <1>2, <1>6, <1>7, <2>1, <2>2, <2>3 DEF HeldShape, RowsetTruncated, Has, Entries
<1>12. DataOK'
  BY <1>2, <1>3, <1>4 DEF DataOK
<1>13. ProducerShape'
  BY <1>1, <1>2, <1>3, ProducerFrame DEF ProducerShape
<1> QED BY <1>10, <1>11, <1>12, <1>13

(* SQLFetch fills the claimed slot with what follows the ring.             *)
LEMMA StreamProducerFetch ==
  ASSUME StreamInv, ProducerFetch
  PROVE  DataOK' /\ RingHolds' /\ ProducerShape' /\ CallShape' /\ Delivered'
<1>1. Producer
  BY DEF Producer
<1>2. /\ UNCHANGED <<rs, driver, bound, head, tail, filled, fetchDone, fetchFailed,
                     rowsSeenExact, rowsPerFetch, done, prefetching, cpc, batch, out, phase, curSlot>>
      /\ ppc = "fetch" /\ ppc' \in {"fail", "publish"}
  BY DEF ProducerFetch, resultVars, ringVars, callVars
<1>3. /\ ControlOK /\ RingShape /\ ClaimShape /\ DataOK /\ RingHolds /\ ProducerShape
      /\ tail \in SlotIds /\ slot \in [SlotIds -> SlotRecord]
  BY DEF StreamInv, OwnershipInv, ControlOK, DataOK
<1>4. /\ prefetching /\ cpc \notin {"unbound", "repair"}
      /\ rowsSeen = cursor /\ rowsPerFetch = RowsPerFetch
  BY <1>1, <1>3, ProducerFrame DEF ProducerShape
<1>5. Held = filled /\ filled < NSlots /\ filled \in 0..(NSlots - 1)
  BY <1>2, <1>3, ReaderAssumption DEF Held, ControlOK, ClaimShape
<1>6. /\ Fetched \in 0..RowsPerFetch /\ cursor + Fetched <= Len(rs.rows)
      /\ Fetched = 0 => cursor = Len(rs.rows)
      /\ cursor \in Nat /\ rs.fails \in BOOLEAN /\ RowsPerFetch \in Nat
  BY <1>3, <1>4, ResultFacts DEF Fetched
<1>7. CASE FetchError
  <2>1. UNCHANGED <<slot, cursor, rowsSeen>> /\ ppc' = "fail" /\ cursor = Len(rs.rows) /\ rs.fails
    BY <1>6, <1>7 DEF ProducerFetch, FetchError
  <2>2. Held' = Held
    BY <1>2, <2>1 DEF Held
  <2>3. Start(0)' = Start(0)
    BY <1>2, <2>1, <2>2, StartStays
  <2>4. CallShape' /\ Delivered'
    BY <1>1, <2>1, <2>3, ProducerUnseen
  <2>5. RingHolds'
    BY <1>2, <1>3, <2>1, <2>2, RingStays
  <2>6. DataOK'
    BY <1>2, <1>3, <2>1 DEF DataOK
  <2>7. ProducerShape'
    BY <1>2, <1>3, <1>4, <2>1 DEF ProducerShape
  <2> QED BY <2>4, <2>5, <2>6, <2>7
<1>8. CASE ~FetchError
  <2> DEFINE new == IF NoData THEN [slot[tail] EXCEPT !.eos = TRUE]
                    ELSE [FetchedSlot EXCEPT !.needsRepair = RowsetTruncated(FetchedSlot)]
  <2>1. /\ cursor' = cursor + Fetched /\ rowsSeen' = rowsSeen + Fetched /\ ppc' = "publish"
        /\ slot' = [slot EXCEPT ![tail] = new]
    BY <1>8 DEF ProducerFetch
  <2>2. new \in SlotRecord
    <3>1. CASE NoData
      BY <1>3, <3>1 DEF SlotRecord
    <3>2. CASE ~NoData
      <4>1. Fetched \in Nat
        BY <1>6
      <4>2. RowsetTruncated(FetchedSlot) \in BOOLEAN
        BY DEF RowsetTruncated, Has
      <4>3. FetchedSlot \in SlotRecord
        BY <1>4, <1>6, <4>1 DEF SlotRecord, FetchedSlot
      <4>4. \A x \in SlotRecord : \A b \in BOOLEAN : [x EXCEPT !.needsRepair = b] \in SlotRecord
        BY DEF SlotRecord
      <4> QED BY <3>2, <4>2, <4>3, <4>4
    <3> QED BY <3>1, <3>2
  <2>3. /\ NoData => new.eos /\ cursor = Len(rs.rows) /\ ~rs.fails /\ Fetched = 0
        /\ ~NoData => /\ ~new.eos /\ new.from = cursor /\ new.fetched = Fetched
                      /\ new.firstRow = cursor + 1 /\ Fetched > 0
                      /\ new.needsRepair <=> RowsetTruncated(FetchedSlot)
                      /\ RowsetTruncated(new) <=> RowsetTruncated(FetchedSlot)
    BY <1>3, <1>4, <1>6, <1>8
    DEF NoData, FetchError, FetchedSlot, RowsetTruncated, Has, Entries, SlotRecord
  <2> HIDE DEF new
  <2>4. /\ slot' \in [SlotIds -> SlotRecord] /\ slot'[tail] = new
        /\ \A s \in SlotIds : s # tail => slot'[s] = slot[s]
    BY <1>3, <2>1, <2>2
  <2>5. \A j \in 0..(filled - 1) : At(j)' = At(j) /\ slot'[At(j)] = slot[At(j)]
    BY <1>2, <1>3, <1>5, <2>4, OutsideRing
  <2>6. \A j : j = filled => At(j)' = tail
    <3>1. At(filled) = tail
      BY <1>3, <1>5, RingSlots
    <3> QED BY <1>2, <3>1 DEF At
  <2>7. Held' = filled + 1
    BY <1>2, <2>1 DEF Held
  <2>8. \A j \in 0..(filled - 1) : /\ ~slot[At(j)].eos /\ ~slot[At(j)].needsRepair
                                   /\ HeldShape(j)
    BY <1>2, <1>3, <1>4, <1>5 DEF RingHolds, HeldShape
  <2>9. \A j \in 0..filled : Start(j)' = Start(j)
    <3> TAKE j \in 0..filled
    <3>1. CASE j < filled
      <4>1. At(j)' = At(j) /\ slot'[At(j)] = slot[At(j)] /\ ~slot[At(j)].eos
        BY <1>5, <2>5, <2>8, <3>1
      <4>2. j < filled + 1
        BY <1>5, <3>1
      <4> QED BY <1>5, <2>7, <3>1, <4>1, <4>2, Zenon DEF Start
    <3>2. CASE j = filled
      <4>1. Start(j) = cursor
        BY <1>5, <3>2 DEF Start
      <4>2. Start(j)' = IF ~new.eos THEN new.from ELSE cursor'
        <5>1. j < filled + 1
          BY <1>5, <3>2
        <5>2. At(j)' = tail
          BY <2>6, <3>2
        <5> QED BY <2>4, <2>7, <5>1, <5>2, Zenon DEF Start
      <4>3. new.eos => cursor' = cursor
        BY <1>6, <2>1, <2>3
      <4> QED BY <2>3, <4>1, <4>2, <4>3
    <3> QED BY <1>5, <3>1, <3>2
  <2>10. \A j : j = filled + 1 => Start(j)' = cursor'
    BY <1>5, <2>7 DEF Start
  <2>11. cpc = "convert" => slot'[head] = slot[head]
    <3>1. cpc = "convert" => filled > 0
      BY <1>3 DEF ClaimShape
    <3>2. At(0) = head
      BY <1>3, RingSlots
    <3> QED BY <1>5, <2>5, <3>1, <3>2
  <2>12. CallShape' /\ Delivered'
    <3>1. Start(0)' = Start(0)
      BY <1>5, <2>9
    <3> QED BY <1>1, <2>11, <3>1, ProducerUnseen
  <2>13. RingHolds'
    <3> SUFFICES ASSUME NEW j \in 0..filled
                 PROVE  HeldShape(j)'
      BY <1>5, <2>7 DEF RingHolds
    <3>1. CASE j < filled
      <4>1. /\ At(j)' = At(j) /\ slot'[At(j)] = slot[At(j)] /\ HeldShape(j)
            /\ ~slot[At(j)].eos /\ ~slot[At(j)].needsRepair
        BY <1>5, <2>5, <2>8, <3>1
      <4>2. Start(j + 1)' = Start(j + 1)
        BY <1>5, <2>9, <3>1
      <4>3. At(j) \in SlotIds
        <5>1. j \in 0..(NSlots - 1)
          BY <1>5, <3>1, ReaderAssumption
        <5> QED BY <1>3, <5>1, RingSlots
      <4>4. slot[At(j)].from \in Nat /\ slot[At(j)].fetched \in Nat
        BY <1>3, <4>3 DEF SlotRecord
      <4>5. cursor <= cursor' /\ cursor' \in Nat
        BY <1>6, <2>1
      <4>6. slot[At(j)].from + slot[At(j)].fetched <= cursor'
        BY <1>6, <4>1, <4>4, <4>5 DEF HeldShape
      <4> QED BY <1>2, <4>1, <4>2, <4>6 DEF HeldShape, RowsetTruncated, Has, Entries
    <3>2. CASE j = filled
      <4>1. At(j)' = tail /\ Start(j + 1)' = cursor'
        <5>1. j + 1 = filled + 1
          BY <3>2
        <5> QED BY <2>6, <2>10, <3>2, <5>1
      <4>2. j = Held' - 1
        BY <1>5, <2>7, <3>2
      <4>3. CASE NoData
        <5>1. new.eos /\ cursor' = Len(rs.rows) /\ ~rs.fails
          BY <1>6, <2>1, <2>3, <4>3
        <5> QED BY <1>2, <2>1, <2>4, <4>1, <4>2, <5>1 DEF HeldShape
      <4>4. CASE ~NoData
        <5>1. /\ ~new.eos /\ new.from = cursor /\ new.fetched \in 1..RowsPerFetch
              /\ new.from + new.fetched = cursor' /\ new.firstRow = new.from + 1
              /\ new.needsRepair <=> RowsetTruncated(new)
          BY <1>6, <2>1, <2>3, <4>4
        <5>2. new.from + new.fetched <= cursor'
          BY <1>6, <2>1, <5>1
        <5>3. RowsetTruncated(slot[At(j)])' <=> RowsetTruncated(new)
          BY <1>2, <2>4, <4>1 DEF RowsetTruncated, Has, Entries
        <5> QED BY <2>1, <2>4, <4>1, <4>2, <5>1, <5>2, <5>3 DEF HeldShape
      <4> QED BY <4>3, <4>4
    <3> QED BY <1>5, <3>1, <3>2
  <2>14. DataOK'
    <3>1. cursor' \in 0..Len(rs.rows) /\ rowsSeen' \in Nat
      BY <1>3, <1>4, <1>6, <2>1, ResultFacts
    <3> QED BY <1>2, <1>3, <2>4, <3>1 DEF DataOK
  <2>15. ProducerShape'
    <3>1. ~fetchFailed /\ ~fetchDone /\ rowsSeen' = cursor'
      BY <1>2, <1>3, <1>4, <1>6, <2>1 DEF ProducerShape
    <3> QED BY <1>2, <1>3, <1>4, <2>1, <3>1 DEF ProducerShape
  <2> QED BY <2>12, <2>13, <2>14, <2>15
<1> QED BY <1>7, <1>8

(* Publishing makes the rowset visible to the caller and moves nothing.    *)
LEMMA StreamProducerPublish ==
  ASSUME StreamInv, ProducerPublish
  PROVE  DataOK' /\ RingHolds' /\ ProducerShape' /\ CallShape' /\ Delivered'
<1>1. Producer
  BY DEF Producer
<1>2. /\ UNCHANGED <<rs, driver, slot, cursor, bound, head, fetchFailed, rowsSeen,
                     rowsSeenExact, rowsPerFetch, done, prefetching, batch, out, phase, curSlot>>
      /\ ppc = "publish" /\ filled' = filled + 1
      /\ ppc' = IF slot[tail].eos \/ slot[tail].needsRepair THEN "exit" ELSE "lock"
      /\ fetchDone' = (fetchDone \/ slot[tail].eos)
      /\ cpc' \in {cpc, "take"}
  BY DEF ProducerPublish, WakeCaller, resultVars, handleVars, countVars
<1>3. /\ ControlOK /\ RingShape /\ ClaimShape /\ DataOK /\ RingHolds /\ ProducerShape
      /\ tail \in SlotIds /\ slot \in [SlotIds -> SlotRecord]
  BY DEF StreamInv, OwnershipInv, ControlOK, DataOK
<1>4. prefetching /\ cpc \notin {"unbound", "repair"}
  BY <1>1, ProducerFrame
<1>5. Held = filled + 1 /\ Held' = filled + 1 /\ filled \in Nat /\ filled < NSlots
  BY <1>2, <1>3, ReaderAssumption DEF Held, ControlOK, ClaimShape
<1>6. \A j : Start(j)' = Start(j)
  BY <1>2, <1>5, StartStays
<1>7. CallShape' /\ Delivered'
  BY <1>1, <1>2, <1>6, ProducerUnseen
<1>8. At(filled) = tail
  BY <1>3, <1>5, RingSlots
<1>9. \A j \in 0..filled : HeldShape(j)
  BY <1>3, <1>4, <1>5 DEF RingHolds
<1>10. slot[tail].eos => cursor = Len(rs.rows) /\ ~rs.fails
  BY <1>5, <1>8, <1>9 DEF HeldShape
<1>11. RingHolds'
  <2> SUFFICES ASSUME NEW j \in 0..filled
               PROVE  HeldShape(j)'
    BY <1>5 DEF RingHolds
  <2>1. HeldShape(j) /\ Start(j + 1)' = Start(j + 1)
    BY <1>6, <1>9
  <2>2. slot[At(j)].eos \/ slot[At(j)].needsRepair => j = filled /\ ppc' = "exit"
    BY <1>2, <1>5, <1>8, <2>1 DEF HeldShape
  <2>3. At(j)' = At(j)
    BY <1>2 DEF At
  <2> QED BY <1>2, <1>5, <2>1, <2>2, <2>3 DEF HeldShape, RowsetTruncated, Has, Entries
<1>12. DataOK'
  <2>1. slot[tail].eos \in BOOLEAN
    BY <1>3 DEF SlotRecord
  <2> QED BY <1>2, <1>3, <2>1 DEF DataOK
<1>13. ProducerShape'
  <2>1. cpc' \notin {"unbound", "repair"}
    BY <1>2, <1>4
  <2>2. ~fetchDone /\ ~fetchFailed
    BY <1>2, <1>3, <1>4 DEF ProducerShape
  <2> QED BY <1>2, <1>3, <1>4, <1>10, <2>1, <2>2 DEF ProducerShape
<1> QED BY <1>7, <1>11, <1>12, <1>13

(* A failed fetch publishes the error at the end of what was read.         *)
LEMMA StreamProducerFail ==
  ASSUME StreamInv, ProducerFail
  PROVE  DataOK' /\ RingHolds' /\ ProducerShape' /\ CallShape' /\ Delivered'
<1>1. Producer
  BY DEF Producer
<1>2. /\ UNCHANGED <<rs, driver, slot, cursor, bound, head, filled, fetchDone, rowsSeen,
                     rowsSeenExact, rowsPerFetch, done, prefetching, batch, out, phase, curSlot>>
      /\ ppc = "fail" /\ ppc' = "exit" /\ fetchFailed' = TRUE /\ cpc' \in {cpc, "take"}
  BY DEF ProducerFail, WakeCaller, resultVars, handleVars, countVars
<1>3. DataOK /\ RingHolds /\ ProducerShape
  BY DEF StreamInv
<1>4. prefetching /\ cpc \notin {"unbound", "repair"}
  BY <1>1, ProducerFrame
<1>5. Held' = Held
  BY <1>2 DEF Held
<1>6. Start(0)' = Start(0)
  BY <1>2, <1>5, StartStays
<1>7. CallShape' /\ Delivered'
  BY <1>1, <1>2, <1>6, ProducerUnseen
<1>8. RingHolds'
  BY <1>2, <1>3, <1>4, <1>5, RingStays
<1>9. DataOK'
  BY <1>2, <1>3 DEF DataOK
<1>10. ProducerShape'
  BY <1>2, <1>3, <1>4 DEF ProducerShape
<1> QED BY <1>7, <1>8, <1>9, <1>10

(* No step of the fetch thread disturbs the invariant.                     *)
LEMMA StreamProducer ==
  ASSUME StreamInv, Producer
  PROVE  DataOK' /\ RingHolds' /\ ProducerShape' /\ CallShape' /\ Delivered'
BY StreamProducerIdle, StreamProducerClaim, StreamProducerFetch, StreamProducerPublish,
   StreamProducerFail DEF Producer

-----------------------------------------------------------------------------
(* What a step of the caller is to the consumer.                           *)

Room == batch = <<>> \/ Len(batch) + rowsPerFetch <= BatchSize

(* The largest batch holds a rowset, and whatever batch_size asks for.     *)
LEMMA LargestFacts ==
  /\ Stream!Largest \in Nat /\ RowsPerFetch <= Stream!Largest /\ BatchSize <= Stream!Largest
BY ReaderAssumption DEF Stream!Largest

(* Where the delivered rows end, and when the batch is empty.              *)
LEMMA DeliveredFacts ==
  ASSUME NEW c \in Nat, DeliveredTo(c)
  PROVE  /\ Stream!Pos \in Nat /\ Stream!Pos <= c /\ Stream!Pos + 1 \in Nat
         /\ out \in Seq(Values) /\ batch \in Seq(Values) /\ Len(batch) \in Nat
         /\ batch = <<>> <=> Stream!RealsIn(Stream!Pos + 1, c) = {}
<1>1. Stream!Pos \in Nat /\ Stream!Pos <= c /\ Stream!Pos + 1 \in Nat
  BY DEF DeliveredTo
<1>2. out = RowsIn(1, Stream!Pos) /\ batch = RowsIn(Stream!Pos + 1, c)
  BY DEF DeliveredTo
<1>3. /\ RowsIn(1, Stream!Pos) \in Seq(Values) /\ RowsIn(Stream!Pos + 1, c) \in Seq(Values)
      /\ RowsIn(Stream!Pos + 1, c) = <<>> <=> Stream!RealsIn(Stream!Pos + 1, c) = {}
  BY <1>1, RowsInFacts
<1>4. Len(batch) \in Nat
  BY <1>2, <1>3
<1> QED BY <1>1, <1>2, <1>3, <1>4

(* An error that lies in the rowset the caller is at, or right after the   *)
(* last of them, is the result set's own.                                  *)
LEMMA FailStep ==
  ASSUME DataOK, phase = "open", Room, NEW c \in Nat, DeliveredTo(c),
         NEW b \in Stream!Failures, b \in Nat, c < b, b <= c + rowsPerFetch,
         UNCHANGED <<rs, out>>, phase' = "error"
  PROVE  Stream!Next
<1> DEFINE lo == Stream!Pos + 1
           e == b - 1
<1>1. lo \in Nat /\ lo <= c + 1 /\ e \in Nat /\ c <= e /\ Len(batch) \in Nat
  BY DeliveredFacts
<1>2. batch = RowsIn(lo, c)
  BY DEF DeliveredTo
<1>3. e - c < rowsPerFetch
  BY ResultFacts
<1> HIDE DEF lo, e
<1>4. Len(RowsIn(lo, e)) = Len(batch) + Len(RowsIn(c + 1, e))
  <2>1. Len(RowsIn(lo, e)) = Len(RowsIn(lo, c)) + Len(RowsIn(c + 1, e))
    BY <1>1, RowsInJoin, Zenon
  <2> QED BY <1>2, <2>1
<1>5. /\ Len(RowsIn(c + 1, e)) <= e - c /\ Len(RowsIn(c + 1, e)) \in Nat
      /\ Len(RowsIn(lo, e)) = Cardinality(Stream!RealsIn(lo, e))
  <2>1. c + 1 \in Nat /\ c + 1 <= e + 1 /\ e - (c + 1) + 1 = e - c
    BY <1>1
  <2>2. RowsIn(c + 1, e) \in Seq(Values) /\ Len(RowsIn(c + 1, e)) <= e - (c + 1) + 1
    BY <1>1, <2>1, RowsInFacts
  <2>3. Len(RowsIn(lo, e)) = Cardinality(Stream!RealsIn(lo, e))
    BY <1>1, RowsInFacts
  <2> QED BY <2>1, <2>2, <2>3
<1>6. Len(batch) + rowsPerFetch <= Stream!Largest
  <2>1. CASE batch = <<>>
    BY <2>1, LargestFacts, ResultFacts
  <2>2. CASE Len(batch) + rowsPerFetch <= BatchSize
    BY <1>1, <2>2, LargestFacts, ResultFacts, ReaderAssumption
  <2> QED BY <2>1, <2>2 DEF Room
<1>7. Cardinality(Stream!RealsIn(lo, e)) < Stream!Largest
  <2>1. rowsPerFetch \in Nat /\ Stream!Largest \in Nat
    BY LargestFacts, ResultFacts
  <2> QED BY <1>1, <1>3, <1>4, <1>5, <1>6, <2>1
<1>8. Stream!Cardinality(Stream!RealsIn(Stream!Pos + 1, b - 1)) < Stream!Largest
  BY <1>7, SameCount DEF lo, e
<1> QED BY <1>8 DEF Stream!Next, Stream!Fail

(* The end of the stream is announced at the end of the result set.        *)
LEMMA EndStep ==
  ASSUME DataOK, phase = "open", NEW c, c = Len(rs.rows), DeliveredTo(c), ~rs.fails, batch = <<>>,
         UNCHANGED <<rs, out>>, phase' = "eos"
  PROVE  Stream!Next
<1>1. c \in Nat /\ DOMAIN rs.rows = 1..c
  BY ResultFacts
<1>2. Stream!RealsIn(Stream!Pos + 1, Len(rs.rows)) = {}
  BY <1>1, DeliveredFacts
<1>3. Stream!Failures = {}
  BY <1>1 DEF Stream!Failures, DeliveredTo
<1> QED BY <1>2, <1>3 DEF Stream!Next, Stream!End

(* A batch that is not empty carries the next rows up to its last.         *)
LEMMA DeliverStep ==
  ASSUME DataOK, phase = "open", NEW c \in Nat, c <= Len(rs.rows), DeliveredTo(c), batch # <<>>,
         UNCHANGED <<rs, phase>>, out' = out \o batch
  PROVE  /\ Stream!Next
         /\ Stream!Pos' \in 0..c /\ Stream!Pos' \in Nat
         /\ out' = RowsIn(1, Stream!Pos')
         /\ RowsIn(Stream!Pos' + 1, c) = <<>>
<1> DEFINE p == Stream!Pos
           q == batch[Len(batch)].row
<1>1. /\ p \in Nat /\ p + 1 \in Nat /\ p <= c
      /\ out \in Seq(Values) /\ batch \in Seq(Values)
  BY DeliveredFacts
<1>2. batch = RowsIn(p + 1, c) /\ out = RowsIn(1, p) /\ Len(batch) <= Stream!Largest
  BY DEF DeliveredTo
<1> HIDE DEF p
<1>3. /\ q \in (p + 1)..c /\ Stream!Real(q)
      /\ Stream!RealsIn(q + 1, c) = {} /\ RowsIn(p + 1, q) = RowsIn(p + 1, c)
  <2> DEFINE lo == p + 1
  <2>1. lo \in Nat /\ lo >= 1
    BY <1>1
  <2>2. Stream!RealsIn(lo, c) # {}
    BY DeliveredFacts DEF p
  <2>3. q = LastOf(lo, c)
    BY <1>2 DEF LastOf
  <2> HIDE DEF q, lo
  <2>4. /\ q \in lo..c /\ Stream!Real(q)
        /\ Stream!RealsIn(q + 1, c) = {} /\ RowsIn(lo, q) = RowsIn(lo, c)
    BY <2>1, <2>2, <2>3, RowsInLast
  <2> QED BY <2>4 DEF lo
<1>4. q \in Nat /\ p < q /\ q <= c /\ q \in DOMAIN rs.rows
  BY <1>1, <1>3, ResultFacts
<1>5. Stream!Pos' = q
  <2>1. /\ Len(out \o batch) = Len(out) + Len(batch) /\ out \o batch # <<>>
        /\ (out \o batch)[Len(out) + Len(batch)] = batch[Len(batch)]
    BY <1>1
  <2> QED BY <2>1 DEF Stream!Pos
<1>6. out' = RowsIn(1, q)
  <2>1. 1 \in Nat /\ 1 <= p + 1 /\ p <= q
    BY <1>1, <1>4
  <2>2. RowsIn(1, p) \o RowsIn(p + 1, q) = RowsIn(1, q)
    BY <1>1, <1>4, <2>1, RowsInJoin
  <2> QED BY <1>2, <1>3, <2>2
<1>7. RowsIn(q + 1, c) = <<>>
  <2>1. q + 1 \in Nat
    BY <1>4
  <2> HIDE DEF q
  <2> QED BY <1>3, <2>1, RowsInFacts
<1>8. Stream!Next
  <2>1. out' = out \o Stream!Rows(Stream!RealsIn(Stream!Pos + 1, q))
    BY <1>2, <1>3 DEF RowsIn, p
  <2>2. Stream!Cardinality(Stream!RealsIn(Stream!Pos + 1, q)) <= Stream!Largest
    <3>1. Len(RowsIn(p + 1, q)) = Cardinality(Stream!RealsIn(p + 1, q))
      BY <1>1, <1>4, RowsInFacts
    <3>2. Cardinality(Stream!RealsIn(p + 1, q)) <= Stream!Largest
      BY <1>2, <1>3, <3>1
    <3> QED BY <3>2, SameCount DEF p
  <2>3. Stream!Failures \cap 1..q = {}
    <3>1. \A i \in 1..q : rs.rows[i] # "bad" /\ i # Len(rs.rows) + 1
      BY <1>4, ResultFacts DEF DeliveredTo
    <3> QED BY <3>1 DEF Stream!Failures
  <2>4. q > Stream!Pos
    BY <1>1, <1>4 DEF p
  <2> HIDE DEF q
  <2>5. \E i \in {k \in DOMAIN rs.rows : k > Stream!Pos /\ Stream!Real(k)} :
          /\ Stream!Failures \cap 1..i = {}
          /\ Stream!Cardinality(Stream!RealsIn(Stream!Pos + 1, i)) <= Stream!Largest
          /\ out' = out \o Stream!Rows(Stream!RealsIn(Stream!Pos + 1, i))
    BY <1>3, <1>4, <2>1, <2>2, <2>3, <2>4
  <2> QED BY <2>5 DEF Stream!Next, Stream!Deliver
<1> HIDE DEF q
<1> QED BY <1>4, <1>5, <1>6, <1>7, <1>8

(* A rowset without failures goes to the end of the batch.                 *)
LEMMA TakeRows ==
  ASSUME DataOK, Room, NEW c \in Nat, DeliveredTo(c), NEW d \in Nat, c <= d, d <= c + rowsPerFetch,
         \A i \in (c + 1)..d : rs.rows[i] # "bad",
         UNCHANGED <<rs, out>>, batch' = batch \o RowsIn(c + 1, d), Consumed' = d
  PROVE  DeliveredTo(Consumed)'
<1> DEFINE lo == Stream!Pos + 1
<1>1. lo \in Nat /\ lo <= c + 1 /\ Len(batch) \in Nat /\ Stream!Pos \in 0..d
  BY DeliveredFacts
<1>2. batch = RowsIn(lo, c) /\ out = RowsIn(1, Stream!Pos)
  BY DEF DeliveredTo
<1> HIDE DEF lo
<1>3. batch' = RowsIn(lo, d)
  <2>1. RowsIn(lo, c) \o RowsIn(c + 1, d) = RowsIn(lo, d)
    BY <1>1, RowsInJoin
  <2> QED BY <1>2, <2>1
<1>4. Len(batch') = Len(batch) + Len(RowsIn(c + 1, d))
  <2>1. Len(RowsIn(lo, d)) = Len(RowsIn(lo, c)) + Len(RowsIn(c + 1, d))
    BY <1>1, RowsInJoin, Zenon
  <2> QED BY <1>2, <1>3, <2>1
<1>5. Len(RowsIn(c + 1, d)) \in Nat /\ Len(RowsIn(c + 1, d)) <= rowsPerFetch
  <2>1. c + 1 \in Nat /\ c + 1 <= d + 1 /\ d - (c + 1) + 1 <= rowsPerFetch /\ rowsPerFetch \in Nat
    BY ResultFacts
  <2>2. RowsIn(c + 1, d) \in Seq(Values) /\ Len(RowsIn(c + 1, d)) <= d - (c + 1) + 1
    BY <2>1, RowsInFacts
  <2> QED BY <2>1, <2>2
<1>6. Len(batch) + rowsPerFetch <= Stream!Largest
  <2>1. CASE batch = <<>>
    BY <2>1, LargestFacts, ResultFacts
  <2>2. CASE Len(batch) + rowsPerFetch <= BatchSize
    BY <1>1, <2>2, LargestFacts, ResultFacts, ReaderAssumption
  <2> QED BY <2>1, <2>2 DEF Room
<1>7. Len(batch') <= Stream!Largest
  <2>1. rowsPerFetch \in Nat /\ Stream!Largest \in Nat
    BY LargestFacts, ResultFacts
  <2> QED BY <1>1, <1>4, <1>5, <1>6, <2>1
<1>8. \A i \in 1..d : rs.rows[i] # "bad"
  <2>1. \A i \in 1..c : rs.rows[i] # "bad"
    BY DEF DeliveredTo
  <2> QED BY <2>1
<1>9. Stream!Pos' = Stream!Pos
  BY DEF Stream!Pos
<1>10. batch' = RowsIn(Stream!Pos + 1, d)
  BY <1>3 DEF lo
<1>11. /\ out' = RowsIn(1, Stream!Pos)' /\ batch' = RowsIn(Stream!Pos + 1, Consumed)'
       /\ Stream!Largest' = Stream!Largest
  BY <1>2, <1>9, <1>10 DEF RowsIn, Stream!Rows, Stream!RealsIn, Stream!Real, Stream!Largest
<1> QED BY <1>1, <1>7, <1>8, <1>9, <1>11 DEF DeliveredTo

-----------------------------------------------------------------------------
(* The caller's steps that move it through the code and touch nothing else.*)

(* A step that only moves the caller on leaves the ring, the cursor and    *)
(* the rows it has taken as they were.                                     *)
LEMMA CallerQuiet ==
  ASSUME StreamInv, cpc # "repair", cpc' \notin {"unbound", "repair"},
         UNCHANGED <<rs, driver, cursor, bound, slot, head, filled, fetchDone, fetchFailed, rowsSeen,
                     rowsSeenExact, rowsPerFetch, prefetching, done>>,
         ppc' = ppc \/ (ppc = "wait" /\ ppc' = "lock")
  PROVE  /\ DataOK' /\ RingHolds' /\ ProducerShape'
         /\ Consumed' = Consumed /\ \A j : Start(j)' = Start(j)
<1>1. DataOK /\ RingHolds /\ ProducerShape
  BY DEF StreamInv
<1>2. Held' = Held
  BY DEF Held
<1>3. \A j : Start(j)' = Start(j)
  BY <1>2, StartStays
<1>4. RingHolds'
  BY <1>1, <1>2, RingStays
<1>5. DataOK'
  BY <1>1 DEF DataOK
<1>6. ProducerShape'
  BY <1>1 DEF ProducerShape
<1>7. Consumed' = Consumed
  BY <1>3 DEF Consumed
<1> QED BY <1>3, <1>4, <1>5, <1>6, <1>7

(* Such a step leaves what is delivered as it was.                         *)
LEMMA CallerQuietRows ==
  ASSUME StreamInv, cpc # "repair", cpc' # "repair", Consumed' = Consumed,
         UNCHANGED <<rs, cursor, bound, rowsSeen, rowsSeenExact, prefetching, done, batch, out, phase>>,
         curSlot' = curSlot \/ prefetching, Leaving' \/ ~Leaving
  PROVE  Delivered'
<1>1. Delivered
  BY DEF StreamInv
<1>2. phase = "open" /\ ~Leaving' =>
        /\ done => ~prefetching'
        /\ ~prefetching' /\ cpc' # "repair" /\ ~done => rowsSeen' = cursor' /\ bound' = curSlot'
  BY <1>1 DEF Delivered
<1> QED BY <1>1, <1>2, DeliveredStays

(* Starting a call, going round the loop, waiting, releasing, closing and  *)
(* raising the stop flag are such steps.                                   *)
LEMMA StreamMove ==
  ASSUME StreamInv,
         GetNext \/ Loop \/ CallerWait \/ Release \/ CloseCursor \/ JoinStop
  PROVE  /\ DataOK' /\ RingHolds' /\ ProducerShape' /\ CallShape' /\ Delivered'
         /\ UNCHANGED <<rs, out, phase>>
<1> USE DEF resultVars, handleVars, ringVars, countVars
<1>1. /\ UNCHANGED <<rs, driver, cursor, bound, slot, head, filled, fetchDone, fetchFailed, rowsSeen,
                     rowsSeenExact, rowsPerFetch, prefetching, done, batch, out, phase, curSlot>>
      /\ ppc' = ppc \/ (ppc = "wait" /\ ppc' = "lock")
      /\ cpc # "repair" /\ cpc' \notin {"unbound", "repair", "convert", "idle"}
  BY DEF GetNext, Loop, NextPc, CallerWait, Release, CloseCursor, JoinStop, WakeProducer
<1>2. /\ DataOK' /\ RingHolds' /\ ProducerShape'
      /\ Consumed' = Consumed /\ \A j : Start(j)' = Start(j)
  BY <1>1, CallerQuiet
<1>3. CallShape
  BY DEF StreamInv
<1>4. CallShape' /\ (Leaving' \/ ~Leaving)
  <2> USE DEF CallShape, Leaving, Joining
  <2>1. CASE GetNext
    BY <1>1, <1>3, <2>1 DEF GetNext
  <2>2. CASE Loop
    BY <1>1, <1>3, <2>2 DEF Loop, NextPc, WantsMore
  <2>3. CASE CallerWait
    BY <1>1, <1>3, <2>3 DEF CallerWait
  <2>4. CASE Release
    BY <1>1, <1>3, <2>4 DEF Release, StreamInv, ProducerShape
  <2>5. CASE CloseCursor
    BY <1>1, <1>3, <2>5 DEF CloseCursor
  <2>6. CASE JoinStop
    <3>1. cpc = "join" /\ cpc' = "joining" /\ after' = after
      BY <2>6 DEF JoinStop
    <3>2. Start(0)' = Start(0)
      BY <1>2
    <3> QED BY <1>1, <1>3, <3>1, <3>2
  <2> QED BY <2>1, <2>2, <2>3, <2>4, <2>5, <2>6
<1>5. Delivered'
  BY <1>1, <1>2, <1>4, CallerQuietRows
<1> QED BY <1>1, <1>2, <1>4, <1>5

(* The caller is somewhere in the result set.                              *)
LEMMA ConsumedType ==
  ASSUME StreamInv
  PROVE  Consumed \in Nat /\ Consumed <= Len(rs.rows)
<1>1. ControlOK /\ RingShape /\ ClaimShape /\ DataOK /\ RingHolds
  BY DEF StreamInv, OwnershipInv
<1>2. cursor \in Nat /\ Len(rs.rows) \in Nat /\ cursor <= Len(rs.rows)
  BY <1>1, ResultFacts
<1>3. ASSUME prefetching \/ cpc = "repair", 0 < Held, ~slot[head].eos
      PROVE  slot[head].from \in Nat /\ slot[head].from <= cursor
  <2>1. At(0) = head /\ Held \in Nat /\ head \in SlotIds
    BY <1>1, RingSlots, HeldFacts DEF ControlOK
  <2>2. HeldShape(0)
    BY <1>1, <1>3, <2>1 DEF RingHolds
  <2>3. slot[head].from \in Nat /\ slot[head].fetched \in Nat
    BY <1>1, <2>1 DEF DataOK, SlotRecord
  <2> QED BY <1>2, <1>3, <2>1, <2>2, <2>3 DEF HeldShape
<1>4. At(0) = head
  BY <1>1, RingSlots
<1> QED BY <1>2, <1>3, <1>4 DEF Consumed, Start

(* A finished reader announces the end once everything is delivered.       *)
LEMMA StreamGetNextDone ==
  ASSUME StreamInv, GetNextDone
  PROVE  /\ DataOK' /\ RingHolds' /\ ProducerShape' /\ CallShape' /\ Delivered'
         /\ Stream!Next \/ UNCHANGED <<rs, out, phase>>
<1> USE DEF resultVars, handleVars, ringVars, countVars
<1>1. /\ UNCHANGED <<rs, driver, cursor, bound, slot, head, filled, fetchDone, fetchFailed, rowsSeen,
                     rowsSeenExact, rowsPerFetch, prefetching, done, batch, out, curSlot, cpc, after,
                     ppc>>
      /\ cpc = "idle" /\ done /\ phase' = IF phase = "open" THEN "eos" ELSE phase
  BY DEF GetNextDone
<1>2. /\ DataOK' /\ RingHolds' /\ ProducerShape' /\ \A j : Start(j)' = Start(j)
  BY <1>1, CallerQuiet
<1>3. CallShape /\ Delivered /\ DataOK
  BY DEF StreamInv
<1>4. phase' # "open"
  BY <1>1
<1>5. CallShape'
  BY <1>1, <1>3, <1>4 DEF CallShape, Leaving, Joining
<1>6. Delivered'
  BY <1>4 DEF Delivered
<1>7. CASE phase = "open"
  <2>1. batch = <<>> /\ ~Leaving
    BY <1>1, <1>3 DEF CallShape, Leaving, Joining
  <2>2. DeliveredTo(Consumed) /\ Consumed = Len(rs.rows) /\ ~rs.fails
    BY <1>1, <1>3, <1>7, <2>1 DEF Delivered
  <2>3. phase' = "eos"
    BY <1>1, <1>7
  <2> QED BY <1>1, <1>2, <1>3, <1>5, <1>6, <1>7, <2>1, <2>2, <2>3, EndStep
<1>8. CASE phase # "open"
  BY <1>1, <1>2, <1>5, <1>6, <1>8
<1> QED BY <1>7, <1>8

(* The ring is empty and the thread has said why.                          *)
LEMMA StreamDrained ==
  ASSUME StreamInv, Drained
  PROVE  /\ DataOK' /\ RingHolds' /\ ProducerShape' /\ CallShape' /\ Delivered'
         /\ UNCHANGED <<rs, out, phase>>
<1> USE DEF resultVars, handleVars, ringVars, countVars
<1>1. /\ UNCHANGED <<rs, driver, cursor, bound, slot, head, filled, fetchDone, fetchFailed, rowsSeen,
                     rowsSeenExact, rowsPerFetch, prefetching, done, batch, out, curSlot, phase, ppc>>
      /\ cpc = "take" /\ cpc' = "join" /\ filled = 0 /\ (fetchFailed \/ fetchDone)
      /\ after' = IF fetchFailed THEN "failed" ELSE "ended"
  BY DEF Drained
<1>2. /\ DataOK' /\ RingHolds' /\ ProducerShape'
      /\ Consumed' = Consumed /\ \A j : Start(j)' = Start(j)
  BY <1>1, CallerQuiet
<1>3. CallShape /\ ProducerShape /\ DataOK /\ prefetching
  BY <1>1 DEF StreamInv, OwnershipInv, ThreadShape
<1>4. ppc = "exit" /\ cursor = Len(rs.rows) /\ (rs.fails <=> after' = "failed")
  BY <1>1, <1>3 DEF ProducerShape
<1>5. Start(0)' = Len(rs.rows)
  <2>1. Start(0) = cursor
    BY <1>1, <1>4 DEF Start, Held
  <2> QED BY <1>2, <1>4, <2>1
<1>6. ~Leaving
  BY <1>1 DEF Leaving, Joining
<1>7. CallShape'
  BY <1>1, <1>3, <1>4, <1>5, <1>6 DEF CallShape, Leaving, Joining
<1>8. Delivered'
  BY <1>1, <1>2, <1>6, CallerQuietRows
<1> QED BY <1>1, <1>2, <1>7, <1>8

(* The slot at the head says what the caller does with it.                 *)
LEMMA StreamTakeSlot ==
  ASSUME StreamInv, TakeSlot
  PROVE  /\ DataOK' /\ RingHolds' /\ ProducerShape' /\ CallShape' /\ Delivered'
         /\ UNCHANGED <<rs, out, phase>>
<1> USE DEF resultVars, handleVars, ringVars, countVars
<1> DEFINE s == slot[head]
<1>1. /\ UNCHANGED <<rs, driver, cursor, bound, slot, head, filled, fetchDone, fetchFailed, rowsSeen,
                     rowsSeenExact, rowsPerFetch, prefetching, done, batch, out, phase, ppc>>
      /\ cpc = "take" /\ filled > 0
      /\ curSlot' = IF s.eos THEN curSlot ELSE head
      /\ cpc' = IF s.eos \/ s.needsRepair THEN "join" ELSE "convert"
      /\ after' = IF s.eos THEN "ended" ELSE IF s.needsRepair THEN "repair" ELSE after
  BY DEF TakeSlot
<1>2. /\ DataOK' /\ RingHolds' /\ ProducerShape'
      /\ Consumed' = Consumed /\ \A j : Start(j)' = Start(j)
  BY <1>1, CallerQuiet
<1>3. CallShape /\ ControlOK /\ RingShape /\ ClaimShape /\ RingHolds /\ prefetching
  BY <1>1 DEF StreamInv, OwnershipInv, ThreadShape
<1>4. At(0) = head /\ Held \in Nat /\ filled <= Held /\ filled \in Nat
      /\ Held = IF ppc = "publish" THEN filled + 1 ELSE filled
  BY <1>3, RingSlots, HeldFacts DEF ControlOK
<1>5. HeldShape(0)
  BY <1>1, <1>3, <1>4 DEF RingHolds
<1>6. s.eos \/ s.needsRepair => ppc = "exit"
  BY <1>1, <1>4, <1>5 DEF HeldShape
<1>7. s.eos => Start(0)' = Len(rs.rows) /\ ~rs.fails
  <2>1. s.eos => Start(0) = cursor
    BY <1>4 DEF Start
  <2> QED BY <1>2, <1>4, <1>5, <2>1 DEF HeldShape
<1>8. ~Leaving
  BY <1>1 DEF Leaving, Joining
<1> HIDE DEF s
<1>9. CallShape'
  <2>1. s' = s
    BY <1>1 DEF s
  <2>2. CASE s.eos
    BY <1>1, <1>3, <1>6, <1>7, <1>8, <2>2 DEF CallShape, Leaving, Joining
  <2>3. CASE ~s.eos /\ s.needsRepair
    BY <1>1, <1>3, <1>6, <1>8, <2>3 DEF CallShape, Leaving, Joining, s
  <2>4. CASE ~s.eos /\ ~s.needsRepair
    BY <1>1, <1>3, <1>8, <2>4 DEF CallShape, Leaving, Joining, s
  <2> QED BY <2>2, <2>3, <2>4
<1>10. Delivered'
  <2>1. cpc # "repair" /\ cpc' # "repair"
    BY <1>1
  <2> QED BY <1>1, <1>2, <1>3, <1>8, <2>1, CallerQuietRows
<1> QED BY <1>1, <1>2, <1>9, <1>10

(* The first get_next: nothing is read yet.                                *)
LEMMA StreamBind ==
  ASSUME StreamInv, Bind
  PROVE  /\ DataOK' /\ RingHolds' /\ ProducerShape' /\ CallShape' /\ Delivered'
         /\ Stream!Next \/ UNCHANGED <<rs, out, phase>>
<1> USE DEF resultVars, handleVars, ringVars, countVars
<1>1. /\ UNCHANGED <<rs, driver, cursor, bound, slot, head, filled, fetchDone, fetchFailed, rowsSeen,
                     rowsSeenExact, rowsPerFetch, curSlot, out, after>>
      /\ cpc = "unbound"
  BY DEF Bind
<1>2. /\ DataOK /\ ProducerShape /\ CallShape /\ Delivered
      /\ ~prefetching /\ ppc \in {"none", "exit"} /\ ControlOK
  BY <1>1 DEF StreamInv, OwnershipInv, ThreadShape
<1>3. /\ filled = 0 /\ ~fetchFailed /\ ~fetchDone /\ cursor = 0 /\ bound = curSlot /\ ~done
      /\ batch = <<>> /\ out = <<>> /\ phase = "open"
      /\ rowsSeen = cursor /\ rowsPerFetch = RowsPerFetch
  BY <1>1, <1>2 DEF ProducerShape
<1>4. ~Leaving /\ Consumed = cursor
  BY <1>1, <1>2 DEF Leaving, Joining, Consumed
<1>5. CASE ReturnError("refused") /\ UNCHANGED <<prefetching, ppc>>
  <2>1. done' = TRUE /\ batch' = <<>> /\ phase' = "refused" /\ cpc' = "idle"
    BY <1>5 DEF ReturnError
  <2>2. DataOK'
    BY <1>1, <1>2, <2>1 DEF DataOK
  <2>3. RingHolds' /\ ProducerShape'
    BY <1>2, <1>5, <2>1 DEF RingHolds, ProducerShape
  <2>4. CallShape'
    BY <1>2, <2>1 DEF CallShape, Leaving, Joining
  <2>5. Delivered'
    BY <2>1 DEF Delivered
  <2>6. Stream!Next
    BY <1>1, <1>3, <2>1 DEF Stream!Next, Stream!Refuse
  <2> QED BY <2>2, <2>3, <2>4, <2>5, <2>6
<1>6. CASE /\ ppc' = IF prefetching' THEN "lock" ELSE "none"
           /\ prefetching' \in BOOLEAN
           /\ cpc' = "loop"
           /\ UNCHANGED <<done, batch, phase>>
  <2>1. DataOK'
    BY <1>1, <1>2, <1>6 DEF DataOK
  <2>2. Held' = 0 /\ Consumed' = Consumed
    <3>1. Held' = 0
      BY <1>1, <1>3, <1>6 DEF Held
    <3>2. Start(0)' = cursor
      BY <1>1, <3>1 DEF Start
    <3> QED BY <1>1, <1>4, <1>6, <3>1, <3>2 DEF Consumed
  <2>3. RingHolds'
    BY <2>2 DEF RingHolds
  <2>4. ProducerShape'
    BY <1>1, <1>3, <1>6 DEF ProducerShape
  <2>5. CallShape'
    BY <1>2, <1>3, <1>6 DEF CallShape, Leaving, Joining
  <2>6. Delivered'
    BY <1>1, <1>2, <1>3, <1>4, <1>6, <2>2, DeliveredStays
  <2> QED BY <1>1, <1>6, <2>1, <2>3, <2>4, <2>5, <2>6
<1>7. \/ ReturnError("refused") /\ UNCHANGED <<prefetching, ppc>>
      \/ /\ ppc' = IF prefetching' THEN "lock" ELSE "none"
         /\ prefetching' \in BOOLEAN
         /\ cpc' = "loop"
         /\ UNCHANGED <<done, batch, phase>>
  BY DEF Bind
<1> QED BY <1>5, <1>6, <1>7

(* The batch is handed out, or there is nothing left to put in one.        *)
LEMMA StreamReturn ==
  ASSUME StreamInv, Return
  PROVE  /\ DataOK' /\ RingHolds' /\ ProducerShape' /\ CallShape' /\ Delivered'
         /\ Stream!Next \/ UNCHANGED <<rs, out, phase>>
<1> USE DEF resultVars, handleVars, ringVars, countVars
<1>1. /\ UNCHANGED <<rs, driver, cursor, bound, slot, head, filled, fetchDone, fetchFailed, rowsSeen,
                     rowsSeenExact, rowsPerFetch, prefetching, done, curSlot, after, ppc>>
      /\ cpc = "loop" /\ cpc' = "idle" /\ out' = out \o batch /\ batch' = <<>>
      /\ phase' = IF batch = <<>> THEN "eos" ELSE phase
      /\ ~WantsMore
  BY DEF Return
<1>2. /\ DataOK' /\ RingHolds' /\ ProducerShape'
      /\ Consumed' = Consumed /\ \A j : Start(j)' = Start(j)
  BY <1>1, CallerQuiet
<1>3. CallShape /\ Delivered /\ DataOK
  BY DEF StreamInv
<1>4. phase = "open" /\ ~Leaving /\ ~Leaving'
  BY <1>1, <1>3 DEF CallShape, Leaving, Joining
<1>5. /\ DeliveredTo(Consumed)
      /\ done => Consumed = Len(rs.rows) /\ ~rs.fails /\ ~prefetching
      /\ (\A i \in DOMAIN rs.rows : rs.rows[i] # "hole") => rowsSeenExact
      /\ ~prefetching /\ ~done => rowsSeen = cursor /\ bound = curSlot
  BY <1>1, <1>3, <1>4 DEF Delivered
<1>6. Consumed \in Nat /\ Consumed <= Len(rs.rows)
  BY ConsumedType
<1>7. CASE batch = <<>>
  <2>1. done /\ phase' = "eos"
    BY <1>1, <1>7 DEF WantsMore, StreamInv, DataOK
  <2>2. out' = out
    <3>1. out \in Seq(Values)
      BY <1>5, <1>6, DeliveredFacts
    <3> QED BY <1>1, <1>7, <3>1
  <2>3. Stream!Next
    BY <1>1, <1>3, <1>4, <1>5, <1>7, <2>1, <2>2, EndStep
  <2>4. CallShape'
    BY <1>1, <1>3, <2>1 DEF CallShape, Leaving, Joining
  <2>5. Delivered'
    BY <2>1 DEF Delivered
  <2> QED BY <1>2, <2>3, <2>4, <2>5
<1>8. CASE batch # <<>>
  <2>1. /\ Stream!Next
        /\ Stream!Pos' \in 0..Consumed /\ Stream!Pos' \in Nat
        /\ out' = RowsIn(1, Stream!Pos')
        /\ RowsIn(Stream!Pos' + 1, Consumed) = <<>>
    BY <1>1, <1>3, <1>4, <1>5, <1>6, <1>8, DeliverStep
  <2>2. DeliveredTo(Consumed)'
    <3>1. Len(batch') <= Stream!Largest
      BY <1>1, LargestFacts
    <3>2. \A i \in 1..Consumed : rs.rows[i] # "bad"
      BY <1>5 DEF DeliveredTo
    <3>3. out' = RowsIn(1, Stream!Pos)' /\ batch' = RowsIn(Stream!Pos + 1, Consumed)'
      BY <1>1, <1>2, <2>1 DEF RowsIn, Stream!Rows, Stream!RealsIn, Stream!Real
    <3>4. Stream!Largest' = Stream!Largest
      BY DEF Stream!Largest
    <3> QED BY <1>1, <1>2, <2>1, <3>1, <3>2, <3>3, <3>4 DEF DeliveredTo
  <2>3. Delivered'
    BY <1>1, <1>2, <1>5, <2>2 DEF Delivered
  <2>4. CallShape'
    BY <1>1, <1>3, <1>4, <1>8 DEF CallShape, Leaving, Joining
  <2> QED BY <1>2, <2>1, <2>3, <2>4
<1> QED BY <1>7, <1>8

-----------------------------------------------------------------------------
(* The caller's steps that take a rowset, or find that there is none.      *)

(* A call that fails drops its batch and finishes the reader.              *)
LEMMA FailedShape ==
  ASSUME done' = TRUE, batch' = <<>>, phase' = "error", cpc' = "idle"
  PROVE  CallShape' /\ Delivered'
<1>1. CallShape'
  BY DEF CallShape, Leaving, Joining
<1>2. Delivered'
  BY DEF Delivered
<1> QED BY <1>1, <1>2

(* Back at the head of the loop the caller owes the ring nothing.          *)
LEMMA LoopShape ==
  ASSUME cpc' = "loop", phase' = "open"
  PROVE  CallShape' /\ ~Leaving'
BY DEF CallShape, Leaving, Joining

(* A slot given back: what was second in the ring is first.                *)
LEMMA RingAdvances ==
  ASSUME ControlOK, RingShape, ClaimShape, filled > 0, UNCHANGED <<slot, cursor>>,
         head' = (head + 1) % NSlots, filled' = filled - 1,
         ppc' = "publish" <=> ppc = "publish"
  PROVE  /\ Held' = Held - 1
         /\ \A j \in 0..(NSlots - 1) : At(j)' = At(j + 1) /\ Start(j)' = Start(j + 1)
<1>1. head \in 0..(NSlots - 1) /\ filled \in Nat /\ NSlots \in Nat
  BY ReaderAssumption DEF ControlOK, SlotIds
<1>2. head' = IF head + 1 = NSlots THEN 0 ELSE head + 1
  BY <1>1, ReaderAssumption, ModSucc
<1>3. Held' = Held - 1
  BY <1>1 DEF Held
<1>4. Held \in Nat
  BY HeldFacts
<1> SUFFICES ASSUME NEW j \in 0..(NSlots - 1)
             PROVE  At(j)' = At(j + 1) /\ Start(j)' = Start(j + 1)
  BY <1>3
<1>5. At(j)' = At(j + 1)
  BY <1>1, <1>2 DEF At
<1>6. j < Held' <=> j + 1 < Held
  BY <1>3, <1>4
<1> QED BY <1>5, <1>6, Zenon DEF Start

(* The rowset at the head of the ring starts where the caller is.          *)
LEMMA HeadRowset ==
  ASSUME StreamInv, filled > 0, prefetching \/ cpc = "repair", ~slot[head].eos
  PROVE  /\ HeldShape(0) /\ At(0) = head /\ Held \in Nat /\ 0 < Held
         /\ slot[head] \in SlotRecord
         /\ slot[head].from \in Nat /\ slot[head].fetched \in 1..RowsPerFetch
         /\ slot[head].from + slot[head].fetched <= cursor
         /\ Consumed = slot[head].from /\ rowsPerFetch = RowsPerFetch
         /\ slot[head].firstRow = slot[head].from + 1
         /\ slot[head].needsRepair <=> Has(slot[head], "wide")
<1>1. ControlOK /\ RingShape /\ ClaimShape /\ DataOK /\ RingHolds /\ ProducerShape
  BY DEF StreamInv, OwnershipInv
<1>2. At(0) = head /\ Held \in Nat /\ filled \in Nat /\ filled <= Held /\ head \in SlotIds
  BY <1>1, RingSlots, HeldFacts DEF ControlOK
<1>3. HeldShape(0) /\ 0 < Held
  BY <1>1, <1>2 DEF RingHolds
<1>4. slot[head] \in SlotRecord
  BY <1>1, <1>2 DEF DataOK
<1>5. slot[head].from \in Nat
  BY <1>4 DEF SlotRecord
<1>6. Consumed = slot[head].from
  BY <1>2, <1>3 DEF Consumed, Start
<1>7. rowsPerFetch = RowsPerFetch
  BY <1>1 DEF ProducerShape
<1> QED BY <1>2, <1>3, <1>4, <1>5, <1>6, <1>7 DEF HeldShape, RowsetTruncated

(* A row of the rowset that cannot be converted is a failure of the result *)
(* set within the caller's reach.                                          *)
LEMMA BadRow ==
  ASSUME DataOK, phase = "open", Room, NEW c \in Nat, DeliveredTo(c),
         NEW s, s.from = c, s.fetched \in 1..rowsPerFetch, c + s.fetched <= Len(rs.rows),
         Has(s, "bad"), UNCHANGED <<rs, out>>, phase' = "error"
  PROVE  Stream!Next
<1>1. PICK b \in (c + 1)..(c + s.fetched) : rs.rows[b] = "bad"
  BY DEF Has, Entries
<1>2. rowsPerFetch \in Nat /\ Len(rs.rows) \in Nat /\ DOMAIN rs.rows = 1..Len(rs.rows)
  BY ResultFacts
<1>3. b \in Nat /\ c < b /\ b <= c + rowsPerFetch /\ b \in DOMAIN rs.rows
  BY <1>2
<1>4. b \in Stream!Failures
  BY <1>1, <1>3 DEF Stream!Failures
<1> QED BY <1>3, <1>4, FailStep

(* What the head of the ring holds is converted and given back.            *)
LEMMA StreamConvert ==
  ASSUME StreamInv, Convert
  PROVE  /\ DataOK' /\ RingHolds' /\ ProducerShape' /\ CallShape' /\ Delivered'
         /\ Stream!Next \/ UNCHANGED <<rs, out, phase>>
<1> DEFINE s == slot[head]
           d == s.from + s.fetched
<1>1. /\ ControlOK /\ RingShape /\ ThreadShape /\ ClaimShape /\ DataOK /\ Readable
      /\ RingHolds /\ ProducerShape /\ CallShape /\ Delivered
  BY DEF StreamInv, OwnershipInv
<1>2. /\ UNCHANGED <<rs, driver, cursor, bound, slot, tail, fetchDone, fetchFailed, rowsSeen,
                     rowsPerFetch, prefetching, curSlot, out, after>>
      /\ cpc = "convert" /\ curSlot = head /\ filled > 0 /\ prefetching
      /\ head' = (head + 1) % NSlots /\ filled' = filled - 1
      /\ ppc' = IF ppc = "wait" THEN "lock" ELSE ppc
      /\ rowsSeenExact' = (rowsSeenExact /\ RowsetIsBulk(s))
      /\ IF Has(s, "bad")
         THEN ReturnError("error")
         ELSE /\ batch' = batch \o ConvertRowset(s)
              /\ cpc' = "loop"
              /\ UNCHANGED <<done, phase>>
  BY <1>1 DEF Convert, WakeProducer, resultVars, handleVars, ClaimShape, ThreadShape
<1>3. ~Leaving /\ phase = "open" /\ ~done /\ Room /\ ~s.eos /\ ~s.needsRepair
  BY <1>1, <1>2 DEF CallShape, Leaving, Joining, Room
<1>4. /\ HeldShape(0) /\ At(0) = head /\ Held \in Nat /\ 0 < Held
      /\ s.from \in Nat /\ s.fetched \in 1..RowsPerFetch /\ d <= cursor
      /\ Consumed = s.from /\ rowsPerFetch = RowsPerFetch
      /\ ~Has(s, "wide")
  BY <1>2, <1>3, HeadRowset
<1>5. /\ Len(rs.rows) \in Nat /\ DOMAIN rs.rows = 1..Len(rs.rows) /\ cursor \in Nat
      /\ cursor <= Len(rs.rows) /\ RowsPerFetch \in Nat /\ RowsPerFetch >= 2
  BY <1>1, ResultFacts
<1>6. d \in Nat /\ d <= Len(rs.rows)
  BY <1>4, <1>5
<1>7. /\ Held' = Held - 1
      /\ \A j \in 0..(NSlots - 1) : At(j)' = At(j + 1) /\ Start(j)' = Start(j + 1)
  BY <1>1, <1>2, RingAdvances
<1>8. Consumed' = d
  <2>1. Consumed' = Start(0)'
    BY <1>2 DEF Consumed
  <2>2. Start(0)' = Start(0 + 1)
    BY <1>7, ReaderAssumption
  <2>3. Start(0 + 1) = d
    BY <1>3, <1>4 DEF HeldShape
  <2> QED BY <2>1, <2>2, <2>3
<1>9. cpc' \in {"loop", "idle"}
  BY <1>2 DEF ReturnError
<1>10. DataOK'
  <2>1. done' \in BOOLEAN
    BY <1>1, <1>2 DEF DataOK, ReturnError
  <2>2. rowsSeenExact' \in BOOLEAN
    BY <1>1, <1>2 DEF DataOK
  <2> QED BY <1>1, <1>2, <2>1, <2>2 DEF DataOK
<1>11. RingHolds'
  <2> SUFFICES ASSUME NEW j \in 0..(Held - 2)
               PROVE  HeldShape(j)'
    BY <1>4, <1>7 DEF RingHolds
  <2>1. HeldShape(j + 1)
    <3>1. j + 1 \in 0..(Held - 1)
      BY <1>4
    <3> QED BY <1>1, <1>2, <3>1 DEF RingHolds
  <2>2. At(j)' = At(j + 1) /\ Start(j + 1)' = Start(j + 1 + 1)
    <3>1. j \in 0..(NSlots - 1) /\ j + 1 \in 0..(NSlots - 1)
      BY <1>1, <1>4, HeldFacts, ReaderAssumption
    <3> QED BY <1>7, <3>1
  <2>3. j + 1 = Held - 1 => j = Held' - 1
    BY <1>4, <1>7
  <2>4. ppc \in {"publish", "exit"} => ppc' \in {"publish", "exit"}
    BY <1>2
  <2>5. slot'[At(j)'] = slot[At(j + 1)]
    BY <1>2, <2>2
  <2> QED BY <1>2, <2>1, <2>2, <2>3, <2>4, <2>5 DEF HeldShape, RowsetTruncated, Has, Entries
<1>12. ProducerShape'
  BY <1>1, <1>2, <1>9 DEF ProducerShape
<1>13. /\ DeliveredTo(Consumed)
       /\ (\A i \in DOMAIN rs.rows : rs.rows[i] # "hole") => rowsSeenExact
  BY <1>1, <1>3 DEF Delivered
<1> HIDE DEF s
<1>14. CASE Has(s, "bad")
  <2>1. done' = TRUE /\ batch' = <<>> /\ phase' = "error" /\ cpc' = "idle"
    BY <1>2, <1>14 DEF ReturnError
  <2>2. s.from + s.fetched <= Len(rs.rows)
    BY <1>6
  <2>3. Stream!Next
    BY <1>1, <1>2, <1>3, <1>4, <1>13, <1>14, <2>1, <2>2, BadRow
  <2> QED BY <1>10, <1>11, <1>12, <2>1, <2>3, FailedShape
<1>15. CASE ~Has(s, "bad")
  <2>1. batch' = batch \o ConvertRowset(s) /\ cpc' = "loop" /\ UNCHANGED <<done, phase>>
    BY <1>2, <1>15
  <2>2. CallShape' /\ ~Leaving'
    BY <1>3, <2>1, LoopShape
  <2>3. ConvertRowset(s) = RowsIn(s.from + 1, d)
    <3>1. \A i \in Entries(s) : GetDataWhole(i)
      BY <1>4 DEF Has, GetDataWhole
    <3>2. s.fetched \in Nat
      BY <1>4
    <3> QED BY <1>4, <3>1, <3>2, ConvertedRows
  <2>4. DeliveredTo(Consumed)'
    <3>1. \A i \in (s.from + 1)..d : rs.rows[i] # "bad"
      BY <1>15 DEF Has, Entries
    <3>2. s.from <= d /\ d <= s.from + rowsPerFetch
      BY <1>4, <1>5
    <3>3. batch' = batch \o RowsIn(s.from + 1, d)
      BY <2>1, <2>3
    <3>4. DeliveredTo(s.from)
      BY <1>4, <1>13
    <3> HIDE DEF d
    <3> QED BY <1>1, <1>2, <1>3, <1>4, <1>6, <1>8, <3>1, <3>2, <3>3, <3>4, TakeRows
  <2>5. (\A i \in DOMAIN rs.rows : rs.rows[i] # "hole") => rowsSeenExact'
    <3>1. Entries(s) \subseteq DOMAIN rs.rows /\ s.fetched > 0
      BY <1>4, <1>5, <1>6 DEF Entries
    <3> QED BY <1>2, <1>13, <1>15, <3>1 DEF RowsetIsBulk, Has
  <2>6. Delivered'
    BY <1>2, <1>3, <2>1, <2>4, <2>5 DEF Delivered
  <2> QED BY <1>2, <1>10, <1>11, <1>12, <2>1, <2>2, <2>6
<1> QED BY <1>14, <1>15

(* The thread has ended: the caller ends the stream, reports the thread's  *)
(* error, or takes the cursor back where its rowset begins.                *)
LEMMA StreamJoined ==
  ASSUME StreamInv, Joined
  PROVE  /\ DataOK' /\ RingHolds' /\ ProducerShape' /\ CallShape' /\ Delivered'
         /\ Stream!Next \/ UNCHANGED <<rs, out, phase>>
<1>1. /\ ControlOK /\ RingShape /\ ThreadShape /\ ClaimShape /\ DataOK /\ Readable
      /\ RingHolds /\ ProducerShape /\ CallShape /\ Delivered
  BY DEF StreamInv, OwnershipInv
<1>2. /\ UNCHANGED <<rs, driver, cursor, bound, slot, head, filled, fetchDone, fetchFailed, rowsSeen,
                     rowsSeenExact, rowsPerFetch, curSlot, out, ppc>>
      /\ cpc = "joining" /\ prefetching /\ prefetching' = FALSE /\ after' = "none"
  BY <1>1 DEF Joined, resultVars, handleVars, ringVars, countVars, ThreadShape
<1>3. Held' = Held
  BY <1>2 DEF Held
<1>4. \A j : Start(j)' = Start(j)
  BY <1>2, <1>3, StartStays
<1>5. Consumed = Start(0)
  BY <1>2 DEF Consumed
<1>6. Consumed \in Nat /\ Consumed <= Len(rs.rows)
  BY ConsumedType
<1>7. rowsSeen = cursor /\ rowsPerFetch = RowsPerFetch
  BY <1>1, <1>2 DEF ProducerShape
<1>8. CASE after \in {"failed", "ended"}
  <2>1. /\ ~Leaving /\ ~done /\ Room /\ phase = "open"
        /\ Start(0) = Len(rs.rows) /\ (rs.fails <=> after = "failed")
    BY <1>1, <1>2, <1>8 DEF CallShape, Leaving, Joining, Room
  <2>2. DeliveredTo(Len(rs.rows)) /\ Consumed = Len(rs.rows)
    BY <1>1, <1>5, <2>1 DEF Delivered
  <2>3. CASE after = "failed"
    <3>1. done' = TRUE /\ batch' = <<>> /\ phase' = "error" /\ cpc' = "idle"
      BY <2>3 DEF Joined, ReturnError
    <3>2. CallShape' /\ Delivered'
      BY <3>1, FailedShape
    <3>3. RingHolds' /\ ProducerShape'
      BY <1>2, <3>1 DEF RingHolds, ProducerShape
    <3>4. DataOK'
      BY <1>1, <1>2, <3>1 DEF DataOK
    <3>5. Stream!Next
      <4> DEFINE b == Len(rs.rows) + 1
                 c == Len(rs.rows)
      <4>1. b \in Nat /\ c \in Nat /\ c < b /\ b <= c + rowsPerFetch
        BY <1>1, ResultFacts
      <4>2. b \in Stream!Failures
        BY <2>1, <2>3 DEF Stream!Failures
      <4>3. DeliveredTo(c)
        BY <2>2
      <4> HIDE DEF b, c
      <4> QED BY <1>1, <1>2, <2>1, <3>1, <4>1, <4>2, <4>3, FailStep
    <3> QED BY <3>2, <3>3, <3>4, <3>5
  <2>4. CASE after = "ended"
    <3>1. done' = TRUE /\ cpc' = "loop" /\ UNCHANGED <<batch, phase>>
      BY <2>4 DEF Joined
    <3>2. CallShape' /\ ~Leaving'
      BY <2>1, <3>1, LoopShape
    <3>3. RingHolds' /\ ProducerShape'
      BY <1>2, <3>1 DEF RingHolds, ProducerShape
    <3>4. DataOK'
      BY <1>1, <1>2, <3>1 DEF DataOK
    <3>5. cursor = Len(rs.rows)
      <4>1. Start(0) = cursor \/ (Held > 0 /\ ~slot[head].eos)
        BY <1>1, RingSlots DEF Start
      <4>2. filled = Held /\ filled \in Nat
        BY <1>1, <1>2, HeldFacts DEF CallShape, Joining, ControlOK, Joined, ThreadEnded
      <4>3. CASE Held > 0 /\ ~slot[head].eos
        <5>1. /\ slot[head].from \in Nat /\ slot[head].fetched \in 1..RowsPerFetch
              /\ slot[head].from + slot[head].fetched <= cursor
              /\ Consumed = slot[head].from
          BY <1>2, <4>2, <4>3, HeadRowset
        <5> QED BY <1>1, <2>2, <5>1, ResultFacts
      <4> QED BY <2>1, <4>1, <4>3
    <3>6. Consumed' = Consumed
      BY <1>2, <2>2, <3>1, <3>5 DEF Consumed
    <3>7. DeliveredTo(Consumed)'
      BY <1>2, <2>2, <3>1, <3>6, DeliveredToStays
    <3>8. (\A i \in DOMAIN rs.rows : rs.rows[i] # "hole") => rowsSeenExact
      BY <1>1, <2>1 DEF Delivered
    <3>9. Delivered'
      BY <1>2, <2>1, <2>2, <2>4, <3>1, <3>6, <3>7, <3>8 DEF Delivered
    <3> QED BY <1>2, <3>1, <3>2, <3>3, <3>4, <3>9
  <2> QED BY <1>8, <2>3, <2>4
<1>9. CASE after = "repair"
  <2>1. cpc' = "repair" /\ UNCHANGED <<batch, phase, done>>
    BY <1>9 DEF Joined
  <2>2. ~Leaving /\ ~Leaving' /\ Joining("repair")
    BY <1>2, <1>9, <2>1 DEF Leaving, Joining
  <2>3. CallShape'
    BY <1>1, <1>2, <2>1, <2>2 DEF CallShape, Joining
  <2>4. RingHolds'
    BY <1>1, <1>2, <1>3, RingStays
  <2>5. DataOK'
    BY <1>1, <1>2, <2>1 DEF DataOK
  <2>6. ProducerShape'
    BY <1>2, <1>7, <2>1 DEF ProducerShape
  <2>7. Consumed' = Consumed
    BY <1>4, <1>5, <2>1 DEF Consumed
  <2>8. Delivered'
    BY <1>1, <1>2, <2>1, <2>2, <2>7, DeliveredStays
  <2> QED BY <1>2, <2>1, <2>3, <2>4, <2>5, <2>6, <2>8
<1>10. CASE after = "close"
  <2>1. cpc' = "close" /\ UNCHANGED <<batch, phase, done>>
    BY <1>10 DEF Joined
  <2>2. Leaving' /\ Leaving
    BY <1>2, <1>10, <2>1 DEF Leaving, Joining
  <2>3. CallShape'
    BY <1>1, <1>2, <2>1, <2>2 DEF CallShape, Joining
  <2>4. RingHolds' /\ ProducerShape'
    BY <1>2, <2>1 DEF RingHolds, ProducerShape
  <2>5. DataOK'
    BY <1>1, <1>2, <2>1 DEF DataOK
  <2>6. Delivered'
    BY <2>2 DEF Delivered
  <2> QED BY <1>2, <2>1, <2>3, <2>4, <2>5, <2>6
<1>11. after \in {"failed", "ended", "repair", "close"}
  BY DEF Joined
<1> QED BY <1>8, <1>9, <1>10, <1>11

(* A rowset with a value wider than its buffer can be re-read row by row,  *)
(* and row numbers count entries.                                          *)
LEMMA WideRowset ==
  ASSUME DataOK, Readable, NEW s, s.from \in Nat, s.fetched \in Nat,
         s.from + s.fetched <= Len(rs.rows), Has(s, "wide")
  PROVE  /\ \A i \in DOMAIN rs.rows : rs.rows[i] # "hole"
         /\ driver.refetch /\ (driver.getdata \/ driver.bound)
         /\ driver.getdata \/ (driver.bound /\ ~driver.fixed)
<1>1. PICK i \in (s.from + 1)..(s.from + s.fetched) : rs.rows[i] = "wide"
  BY DEF Has, Entries
<1>2. i \in DOMAIN rs.rows
  BY ResultFacts
<1> QED BY <1>1, <1>2 DEF Readable

(* The hand-back re-reads the last rowset of the ring and leaves the       *)
(* cursor where the thread had it.                                         *)
LEMMA StreamHandBack ==
  ASSUME StreamInv, HandBack
  PROVE  /\ DataOK' /\ RingHolds' /\ ProducerShape' /\ CallShape' /\ Delivered'
         /\ Stream!Next \/ UNCHANGED <<rs, out, phase>>
<1> DEFINE s == slot[head]
           d == s.from + s.fetched
<1>1. /\ ControlOK /\ RingShape /\ ThreadShape /\ ClaimShape /\ DataOK /\ Readable
      /\ RingHolds /\ ProducerShape /\ CallShape /\ Delivered
  BY DEF StreamInv, OwnershipInv
<1>2. cpc = "repair" /\ ~prefetching
  BY <1>1 DEF HandBack, ThreadShape
<1>3. /\ ~Leaving /\ phase = "open" /\ ~done /\ Room /\ curSlot = head /\ filled > 0
      /\ ppc = "exit" /\ ~s.eos /\ s.needsRepair
  BY <1>1, <1>2 DEF CallShape, Leaving, Joining, Room
<1>4. /\ UNCHANGED <<rs, driver, slot, head, filled, fetchDone, fetchFailed, rowsSeen,
                     rowsSeenExact, rowsPerFetch, prefetching, curSlot, out, after, ppc>>
      /\ bound' = curSlot
      /\ IF RepairFails(s)
         THEN ReturnError("error") /\ UNCHANGED cursor
         ELSE /\ batch' = batch \o RepairedRows(s)
              /\ cursor' = RepairedCursor(s)
              /\ cpc' = "loop"
              /\ UNCHANGED <<done, phase>>
  BY <1>3 DEF HandBack, resultVars, ringVars
<1>5. /\ HeldShape(0) /\ At(0) = head /\ Held \in Nat
      /\ s.from \in Nat /\ s.fetched \in 1..RowsPerFetch /\ d <= cursor
      /\ Consumed = s.from /\ rowsPerFetch = RowsPerFetch
      /\ Has(s, "wide") /\ s.firstRow = s.from + 1
  BY <1>2, <1>3, HeadRowset
<1>6. /\ rs \in ResultSet /\ Len(rs.rows) \in Nat /\ cursor \in Nat
      /\ cursor <= Len(rs.rows) /\ RowsPerFetch \in Nat /\ RowsPerFetch >= 2
  BY <1>1, ResultFacts
<1>7. d = cursor
  <2>1. Held = 1
    BY <1>3, <1>5 DEF HeldShape
  <2>2. Start(0 + 1) = cursor
    BY <2>1 DEF Start
  <2> QED BY <1>3, <1>5, <2>2 DEF HeldShape
<1>8. s.fetched \in Nat /\ s.fetched \in Nat \ {0} /\ s.from + s.fetched <= Len(rs.rows)
  BY <1>5, <1>6
<1>9. rowsSeen = cursor
  BY <1>1, <1>2 DEF ProducerShape
<1>10. /\ DeliveredTo(s.from)
       /\ (\A i \in DOMAIN rs.rows : rs.rows[i] # "hole") => rowsSeenExact
  BY <1>1, <1>3, <1>5 DEF Delivered
<1> HIDE DEF s
<1>11. /\ \A i \in DOMAIN rs.rows : rs.rows[i] # "hole"
       /\ driver.refetch /\ (driver.getdata \/ driver.bound)
  BY <1>1, <1>5, <1>8, WideRowset
<1>12. /\ RepairedRows(s) = RowsIn(s.from + 1, d) /\ RepairedCursor(s) = d
       /\ RepairFails(s) <=> Has(s, "bad")
  BY <1>5, <1>6, <1>8, <1>11, RepairedRowset
<1>13. bound' \in SlotIds
  BY <1>1, <1>4 DEF ControlOK
<1>14. CASE Has(s, "bad")
  <2>1. /\ done' = TRUE /\ batch' = <<>> /\ phase' = "error" /\ cpc' = "idle"
        /\ cursor' = cursor
    BY <1>4, <1>12, <1>14 DEF ReturnError
  <2>2. Stream!Next
    BY <1>1, <1>3, <1>4, <1>5, <1>8, <1>10, <1>14, <2>1, BadRow
  <2>3. DataOK'
    BY <1>1, <1>4, <1>13, <2>1 DEF DataOK
  <2>4. RingHolds' /\ ProducerShape'
    BY <1>2, <1>4, <2>1 DEF RingHolds, ProducerShape
  <2> QED BY <2>1, <2>2, <2>3, <2>4, FailedShape
<1>15. CASE ~Has(s, "bad")
  <2>1. /\ batch' = batch \o RowsIn(s.from + 1, d) /\ cursor' = d /\ cpc' = "loop"
        /\ UNCHANGED <<done, phase>>
    BY <1>4, <1>12, <1>15
  <2>2. CallShape' /\ ~Leaving'
    BY <1>3, <2>1, LoopShape
  <2>3. DataOK'
    BY <1>1, <1>4, <1>7, <1>13, <2>1 DEF DataOK
  <2>4. RingHolds' /\ ProducerShape'
    BY <1>2, <1>4, <2>1 DEF RingHolds, ProducerShape
  <2>5. Consumed' = d
    BY <1>2, <1>4, <2>1 DEF Consumed
  <2>6. DeliveredTo(Consumed)'
    <3>1. \A i \in (s.from + 1)..d : rs.rows[i] # "bad"
      BY <1>15 DEF Has, Entries
    <3>2. d \in Nat /\ s.from <= d /\ d <= s.from + rowsPerFetch
      BY <1>5, <1>6
    <3> HIDE DEF d
    <3> QED BY <1>1, <1>3, <1>4, <1>5, <1>10, <2>1, <2>5, <3>1, <3>2, TakeRows
  <2>7. Delivered'
    BY <1>2, <1>3, <1>4, <1>7, <1>9, <1>10, <2>1, <2>6 DEF Delivered
  <2> QED BY <1>4, <2>1, <2>2, <2>3, <2>4, <2>7
<1> QED BY <1>14, <1>15

(* The cursor is at its end: the loop is over, or the fetch has failed.    *)
LEMMA StreamSyncFetchEnds ==
  ASSUME StreamInv, SyncFetchEnds
  PROVE  /\ DataOK' /\ RingHolds' /\ ProducerShape' /\ CallShape' /\ Delivered'
         /\ Stream!Next \/ UNCHANGED <<rs, out, phase>>
<1>1. ThreadShape /\ DataOK /\ CallShape /\ Delivered
  BY DEF StreamInv, OwnershipInv
<1>2. /\ UNCHANGED <<rs, driver, cursor, bound, slot, head, filled, fetchDone, fetchFailed, rowsSeen,
                     rowsSeenExact, rowsPerFetch, prefetching, curSlot, out, after, ppc>>
      /\ cpc = "fetch" /\ Fetched = 0 /\ ~prefetching
      /\ IF FetchError
         THEN ReturnError("error")
         ELSE done' = TRUE /\ cpc' = "loop" /\ UNCHANGED <<batch, phase>>
  BY <1>1 DEF SyncFetchEnds, ThreadShape, resultVars, handleVars, ringVars, countVars
<1>3. ~Leaving /\ phase = "open" /\ ~done /\ Room
  BY <1>1, <1>2 DEF CallShape, Leaving, Joining, Room
<1>4. cursor = Len(rs.rows) /\ Consumed = cursor
  BY <1>1, <1>2, ResultFacts DEF Fetched, Consumed
<1>5. DeliveredTo(Consumed) /\ DeliveredTo(Len(rs.rows))
  BY <1>1, <1>3, <1>4 DEF Delivered
<1>6. RingHolds' /\ ProducerShape' /\ DataOK'
  BY <1>1, <1>2 DEF RingHolds, ProducerShape, DataOK, ReturnError
<1>7. CASE FetchError
  <2>1. done' = TRUE /\ batch' = <<>> /\ phase' = "error" /\ cpc' = "idle"
    BY <1>2, <1>7 DEF ReturnError
  <2>2. Stream!Next
    <3> DEFINE b == Len(rs.rows) + 1
               c == Len(rs.rows)
    <3>1. b \in Nat /\ c \in Nat /\ c < b /\ b <= c + rowsPerFetch
      BY <1>1, ResultFacts
    <3>2. b \in Stream!Failures
      BY <1>7 DEF Stream!Failures, FetchError
    <3>3. DeliveredTo(c)
      BY <1>5
    <3> HIDE DEF b, c
    <3> QED BY <1>1, <1>2, <1>3, <2>1, <3>1, <3>2, <3>3, FailStep
  <2> QED BY <1>6, <2>1, <2>2, FailedShape
<1>8. CASE ~FetchError
  <2>1. done' = TRUE /\ cpc' = "loop" /\ UNCHANGED <<batch, phase>> /\ ~rs.fails
    BY <1>2, <1>8 DEF FetchError
  <2>2. CallShape' /\ ~Leaving'
    BY <1>3, <2>1, LoopShape
  <2>3. Consumed' = Consumed
    BY <1>2, <1>4, <2>1 DEF Consumed
  <2>4. DeliveredTo(Consumed)'
    BY <1>2, <1>5, <2>1, <2>3, DeliveredToStays
  <2>5. (\A i \in DOMAIN rs.rows : rs.rows[i] # "hole") => rowsSeenExact
    BY <1>1, <1>3 DEF Delivered
  <2>6. Delivered'
    BY <1>2, <1>3, <1>4, <2>1, <2>3, <2>4, <2>5 DEF Delivered
  <2> QED BY <1>2, <1>6, <2>1, <2>2, <2>6
<1> QED BY <1>7, <1>8

(* Once the thread is gone the caller fetches, repairs and converts each   *)
(* rowset itself.                                                          *)
LEMMA StreamSyncFetch ==
  ASSUME StreamInv, SyncFetch
  PROVE  /\ DataOK' /\ RingHolds' /\ ProducerShape' /\ CallShape' /\ Delivered'
         /\ Stream!Next \/ UNCHANGED <<rs, out, phase>>
<1> DEFINE s == [slot'[curSlot] EXCEPT !.firstRow = rowsSeen + 1]
           d == cursor + Fetched
<1>1. ControlOK /\ ThreadShape /\ DataOK /\ Readable /\ CallShape /\ Delivered
  BY DEF StreamInv, OwnershipInv
<1>2. /\ UNCHANGED <<rs, driver, bound, head, filled, fetchDone, fetchFailed, prefetching, curSlot,
                     out, after, ppc>>
      /\ cpc = "fetch" /\ Fetched > 0 /\ ~prefetching
      /\ slot' = [slot EXCEPT ![bound].from = cursor, ![bound].fetched = Fetched]
      /\ rowsSeen' = rowsSeen + Fetched
      /\ rowsSeenExact' = (rowsSeenExact /\ RowsetIsBulk(s))
  BY <1>1 DEF SyncFetch, ThreadShape, resultVars, ringVars
<1>3. \/ /\ SyncMayRepair(s) /\ RepairFails(s)
      \/ /\ SyncMayRepair(s) /\ ~RepairFails(s)
         /\ batch' = batch \o RepairedRows(s) /\ cursor' = RepairedCursor(s)
         /\ rowsPerFetch' \in {1, rowsPerFetch}
         /\ cpc' = "loop" /\ UNCHANGED <<done, phase>>
      \/ /\ ~SyncMayRepair(s) /\ Has(s, "bad")
         /\ cursor' = d /\ rowsPerFetch' = rowsPerFetch /\ ReturnError("error")
      \/ /\ ~SyncMayRepair(s) /\ ~Has(s, "bad")
         /\ batch' = batch \o ConvertRowset(s) /\ cursor' = d
         /\ rowsPerFetch' = rowsPerFetch
         /\ cpc' = "loop" /\ UNCHANGED <<done, phase>>
  BY DEF SyncFetch
<1>4. ~Leaving /\ phase = "open" /\ ~done /\ Room
  BY <1>1, <1>2 DEF CallShape, Leaving, Joining, Room
<1>5. /\ rs \in ResultSet /\ Len(rs.rows) \in Nat /\ DOMAIN rs.rows = 1..Len(rs.rows)
      /\ cursor \in Nat /\ rowsPerFetch \in Nat \ {0}
      /\ Fetched \in 1..rowsPerFetch /\ d \in Nat /\ d <= Len(rs.rows)
  <2>1. /\ rs \in ResultSet /\ Len(rs.rows) \in Nat /\ DOMAIN rs.rows = 1..Len(rs.rows)
        /\ cursor \in Nat /\ cursor <= Len(rs.rows) /\ rowsPerFetch \in Nat \ {0}
    BY <1>1, ResultFacts
  <2>2. Fetched > 0
    BY <1>2
  <2>3. Fetched \in 1..rowsPerFetch /\ Fetched <= Len(rs.rows) - cursor
    BY <2>1, <2>2 DEF Fetched
  <2> QED BY <2>1, <2>3
<1>6. /\ DeliveredTo(cursor) /\ rowsSeen = cursor /\ bound = curSlot /\ Consumed = cursor
      /\ (\A i \in DOMAIN rs.rows : rs.rows[i] # "hole") => rowsSeenExact
  BY <1>1, <1>2, <1>4 DEF Delivered, Consumed
<1>7. slot' \in [SlotIds -> SlotRecord]
  <2>1. \A x \in SlotRecord : \A m, n \in Nat : [x EXCEPT !.from = m, !.fetched = n] \in SlotRecord
    BY DEF SlotRecord
  <2>2. slot \in [SlotIds -> SlotRecord] /\ bound \in SlotIds /\ cursor \in Nat /\ Fetched \in Nat
    BY <1>1, <1>5 DEF DataOK
  <2>3. slot' = [slot EXCEPT ![bound] = [slot[bound] EXCEPT !.from = cursor, !.fetched = Fetched]]
    BY <1>2, <2>2
  <2> QED BY <2>1, <2>2, <2>3
<1>8. s.from = cursor /\ s.fetched = Fetched /\ s.firstRow = cursor + 1
  BY <1>1, <1>2, <1>6 DEF DataOK, SlotRecord
<1> HIDE DEF s
<1>9. /\ s.from \in Nat /\ s.fetched \in Nat /\ s.fetched \in Nat \ {0} /\ s.fetched \in 1..rowsPerFetch
      /\ s.from + s.fetched = d /\ s.from + s.fetched <= Len(rs.rows)
      /\ cursor + s.fetched <= Len(rs.rows) /\ s.firstRow = s.from + 1
  BY <1>5, <1>8
<1>10. Entries(s) = (cursor + 1)..d /\ Entries(s) \subseteq DOMAIN rs.rows
  BY <1>5, <1>8 DEF Entries
<1>11. Has(s, "wide") => /\ \A i \in DOMAIN rs.rows : rs.rows[i] # "hole"
                         /\ driver.refetch /\ (driver.getdata \/ driver.bound)
                         /\ driver.getdata \/ (driver.bound /\ ~driver.fixed)
  BY <1>1, <1>9, WideRowset
<1>12. RingHolds' /\ ProducerShape'
  <2>1. cpc' \in {"loop", "idle"}
    BY DEF SyncFetch, ReturnError
  <2> QED BY <1>2, <2>1 DEF RingHolds, ProducerShape
<1>13. rowsPerFetch' \in {1, RowsPerFetch} /\ done' \in BOOLEAN
  BY <1>1 DEF SyncFetch, ReturnError, DataOK
<1>14. cursor' = d => DataOK'
  <2>1. rowsSeen' \in Nat /\ rowsSeenExact' \in BOOLEAN
    BY <1>1, <1>2, <1>5, <1>6 DEF DataOK
  <2> QED BY <1>1, <1>2, <1>5, <1>7, <1>13, <2>1 DEF DataOK
<1>15. SyncMayRepair(s) =>
         /\ ~RepairFails(s) /\ ~Has(s, "bad") /\ RepairedCursor(s) = d
         /\ RepairedRows(s) = RowsIn(cursor + 1, d)
  <2> SUFFICES ASSUME SyncMayRepair(s)
               PROVE  /\ ~RepairFails(s) /\ ~Has(s, "bad") /\ RepairedCursor(s) = d
                      /\ RepairedRows(s) = RowsIn(cursor + 1, d)
    OBVIOUS
  <2>1. Has(s, "wide") /\ ~Has(s, "bad")
    BY DEF SyncMayRepair, RowsetTruncated, RowsetIsBulk
  <2>2. /\ RepairedRows(s) = RowsIn(s.from + 1, s.from + s.fetched)
        /\ RepairedCursor(s) = s.from + s.fetched
        /\ RepairFails(s) <=> ~driver.refetch \/ Has(s, "bad")
    BY <1>5, <1>9, <1>11, <2>1, RepairedRowset
  <2> QED BY <1>8, <1>11, <2>1, <2>2
<1>16. ~SyncMayRepair(s) /\ ~Has(s, "bad") => ConvertRowset(s) = RowsIn(cursor + 1, d)
  <2> SUFFICES ASSUME ~SyncMayRepair(s), ~Has(s, "bad")
               PROVE  ConvertRowset(s) = RowsIn(cursor + 1, d)
    OBVIOUS
  <2>1. Has(s, "wide") /\ ~driver.getdata => rowsPerFetch = 1 /\ driver.bound
    <3> SUFFICES ASSUME Has(s, "wide"), ~driver.getdata
                 PROVE  rowsPerFetch = 1 /\ driver.bound
      OBVIOUS
    <3>1. ~Has(s, "hole") /\ rowsSeenExact
      BY <1>6, <1>10, <1>11 DEF Has
    <3>2. RowsetIsBulk(s)
      BY <1>9, <3>1 DEF RowsetIsBulk
    <3>3. ~(rowsPerFetch > 1)
      BY <1>11, <3>1, <3>2 DEF SyncMayRepair, RowsetTruncated
    <3> QED BY <1>5, <1>11, <3>3
  <2>2. \A i \in Entries(s) : GetDataWhole(i)
    BY <2>1 DEF GetDataWhole, Has
  <2>3. ConvertRowset(s) = RowsIn(s.from + 1, s.from + s.fetched)
    BY <1>9, <2>2, ConvertedRows
  <2> QED BY <1>8, <2>3
<1>17. CASE Has(s, "bad")
  <2>1. cursor' = d /\ ReturnError("error")
    BY <1>3, <1>15, <1>17
  <2>2. done' = TRUE /\ batch' = <<>> /\ phase' = "error" /\ cpc' = "idle"
    BY <2>1 DEF ReturnError
  <2>3. Stream!Next
    BY <1>1, <1>2, <1>4, <1>5, <1>6, <1>8, <1>9, <1>17, <2>2, BadRow
  <2> QED BY <1>12, <1>14, <2>1, <2>2, <2>3, FailedShape
<1>18. CASE ~Has(s, "bad")
  <2>1. /\ batch' = batch \o RowsIn(cursor + 1, d) /\ cursor' = d
        /\ cpc' = "loop" /\ UNCHANGED <<done, phase>>
    BY <1>3, <1>15, <1>16, <1>18
  <2>2. CallShape' /\ ~Leaving'
    BY <1>4, <2>1, LoopShape
  <2>3. Consumed' = d
    BY <1>2, <2>1 DEF Consumed
  <2>4. DeliveredTo(Consumed)'
    <3>1. \A i \in (cursor + 1)..d : rs.rows[i] # "bad"
      BY <1>10, <1>18 DEF Has
    <3>2. cursor <= d /\ d <= cursor + rowsPerFetch
      BY <1>5
    <3> HIDE DEF d
    <3> QED BY <1>1, <1>2, <1>4, <1>5, <1>6, <2>1, <2>3, <3>1, <3>2, TakeRows
  <2>5. (\A i \in DOMAIN rs.rows : rs.rows[i] # "hole") => rowsSeenExact'
    <3>1. (\A i \in DOMAIN rs.rows : rs.rows[i] # "hole") => RowsetIsBulk(s)
      BY <1>9, <1>10, <1>18 DEF RowsetIsBulk, Has
    <3> QED BY <1>2, <1>6, <3>1
  <2>6. rowsSeen' = cursor' /\ bound' = curSlot'
    BY <1>2, <1>6, <2>1
  <2>7. Delivered'
    BY <1>2, <1>4, <2>1, <2>4, <2>5, <2>6 DEF Delivered
  <2> QED BY <1>2, <1>12, <1>14, <2>1, <2>2, <2>7
<1> QED BY <1>17, <1>18

-----------------------------------------------------------------------------
(* The reader implements RowStream.                                        *)

(* Before the first get_next nothing is read and nothing is delivered.     *)
LEMMA StreamInit == Init /\ Readable => StreamInv /\ Stream!Init
<1> SUFFICES ASSUME Init, Readable
             PROVE  StreamInv /\ Stream!Init
  OBVIOUS
<1> USE DEF Init
<1>1. OwnershipInv
  BY OwnershipInit
<1>2. DataOK
  <2>1. Len(rs.rows) \in Nat
    BY ReaderAssumption DEF ResultSet
  <2>2. 0 \in SlotIds /\ slot \in [SlotIds -> SlotRecord]
    BY ReaderAssumption DEF SlotIds, SlotRecord, EmptySlot
  <2>3. cursor \in 0..Len(rs.rows) /\ rowsSeen \in Nat
    BY <2>1
  <2>4. fetchDone \in BOOLEAN /\ fetchFailed \in BOOLEAN /\ rowsSeenExact \in BOOLEAN /\ done \in BOOLEAN
    OBVIOUS
  <2>5. bound \in SlotIds /\ rowsPerFetch \in {1, RowsPerFetch}
    BY <2>2
  <2> QED BY <2>2, <2>3, <2>4, <2>5 DEF DataOK
<1>3. Held = 0 /\ Consumed = 0
  BY DEF Held, Consumed
<1>4. RingHolds
  BY <1>3 DEF RingHolds
<1>5. ProducerShape
  BY DEF ProducerShape
<1>6. CallShape
  BY DEF CallShape, Leaving, Joining
<1>7. DeliveredTo(0)
  <2>1. Stream!Pos = 0
    BY DEF Stream!Pos
  <2>2. Stream!RealsIn(1, 0) = {}
    BY DEF Stream!RealsIn
  <2>3. RowsIn(1, 0) = <<>>
    BY <2>2, RowsInFacts
  <2>4. Len(batch) <= Stream!Largest
    BY LargestFacts
  <2>5. RowsIn(Stream!Pos + 1, 0) = RowsIn(1, 0)
    BY <2>1
  <2> QED BY <2>1, <2>3, <2>4, <2>5 DEF DeliveredTo
<1>8. Delivered
  BY <1>3, <1>7 DEF Delivered
<1>9. Stream!Init
  BY DEF Stream!Init
<1> QED BY <1>1, <1>2, <1>4, <1>5, <1>6, <1>8, <1>9 DEF StreamInv

(* Each step of the caller keeps the invariant and is a step of RowStream, *)
(* or one the consumer does not see.                                       *)
LEMMA StreamCaller ==
  ASSUME StreamInv, Caller
  PROVE  /\ DataOK' /\ RingHolds' /\ ProducerShape' /\ CallShape' /\ Delivered'
         /\ Stream!Next \/ UNCHANGED <<rs, out, phase>>
<1>1. CASE GetNext \/ Loop \/ CallerWait \/ Release \/ CloseCursor \/ JoinStop
  BY <1>1, StreamMove
<1>2. CASE Bind
  BY <1>2, StreamBind
<1>3. CASE GetNextDone
  BY <1>3, StreamGetNextDone
<1>4. CASE Return
  BY <1>4, StreamReturn
<1>5. CASE Drained
  BY <1>5, StreamDrained
<1>6. CASE TakeSlot
  BY <1>6, StreamTakeSlot
<1>7. CASE Convert
  BY <1>7, StreamConvert
<1>8. CASE Joined
  BY <1>8, StreamJoined
<1>9. CASE HandBack
  BY <1>9, StreamHandBack
<1>10. CASE SyncFetchEnds
  BY <1>10, StreamSyncFetchEnds
<1>11. CASE SyncFetch
  BY <1>11, StreamSyncFetch
<1> QED BY <1>1, <1>2, <1>3, <1>4, <1>5, <1>6, <1>7, <1>8, <1>9, <1>10, <1>11
        DEF Caller, CallInProgress

(* A step that changes nothing keeps everything.                           *)
LEMMA StreamStutter ==
  ASSUME StreamInv, UNCHANGED vars
  PROVE  DataOK' /\ RingHolds' /\ ProducerShape' /\ CallShape' /\ Delivered'
<1>1. UNCHANGED <<rs, driver, cursor, bound, slot, head, filled, fetchDone, fetchFailed, rowsSeen,
                  rowsSeenExact, rowsPerFetch, prefetching, done, batch, out, phase, curSlot, cpc,
                  after, ppc>>
  BY DEF vars, resultVars, handleVars, ringVars, countVars, callVars
<1>2. DataOK /\ RingHolds /\ ProducerShape /\ CallShape /\ Delivered
  BY DEF StreamInv
<1>3. Held' = Held
  BY <1>1 DEF Held
<1>4. \A j : Start(j)' = Start(j)
  BY <1>1, <1>3, StartStays
<1>5. RingHolds'
  BY <1>1, <1>2, <1>3, RingStays
<1>6. DataOK'
  BY <1>1, <1>2 DEF DataOK
<1>7. ProducerShape'
  BY <1>1, <1>2 DEF ProducerShape
<1>8. (Leaving' <=> Leaving) /\ Start(0)' = Start(0)
  BY <1>1, <1>4 DEF Leaving, Joining
<1>9. CallShape'
  BY <1>1, <1>2, <1>8 DEF CallShape, Joining
<1>10. Consumed' = Consumed
  BY <1>1, <1>8 DEF Consumed
<1>11. phase = "open" /\ ~Leaving' =>
         /\ done => ~prefetching'
         /\ ~prefetching' /\ cpc' # "repair" /\ ~done => rowsSeen' = cursor' /\ bound' = curSlot'
  BY <1>1, <1>2, <1>8 DEF Delivered
<1>12. Delivered'
  BY <1>1, <1>2, <1>8, <1>10, <1>11, DeliveredStays
<1> QED BY <1>5, <1>6, <1>7, <1>9, <1>12

(* Every step of either thread keeps the invariant, and is to the consumer *)
(* a step of RowStream or no step at all.                                  *)
LEMMA StreamStep ==
  ASSUME StreamInv, [Next]_vars
  PROVE  StreamInv' /\ [Stream!Next]_(Stream!vars)
<1>1. OwnershipInv /\ Readable
  BY DEF StreamInv
<1>2. Readable'
  BY <1>1, Steady, ReadableStep
<1>3. CASE Producer
  <2>1. OwnershipInv'
    BY <1>1, <1>3, OwnershipProducer
  <2>2. DataOK' /\ RingHolds' /\ ProducerShape' /\ CallShape' /\ Delivered'
    BY <1>3, StreamProducer
  <2>3. UNCHANGED <<rs, out, phase>>
    BY <1>3, ProducerFrame
  <2> QED BY <1>2, <2>1, <2>2, <2>3 DEF StreamInv, Stream!vars
<1>4. CASE Caller
  <2>1. OwnershipInv'
    BY <1>1, <1>4, OwnershipCaller
  <2>2. /\ DataOK' /\ RingHolds' /\ ProducerShape' /\ CallShape' /\ Delivered'
        /\ Stream!Next \/ UNCHANGED <<rs, out, phase>>
    BY <1>4, StreamCaller
  <2> QED BY <1>2, <2>1, <2>2 DEF StreamInv, Stream!vars
<1>5. CASE UNCHANGED vars
  <2>1. OwnershipInv'
    BY <1>1, <1>5 DEF vars, ringVars, callVars, OwnershipInv, ControlOK, RingShape, ThreadShape,
                      ClaimShape
  <2>2. DataOK' /\ RingHolds' /\ ProducerShape' /\ CallShape' /\ Delivered'
    BY <1>5, StreamStutter
  <2>3. UNCHANGED <<rs, out, phase>>
    BY <1>5 DEF vars, resultVars, callVars
  <2> QED BY <1>2, <2>1, <2>2, <2>3 DEF StreamInv, Stream!vars
<1> QED BY <1>3, <1>4, <1>5 DEF Next, Released

(* What the consumer has, what the batch holds, what waits in the ring and *)
(* where the cursor is make up one run of the result set, in every state   *)
(* that PrefetchMain and ReaderGetNext reach.                              *)
THEOREM StreamInvariance == Spec /\ Readable => []StreamInv
<1>1. Init /\ Readable => StreamInv
  BY StreamInit
<1>2. StreamInv /\ [Next]_vars => StreamInv'
  BY StreamStep
<1> QED BY <1>1, <1>2, PTL DEF Spec

(* Prefetching changes nothing the consumer can see.  For every ring size, *)
(* rowset size, batch size, driver and result set, and every interleaving  *)
(* of the two threads, the reader implements RowStream, if the driver can  *)
(* re-read the values that outgrow their buffers.                          *)
THEOREM RowStreamImplemented == Spec /\ Readable => ImplementsRowStream
<1>1. Init /\ Readable => Stream!Init
  BY StreamInit
<1>2. StreamInv /\ [Next]_vars => [Stream!Next]_(Stream!vars)
  BY StreamStep
<1> QED BY <1>1, <1>2, StreamInvariance, PTL DEF Spec, ImplementsRowStream, Stream!Spec

-----------------------------------------------------------------------------
(* What the slots are large enough for: the widths ClassifyColumn binds.   *)

Col == INSTANCE Columns

(* A column as it is described, and the options that size its buffer.      *)
IsDescribed(c) == c.size \in Nat
IsSized(o) == o.w \in {2, 4} /\ o.max \in Nat /\ o.long \in Nat

(* How column x, described as c, is bound: with room for a terminator --   *)
(* if it is wide, as long as long_bind_bytes has it -- and for every value *)
(* the description admits, or else marked where the driver reads again.    *)
SoundlyBound(c, x, o) ==
  /\ x.c \in Col!Variable => x.elem \in Nat
  /\ x.bound /\ x.c = "CHAR" => x.elem >= 1
  /\ x.bound /\ x.c = "WCHAR" /\ o.long >= o.w => x.elem >= o.w
  /\ x.bound /\ ~x.clipped /\ x.c \in Col!Variable =>
       ~Col!NoDeclaredLength(c.sql) /\ Col!Longest(c, x, o.w, 1) <= Col!BoundValueCap(x, o.w)
  /\ x.bound /\ x.clipped => Col!TruncationRepairable(o.flags)

(* What a buffer of a kind with a length promises before its width is      *)
(* decided, given that it holds n bytes of a value.                        *)
LEMMA WidthApplied ==
  ASSUME NEW c, NEW o, IsDescribed(c), IsSized(o),
         NEW kind, NEW ctype, NEW elem \in Nat
  PROVE  LET x == Col!ApplyBindWidth(Col!Fetch(kind, ctype, elem), c, o)
         IN  /\ x.kind = kind /\ x.c = ctype /\ x.elem \in Nat
             /\ x.bound \in BOOLEAN /\ x.clipped \in BOOLEAN
             /\ x.bound /\ ~x.clipped => x.elem = elem /\ ~Col!NoDeclaredLength(c.sql)
             /\ x.bound /\ x.clipped => Col!TruncationRepairable(o.flags) /\ x.elem >= 1 /\ x.elem >= o.long
<1> DEFINE f == Col!Fetch(kind, ctype, elem)
           x == Col!ApplyBindWidth(f, c, o)
           guess == Col!NoDeclaredLength(c.sql)
           repairable == Col!TruncationRepairable(o.flags) /\ o.long > 0
           wide == IF guess THEN Col!Greatest(f.elem, o.long) ELSE f.elem
           Promised == /\ x.kind = kind /\ x.c = ctype /\ x.elem \in Nat
                       /\ x.bound \in BOOLEAN /\ x.clipped \in BOOLEAN
                       /\ x.bound /\ ~x.clipped => x.elem = elem /\ ~guess
                       /\ x.bound /\ x.clipped => repairable /\ x.elem >= 1 /\ x.elem >= o.long
<1>1. /\ f.kind = kind /\ f.c = ctype /\ f.elem = elem /\ f.bound = TRUE /\ f.clipped = FALSE
      /\ DOMAIN f = {"kind", "c", "elem", "bound", "clipped", "unit", "precision", "scale"}
  BY DEF Col!Fetch
<1>2. /\ guess \in BOOLEAN /\ repairable \in BOOLEAN
      /\ repairable => Col!TruncationRepairable(o.flags) /\ o.long > 0
  BY DEF Col!NoDeclaredLength, Col!TruncationRepairable
<1>3. wide \in Nat /\ (guess => wide >= o.long) /\ (~guess => wide = elem)
  BY <1>1 DEF Col!Greatest, IsSized
<1>4. x = IF IF c.size = 0 THEN ~guess \/ ~repairable ELSE guess /\ ~repairable
          THEN [f EXCEPT !.bound = FALSE]
          ELSE IF wide > o.max /\ ~repairable THEN [f EXCEPT !.bound = FALSE]
          ELSE [f EXCEPT !.elem = IF wide > o.max THEN o.long ELSE wide,
                         !.clipped = guess \/ wide > o.max]
  BY DEF Col!ApplyBindWidth
<1> HIDE DEF f, x, guess, wide, repairable
<1>5. x = [f EXCEPT !.bound = FALSE] => Promised
  BY <1>1
<1>6. ASSUME /\ x = [f EXCEPT !.elem = IF wide > o.max THEN o.long ELSE wide,
                              !.clipped = guess \/ wide > o.max]
             /\ (guess \/ wide > o.max) => repairable
      PROVE  Promised
  <2>1. /\ x.kind = kind /\ x.c = ctype /\ x.bound = TRUE
        /\ x.elem = IF wide > o.max THEN o.long ELSE wide
        /\ x.clipped = (guess \/ wide > o.max)
    BY <1>1, <1>6
  <2>2. x.elem \in Nat /\ (~x.clipped => x.elem = elem /\ ~guess)
    BY <1>2, <1>3, <2>1 DEF IsSized
  <2>3. x.clipped => repairable /\ x.elem >= 1 /\ x.elem >= o.long
    <3>1. x.clipped => repairable /\ (guess \/ wide > o.max)
      BY <1>6, <2>1, Zenon
    <3>2. ASSUME x.clipped
          PROVE  x.elem >= 1 /\ x.elem >= o.long
      <4>1. o.long > 0 /\ (guess => wide >= o.long) /\ (guess \/ wide > o.max)
        BY <1>2, <1>3, <3>1, <3>2, Zenon
      <4>2. o.long \in Nat /\ o.max \in Nat /\ wide \in Nat
        BY <1>3 DEF IsSized
      <4> QED BY <2>1, <4>1, <4>2
    <3> QED BY <3>1, <3>2
  <2>4. x.clipped \in BOOLEAN
    BY <1>2, <1>3, <2>1 DEF IsSized
  <2> QED BY <2>1, <2>2, <2>3, <2>4
<1>7. \/ x = [f EXCEPT !.bound = FALSE]
      \/ /\ x = [f EXCEPT !.elem = IF wide > o.max THEN o.long ELSE wide,
                          !.clipped = guess \/ wide > o.max]
         /\ (guess \/ wide > o.max) => repairable
  BY <1>2, <1>4
<1>8. Promised
  BY <1>5, <1>6, <1>7
<1> QED BY <1>8 DEF x, f, guess, repairable

(* The types that are written in full as text.                             *)
LEMMA FormatNames ==
  /\ DOMAIN Col!FormatLength = {"TIME", "SS_TIME2", "TIME_TZ", "TIMESTAMP", "TIMESTAMP_TZ",
                                "INTERVAL", "GUID"}
  /\ \A t \in DOMAIN Col!FormatLength : Col!FormatLength[t] \in Nat /\ Col!FormatLength[t] < 40
BY DEF Col!FormatLength

(* A column of text is bound with four bytes for a character.              *)
LEMMA NarrowTextFits ==
  ASSUME NEW c, NEW o, IsDescribed(c), IsSized(o), NEW ctype \in {"CHAR", "BINARY"},
         c.sql \notin {"DECIMAL", "NUMERIC", "GUID", "TIME", "SS_TIME2", "TIME_TZ", "TIMESTAMP",
                       "TIMESTAMP_TZ", "INTERVAL"}
  PROVE  SoundlyBound(c, Col!ApplyBindWidth(Col!Fetch("char", ctype, c.size * 4 + 1), c, o), o)
<1> DEFINE x == Col!ApplyBindWidth(Col!Fetch("char", ctype, c.size * 4 + 1), c, o)
<1>1. c.size * 4 + 1 \in Nat
  BY DEF IsDescribed
<1>2. /\ x.kind = "char" /\ x.c = ctype /\ x.elem \in Nat
      /\ x.bound /\ ~x.clipped => x.elem = c.size * 4 + 1 /\ ~Col!NoDeclaredLength(c.sql)
      /\ x.bound /\ x.clipped => Col!TruncationRepairable(o.flags) /\ x.elem >= 1 /\ x.elem >= o.long
  BY <1>1, WidthApplied
<1> HIDE DEF x
<1>3. Col!Longest(c, x, o.w, 1) = c.size * 4
  <2>1. /\ x.kind # "bool_str" /\ x.c # "WCHAR" /\ x.kind # "binary"
        /\ c.sql \notin {"DECIMAL", "NUMERIC"} /\ c.sql \notin DOMAIN Col!FormatLength
    BY <1>2, FormatNames
  <2> QED BY <2>1, Zenon DEF Col!Longest
<1>4. Col!BoundValueCap(x, o.w) = IF ctype = "CHAR" THEN x.elem - 1 ELSE x.elem
  BY <1>2 DEF Col!BoundValueCap, Col!Terminator
<1>5. SoundlyBound(c, x, o)
  <2>1. x.bound /\ ~x.clipped =>
          Col!Longest(c, x, o.w, 1) <= Col!BoundValueCap(x, o.w) /\ x.elem >= 1
    BY <1>2, <1>3, <1>4 DEF IsDescribed
  <2>2. x.bound => x.elem >= 1
    BY <1>2, <2>1
  <2> QED BY <1>2, <2>1, <2>2 DEF SoundlyBound
<1> QED BY <1>5 DEF x

(* A wide column is bound in whole units, one of them for the terminator.  *)
LEMMA WideTextFits ==
  ASSUME NEW c, NEW o, IsDescribed(c), IsSized(o),
         c.sql \notin {"DECIMAL", "NUMERIC", "GUID", "TIME", "SS_TIME2", "TIME_TZ", "TIMESTAMP",
                       "TIMESTAMP_TZ", "INTERVAL"}
  PROVE  SoundlyBound(c, Col!WideColumn(c, o), o)
<1> DEFINE x == Col!ApplyBindWidth(Col!Fetch("wchar", "WCHAR", (c.size + 1) * o.w), c, o)
           y == [x EXCEPT !.elem = @ - (@ % o.w)]
<1>1. (c.size + 1) * o.w \in Nat
  BY DEF IsDescribed, IsSized
<1>2. /\ x.kind = "wchar" /\ x.c = "WCHAR" /\ x.elem \in Nat
      /\ x.bound /\ ~x.clipped => x.elem = (c.size + 1) * o.w /\ ~Col!NoDeclaredLength(c.sql)
      /\ x.bound /\ x.clipped => Col!TruncationRepairable(o.flags) /\ x.elem >= 1 /\ x.elem >= o.long
  BY <1>1, WidthApplied
<1>3. DOMAIN x = {"kind", "c", "elem", "bound", "clipped", "unit", "precision", "scale"}
  BY DEF Col!ApplyBindWidth, Col!Fetch
<1> HIDE DEF x
<1>4. /\ y.kind = "wchar" /\ y.c = "WCHAR" /\ y.elem = x.elem - (x.elem % o.w)
      /\ y.bound = x.bound /\ y.clipped = x.clipped
  BY <1>2, <1>3
<1> HIDE DEF y
<1>5. /\ y.bound /\ ~y.clipped => y.elem = c.size * o.w + o.w
      /\ y.bound /\ y.clipped /\ o.long >= o.w => y.elem >= o.w
      /\ y.elem \in Nat
  <2>1. /\ y.bound /\ ~y.clipped => x.elem = (c.size + 1) * o.w
        /\ y.bound /\ y.clipped => x.elem >= o.long
    BY <1>2, <1>4
  <2>2. CASE o.w = 2
    <3>1. x.elem = (c.size + 1) * o.w => y.elem = c.size * o.w + o.w
      BY <1>4, <2>2 DEF IsDescribed
    <3>2. x.elem >= o.long /\ o.long >= o.w => y.elem >= o.w
      BY <1>2, <1>4, <2>2 DEF IsSized
    <3>3. y.elem \in Nat
      BY <1>2, <1>4, <2>2
    <3> QED BY <2>1, <3>1, <3>2, <3>3
  <2>3. CASE o.w = 4
    <3>1. x.elem = (c.size + 1) * o.w => y.elem = c.size * o.w + o.w
      BY <1>4, <2>3 DEF IsDescribed
    <3>2. x.elem >= o.long /\ o.long >= o.w => y.elem >= o.w
      BY <1>2, <1>4, <2>3 DEF IsSized
    <3>3. y.elem \in Nat
      BY <1>2, <1>4, <2>3
    <3> QED BY <2>1, <3>1, <3>2, <3>3
  <2> QED BY <2>2, <2>3 DEF IsSized
<1>6. Col!Longest(c, y, o.w, 1) = c.size * o.w /\ c.size * o.w \in Nat
  <2>1. /\ y.kind # "bool_str" /\ y.c = "WCHAR" /\ y.kind # "binary"
        /\ c.sql \notin {"DECIMAL", "NUMERIC"} /\ c.sql \notin DOMAIN Col!FormatLength
    BY <1>4, FormatNames
  <2>2. Col!Longest(c, y, o.w, 1) = c.size * 1 * o.w
    BY <2>1, Zenon DEF Col!Longest
  <2> QED BY <2>2 DEF IsDescribed, IsSized
<1>7. Col!BoundValueCap(y, o.w) = y.elem - o.w
  BY <1>4 DEF Col!BoundValueCap, Col!Terminator
<1>8. SoundlyBound(c, y, o)
  <2>1. y.bound /\ ~y.clipped =>
          Col!Longest(c, y, o.w, 1) <= Col!BoundValueCap(y, o.w) /\ y.elem >= o.w
    BY <1>5, <1>6, <1>7 DEF IsSized
  <2>2. y.bound /\ o.long >= o.w => y.elem >= o.w
    BY <1>5, <2>1 DEF IsSized
  <2> QED BY <1>2, <1>4, <1>5, <2>1, <2>2 DEF SoundlyBound
<1> QED BY <1>8, NarrowTextFits DEF Col!WideColumn, x, y

(* A value of a type with a text of bounded length fits, or the column is  *)
(* left to SQLGetData.                                                     *)
LEMMA TextBufferFits ==
  ASSUME NEW c, NEW o, IsDescribed(c), IsSized(o), NEW minimum \in Nat,
         NEW kind \in {"char", "time_ms", "time64", "timestamp_tz", "timestamp_text"},
         c.sql \in {"GUID", "TIME", "SS_TIME2", "TIME_TZ", "TIMESTAMP", "TIMESTAMP_TZ", "INTERVAL"},
         minimum >= 40
  PROVE  /\ SoundlyBound(c, Col!UseTextBuffer(kind, c, o, minimum), o)
         /\ \A unit : SoundlyBound(c, [Col!UseTextBuffer(kind, c, o, minimum)
                                              EXCEPT !.unit = unit], o)
<1> SUFFICES ASSUME NEW unit
             PROVE  /\ SoundlyBound(c, Col!UseTextBuffer(kind, c, o, minimum), o)
                    /\ SoundlyBound(c, [Col!UseTextBuffer(kind, c, o, minimum)
                                              EXCEPT !.unit = unit], o)
  OBVIOUS
<1> DEFINE x == Col!UseTextBuffer(kind, c, o, minimum)
           y == [x EXCEPT !.unit = unit]
<1>1. /\ x.kind = kind /\ x.c = "CHAR" /\ x.clipped = FALSE
      /\ x.elem = Col!Greatest(c.size + 8, minimum)
      /\ y.kind = kind /\ y.c = "CHAR" /\ y.clipped = FALSE /\ y.elem = x.elem
  BY DEF Col!UseTextBuffer, Col!Fetch
<1>0. /\ c.sql \in DOMAIN Col!FormatLength /\ Col!FormatLength[c.sql] \in Nat
      /\ c.sql \notin {"DECIMAL", "NUMERIC"} /\ Col!FormatLength[c.sql] < 40
  BY FormatNames
<1>2. x.elem \in Nat /\ x.elem >= c.size + 8 /\ x.elem > Col!FormatLength[c.sql]
  BY <1>0, <1>1 DEF Col!Greatest, IsDescribed
<1>3. Col!Longest(c, x, o.w, 1) = Col!Greatest(c.size, Col!FormatLength[c.sql])
  BY <1>0, <1>1 DEF Col!Longest
<1>4. Col!Longest(c, y, o.w, 1) = Col!Greatest(c.size, Col!FormatLength[c.sql])
  BY <1>0, <1>1 DEF Col!Longest
<1>5. ~Col!NoDeclaredLength(c.sql)
  BY DEF Col!NoDeclaredLength, Col!Blobs
<1>6. Col!BoundValueCap(x, o.w) = x.elem - 1 /\ Col!BoundValueCap(y, o.w) = x.elem - 1
  BY <1>1 DEF Col!BoundValueCap, Col!Terminator
<1> HIDE DEF x, y
<1>7. /\ Col!Longest(c, x, o.w, 1) <= Col!BoundValueCap(x, o.w)
      /\ Col!Longest(c, y, o.w, 1) <= Col!BoundValueCap(y, o.w)
  BY <1>0, <1>2, <1>3, <1>4, <1>6 DEF Col!Greatest, IsDescribed
<1>8. SoundlyBound(c, x, o) /\ SoundlyBound(c, y, o)
  BY <1>1, <1>2, <1>5, <1>7 DEF SoundlyBound, IsDescribed
<1> QED BY <1>8 DEF x, y

(* The names of the integer types, and of the binary ones.                 *)
LEMMA TypeNames ==
  /\ DOMAIN Col!Ints = {"TINYINT", "SMALLINT", "INTEGER", "BIGINT"}
  /\ \A t \in DOMAIN Col!Ints : {Col!Ints[t].s, Col!Ints[t].u} \subseteq
       {"int8", "uint8", "int16", "uint16", "int32", "uint32", "int64", "uint64"}
  /\ Col!Binaries = {"LONGVARBINARY", "BLOB_IBM", "BLOB_ALTIBASE", "BINARY", "VARBINARY",
                     "BYTE_ALTIBASE", "VARBYTE_ALTIBASE"}
  /\ Col!Wides = {"WCHAR", "WVARCHAR", "WLONGVARCHAR"}
  /\ \A t : Col!NoDeclaredLength(t) <=> t \in {"LONGVARCHAR", "WLONGVARCHAR", "LONGVARBINARY",
                                               "BLOB_IBM", "BLOB_ALTIBASE"}
BY DEF Col!Ints, Col!Binaries, Col!Wides, Col!Blobs, Col!NoDeclaredLength

(* ClassifyColumn, for every type a driver may describe.                   *)
LEMMA ColumnFits ==
  ASSUME NEW c, NEW o, IsDescribed(c), IsSized(o)
  PROVE  SoundlyBound(c, Col!ClassifyColumn(c, o), o)
<1> DEFINE x == Col!ClassifyColumn(c, o)
           Clocks == {"TIME", "SS_TIME2", "TIME_TZ", "TIMESTAMP_TZ", "TIMESTAMP", "GUID", "INTERVAL"}
           Exacts == {"DECIMAL", "NUMERIC"}
           Scalars == {"BIT", "REAL", "FLOAT", "DOUBLE", "DATE"}
<1>0. /\ Col!BoolText(c) \in BOOLEAN
      /\ Col!BoolText(c) => c.sql \in {"CHAR", "VARCHAR", "WCHAR", "WVARCHAR"}
  BY DEF Col!BoolText
<1>1. CASE Col!BoolText(c)
  <2>1. x = Col!Fetch("bool_str", "CHAR", 16)
    BY <1>0, <1>1, TypeNames DEF Col!ClassifyColumn
  <2>2. /\ x.kind = "bool_str" /\ x.c = "CHAR" /\ x.elem = 16 /\ x.clipped = FALSE
    BY <2>1 DEF Col!Fetch
  <2> HIDE DEF x
  <2>3. Col!Longest(c, x, o.w, 1) = 5
    <3>1. /\ x.c # "WCHAR" /\ x.kind # "binary"
          /\ c.sql \notin {"DECIMAL", "NUMERIC"} /\ c.sql \notin DOMAIN Col!FormatLength
      BY <1>0, <1>1, <2>2, FormatNames
    <3> QED BY <2>2, <3>1, Zenon DEF Col!Longest
  <2>4. ~Col!NoDeclaredLength(c.sql)
    BY <1>0, <1>1, TypeNames
  <2>5. Col!BoundValueCap(x, o.w) = 15
    BY <2>2 DEF Col!BoundValueCap, Col!Terminator
  <2>6. SoundlyBound(c, x, o)
    BY <2>2, <2>3, <2>4, <2>5, TypeNames DEF SoundlyBound, Col!Variable
  <2> QED BY <2>6 DEF x
<1>2. CASE ~Col!BoolText(c) /\ c.sql \in Scalars \cup DOMAIN Col!Ints
  <2>2. \E ctype \in {"BIT", "FLOAT", "DOUBLE", "DATE", "int8", "uint8", "int16", "uint16", "int32",
                     "uint32", "int64", "uint64"} :
          \E kind, elem : x = Col!Fetch(kind, ctype, elem)
    <3>1. CASE c.sql \in Scalars
      BY <1>0, <1>2, <3>1, TypeNames DEF Col!ClassifyColumn
    <3>2. CASE c.sql \in DOMAIN Col!Ints
      BY <1>0, <1>2, <3>2, TypeNames DEF Col!ClassifyColumn
    <3> QED BY <1>2, <3>1, <3>2
  <2>3. x.c \notin {"CHAR", "WCHAR", "BINARY"} /\ x.clipped = FALSE
    BY <2>2 DEF Col!Fetch
  <2>4. ~Col!NoDeclaredLength(c.sql)
    BY <1>2, TypeNames
  <2> HIDE DEF x
  <2>5. SoundlyBound(c, x, o)
    BY <2>3, <2>4, TypeNames DEF SoundlyBound, Col!Variable
  <2> QED BY <2>5 DEF x
<1>3. CASE c.sql \in Exacts
  <2>1. x = Col!DecimalColumn(c, o)
    BY <1>0, <1>3, TypeNames DEF Col!ClassifyColumn
  <2>2. /\ x.kind \in {"decimal", "char"} /\ x.c = "CHAR" /\ x.clipped = FALSE
        /\ x.elem = Col!Greatest(c.size + 4, 48)
    BY <2>1 DEF Col!DecimalColumn, Col!Fetch
  <2> HIDE DEF x
  <2>3. x.elem \in Nat /\ x.elem >= c.size + 4
    BY <2>2 DEF Col!Greatest, IsDescribed
  <2>4. Col!Longest(c, x, o.w, 1) = c.size + 3
    <3>1. /\ x.kind # "bool_str" /\ x.c # "WCHAR" /\ x.kind # "binary"
          /\ c.sql \in {"DECIMAL", "NUMERIC"} /\ c.sql \notin DOMAIN Col!FormatLength
      BY <1>3, <2>2, FormatNames
    <3> QED BY <3>1, Zenon DEF Col!Longest
  <2>5. ~Col!NoDeclaredLength(c.sql)
    BY <1>3, TypeNames
  <2>6. Col!BoundValueCap(x, o.w) = x.elem - 1
    BY <2>2 DEF Col!BoundValueCap, Col!Terminator
  <2>7. SoundlyBound(c, x, o)
    BY <2>2, <2>3, <2>4, <2>5, <2>6
       DEF SoundlyBound, Col!Variable, IsDescribed
  <2> QED BY <2>7 DEF x
<1>4. CASE c.sql \in Clocks
  <2>0. \A kind \in {"char", "time_ms", "time64", "timestamp_tz", "timestamp_text"}, m \in {40, 64, 80} :
          /\ SoundlyBound(c, Col!UseTextBuffer(kind, c, o, m), o)
          /\ \A unit : SoundlyBound(c, [Col!UseTextBuffer(kind, c, o, m) EXCEPT !.unit = unit], o)
    BY <1>4, TextBufferFits
  <2>1. CASE c.sql \in {"TIME", "SS_TIME2"} /\ c.digits <= 0
    <3>1. x = Col!Fetch("time", "TIME", 6)
      BY <1>0, <2>1, TypeNames DEF Col!ClassifyColumn, Col!TimeColumn
    <3>2. x.c = "TIME" /\ x.clipped = FALSE
      BY <3>1 DEF Col!Fetch
    <3> HIDE DEF x
    <3>3. SoundlyBound(c, x, o)
      BY <2>1, <3>2, TypeNames DEF SoundlyBound, Col!Variable
    <3> QED BY <3>3 DEF x
  <2>2. CASE c.sql \in {"TIME", "SS_TIME2"} /\ ~(c.digits <= 0)
    <3>1. x = Col!TimeColumn(c, o)
      BY <1>0, <2>2, TypeNames DEF Col!ClassifyColumn
    <3>2. CASE c.digits <= 3
      <4>1. x = [Col!UseTextBuffer("time_ms", c, o, 40) EXCEPT !.unit = "ms"]
        BY <2>2, <3>1, <3>2 DEF Col!TimeColumn
      <4>2. \A unit : SoundlyBound(c, [Col!UseTextBuffer("time_ms", c, o, 40) EXCEPT !.unit = unit], o)
        BY <2>0
      <4> QED BY <4>1, <4>2, Zenon
    <3>3. CASE ~(c.digits <= 3)
      <4>1. x = [Col!UseTextBuffer("time64", c, o, 40)
                   EXCEPT !.unit = IF c.digits > 6 THEN "ns" ELSE "us"]
        BY <2>2, <3>1, <3>3 DEF Col!TimeColumn
      <4>2. \A unit : SoundlyBound(c, [Col!UseTextBuffer("time64", c, o, 40) EXCEPT !.unit = unit], o)
        BY <2>0
      <4> QED BY <4>1, <4>2, Zenon
    <3> QED BY <3>2, <3>3
  <2>3. CASE c.sql \in {"TIME_TZ", "GUID", "INTERVAL"}
    <3>1. CASE c.sql = "TIME_TZ"
      <4>1. x = Col!UseTextBuffer("char", c, o, 40)
        BY <1>0, <3>1, TypeNames DEF Col!ClassifyColumn
      <4> QED BY <2>0, <4>1, Zenon
    <3>2. CASE c.sql \in {"GUID", "INTERVAL"}
      <4>1. x = Col!UseTextBuffer("char", c, o, 64)
        BY <1>0, <3>2, TypeNames DEF Col!ClassifyColumn
      <4> QED BY <2>0, <4>1, Zenon
    <3> QED BY <2>3, <3>1, <3>2
  <2>4. CASE c.sql = "TIMESTAMP_TZ" \/ (c.sql = "TIMESTAMP" /\ c.name = "zoned")
    <3>1. x = Col!ZonedTimestamp(c, o)
      BY <1>0, <2>4, TypeNames DEF Col!ClassifyColumn, Col!TimestampColumn
    <3> QED BY <2>0, <3>1, Zenon DEF Col!ZonedTimestamp
  <2>5. CASE c.sql = "TIMESTAMP" /\ c.name # "zoned"
    <3>1. x = Col!TimestampColumn(c, o)
      BY <1>0, <2>5, TypeNames DEF Col!ClassifyColumn
    <3>2. CASE "timestamp_as_text" \in o.flags
      <4>1. x = [Col!UseTextBuffer("timestamp_text", c, o, 80) EXCEPT !.unit = "us"]
        BY <2>5, <3>1, <3>2 DEF Col!TimestampColumn
      <4> QED BY <2>0, <4>1, Zenon
    <3>3. CASE "timestamp_as_text" \notin o.flags
      <4>1. x = [Col!Fetch("timestamp", "TIMESTAMP", 16) EXCEPT !.unit = Col!TimestampUnitForColumn(c, o)]
        BY <2>5, <3>1, <3>3 DEF Col!TimestampColumn
      <4>2. x.c = "TIMESTAMP" /\ x.clipped = FALSE
        BY <4>1 DEF Col!Fetch
      <4> HIDE DEF x
      <4>3. SoundlyBound(c, x, o)
        BY <2>5, <4>2, TypeNames DEF SoundlyBound, Col!Variable
      <4> QED BY <4>3 DEF x
    <3> QED BY <3>2, <3>3
  <2> QED BY <1>4, <2>1, <2>2, <2>3, <2>4, <2>5
<1>5. CASE c.sql \in Col!Binaries
  <2>1. x = Col!ApplyBindWidth(Col!Fetch("binary", "BINARY", c.size), c, o)
    BY <1>0, <1>5, TypeNames DEF Col!ClassifyColumn
  <2>2. /\ x.kind = "binary" /\ x.c = "BINARY" /\ x.elem \in Nat
        /\ x.bound /\ ~x.clipped => x.elem = c.size /\ ~Col!NoDeclaredLength(c.sql)
        /\ x.bound /\ x.clipped => Col!TruncationRepairable(o.flags) /\ x.elem >= 1 /\ x.elem >= o.long
    BY <2>1, WidthApplied DEF IsDescribed
  <2> HIDE DEF x
  <2>3. Col!Longest(c, x, o.w, 1) = c.size
    <3>1. /\ x.kind # "bool_str" /\ x.c # "WCHAR" /\ x.kind = "binary"
          /\ c.sql \notin {"DECIMAL", "NUMERIC"} /\ c.sql \notin DOMAIN Col!FormatLength
      BY <1>5, <2>2, FormatNames, TypeNames
    <3> QED BY <3>1, Zenon DEF Col!Longest
  <2>4. Col!BoundValueCap(x, o.w) = x.elem
    BY <2>2 DEF Col!BoundValueCap, Col!Terminator
  <2>5. SoundlyBound(c, x, o)
    BY <2>2, <2>3, <2>4 DEF SoundlyBound, Col!Variable, IsSized, IsDescribed
  <2> QED BY <2>5 DEF x
<1>6. CASE ~Col!BoolText(c) /\ c.sql \notin Scalars \cup DOMAIN Col!Ints \cup Exacts \cup Clocks \cup Col!Binaries
  <2>1. x = Col!WideColumn(c, o)
        \/ x = Col!ApplyBindWidth(Col!Fetch("char", "CHAR", c.size * 4 + 1), c, o)
    BY <1>0, <1>6, TypeNames DEF Col!ClassifyColumn, Col!TextColumn
  <2> QED BY <1>6, <2>1, WideTextFits, NarrowTextFits
<1> QED BY <1>1, <1>2, <1>3, <1>4, <1>5, <1>6

(* The fields of a column.                                                 *)
FetchFields == {"kind", "c", "elem", "bound", "clipped", "unit", "precision", "scale"}

(* Every column ClassifyColumn decides on has them.                        *)
LEMMA ColumnFields ==
  ASSUME NEW c, NEW o
  PROVE  DOMAIN Col!ClassifyColumn(c, o) = FetchFields
<1>1. \A kind, ctype, elem : DOMAIN Col!Fetch(kind, ctype, elem) = FetchFields
  BY DEF Col!Fetch, FetchFields
<1>2. \A x : DOMAIN Col!ApplyBindWidth(x, c, o) = DOMAIN x
  BY DEF Col!ApplyBindWidth
<1>3. \A kind, minimum : DOMAIN Col!UseTextBuffer(kind, c, o, minimum) = FetchFields
  BY <1>1 DEF Col!UseTextBuffer
<1>4. DOMAIN Col!ZonedTimestamp(c, o) = FetchFields
  BY <1>3 DEF Col!ZonedTimestamp
<1>5. DOMAIN Col!TimestampColumn(c, o) = FetchFields
  BY <1>1, <1>3, <1>4 DEF Col!TimestampColumn
<1>6. DOMAIN Col!TimeColumn(c, o) = FetchFields
  BY <1>1, <1>3 DEF Col!TimeColumn
<1>7. DOMAIN Col!DecimalColumn(c, o) = FetchFields
  BY <1>1 DEF Col!DecimalColumn
<1>8. DOMAIN Col!WideColumn(c, o) = FetchFields
  BY <1>1, <1>2 DEF Col!WideColumn
<1>9. DOMAIN Col!TextColumn(c, o) = FetchFields
  BY <1>1, <1>2, <1>8 DEF Col!TextColumn
<1> QED BY <1>1, <1>2, <1>3, <1>4, <1>5, <1>6, <1>7, <1>8, <1>9 DEF Col!ClassifyColumn

(* A column so bound delivers every value its description admits, with u   *)
(* units for a character where u is 1 or the driver reads again.           *)
LEMMA SoundlyBoundArrives ==
  ASSUME NEW c, NEW x, NEW o, IsDescribed(c), IsSized(o), SoundlyBound(c, x, o),
         x.c = "WCHAR" => o.long >= o.w,
         NEW rows \in Nat, NEW u, u = 1 \/ Col!Rereads(o.flags, rows), NEW len \in Nat
  PROVE  Col!ArrivesWhole(c, x, o, rows, u, len)
<1> SUFFICES ASSUME Col!NoDeclaredLength(c.sql) \/ len <= Col!Longest(c, x, o.w, u),
                    x.bound, x.c \in Col!Variable
             PROVE  Col!Delivered(x, len, o, rows) = len
  BY DEF Col!ArrivesWhole, Col!Delivered
<1> DEFINE cap == Col!BoundValueCap(x, o.w)
           term == Col!Terminator(x, o.w)
<1>1. /\ term \in Nat /\ x.elem \in Nat /\ x.elem >= term
      /\ cap = x.elem - term
  BY DEF SoundlyBound, IsSized, Col!Variable, Col!Terminator, Col!BoundValueCap
<1>2. Col!TruncationRepairable(o.flags) => Col!Rereads(o.flags, rows)
  BY DEF Col!TruncationRepairable, Col!Rereads
<1> HIDE DEF cap, term
<1>3. CASE Col!BoundValueTruncated(x, len, o.w)
  <2>1. len > cap
    BY <1>3 DEF Col!BoundValueTruncated, cap
  <2>2. Col!Rereads(o.flags, rows)
    <3>1. CASE x.clipped
      BY <1>2, <3>1 DEF SoundlyBound
    <3>2. CASE ~x.clipped
      <4>1. ~Col!NoDeclaredLength(c.sql) /\ Col!Longest(c, x, o.w, 1) <= cap
        BY <3>2 DEF SoundlyBound, cap
      <4>2. SUFFICES ASSUME u = 1 PROVE FALSE
        OBVIOUS
      <4>3. Col!Longest(c, x, o.w, 1) \in Nat
        BY DEF Col!Longest, Col!FormatLength, Col!Greatest, IsDescribed, IsSized
      <4> QED BY <1>1, <2>1, <4>1, <4>2, <4>3
    <3> QED BY <3>1, <3>2
  <2> QED BY <1>3, <2>2 DEF Col!Delivered
<1>4. CASE ~Col!BoundValueTruncated(x, len, o.w)
  <2>1. len <= cap
    BY <1>1, <1>4 DEF Col!BoundValueTruncated, cap, term
  <2>2. Col!Delivered(x, len, o, rows) = Col!Least(len, Col!Greatest(0, cap))
    BY <1>4 DEF Col!Delivered, cap
  <2> QED BY <1>1, <2>1, <2>2 DEF Col!Least, Col!Greatest
<1> QED BY <1>3, <1>4

(* A column keeps what it promised when it is unbound.                     *)
LEMMA UnboundArrives ==
  ASSUME NEW c, NEW x, NEW o, NEW rows, NEW u, NEW len, ~x.bound
  PROVE  Col!ArrivesWhole(c, x, o, rows, u, len)
BY DEF Col!ArrivesWhole, Col!Delivered

(* Column i of r, a result set described as cs: a value of any length that *)
(* the description admits arrives whole, where a character is one unit or  *)
(* the driver can read a value again, and long_bind_bytes has room for a   *)
(* unit of a wide column; after an unbound column none is bound.           *)
NothingClipped(cs, i, r, o) ==
  /\ ~r.cols[i].bound => \A k \in DOMAIN cs : k >= i => ~r.cols[k].bound
  /\ \A len \in Nat, u \in {1, Col!UnitsPerCharacter(o.w)} :
       /\ u = 1 \/ Col!Rereads(o.flags, r.rows)
       /\ r.cols[i].c = "WCHAR" => o.long >= o.w
       => Col!ArrivesWhole(cs[i], r.cols[i], o, r.rows, u, len)

(* No value is clipped in silence, for every described result set, every   *)
(* width of SQLWCHAR and every rowset: before ReaderUnbindFrom gives up    *)
(* the columns from any place on, after it, and when it is refused; a      *)
(* rowset that had one row where a column was unbound has one then too.    *)
THEOREM BuffersHoldOrReread ==
  ASSUME NEW o, IsSized(o), NEW cs, \A i \in DOMAIN cs : IsDescribed(cs[i]),
         NEW n \in Nat, DOMAIN cs = 1 .. n, NEW i \in 1 .. n,
         NEW rows \in Nat \ {0}, NEW from \in 1 .. n, NEW collapses \in BOOLEAN
  PROVE  LET first == [cols |-> Col!DescribeColumns(cs, o), rows |-> rows]
             kept  == Col!ReaderUnbindFrom(first.cols, from, rows, collapses)
         IN  /\ NothingClipped(cs, i, first, o)
             /\ NothingClipped(cs, i, kept, o)
             /\ (~first.cols[i].bound => rows = 1) => (~kept.cols[i].bound => kept.rows = 1)
<1> DEFINE cols == [k \in DOMAIN cs |-> Col!ClassifyColumn(cs[k], o)]
           xs == Col!DescribeColumns(cs, o)
           first == [cols |-> xs, rows |-> rows]
           kept == Col!ReaderUnbindFrom(xs, from, rows, collapses)
           Bound(k) == \A j \in 1 .. k : cols[j].bound
<1>1. /\ \A k \in 1 .. n : xs[k] = [cols[k] EXCEPT !.bound = Bound(k)]
      /\ DOMAIN xs = 1 .. n
  BY DEF Col!DescribeColumns
<1>2. SoundlyBound(cs[i], cols[i], o)
  BY ColumnFits
<1>3. \A k \in 1 .. n : DOMAIN cols[k] = FetchFields
  BY ColumnFields
<1>4. /\ \A k \in 1 .. n : Bound(k) \in BOOLEAN
      /\ Bound(i) => cols[i].bound
      /\ \A k \in i .. n : Bound(k) => Bound(i)
  <2>1. ASSUME NEW k \in i .. n
        PROVE  1 .. i \subseteq 1 .. k
    OBVIOUS
  <2>2. \A k \in i .. n : Bound(k) => Bound(i)
    BY <2>1, Zenon
  <2>3. i \in 1 .. i
    OBVIOUS
  <2>4. Bound(i) => cols[i].bound
    BY <2>3, Zenon
  <2>5. \A k \in 1 .. n : Bound(k) \in BOOLEAN
    BY Zenon
  <2> QED BY <2>2, <2>4, <2>5, Zenon
<1> HIDE DEF cols, Bound
<1>5. \A k \in 1 .. n : xs[k].bound = Bound(k) /\ DOMAIN xs[k] = FetchFields
  BY <1>1, <1>3 DEF FetchFields
<1>6. /\ xs[i].kind = cols[i].kind /\ xs[i].c = cols[i].c
      /\ xs[i].elem = cols[i].elem /\ xs[i].clipped = cols[i].clipped
  BY <1>1, <1>3 DEF FetchFields
<1> HIDE DEF xs
<1>7. xs[i].bound => cols[i].bound
  BY <1>4, <1>5
<1>8. /\ Col!Longest(cs[i], xs[i], o.w, 1) = Col!Longest(cs[i], cols[i], o.w, 1)
      /\ Col!BoundValueCap(xs[i], o.w) = Col!BoundValueCap(cols[i], o.w)
  BY <1>6 DEF Col!Longest, Col!BoundValueCap, Col!Terminator
<1>9. SoundlyBound(cs[i], xs[i], o)
  BY <1>2, <1>6, <1>7, <1>8 DEF SoundlyBound
<1>10. ~xs[i].bound => \A k \in DOMAIN cs : k >= i => ~xs[k].bound
  BY <1>4, <1>5
<1>11. IsDescribed(cs[i])
  OBVIOUS
<1>12. ASSUME NEW len \in Nat, NEW u, NEW m \in Nat,
              u = 1 \/ Col!Rereads(o.flags, m), xs[i].c = "WCHAR" => o.long >= o.w
       PROVE  Col!ArrivesWhole(cs[i], xs[i], o, m, u, len)
  BY <1>9, <1>11, <1>12, SoundlyBoundArrives
<1>13. first.cols = xs /\ first.rows = rows /\ rows \in Nat
  OBVIOUS
<1> HIDE DEF first
<1>14. NothingClipped(cs, i, first, o)
  BY <1>10, <1>12, <1>13 DEF NothingClipped
<1>15. CASE rows > 1 /\ ~collapses
  <2>1. kept = [cols |-> xs, rows |-> rows]
    BY <1>15, Zenon DEF Col!ReaderUnbindFrom
  <2> HIDE DEF kept
  <2>2. kept.cols = xs /\ kept.rows = rows
    BY <2>1
  <2>3. NothingClipped(cs, i, kept, o)
    BY <1>10, <1>12, <1>13, <2>2 DEF NothingClipped
  <2> QED BY <1>13, <1>14, <2>2, <2>3 DEF first, kept, xs
<1>16. CASE ~(rows > 1 /\ ~collapses)
  <2> DEFINE Given(k) == k >= from /\ xs[k].bound
             lost == [k \in DOMAIN xs |-> IF Given(k) THEN [xs[k] EXCEPT !.bound = FALSE, !.clipped = FALSE]
                                           ELSE xs[k]]
  <2>1. kept = [cols |-> lost, rows |-> Col!Least(rows, 1)]
    BY <1>16, Zenon DEF Col!ReaderUnbindFrom
  <2>2. Col!Least(rows, 1) = 1
    BY DEF Col!Least
  <2> HIDE DEF kept
  <2>3. kept.cols = lost /\ kept.rows = 1
    BY <2>1, <2>2
  <2>4. \A k \in 1 .. n : Given(k) => ~lost[k].bound
    BY <1>1, <1>5 DEF FetchFields
  <2>5. \A k \in 1 .. n : ~Given(k) => lost[k] = xs[k]
    BY <1>1, Zenon
  <2> HIDE DEF lost
  <2>6. lost[i].bound => lost[i] = xs[i]
    BY <2>4, <2>5, Zenon
  <2>7. ~lost[i].bound => \A k \in DOMAIN cs : k >= i => ~lost[k].bound
    <3>1. ASSUME NEW k \in 1 .. n, k >= i, ~lost[i].bound
          PROVE  ~lost[k].bound
      <4>1. CASE Given(k)
        BY <2>4, <4>1, Zenon
      <4>2. CASE ~Given(k)
        <5>1. ~xs[i].bound \/ i >= from
          BY <2>5, <3>1, Zenon
        <5>2. ~xs[k].bound
          BY <1>10, <3>1, <4>2, <5>1
        <5> QED BY <2>5, <4>2, <5>2, Zenon
      <4> QED BY <4>1, <4>2
    <3> QED BY <3>1, Zenon
  <2>8. ASSUME NEW len \in Nat, NEW u,
               u = 1 \/ Col!Rereads(o.flags, kept.rows), lost[i].c = "WCHAR" => o.long >= o.w
        PROVE  Col!ArrivesWhole(cs[i], lost[i], o, kept.rows, u, len)
    <3>1. CASE lost[i].bound
      <4>1. lost[i] = xs[i] /\ kept.rows \in Nat
        BY <2>3, <2>6, <3>1
      <4> QED BY <1>12, <2>8, <4>1
    <3>2. CASE ~lost[i].bound
      BY <3>2, UnboundArrives
    <3> QED BY <3>1, <3>2
  <2>9. NothingClipped(cs, i, kept, o)
    BY <2>3, <2>7, <2>8, Zenon DEF NothingClipped
  <2> QED BY <1>14, <2>3, <2>9 DEF first, kept, xs
<1> QED BY <1>15, <1>16
=============================================================================
