--------------------------- MODULE PartitionSplit ---------------------------
(***************************************************************************)
(* Partitioned reads, from odbc_partition.c.  ExecutePartitions looks for  *)
(* an ordered expression over the table's rows whose extent it can learn   *)
(* from the server, cuts the extent into slices, and hands out one query   *)
(* per slice; any connection may then read the slices, in any order, while *)
(* the table goes on changing.                                             *)
(*                                                                         *)
(* The expression is a signed integer of 2 * Half values, and boundaries   *)
(* are computed in unsigned arithmetic modulo that.  One row of the table  *)
(* is followed: its expression may have any value, in the extent the       *)
(* server reported or not, and it counts the slices that return it.        *)
(***************************************************************************)
EXTENDS Integers, FiniteSets

CONSTANTS Half,        \* half the values of int64_t: 2^63
          PartMax,     \* ODBC_PARTITION_MAX
          AutoMax,     \* ODBC_PARTITION_AUTO_MAX
          AutoBlocks,  \* ODBC_PARTITION_AUTO_BLOCKS
          AutoRows,    \* ODBC_PARTITION_AUTO_ROWS
          HashMax,     \* the largest yb_hash_code
          Tables,      \* what the server may say of the table
          Requests     \* adbc.odbc.partitions, 0 for automatic

Modulus == 2 * Half
Ints    == (0 - Half)..(Half - 1)

Table == [postgres : BOOLEAN,      \* SQL_DBMS_NAME
          blocks   : Ints,         \* heap blocks, 0 when there is no heap
          key      : BOOLEAN,      \* a primary key led by an integer column
          nullable : BOOLEAN,      \* ... that SQLColumns does not call NOT NULL
          index    : {"ordered", "hash", "hashMany", "unknown"},   \* pg_index
          rows     : Ints,         \* pg_class.reltuples
          extent   : {{}} \cup {{a, b} : a, b \in Ints}]           \* {MIN, MAX}

ASSUME PartitionAssumption ==
  /\ Half \in Nat \ {0} /\ PartMax \in Nat \ {0} /\ AutoMax \in 1..PartMax
  /\ (PartMax - 1) * (PartMax - 1) < Modulus
  /\ AutoBlocks \in Nat \ {0} /\ AutoRows \in Nat \ {0} /\ HashMax \in Ints \cap Nat
  /\ Tables \subseteq Table /\ Requests \subseteq Nat

VARIABLES table, requested,   \* the table, and how many partitions to aim for
          value,              \* {the row's expression}, {} for a NULL
          slices,             \* the descriptors: {boundary} on a side, {} for none
          unread, hits,       \* slices still to be read, and how many returned the row
          pc

vars == <<table, requested, value, slices, unread, hits, pc>>

-----------------------------------------------------------------------------
(* int64_t and uint64_t.                                                   *)

Unsigned(x) == x % Modulus
Signed(u)   == IF u < Half THEN u ELSE u - Modulus

Span(lo, hi) == Unsigned(Unsigned(hi) - Unsigned(lo))

(* Boundary k of n over lo..hi.                                            *)
SplitBoundary(lo, hi, n, k) ==
  LET span   == Span(lo, hi)
      offset == Unsigned(Unsigned((span \div n) * k) + Unsigned((span % n) * k) \div n)
  IN  Signed(Unsigned(Unsigned(lo) + offset))

-----------------------------------------------------------------------------
(* ChooseSplit: the heap, a hash-partitioned key or an ordered one.        *)

Smaller(a, b) == IF a < b THEN a ELSE b

Split(kind, lo, hi, auto) == [kind |-> kind, lo |-> lo, hi |-> hi, auto |-> auto]
NoSplit == Split("none", 0, 0, 0 - 1)

Estimate(t) == IF t.postgres /\ t.rows > 0 THEN t.rows \div AutoRows ELSE 0 - 1

KeyAuto(t, lo, hi) ==
  LET span   == Span(lo, hi)
      values == IF span = Modulus - 1 THEN span ELSE span + 1
  IN  IF Estimate(t) >= 0 THEN Estimate(t) ELSE Smaller(values \div AutoRows, AutoMax)

Lowest(S)  == CHOOSE x \in S : \A y \in S : x <= y
Highest(S) == CHOOSE x \in S : \A y \in S : x >= y

(* A slip: the catalog's NOT NULL is not asked for.                        *)
AnyKey(t) == t.key

(* PrimaryKeyLeadColumn and ColumnIsSplittableInteger, which reads the NOT *)
(* NULL from the catalog: a NULL would be in no slice.                     *)
Splittable(t) == t.key /\ ~t.nullable

ChooseSplit(t) ==
  IF t.postgres /\ t.blocks > 0 THEN Split("ctid", 0, t.blocks, t.blocks \div AutoBlocks)
  ELSE IF ~Splittable(t) \/ (t.postgres /\ t.index \in {"unknown", "hashMany"}) THEN NoSplit
  ELSE IF t.postgres /\ t.index = "hash" THEN Split("hash", 0, HashMax, Estimate(t))
  ELSE IF t.extent = {} THEN NoSplit
  ELSE LET lo == Lowest(t.extent)  hi == Highest(t.extent)
       IN  Split("range", lo, hi, KeyAuto(t, lo, hi))

AtLeast1(n) == IF n < 1 THEN 1 ELSE n

ResolvePartitionCount(req, split) ==
  LET auto == IF split.auto < 0 THEN 1 ELSE Smaller(split.auto, AutoMax)
      want == AtLeast1(Smaller(IF req = 0 THEN auto ELSE req, PartMax))
  IN  AtLeast1(Smaller(want, Span(split.lo, split.hi)))

-----------------------------------------------------------------------------
(* ExecutePartitions and ReadPartition.                                    *)

Whole == [lo |-> {}, hi |-> {}]

(* Half-open slices, the first unbounded below and the last above.         *)
Slice(split, n, k) ==
  [lo |-> IF k = 0 THEN {} ELSE {SplitBoundary(split.lo, split.hi, n, k)},
   hi |-> IF k = n - 1 THEN {} ELSE {SplitBoundary(split.lo, split.hi, n, k + 1)}]

(* WHERE expr >= lo AND expr < hi: false for a NULL unless nothing is asked. *)
Selects(s, val) == /\ \A b \in s.lo : \E v \in val : v >= b
                   /\ \A b \in s.hi : \E v \in val : v < b

(* The key of a row may be NULL where the catalog allows it; the place of  *)
(* a row in the heap is not.                                               *)
MayBeNull(t) == t.nullable /\ ~(t.postgres /\ t.blocks > 0)

Init == /\ table \in Tables /\ requested \in Requests
        /\ value \in {{v} : v \in Ints} \cup (IF MayBeNull(table) THEN {{}} ELSE {})
        /\ slices = <<>> /\ unread = {} /\ hits = 0 /\ pc = "plan"

(* Whether the query is a bare SELECT over one table.                      *)
ParseSimpleSelect == BOOLEAN

(* Not a bare SELECT over one table, no split, or splitting switched off:  *)
(* one partition with the query as it is.                                  *)
ExecutePartitions(simple) ==
  /\ pc = "plan"
  /\ LET split == ChooseSplit(table)
         n     == ResolvePartitionCount(requested, split)
     IN  slices' = IF requested = 1 \/ ~simple \/ split.kind = "none" \/ n <= 1
                   THEN [k \in {0} |-> Whole]
                   ELSE [k \in 0..(n - 1) |-> Slice(split, n, k)]
  /\ unread' = DOMAIN slices'
  /\ pc' = "read"
  /\ UNCHANGED <<table, requested, value, hits>>

(* A descriptor could not be built: the others are released.               *)
ExecuteFails ==
  /\ pc = "plan"
  /\ pc' = "failed"
  /\ UNCHANGED <<table, requested, value, slices, unread, hits>>

ReadPartition(k) ==
  /\ pc = "read"
  /\ hits' = IF Selects(slices[k], value) THEN hits + 1 ELSE hits
  /\ unread' = unread \ {k}
  /\ UNCHANGED <<table, requested, value, slices, pc>>

Finished == (pc = "failed" \/ (pc = "read" /\ unread = {})) /\ UNCHANGED vars

Next == \/ \E simple \in ParseSimpleSelect : ExecutePartitions(simple)
        \/ ExecuteFails
        \/ \E k \in unread : ReadPartition(k)
        \/ Finished

Spec == Init /\ [][Next]_vars

-----------------------------------------------------------------------------
(* Properties.                                                             *)

Bounds == {{}} \cup {{b} : b \in Ints}

(* Every variable has its type, and no plan has too many slices.           *)
TypeOK ==
  /\ table \in Tables /\ requested \in Requests /\ value \in Bounds
  /\ Cardinality(DOMAIN slices) <= PartMax
  /\ \A k \in DOMAIN slices : slices[k] \in [lo : Bounds, hi : Bounds]
  /\ unread \subseteq DOMAIN slices /\ hits \in Nat /\ pc \in {"plan", "read", "failed"}

(* No connection is opened to read nothing: the boundaries increase.       *)
EverySliceHasWork ==
  pc = "read" /\ Cardinality(DOMAIN slices) > 1 =>
    LET split == ChooseSplit(table)
    IN  \A k \in DOMAIN slices :
          \E v \in split.lo..split.hi : Selects(slices[k], {v})

(* Reading every slice, in any order, returns each row exactly once: also  *)
(* a row outside the extent the plan was made from, at the ends of the     *)
(* integer range, on a boundary, or with a NULL key; every slice covers    *)
(* part of the extent, and there are never more slices than the cap.       *)
RowIsReadOnce ==
  /\ TypeOK
  /\ hits <= 1
  /\ pc = "read" /\ unread = {} => hits = 1
  /\ EverySliceHasWork

-----------------------------------------------------------------------------
(* The inductive invariant behind it.  Once there is a plan, one slice has *)
(* the row; hits tells whether it has been read.                           *)
OneSliceHasRow ==
  pc = "read" => \E k \in DOMAIN slices : \A j \in DOMAIN slices : Selects(slices[j], value) <=> j = k

HitsTellRead ==
  hits = IF \E k \in DOMAIN slices \ unread : Selects(slices[k], value) THEN 1 ELSE 0

SplitInv ==
  /\ TypeOK /\ OneSliceHasRow /\ HitsTellRead /\ EverySliceHasWork
  /\ value = {} => MayBeNull(table)
  /\ pc # "read" => slices = <<>>
=============================================================================
