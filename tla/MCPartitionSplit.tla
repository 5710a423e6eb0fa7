-------------------------- MODULE MCPartitionSplit --------------------------
(* Small instances of PartitionSplit for TLC.                              *)
EXTENDS PartitionSplit

Extents == {{a, b} : a, b \in Ints}

Rec(pg, blocks, null, index, rows, extent) ==
  [postgres |-> pg, blocks |-> blocks, key |-> TRUE, nullable |-> null, index |-> index,
   rows |-> rows, extent |-> extent]

(* A keyed table on any server, with every extent there is.                *)
KeyedTables == {Rec(FALSE, 0, null, "ordered", 0, e) : null \in BOOLEAN, e \in Extents}

(* PostgreSQL-wire servers: heaps, and ordered and hash-partitioned keys.  *)
PostgresTables ==
  {Rec(TRUE, b, FALSE, i, r, e) : b \in {0, 1, 7}, i \in {"ordered", "hash", "hashMany", "unknown"},
                                  r \in {-1, 6}, e \in {{}, {-3, 4}}}

NoKey == {[Rec(FALSE, 0, FALSE, "ordered", 0, {-3, 4}) EXCEPT !.key = FALSE]}

SomeTables == KeyedTables \cup PostgresTables \cup NoKey
=============================================================================
