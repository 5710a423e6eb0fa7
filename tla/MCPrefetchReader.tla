-------------------------- MODULE MCPrefetchReader --------------------------
(* Small instances of PrefetchReader for TLC.                              *)
EXTENDS PrefetchReader

CONSTANT MaxRows  \* bound on the entries of a result set

Scripts(kinds) == [rows : UNION {[1..n -> kinds] : n \in 0..MaxRows}, fails : BOOLEAN]

(* No row is skipped: rows that fit, that do not, and that fail.           *)
PlainResultSets == Scripts({"ok", "wide", "bad"})

(* A driver that skips rows, and whose values all fit.                     *)
HoleyResultSets == Scripts({"ok", "hole", "bad"})

ReadableResultSets == PlainResultSets \cup HoleyResultSets

Cap(g, b, r, f) == [getdata |-> g, bound |-> b, refetch |-> r, fixed |-> f]

(* Drivers that can scroll back to a row: with and without in-place repair.*)
ScrollDrivers == {Cap(FALSE, TRUE, TRUE, FALSE), Cap(TRUE, TRUE, TRUE, FALSE)}

=============================================================================
