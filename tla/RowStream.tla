----------------------------- MODULE RowStream -----------------------------
(***************************************************************************)
(* What an ArrowArrayStream over an ODBC result set promises its consumer, *)
(* however the rows are fetched: batches that carry the rows of the result *)
(* set in order, each exactly once and with its whole value, then either   *)
(* the end of the stream or the error the result set holds, at that row.   *)
(***************************************************************************)
EXTENDS Naturals, Sequences, FiniteSets

CONSTANTS RowsPerFetch,  \* SQL_ATTR_ROW_ARRAY_SIZE
          BatchSize      \* adbc.odbc.batch_size

VARIABLES rs,     \* the result set: [rows : sequence of kinds, fails : BOOLEAN]
          out,    \* the rows handed to the consumer so far
          phase   \* "open", or how the stream ended

vars == <<rs, out, phase>>

(* A "hole" is a rowset entry that carries no row: SQL_ROW_NOROW.          *)
Real(i) == rs.rows[i] # "hole"

RealsIn(lo, hi) == {i \in lo..hi : Real(i)}

(* The last entry of rs.rows that the batches delivered so far include.    *)
Pos == IF out = <<>> THEN 0 ELSE out[Len(out)].row

Largest == IF RowsPerFetch > BatchSize THEN RowsPerFetch ELSE BatchSize

Failures == {i \in DOMAIN rs.rows : rs.rows[i] = "bad"}
              \cup (IF rs.fails THEN {Len(rs.rows) + 1} ELSE {})

(* The j-th smallest member of a set of entries.                           *)
Nth(S, j) == CHOOSE i \in S : Cardinality({k \in S : k <= i}) = j

(* The rows among a set of entries, in order and each whole.               *)
Rows(S) == [j \in 1..Cardinality(S) |-> [row |-> Nth(S, j), whole |-> TRUE]]

Deliver == /\ phase = "open"
           /\ \E q \in {i \in DOMAIN rs.rows : i > Pos /\ Real(i)} :
                /\ Failures \cap 1..q = {}
                /\ Cardinality(RealsIn(Pos + 1, q)) <= Largest
                /\ out' = out \o Rows(RealsIn(Pos + 1, q))
           /\ UNCHANGED <<rs, phase>>

(* An error ends the stream only where the result set has one, and takes   *)
(* with it no more rows than the batch it interrupts could hold.           *)
Fail == /\ phase = "open"
        /\ \E b \in Failures : Cardinality(RealsIn(Pos + 1, b - 1)) < Largest
        /\ phase' = "error"
        /\ UNCHANGED <<rs, out>>

End == /\ phase = "open"
       /\ Failures = {} /\ RealsIn(Pos + 1, Len(rs.rows)) = {}
       /\ phase' = "eos"
       /\ UNCHANGED <<rs, out>>

(* The buffers could not be allocated or bound: no row is ever delivered.  *)
Refuse == /\ phase = "open" /\ out = <<>>
          /\ phase' = "refused"
          /\ UNCHANGED <<rs, out>>

Init == out = <<>> /\ phase = "open"

Next == Deliver \/ Fail \/ End \/ Refuse

Spec == Init /\ [][Next]_vars
=============================================================================
