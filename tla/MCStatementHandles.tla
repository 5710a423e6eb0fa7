------------------------- MODULE MCStatementHandles -------------------------
(* Small instances of StatementHandles for TLC.  Handles and streams are   *)
(* interchangeable: nothing orders them or tells one from another.         *)
EXTENDS StatementHandles, TLC

Interchangeable == Permutations(Handles) \cup Permutations(Streams)
=============================================================================
