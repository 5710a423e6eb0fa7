-------------------------- MODULE MCParallelIngest --------------------------
(* Small instances of ParallelIngest for TLC.                              *)
EXTENDS ParallelIngest

TwoBatches == <<3, 1>>
Short      == <<1, 2>>

(* The first batch of Short is a lone row.                                 *)
LoneFirst == {<<1, 1>>}
None      == {}
=============================================================================
