---------------------------- MODULE MCDelegation ----------------------------
(***************************************************************************)
(* Delegation with two options of a native driver: the smallest number     *)
(* with an option before and after the one that is refused.  They are      *)
(* interchangeable.                                                        *)
(***************************************************************************)
EXTENDS Delegation, TLC

Interchangeable == Permutations(Keys)
=============================================================================
