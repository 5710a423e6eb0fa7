---------------------------- MODULE MCQwpDriver ----------------------------
(* Small instances of QwpDriver for TLC: a binding of two batches with an  *)
(* empty one between them, one of a single batch of two rows; data with    *)
(* one timestamp column, and data whose only column has the name of the    *)
(* column the driver would add.                                            *)
EXTENDS QwpDriver

SmallBinds == { <<<<1>>, <<>>, <<2>>>>, <<<<1, 2>>>> }
SmallData  == { [cols |-> {"a", "ts"}, stamps |-> {"ts"}],
                [cols |-> {"timestamp"}, stamps |-> {}] }
=============================================================================
