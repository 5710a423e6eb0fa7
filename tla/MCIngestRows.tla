---------------------------- MODULE MCIngestRows ----------------------------
(* Small instances of IngestRows for TLC.                                  *)
EXTENDS IngestRows

SmallStreams == {<<>>, <<1>>, <<4>>, <<5>>, <<1, 3>>, <<3, 2>>}

Caps(arrays) == [txn : BOOLEAN, aborts : BOOLEAN, unnest : {"no", "refused", "yes"}, prefer : BOOLEAN,
                 groups : {0, 2, 4}, arrays : arrays]

(* Drivers that account for every parameter set they were handed.          *)
HonestServers == Caps({"off", "unplanned", "refuse", "atomic", "stops", "setwise", "short", "silent"})

(* Drivers that report a set's status and no processed count.              *)
StatusOnlyServers == Caps({"statusOnly"})

=============================================================================
