---------------------------- MODULE MCSession ----------------------------
(* A small instance of Session for TLC: a driver with transactions and a   *)
(* 32-bit SQLLEN that its name tells of, and one without transactions that *)
(* tells no name.                                                          *)
EXTENDS Session

Plain == [marks |-> {"db2"}, recent |-> TRUE, txn |-> TRUE, noBatch |-> FALSE,
          getdata |-> {}, scroll |-> FALSE, dbms |-> "", server |-> "db2", deaf |-> {},
          windows |-> FALSE, wide |-> 2]
SmallDrivers == { Plain, [Plain EXCEPT !.marks = {}, !.txn = FALSE] }

(* Rows know nothing of options but autocommit: a behaviour inserts rows   *)
(* or sets other options, with any number of connects and releases.        *)
RowsOrOptions ==
  \/ fate = <<>>
  \/ /\ asked = Nothing /\ ~db.forced /\ seen.sqllen = {}
     /\ {db.batch} \cup seen.batch \subseteq {0, ADBC_ODBC_DEFAULT_BATCH_SIZE}
     /\ {db.prefetch} \cup seen.prefetch \subseteq {0}
==========================================================================
