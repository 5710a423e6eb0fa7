------------------------------ MODULE Session ------------------------------
(***************************************************************************)
(* A database and a connection of the bridge over ODBC                     *)
(* (src/odbc_driver.c): how options set on either end up in force, and how *)
(* the bridge's idea of the transaction mode and of the open session stays *)
(* the driver's, through refused calls, a session lost at any moment,      *)
(* transactions of the caller's own and the one that bulk ingest opens     *)
(* (OdbcAutoTxn, src/odbc_bind.c).  Delegated connections are the business *)
(* of module Delegation.                                                   *)
(*                                                                         *)
(*   db      struct OdbcDatabase                                           *)
(*   conn    struct OdbcConnection; st follows the caller's calls          *)
(*   srv     the driver's session: open, lost, its autocommit mode, whether *)
(*           the caller's SQL began a transaction, rows of the transaction *)
(*           and rows committed                                            *)
(*   asked   the value the caller set on the connection, if any, per option *)
(*   seen    what the database said of the options when the connection was *)
(*           opened, and which were set on it after a connect that failed  *)
(*   leaked  sessions that no connection holds and nobody closed           *)
(*   fate    what became of every row inserted, as the caller was told;    *)
(*           "swept" is an open row whose transaction a bulk ingest ended, *)
(*           "kept" one reported as rolled back by a rollback refused      *)
(***************************************************************************)
EXTENDS DriverQuirks, Sequences, FiniteSets

CONSTANTS Drivers,         \* the drivers a connection may meet
          Batches,         \* values of adbc.odbc.batch_size set by the caller
          Prefetches,      \* values of adbc.odbc.prefetch set by the caller
          Lengths,         \* values of adbc.odbc.sqllen_32bit set by the caller
          MaxRows,         \* rows inserted in a behaviour
          MaxLeaks,        \* bound of leaked
          RestoreRefused   \* a driver may refuse to go back to autocommit

VARIABLES driver, db, conn, srv, asked, seen, leaked, fate

options == <<asked, seen>>
vars    == <<driver, db, conn, srv, options, leaked, fate>>

ASSUME LengthsAssumption == Lengths \subseteq BOOLEAN

Nothing == [batch |-> {}, prefetch |-> {}, sqllen |-> {}]
Unseen  == [batch |-> {}, prefetch |-> {}, sqllen |-> {}, last |-> {}, late |-> {}]

NoDatabase   == [st |-> "none", target |-> FALSE, batch |-> 0, prefetch |-> 0,
                 sqllen |-> FALSE, forced |-> FALSE]
NoConnection == [st |-> "none", connected |-> FALSE, autocommit |-> TRUE, held |-> FALSE,
                 pre_batch_size |-> FALSE, pre_prefetch |-> FALSE,
                 batch |-> 0, prefetch |-> 0, sqllen |-> FALSE, forced |-> FALSE, flags |-> {}]
NoSession    == [open |-> FALSE, lost |-> FALSE, auto |-> TRUE, begun |-> FALSE,
                 pending |-> {}, committed |-> {}]

Init == /\ driver \in Drivers
        /\ db = NoDatabase
        /\ conn = NoConnection
        /\ srv = NoSession
        /\ asked = Nothing
        /\ seen = Unseen
        /\ leaked = 0
        /\ fate = <<>>

-----------------------------------------------------------------------------
(* The database.  An invalid value is refused and changes nothing; a valid *)
(* one is taken at any time, also while a connection exists.               *)

ADBC_ODBC_DEFAULT_BATCH_SIZE == 1

DatabaseNew ==
  /\ db.st = "none"
  /\ db' = [NoDatabase EXCEPT !.st = "new", !.batch = ADBC_ODBC_DEFAULT_BATCH_SIZE]
  /\ UNCHANGED <<driver, conn, srv, options, leaked, fate>>

DatabaseSetOption ==
  /\ db.st # "none"
  /\ \/ db' = [db EXCEPT !.target = TRUE]
     \/ \E v \in Batches : db' = [db EXCEPT !.batch = v]
     \/ \E v \in Prefetches : db' = [db EXCEPT !.prefetch = v]
     \/ \E b \in Lengths : db' = [db EXCEPT !.sqllen = b, !.forced = TRUE]
  /\ UNCHANGED <<driver, conn, srv, options, leaked, fate>>

DatabaseInit ==
  /\ db.st = "new" /\ db.target
  /\ db' = [db EXCEPT !.st = "ready"]
  /\ UNCHANGED <<driver, conn, srv, options, leaked, fate>>

DatabaseRelease ==
  /\ db.st # "none" /\ conn.st = "none"
  /\ db' = NoDatabase
  /\ UNCHANGED <<driver, conn, srv, options, leaked, fate>>

-----------------------------------------------------------------------------
(* The connection and its options.                                         *)

ConnectionNew ==
  /\ db.st # "none" /\ conn.st = "none"
  /\ conn' = [NoConnection EXCEPT !.st = "new"]
  /\ UNCHANGED <<driver, db, srv, options, leaked, fate>>

(* Rows that are no longer in the transaction, and what is said of them.   *)
Told(rows, what) == [r \in DOMAIN fate |-> IF r \in rows THEN what ELSE fate[r]]

(* SQLSetConnectAttr(SQL_ATTR_AUTOCOMMIT): leaving manual commit commits.  *)
Mode(s, on) == IF on /\ ~s.auto THEN [s EXCEPT !.auto = TRUE, !.begun = FALSE, !.pending = {},
                                              !.committed = @ \cup s.pending]
               ELSE [s EXCEPT !.auto = on]

(* A slip: the option is noted before the driver has agreed.               *)
SetAutocommitFirst(on) ==
  /\ conn' = [conn EXCEPT !.autocommit = on]
  /\ \/ ~conn.connected /\ UNCHANGED <<srv, fate>>
     \/ /\ conn.connected /\ ~srv.lost
        /\ srv' = Mode(srv, on)
        /\ fate' = IF on /\ ~srv.auto THEN Told(srv.pending, "durable") ELSE fate
     \/ conn.connected /\ UNCHANGED <<srv, fate>>
  /\ UNCHANGED <<driver, db, options, leaked>>

(* Once connected the driver is told first, and may refuse; it does when   *)
(* the handle is gone.                                                     *)
SetAutocommit(on) ==
  /\ conn' = [conn EXCEPT !.autocommit = on]
  /\ \/ ~conn.connected /\ UNCHANGED <<srv, fate>>
     \/ /\ conn.connected /\ srv.open /\ ~srv.lost
        /\ srv' = Mode(srv, on)
        /\ fate' = IF on /\ ~srv.auto THEN Told(srv.pending, "durable") ELSE fate
  /\ UNCHANGED <<driver, db, options, leaked>>

(* An option set after a connect that failed half way is not one of those  *)
(* that the next connect puts back.                                        *)
Late(o) == IF conn.st = "failed" THEN seen.late \cup {o} ELSE seen.late \ {o}

(* The options of a connection.  One that ODBC does not know is held until *)
(* it is known who serves the connection.                                  *)
ConnectionSetOption ==
  /\ conn.st # "none"
  /\ \/ \E on \in BOOLEAN : SetAutocommit(on)
     \/ /\ \/ \E v \in Batches :
                 /\ conn' = [conn EXCEPT !.batch = v, !.pre_batch_size = ~conn.connected]
                 /\ asked' = [asked EXCEPT !.batch = {v}]
                 /\ seen' = [seen EXCEPT !.late = Late("batch")]
           \/ \E v \in Prefetches :
                 /\ conn' = [conn EXCEPT !.prefetch = v, !.pre_prefetch = ~conn.connected]
                 /\ asked' = [asked EXCEPT !.prefetch = {v}]
                 /\ seen' = [seen EXCEPT !.late = Late("prefetch")]
           \/ \E b \in Lengths :
                 /\ conn' = [conn EXCEPT !.sqllen = b, !.forced = TRUE]
                 /\ asked' = [asked EXCEPT !.sqllen = {b}]
                 /\ UNCHANGED seen
           \/ /\ ~conn.connected
              /\ conn' = [conn EXCEPT !.held = TRUE]
              /\ UNCHANGED options
        /\ UNCHANGED <<driver, db, srv, leaked, fate>>

(* The options a connection starts with: the database's, and over them     *)
(* what was set on the connection.  A slip: the mark of an option set      *)
(* before the connect is not looked at.                                    *)
StartFresh(c, d) ==
  [c EXCEPT !.batch    = d.batch,
            !.prefetch = IF c.pre_prefetch THEN c.prefetch ELSE d.prefetch,
            !.sqllen   = IF c.forced THEN c.sqllen ELSE d.sqllen,
            !.forced   = c.forced \/ d.forced]

StartOptions(c, d) ==
  [c EXCEPT !.batch    = IF c.pre_batch_size THEN c.batch ELSE d.batch,
            !.prefetch = IF c.pre_prefetch THEN c.prefetch ELSE d.prefetch,
            !.sqllen   = IF c.forced THEN c.sqllen ELSE d.sqllen,
            !.forced   = c.forced \/ d.forced]

(* What OdbcDetectQuirks leaves on the connection.                         *)
Detected(c) == [c EXCEPT !.connected = TRUE, !.flags = DetectQuirks(driver),
                         !.sqllen = IF c.forced THEN c.sqllen ELSE Narrow32(driver)]

(* OdbcOpenHdbc: the narrow connect, and the wide one only after a failure *)
(* that says nothing, or nothing but a truncation.                         *)
Connects(answer, wide) ==
  \/ answer = "connected"
  \/ answer \in {"silent", "truncated"} /\ wide

(* What a connect finds set in the database: the options without a mark of *)
(* their own each time, the length of SQLLEN the first time it is set.     *)
Forced(d) == IF d.forced THEN {d.sqllen} ELSE {}

Looked == [seen EXCEPT !.batch = {db.batch}, !.prefetch = {db.prefetch},
                       !.sqllen = IF seen.sqllen = {} THEN Forced(db) ELSE seen.sqllen,
                       !.last = Forced(db)]

(* A connect that fails leaves the options as merged, to be tried again; a *)
(* refused autocommit leaves the session open in a connection that failed, *)
(* and the next try forgets its handle.                                    *)
ConnectionInit ==
  /\ conn.st \in {"new", "failed"} /\ db.st = "ready" /\ ~conn.held
  /\ srv.open => leaked < MaxLeaks
  /\ \E answer \in {"connected", "silent", "truncated", "refused"}, wide, off \in BOOLEAN :
       LET c == StartOptions(conn, db)
           agreed == conn.autocommit \/ off
       IN  IF ~Connects(answer, wide)
           THEN /\ conn' = c
                /\ srv' = [NoSession EXCEPT !.committed = srv.committed]
           ELSE /\ conn' = [Detected(c) EXCEPT !.st = IF agreed THEN "open" ELSE "failed"]
                /\ srv' = [NoSession EXCEPT !.open = TRUE, !.committed = srv.committed,
                                            !.auto = conn.autocommit \/ ~off]
  /\ seen' = Looked
  /\ leaked' = IF srv.open THEN leaked + 1 ELSE leaked
  /\ UNCHANGED <<driver, db, asked, fate>>

-----------------------------------------------------------------------------
(* Work and transactions.                                                  *)

Idle == conn.st = "open" /\ srv.open

(* The session goes away under the caller, and its transaction with it.    *)
Lose ==
  /\ Idle /\ ~srv.lost
  /\ srv' = [srv EXCEPT !.lost = TRUE, !.pending = {}]
  /\ fate' = Told(srv.pending, "gone")
  /\ UNCHANGED <<driver, db, conn, options, leaked>>

InTransaction(s) == ~s.auto \/ s.begun

(* The caller is in a transaction by the option or by SQL of its own.      *)
OpenToCaller == ~conn.autocommit \/ srv.begun

(* One row by one statement: durable at once when the connection is in     *)
(* autocommit and the caller's SQL began no transaction.                   *)
ExecuteRow ==
  /\ Idle /\ ~srv.lost /\ Len(fate) < MaxRows
  /\ LET r == Len(fate) + 1
     IN  /\ srv' = IF InTransaction(srv) THEN [srv EXCEPT !.pending = @ \cup {r}]
                   ELSE [srv EXCEPT !.committed = @ \cup {r}]
         /\ fate' = Append(fate, IF OpenToCaller THEN "open" ELSE "durable")
  /\ UNCHANGED <<driver, db, conn, options, leaked>>

(* The caller's own BEGIN, sent as a query while in autocommit, and the    *)
(* COMMIT or ROLLBACK that ends it.                                        *)
ExecuteBegin ==
  /\ Idle /\ ~srv.lost /\ srv.auto /\ ~srv.begun
  /\ srv' = [srv EXCEPT !.begun = TRUE]
  /\ UNCHANGED <<driver, db, conn, options, leaked, fate>>

ExecuteEnd ==
  /\ Idle /\ ~srv.lost /\ srv.begun
  /\ \E commit \in BOOLEAN :
       /\ srv' = [srv EXCEPT !.begun = FALSE, !.pending = {},
                             !.committed = IF commit THEN @ \cup srv.pending ELSE @]
       /\ fate' = Told(srv.pending, IF commit THEN "durable" ELSE "gone")
  /\ UNCHANGED <<driver, db, conn, options, leaked>>

(* A bulk ingest of two rows, of which `done` are taken.                   *)
TwoRows == {Len(fate) + 1, Len(fate) + 2}
Sent(done) == {r \in TwoRows : r <= Len(fate) + done}

(* OdbcAutoTxnBegin leaves the mode alone when the caller has left         *)
(* autocommit, and when the driver refuses or has no transactions.         *)
IngestPlain ==
  /\ Idle /\ ~srv.lost /\ Len(fate) + 2 <= MaxRows
  /\ \E done \in 0 .. 2 :
       /\ srv' = IF InTransaction(srv) THEN [srv EXCEPT !.pending = @ \cup Sent(done)]
                 ELSE [srv EXCEPT !.committed = @ \cup Sent(done)]
       /\ fate' = fate \o [i \in 1 .. 2 |-> IF i > done THEN "gone"
                                           ELSE IF OpenToCaller THEN "open" ELSE "durable"]
  /\ UNCHANGED <<driver, db, conn, options, leaked>>

(* Otherwise it takes the connection out of autocommit, whatever           *)
(* transaction the caller's SQL began.                                     *)
AutoTxn ==
  /\ Idle /\ ~srv.lost /\ Len(fate) + 2 <= MaxRows
  /\ conn.autocommit /\ "txn_capable" \in conn.flags

Restore(s, refused) == IF refused THEN s ELSE Mode(s, TRUE)

(* What SQLEndTran leaves: a driver that refuses to commit has rolled back *)
(* or keeps the transaction open, one that refuses to roll back keeps it.  *)
Ended(done, answer) ==
  LET all == srv.pending \cup Sent(done)
  IN  [srv EXCEPT !.auto = FALSE, !.begun = FALSE,
                  !.pending = IF answer = "kept" THEN all ELSE {},
                  !.committed = IF done = 2 /\ answer = "agreed" THEN @ \cup all ELSE @]

(* A slip: the answer of the driver to the commit is not looked at.        *)
ReportBlind(done, answer) ==
  [i \in 1 .. 2 |-> IF done = 2 THEN "durable"
                    ELSE IF answer = "kept" /\ i <= done THEN "kept" ELSE "gone"]

(* The caller is told of a refused commit, not of a refused rollback.      *)
Report(done, answer) ==
  [i \in 1 .. 2 |-> IF done = 2 THEN IF answer = "agreed" THEN "durable" ELSE "unknown"
                    ELSE IF answer = "kept" /\ i <= done THEN "kept" ELSE "gone"]

(* OdbcAutoTxnEnd commits, or rolls back when not all rows were taken, and *)
(* restores autocommit without looking at the answer.                      *)
Ingest ==
  /\ AutoTxn
  /\ \E done \in 0 .. 2, answer \in {"agreed", "discarded", "kept"}, refused \in BOOLEAN :
       /\ refused => RestoreRefused
       /\ srv' = Restore(Ended(done, answer), refused)
       /\ fate' = Told(srv.pending, "swept") \o Report(done, answer)
  /\ UNCHANGED <<driver, db, conn, options, leaked>>

(* The commit of an ingest is lost on the way: it reports the error, and   *)
(* nobody knows what became of the rows.                                   *)
IngestLost ==
  /\ AutoTxn
  /\ \E applied \in BOOLEAN :
       srv' = [srv EXCEPT !.lost = TRUE, !.auto = FALSE, !.pending = {},
                 !.committed = IF applied THEN @ \cup srv.pending \cup TwoRows ELSE @]
  /\ fate' = Told(srv.pending, "swept") \o <<"unknown", "unknown">>
  /\ UNCHANGED <<driver, db, conn, options, leaked>>

(* A commit is refused in autocommit, and fails on a lost session; one     *)
(* that loses the session may have been applied, and a server that refuses *)
(* it may have rolled back.  When it keeps the transaction nothing changes.*)
ConnectionCommit ==
  /\ Idle /\ ~conn.autocommit /\ ~srv.lost
  /\ \/ /\ srv' = [srv EXCEPT !.pending = {}, !.begun = FALSE, !.committed = @ \cup srv.pending]
        /\ fate' = Told(srv.pending, "durable")
     \/ /\ \E lost, applied \in BOOLEAN :
             /\ applied => lost
             /\ srv' = [srv EXCEPT !.lost = lost, !.pending = {}, !.begun = FALSE,
                          !.committed = IF applied THEN @ \cup srv.pending ELSE @]
        /\ fate' = Told(srv.pending, "unknown")
  /\ UNCHANGED <<driver, db, conn, options, leaked>>

(* A rollback that the driver refuses changes nothing.                     *)
ConnectionRollback ==
  /\ Idle /\ ~conn.autocommit /\ ~srv.lost
  /\ srv' = [srv EXCEPT !.pending = {}, !.begun = FALSE]
  /\ fate' = Told(srv.pending, "gone")
  /\ UNCHANGED <<driver, db, conn, options, leaked>>

-----------------------------------------------------------------------------
(* SQLDisconnect of a session with a transaction open: ODBC has it refused *)
(* (25000); a driver may also end the transaction itself, as it likes when *)
(* it is in manual commit.                                                 *)
RolledBack(s) == [s EXCEPT !.pending = {}, !.begun = FALSE]

Disconnects(s) ==
  LET shut == [s EXCEPT !.open = FALSE, !.pending = {}, !.begun = FALSE]
      busy == ~s.lost /\ (s.begun \/ s.pending # {})
  IN  {shut} \cup (IF busy THEN {s} ELSE {})
             \cup (IF busy /\ ~s.auto THEN {[shut EXCEPT !.committed = @ \cup s.pending]} ELSE {})

(* A slip: no second try.                                                  *)
ReleaseOnce ==
  Disconnects(IF conn.autocommit THEN srv ELSE RolledBack(srv))

(* What release leaves of the session: uncommitted work is rolled back     *)
(* first, and a disconnect refused is tried again after a rollback.        *)
Released ==
  UNION {IF s.open THEN Disconnects(RolledBack(s)) ELSE {s} :
           s \in Disconnects(IF conn.autocommit THEN srv ELSE RolledBack(srv))}

ConnectionRelease ==
  /\ conn.st # "none"
  /\ IF srv.open THEN srv' \in Released ELSE srv' = srv
  /\ fate' = Told(srv.pending, "gone")
  /\ conn' = NoConnection
  /\ asked' = Nothing
  /\ seen' = Unseen
  /\ UNCHANGED <<driver, db, leaked>>

Next ==
  \/ DatabaseNew \/ DatabaseSetOption \/ DatabaseInit \/ DatabaseRelease
  \/ ConnectionNew \/ ConnectionSetOption \/ ConnectionInit \/ ConnectionRelease
  \/ ExecuteRow \/ ExecuteBegin \/ ExecuteEnd \/ IngestPlain \/ Ingest \/ IngestLost
  \/ ConnectionCommit \/ ConnectionRollback \/ Lose

Spec == Init /\ [][Next]_vars

-----------------------------------------------------------------------------
(* What the getters answer.                                                *)
ConnectionGetOption ==
  [batch |-> conn.batch, prefetch |-> conn.prefetch, sqllen |-> conn.sqllen]

(* What the database had to say when the connection was opened, and of     *)
(* SQLLEN the driver's name when the database was never told.              *)
Inherited(found) == [batch |-> seen.batch, prefetch |-> seen.prefetch,
                     sqllen |-> IF found # {} THEN found ELSE {Narrow32(driver)}]

(* Every option of an open connection is the one last set on it, or what   *)
(* the database said when it was opened; of SQLLEN, what the database said *)
(* the first time a connect found it set.  Batch size and prefetch are     *)
(* exempt when set after a connect that failed at the autocommit mode.     *)
OptionsAsAsked ==
  conn.st = "open" =>
    \A o \in DOMAIN asked \ seen.late :
      ConnectionGetOption[o] \in IF asked[o] # {} THEN asked[o] ELSE Inherited(seen.sqllen)[o]

(* AdbcConnectionInit says that it starts from the database's options and  *)
(* puts back what was set on the connection: every option of an open       *)
(* connection is the one last set on it, or the database's when it was     *)
(* opened, however often a connect failed before.                          *)
OptionsOfThisConnect ==
  conn.st = "open" =>
    \A o \in DOMAIN asked :
      ConnectionGetOption[o] \in IF asked[o] # {} THEN asked[o] ELSE Inherited(seen.last)[o]

(* The autocommit option of a connection is the mode its session is in.    *)
ModeIsKnown == conn.st = "open" /\ ~srv.lost => srv.auto = conn.autocommit

(* An open connection works with the options last set on it, with those    *)
(* the database had when it was opened where it was told nothing, and with *)
(* what the driver's name says of SQLLEN only where neither was; and its   *)
(* autocommit option is the mode the session is in, whatever was refused   *)
(* or restored before.                                                     *)
OptionsInForce == OptionsAsAsked /\ ModeIsKnown

(* A row that an autocommit statement, a bulk ingest, a commit or the      *)
(* return to autocommit reported as done is committed, one that was rolled *)
(* back, failed in a bulk ingest or was left open at the release is never  *)
(* seen, and one the caller has open is in the transaction, whatever is    *)
(* refused and whatever session is lost when.  It says nothing of the rows *)
(* of the caller's own SQL transaction that a bulk ingest ended, nor of    *)
(* those of a bulk ingest whose rollback was refused.                      *)
RowsKeepTheirFate ==
  \A r \in DOMAIN fate :
    /\ fate[r] = "durable" => r \in srv.committed
    /\ fate[r] = "gone"    => r \notin srv.committed \cup srv.pending
    /\ fate[r] = "open"    => r \in srv.pending

(* OdbcAutoTxnBegin says that a transaction of the caller's is the         *)
(* caller's to commit: no bulk ingest ends the one the caller's SQL began. *)
CallersTransactionStays == \A r \in DOMAIN fate : fate[r] # "swept"

(* A released connection does not leave the session it holds (and its      *)
(* locks) behind, even with a transaction open that the bridge knows       *)
(* nothing of, or when the initialization failed after the connect.        *)
NoSessionLeft == conn.st = "none" => ~srv.open

(* AdbcConnectionRelease says that no handle and no locks leak for the     *)
(* rest of the process: nor does an earlier session of the connection.     *)
NoSessionLeaked == conn.st = "none" => ~srv.open /\ leaked = 0

-----------------------------------------------------------------------------
(* The invariants behind these, which every step preserves.                *)

Fates == {"durable", "gone", "open", "unknown", "swept", "kept"}

(* The records a session with these rows goes through.                     *)
Sessions(rows) == [open : BOOLEAN, lost : BOOLEAN, auto : BOOLEAN, begun : BOOLEAN,
                   pending : SUBSET rows, committed : SUBSET rows]

(* The shape of the state.                                                 *)
Shapes ==
  /\ DOMAIN db = DOMAIN NoDatabase /\ db.st \in {"none", "new", "ready"}
  /\ db.sqllen \in BOOLEAN /\ db.forced \in BOOLEAN
  /\ DOMAIN conn = DOMAIN NoConnection /\ conn.st \in {"none", "new", "open", "failed"}
  /\ conn.connected \in BOOLEAN /\ conn.autocommit \in BOOLEAN
  /\ conn.pre_batch_size \in BOOLEAN /\ conn.pre_prefetch \in BOOLEAN
  /\ conn.sqllen \in BOOLEAN /\ conn.forced \in BOOLEAN
  /\ srv \in Sessions(DOMAIN fate)
  /\ DOMAIN asked = DOMAIN Nothing
  /\ DOMAIN seen = DOMAIN Unseen
  /\ fate \in Seq(Fates)

(* A session is open only while a connection holds it, an open connection  *)
(* has one, and a database is not released under one.                      *)
OneSession ==
  /\ conn.connected <=> conn.st \in {"open", "failed"}
  /\ srv.open => conn.connected
  /\ conn.st = "open" => srv.open
  /\ conn.connected => db.st = "ready"

(* Before the connect, what was asked for waits on the connection; SQLLEN  *)
(* is what a failed connect found in the database when the caller said     *)
(* nothing of it.                                                          *)
OptionsWait ==
  /\ conn.st = "none" => asked = Nothing /\ seen = Unseen
  /\ conn.st \in {"new", "failed"} =>
       /\ IF conn.pre_batch_size THEN asked.batch = {conn.batch}
          ELSE asked.batch = {} \/ "batch" \in seen.late
       /\ IF conn.pre_prefetch THEN asked.prefetch = {conn.prefetch}
          ELSE asked.prefetch = {} \/ "prefetch" \in seen.late
       /\ IF conn.forced THEN {conn.sqllen} = IF asked.sqllen # {} THEN asked.sqllen ELSE seen.sqllen
          ELSE asked.sqllen = {} /\ seen.sqllen = {}

SessionInv == Shapes /\ OneSession /\ OptionsWait /\ OptionsAsAsked

(* The rows told to be open are those of the transaction, and there are    *)
(* some only in an open session that is in one.                            *)
OpenRows ==
  /\ \A r \in DOMAIN fate : r \in srv.pending <=> fate[r] = "open"
  /\ \A r \in DOMAIN fate : r \in srv.committed => fate[r] \notin {"gone", "open"}
  /\ srv.pending # {} => conn.st = "open" /\ (srv.lost \/ InTransaction(srv))

RowsInv == SessionInv /\ ModeIsKnown /\ OpenRows /\ RowsKeepTheirFate
=============================================================================
