-------------------------- MODULE Delegation_proofs --------------------------
(* Proofs about Delegation, for every set of native-driver options.        *)
EXTENDS Delegation, TLAPS

(* A new database has no server and nothing of a native driver is open.    *)
LEMMA HandOverInit == Init => HandOverInv
<1> SUFFICES ASSUME Init PROVE HandOverInv
  OBVIOUS
<1>1. PICK m \in {"auto", "never", "always"} : db = [NewDatabase EXCEPT !.mode = m]
  BY DEF Init
<1>2. /\ DOMAIN db = DOMAIN NewDatabase /\ db.phase = "new" /\ db.henv = FALSE
      /\ db.proxy = "none" /\ db.refused = FALSE
  BY <1>1 DEF NewDatabase
<1>3. /\ found \in Loadable /\ native = Nothing /\ conn = NoConnection /\ stmt = FALSE
      /\ pc = "idle"
  BY DEF Init
<1>4. Records
  <2>1. native \in [table : 0..1, base : 0..1, conn : 0..1, stmt : 0..1]
    BY <1>3 DEF Nothing
  <2>2. DOMAIN conn = DOMAIN NoConnection /\ conn.proxy = FALSE
    BY <1>3 DEF NoConnection
  <2> QED BY <1>2, <1>3, <2>1, <2>2, Zenon DEF Records
<1>5. Decision /\ OneServer /\ NativeAnswerStands
  BY <1>2, <1>3 DEF Decision, OneServer, NativeAnswerStands, HandingOver, Deciding
<1>6. Opened
  BY <1>2, <1>3 DEF Opened, Nothing, NoConnection, Count, HandingOver, Probing
<1> QED BY <1>4, <1>5, <1>6 DEF HandOverInv

(* AdbcDatabaseSetOption decides nothing.                                  *)
LEMMA HandOverSetOption ==
  ASSUME HandOverInv, SetDatabaseOption
  PROVE  HandOverInv'
<1> USE DEF HandOverInv, Records, Decision, Opened, OneServer, NativeAnswerStands,
            HandingOver, Probing, Deciding, Count, NewDatabase, NoConnection
<1>1. ASSUME NEW uri \in {"odbc", "native"}, SetUri(uri) PROVE HandOverInv'
  BY <1>1 DEF SetUri, ButDb, Fresh, Idle
<1>2. ASSUME NEW mode \in {"auto", "never", "always"}, SetDelegate(mode) PROVE HandOverInv'
  BY <1>2 DEF SetDelegate, ButDb, Fresh, Idle
<1>3. ASSUME NEW b \in BOOLEAN, SetDelegatePath(b) PROVE HandOverInv'
  BY <1>3 DEF SetDelegatePath, ButDb, Fresh, Idle
<1>4. ASSUME NEW k \in Keys, NEW v \in Values, SetNativeOption(k, v) PROVE HandOverInv'
  BY <1>4 DEF SetNativeOption, ButDb, Fresh, Idle
<1> QED BY <1>1, <1>2, <1>3, <1>4 DEF SetDatabaseOption

-----------------------------------------------------------------------------
(* How AdbcDatabaseInit ends without a native driver: the error, and the   *)
(* decision for ODBC that "always" turns into an error.                    *)
LEMMA FailedFacts ==
  ASSUME NEW d, DOMAIN d = DOMAIN NewDatabase, Failed(d)
  PROVE  /\ DOMAIN db' = DOMAIN NewDatabase
         /\ db'.phase = "failed" /\ db'.proxy = d.proxy
         /\ pc' = "idle"
BY DEF Failed, NewDatabase

(* Giving the native driver up ends in failure for a database that must    *)
(* have one, and goes on with ODBC otherwise.                              *)
LEMMA GiveUpFacts ==
  ASSUME NEW d, DOMAIN d = DOMAIN NewDatabase, DelegateGiveUp(d)
  PROVE  /\ DOMAIN db' = DOMAIN NewDatabase
         /\ db'.proxy = d.proxy
         /\ \/ d.mode = "always" /\ db'.phase = "failed" /\ pc' = "idle"
            \/ /\ d.mode # "always" /\ pc' = "env"
               /\ db'.phase = d.phase /\ db'.henv = d.henv /\ db'.mode = d.mode
               /\ db'.refused = d.refused /\ db'.to = "odbc"
BY DEF DelegateGiveUp, Failed, NewDatabase

(* While AdbcDatabaseInit has not decided there is no native connection,   *)
(* and nothing is open until a driver is loaded.                           *)
LEMMA Undecided ==
  ASSUME HandOverInv, db.phase \in {"new", "init"}
  PROVE  /\ DOMAIN db = DOMAIN NewDatabase
         /\ db.proxy = "none" /\ db.henv = FALSE /\ ~db.refused
         /\ ~conn.proxy /\ ~stmt
         /\ pc \in {"idle", "load"} => native = Nothing
<1>1. /\ DOMAIN db = DOMAIN NewDatabase
      /\ db.proxy = "none" /\ db.henv = FALSE /\ ~db.refused
      /\ ~conn.proxy /\ ~stmt
  BY DEF HandOverInv, Records, Decision, Opened
<1>2. ASSUME pc \in {"idle", "load"} PROVE native = Nothing
  BY <1>1, <1>2 DEF HandOverInv, Records, Opened, Nothing, Count, HandingOver, Probing
<1> QED BY <1>1, <1>2

(* A step to either end with nothing of the native driver left.            *)
LEMMA GiveUpKeeps ==
  ASSUME HandOverInv, NEW d, DOMAIN d = DOMAIN NewDatabase, d.proxy = "none",
         \/ Failed(d)
         \/ DelegateGiveUp(d) /\ d.phase = "init" /\ d.henv = FALSE /\ ~d.refused,
         conn' = conn, stmt' = stmt, found' = found, ~conn.proxy, ~stmt,
         native' = Nothing
  PROVE  HandOverInv'
<1>1. /\ DOMAIN db' = DOMAIN NewDatabase /\ db'.proxy = "none"
      /\ \/ db'.phase = "failed" /\ pc' = "idle"
         \/ /\ db'.phase = "init" /\ pc' = "env" /\ db'.henv = FALSE
            /\ db'.mode # "always" /\ ~db'.refused /\ db'.to = "odbc"
  BY FailedFacts, GiveUpFacts
<1>2. Records'
  <2>1. native' \in [table : 0..1, base : 0..1, conn : 0..1, stmt : 0..1]
    BY DEF Nothing
  <2> QED BY <1>1, <2>1, Zenon DEF HandOverInv, Records
<1>3. Decision' /\ OneServer' /\ NativeAnswerStands'
  BY <1>1 DEF Decision, OneServer, NativeAnswerStands, HandingOver, Deciding
<1>4. Opened'
  BY <1>1 DEF HandOverInv, Opened, Nothing, Count, HandingOver, Probing
<1> QED BY <1>2, <1>3, <1>4 DEF HandOverInv

-----------------------------------------------------------------------------
(* OdbcDelegateTryInit up to the loaded driver.                            *)
LEMMA HandOverDecide ==
  ASSUME HandOverInv, DatabaseInit \/ LoadNativeDriver
  PROVE  HandOverInv'
<1>1. CASE DatabaseInit
  <2>1. /\ pc = "idle" /\ db.phase = "new" /\ native = Nothing /\ ~conn.proxy /\ ~stmt
        /\ DOMAIN db = DOMAIN NewDatabase /\ db.proxy = "none" /\ db.henv = FALSE /\ ~db.refused
    BY <1>1, Undecided DEF DatabaseInit, Fresh, Idle
  <2>2. conn' = conn /\ stmt' = stmt /\ found' = found /\ native' = native
    BY <1>1 DEF DatabaseInit, ButInit
  <2>3. CASE /\ db.mode = "never"
             /\ db' = [db EXCEPT !.phase = "init", !.to = "odbc"] /\ pc' = "env"
    <3>1. /\ DOMAIN db' = DOMAIN NewDatabase /\ db'.phase = "init" /\ db'.to = "odbc"
          /\ db'.proxy = "none" /\ db'.henv = FALSE /\ ~db'.refused /\ db'.mode = "never"
      BY <2>1, <2>3 DEF NewDatabase
    <3> QED
      BY <2>1, <2>2, <2>3, <3>1
      DEF HandOverInv, Records, Decision, Opened, OneServer, NativeAnswerStands, Nothing,
          Count, HandingOver, Probing, Deciding
  <2>4. CASE Failed([db EXCEPT !.to = "odbc"])
    <3> DEFINE d == [db EXCEPT !.to = "odbc"]
    <3>1. DOMAIN d = DOMAIN NewDatabase /\ d.proxy = "none"
      BY <2>1 DEF NewDatabase
    <3> QED BY <2>1, <2>2, <2>4, <3>1, GiveUpKeeps
  <2>5. ASSUME NEW f \in DetectNative(db.uri), db.mode # "never",
               LET d == [db EXCEPT !.phase = "init", !.family = f]
               IN  IF f = "none" THEN DelegateGiveUp(d) ELSE db' = d /\ pc' = "load"
        PROVE  HandOverInv'
    <3> DEFINE d == [db EXCEPT !.phase = "init", !.family = f]
    <3>1. /\ DOMAIN d = DOMAIN NewDatabase /\ d.proxy = "none" /\ d.phase = "init"
          /\ d.henv = FALSE /\ ~d.refused /\ d.mode = db.mode
      BY <2>1 DEF NewDatabase
    <3>2. CASE f = "none"
      <4>1. DelegateGiveUp(d) BY <2>5, <3>2
      <4> HIDE DEF d
      <4> QED BY <2>1, <2>2, <3>1, <4>1, GiveUpKeeps
    <3>3. CASE f # "none"
      <4>1. db' = d /\ pc' = "load" BY <2>5, <3>3
      <4> HIDE DEF d
      <4> QED
        BY <2>1, <2>2, <2>5, <3>1, <4>1
        DEF HandOverInv, Records, Decision, Opened, OneServer, NativeAnswerStands, Nothing,
            Count, HandingOver, Probing, Deciding
    <3> QED BY <3>2, <3>3
  <2> QED BY <1>1, <2>3, <2>4, <2>5 DEF DatabaseInit
<1>2. CASE LoadNativeDriver
  <2>1. /\ pc = "load" /\ db.phase = "init" /\ conn' = conn /\ stmt' = stmt /\ found' = found
        /\ native = Nothing /\ ~conn.proxy /\ ~stmt /\ DOMAIN db = DOMAIN NewDatabase
        /\ db.proxy = "none" /\ db.henv = FALSE /\ ~db.refused /\ db.mode # "never"
    BY <1>2, Undecided DEF LoadNativeDriver, ButInit, HandOverInv, Decision, Deciding
  <2>2. CASE DelegateGiveUp(db) /\ UNCHANGED native
    BY <2>1, <2>2, GiveUpKeeps
  <2>3. CASE Failed(db) /\ UNCHANGED native
    BY <2>1, <2>3, GiveUpKeeps
  <2>4. CASE /\ found \in {"1.0", "1.1"} /\ native' = [native EXCEPT !.table = 1]
             /\ pc' = "new" /\ UNCHANGED db
    <3>1. native' = [table |-> 1, base |-> 0, conn |-> 0, stmt |-> 0]
      BY <2>1, <2>4 DEF Nothing
    <3> QED
      BY <2>1, <2>4, <3>1
      DEF HandOverInv, Records, Decision, Opened, OneServer, NativeAnswerStands,
          Count, HandingOver, Probing, Deciding
  <2> QED BY <1>2, <2>2, <2>3, <2>4 DEF LoadNativeDriver
<1> QED BY <1>1, <1>2

(* The native database, its options, the probe and the two ways out.       *)
LEMMA HandOverNative ==
  ASSUME HandOverInv,
         \/ NativeDatabaseNew \/ NativeOptions \/ NativeRejects
         \/ ProbeOpens \/ ProbeSucceeds \/ ProbeFails \/ HandOver \/ OpenEnvironment
  PROVE  HandOverInv'
<1> USE DEF HandOverInv, Records, Decision, Opened, OneServer, NativeAnswerStands,
            HandingOver, Probing, Deciding, Count, NewDatabase, NoConnection
<1>1. CASE NativeDatabaseNew
  BY <1>1 DEF NativeDatabaseNew, ButInit
<1>2. CASE NativeOptions
  BY <1>2 DEF NativeOptions, ButInit
<1>3. CASE NativeRejects
  <2>1. /\ pc = "reject" /\ db.phase = "init" /\ conn' = conn /\ stmt' = stmt /\ found' = found
        /\ native' = ProxyRelease
    BY <1>3 DEF NativeRejects, ButInit
  <2>2. native' = Nothing
    BY <2>1, Undecided DEF ProxyRelease, Nothing
  <2> DEFINE d == [db EXCEPT !.refused = (db.uri = "native")]
             e == [d EXCEPT !.to = "odbc"]
  <2>3. /\ DOMAIN d = DOMAIN NewDatabase /\ d.proxy = "none" /\ d.phase = "init"
        /\ d.henv = FALSE /\ (~Verbatim => ~d.refused)
    BY <2>1, Undecided DEF Verbatim
  <2>4. DOMAIN e = DOMAIN NewDatabase /\ e.proxy = "none"
    BY <2>1, Undecided
  <2>5. (Verbatim /\ Failed(e)) \/ (~Verbatim /\ DelegateGiveUp(d))
    BY <1>3 DEF NativeRejects
  <2> HIDE DEF d, e
  <2> QED BY <2>1, <2>2, <2>3, <2>4, <2>5, Undecided, GiveUpKeeps
<1>4. CASE ProbeOpens
  BY <1>4 DEF ProbeOpens, ButInit
<1>5. CASE ProbeSucceeds
  <2>1. /\ db.phase = "init" /\ ~conn.proxy /\ ~stmt /\ native.table = 1 /\ native.base = 1
    BY <1>5, Undecided DEF ProbeSucceeds
  <2>2. native' = [table |-> 1, base |-> 1, conn |-> 0, stmt |-> 0]
    BY <1>5, <2>1 DEF ProbeSucceeds, ProbeCloses
  <2> QED BY <1>5, <2>1, <2>2 DEF ProbeSucceeds, ButInit
<1>6. CASE ProbeFails
  <2>1. /\ pc = "probeFailed" /\ db.phase = "init" /\ conn' = conn /\ stmt' = stmt
        /\ found' = found /\ native' = [ProxyRelease EXCEPT !.conn = 0, !.stmt = 0]
        /\ DelegateGiveUp(db)
    BY <1>6 DEF ProbeFails, ButInit
  <2>2. native' = Nothing
    BY <2>1 DEF ProxyRelease, Nothing
  <2> QED BY <2>1, <2>2, Undecided, GiveUpKeeps
<1>7. CASE HandOver
  BY <1>7 DEF HandOver, ButInit
<1>8. CASE OpenEnvironment
  <2>1. /\ pc = "env" /\ db.phase = "init" /\ conn' = conn /\ stmt' = stmt /\ found' = found
        /\ native' = native /\ db.to = "odbc" /\ db.mode # "always"
    BY <1>8 DEF OpenEnvironment, ButInit
  <2>2. native = Nothing
    BY <2>1, Undecided DEF Nothing
  <2>3. ASSUME NEW uri, NEW henv \in BOOLEAN, Failed([db EXCEPT !.uri = uri, !.henv = henv])
        PROVE  HandOverInv'
    <3> DEFINE d == [db EXCEPT !.uri = uri, !.henv = henv]
    <3>1. DOMAIN d = DOMAIN NewDatabase /\ d.proxy = "none" BY <2>1, Undecided
    <3>2. Failed(d) BY <2>3
    <3> HIDE DEF d
    <3> QED BY <2>1, <2>2, <3>1, <3>2, Undecided, GiveUpKeeps
  <2>4. CASE Failed(db)
    BY <2>1, <2>2, <2>4, Undecided, GiveUpKeeps
  <2>5. ASSUME NEW uri, pc' = "idle",
               db' = [db EXCEPT !.uri = uri, !.henv = TRUE, !.phase = "ok"]
        PROVE  HandOverInv'
    <3>1. /\ DOMAIN db' = DOMAIN NewDatabase /\ db'.phase = "ok" /\ db'.henv = TRUE
          /\ db'.proxy = "none" /\ ~db'.refused /\ db'.to = "odbc" /\ db'.mode # "always"
      BY <2>1, <2>5, Undecided
    <3>2. ~conn.proxy /\ ~stmt BY <2>1, Undecided
    <3> QED BY <2>1, <2>2, <2>5, <3>1, <3>2 DEF Nothing
  <2> QED BY <1>8, <2>3, <2>4, <2>5 DEF OpenEnvironment
<1> QED BY <1>1, <1>2, <1>3, <1>4, <1>5, <1>6, <1>7, <1>8

(* A call on a connection leaves the database and its server alone; what   *)
(* is left to show of it is what it opens and closes.                      *)
LEMMA ConnectionKeeps ==
  ASSUME HandOverInv, pc \in {"idle", "replay"}, pc' \in {"idle", "replay"},
         db' = db, found' = found,
         DOMAIN conn' = DOMAIN NoConnection, conn'.proxy \in BOOLEAN, stmt' \in BOOLEAN,
         native' \in [table : 0..1, base : 0..1, conn : 0..1, stmt : 0..1],
         native'.table = native.table, native'.base = native.base,
         native'.stmt = Count(stmt'), stmt' => conn'.proxy,
         conn'.proxy => conn'.phase = "ok" /\ db.phase = "ok" /\ pc' = "idle",
         pc' = "idle" => native'.conn = Count(conn'.proxy),
         pc' = "replay" => native'.conn = 1 /\ db.phase = "ok"
  PROVE  HandOverInv'
<1>1. Records'
  BY Zenon DEF HandOverInv, Records
<1>2. Decision' /\ OneServer' /\ NativeAnswerStands'
  BY DEF HandOverInv, Decision, OneServer, NativeAnswerStands, HandingOver, Deciding
<1>3. Opened'
  BY DEF HandOverInv, Opened, HandingOver, Probing, Count
<1> QED BY <1>1, <1>2, <1>3 DEF HandOverInv

(* Between two calls, and while options are replayed to a new connection.  *)
LEMMA ConnectionFacts ==
  ASSUME HandOverInv, pc \in {"idle", "replay"}
  PROVE  /\ DOMAIN conn = DOMAIN NoConnection /\ conn.proxy \in BOOLEAN /\ stmt \in BOOLEAN
         /\ native \in [table : 0..1, base : 0..1, conn : 0..1, stmt : 0..1]
         /\ native.stmt = Count(stmt) /\ (stmt => conn.proxy)
         /\ conn.proxy => conn.phase = "ok" /\ db.phase = "ok" /\ pc = "idle"
         /\ pc = "idle" => native.conn = Count(conn.proxy)
         /\ pc = "replay" => native.conn = 1 /\ db.phase = "ok"
<1>1. /\ DOMAIN conn = DOMAIN NoConnection /\ conn.proxy \in BOOLEAN /\ stmt \in BOOLEAN
      /\ native \in [table : 0..1, base : 0..1, conn : 0..1, stmt : 0..1]
  BY Zenon DEF HandOverInv, Records
<1>2. /\ native.stmt = Count(stmt) /\ (stmt => conn.proxy)
      /\ conn.proxy => conn.phase = "ok" /\ db.phase = "ok" /\ pc = "idle"
      /\ pc = "idle" => native.conn = Count(conn.proxy)
      /\ pc = "replay" => native.conn = 1 /\ db.phase = "ok"
  BY DEF HandOverInv, Opened, Probing
<1> QED BY <1>1, <1>2, Zenon

(* The connection and its statement, on either server.                     *)
LEMMA HandOverConnection ==
  ASSUME HandOverInv, Connection
  PROVE  HandOverInv'
<1>1. CASE ConnectionNew
  <2>1. /\ pc = "idle" /\ pc' = pc /\ db' = db /\ found' = found /\ native' = native
        /\ stmt' = stmt /\ conn.phase = "none" /\ conn' = [NoConnection EXCEPT !.phase = "new"]
    BY <1>1 DEF ConnectionNew, Idle
  <2>2. DOMAIN conn' = DOMAIN NoConnection /\ conn'.proxy = FALSE
    BY <2>1 DEF NoConnection
  <2>3. ~conn.proxy /\ ~stmt BY <2>1, ConnectionFacts
  <2> QED BY <2>1, <2>2, <2>3, ConnectionFacts, ConnectionKeeps DEF Count
<1>2. CASE ConnectionInitOdbc
  <2>1. /\ pc = "idle" /\ pc' = pc /\ db' = db /\ found' = found /\ native' = native
        /\ stmt' = stmt /\ conn.phase = "new"
    BY <1>2 DEF ConnectionInitOdbc, ConnFailed, Idle
  <2>2. DOMAIN conn' = DOMAIN NoConnection /\ conn'.proxy = conn.proxy
    BY <1>2, <2>1, ConnectionFacts DEF ConnectionInitOdbc, ConnFailed, NoConnection
  <2>3. ~conn.proxy /\ ~stmt BY <2>1, ConnectionFacts
  <2> QED BY <2>1, <2>2, <2>3, ConnectionFacts, ConnectionKeeps DEF Count
<1>3. CASE ProxyConnectionNew
  <2>1. /\ pc = "idle" /\ db' = db /\ found' = found /\ stmt' = stmt
        /\ conn.phase = "new" /\ db.phase = "ok"
    BY <1>3 DEF ProxyConnectionNew, Idle
  <2>2. ~conn.proxy /\ ~stmt BY <2>1, ConnectionFacts
  <2>3. CASE native' = [native EXCEPT !.conn = 1] /\ pc' = "replay" /\ conn' = conn
    BY <2>1, <2>2, <2>3, ConnectionFacts, ConnectionKeeps
  <2>4. CASE ConnFailed(conn) /\ native' = native
    <3>1. DOMAIN conn' = DOMAIN NoConnection /\ conn'.proxy = conn.proxy /\ pc' = "idle"
      BY <2>1, <2>4, ConnectionFacts DEF ConnFailed, NoConnection
    <3> QED BY <2>1, <2>2, <2>4, <3>1, ConnectionFacts, ConnectionKeeps DEF Count
  <2> QED BY <1>3, <2>3, <2>4 DEF ProxyConnectionNew
<1>4. CASE ProxyReplay
  <2>1. pc = "replay" /\ db' = db /\ found' = found /\ stmt' = stmt
    BY <1>4 DEF ProxyReplay
  <2>2. ~conn.proxy /\ ~stmt /\ native.conn = 1 /\ db.phase = "ok" BY <2>1, ConnectionFacts
  <2>3. CASE native' = native /\ conn' = conn /\ pc' = pc
    BY <2>1, <2>2, <2>3, ConnectionFacts, ConnectionKeeps
  <2>4. CASE ConnFailed(conn) /\ CloseNativeConnection
    <3>1. DOMAIN conn' = DOMAIN NoConnection /\ conn'.proxy = conn.proxy /\ pc' = "idle"
      BY <2>1, <2>4, ConnectionFacts DEF ConnFailed, NoConnection
    <3>2. native' = [native EXCEPT !.conn = 0]
      BY <2>4 DEF CloseNativeConnection
    <3> QED BY <2>1, <2>2, <3>1, <3>2, ConnectionFacts, ConnectionKeeps DEF Count
  <2>5. CASE /\ conn' = [conn EXCEPT !.phase = "ok", !.proxy = TRUE]
             /\ pc' = "idle" /\ native' = native
    <3>1. DOMAIN conn' = DOMAIN NoConnection /\ conn'.proxy = TRUE /\ conn'.phase = "ok"
      BY <2>1, <2>5, ConnectionFacts DEF NoConnection
    <3> QED BY <2>1, <2>2, <2>5, <3>1, ConnectionFacts, ConnectionKeeps DEF Count
  <2> QED BY <1>4, <2>3, <2>4, <2>5 DEF ProxyReplay
<1>5. CASE ConnectionRelease
  <2>1. /\ pc = "idle" /\ pc' = pc /\ db' = db /\ found' = found /\ stmt' = stmt /\ ~stmt
        /\ conn' = NoConnection
        /\ native' = IF conn.proxy THEN [native EXCEPT !.conn = 0] ELSE native
    BY <1>5 DEF ConnectionRelease, Idle
  <2>2. DOMAIN conn' = DOMAIN NoConnection /\ conn'.proxy = FALSE
    BY <2>1 DEF NoConnection
  <2>3. /\ native' \in [table : 0..1, base : 0..1, conn : 0..1, stmt : 0..1]
        /\ native'.table = native.table /\ native'.base = native.base
        /\ native'.stmt = native.stmt /\ native'.conn = 0
    BY <2>1, ConnectionFacts DEF Count
  <2> QED BY <2>1, <2>2, <2>3, ConnectionFacts, ConnectionKeeps DEF Count
<1>6. CASE ProxyStatementNew
  <2>1. /\ pc = "idle" /\ pc' = pc /\ db' = db /\ found' = found /\ conn' = conn /\ conn.proxy
        /\ stmt' = TRUE /\ native' = [native EXCEPT !.stmt = 1]
    BY <1>6 DEF ProxyStatementNew, Idle
  <2> QED BY <2>1, ConnectionFacts, ConnectionKeeps DEF Count
<1>7. CASE ProxyStatementRelease
  <2>1. /\ pc = "idle" /\ pc' = pc /\ db' = db /\ found' = found /\ conn' = conn
        /\ stmt' = FALSE /\ native' = [native EXCEPT !.stmt = 0]
    BY <1>7 DEF ProxyStatementRelease, Idle
  <2>2. /\ native' \in [table : 0..1, base : 0..1, conn : 0..1, stmt : 0..1]
        /\ native'.table = native.table /\ native'.base = native.base
        /\ native'.conn = native.conn /\ native'.stmt = 0
    BY <2>1, ConnectionFacts
  <2>3. ~stmt' /\ stmt' \in BOOLEAN
    BY <2>1
  <2>4. native'.stmt = Count(stmt')
    BY <2>1, <2>2 DEF Count
  <2> QED BY <2>1, <2>2, <2>3, <2>4, ConnectionFacts, ConnectionKeeps
<1>8. ASSUME pc = "idle", pc' = pc, db' = db, found' = found, native' = native, stmt' = stmt,
             DOMAIN conn' = DOMAIN conn, conn'.proxy = conn.proxy, conn'.phase = conn.phase
      PROVE  HandOverInv'
  BY <1>8, ConnectionFacts, ConnectionKeeps
<1>9. ASSUME NEW v \in Values, SetAutocommitEarly(v) \/ SetAutocommit(v) PROVE HandOverInv'
  <2>1. /\ pc = "idle" /\ pc' = pc /\ db' = db /\ found' = found /\ native' = native
        /\ stmt' = stmt
    BY <1>9 DEF SetAutocommitEarly, SetAutocommit, ButConn, Idle
  <2>2. DOMAIN conn' = DOMAIN conn /\ conn'.proxy = conn.proxy /\ conn'.phase = conn.phase
    BY <1>9, <2>1, ConnectionFacts
    DEF SetAutocommitEarly, SetAutocommit, PreOption, NoConnection
  <2> QED BY <1>8, <2>1, <2>2
<1>10. ASSUME NEW k \in Keys \cup {Autocommit}, NEW v \in Values, NEW typed \in BOOLEAN,
              HoldOption(k, v, typed) \/ ForwardOption(k, v, typed)
       PROVE  HandOverInv'
  <2>1. /\ pc = "idle" /\ pc' = pc /\ db' = db /\ found' = found /\ native' = native
        /\ stmt' = stmt
    BY <1>10 DEF HoldOption, ForwardOption, ButConn, Idle
  <2>2. DOMAIN conn' = DOMAIN conn /\ conn'.proxy = conn.proxy /\ conn'.phase = conn.phase
    BY <1>10, <2>1, ConnectionFacts DEF HoldOption, ForwardOption, PreOption, NoConnection
  <2> QED BY <1>8, <2>1, <2>2
<1> QED
  BY <1>1, <1>2, <1>3, <1>4, <1>5, <1>6, <1>7, <1>9, <1>10 DEF Connection

(* AdbcDatabaseRelease lets go of the native database with its driver.     *)
LEMMA HandOverRelease ==
  ASSUME HandOverInv, DatabaseRelease
  PROVE  HandOverInv'
<1>1. /\ pc = "idle" /\ pc' = pc /\ found' = found /\ conn' = conn /\ stmt' = stmt
      /\ conn.phase = "none" /\ db' = NewDatabase
      /\ native' = IF db.proxy # "none" THEN ProxyRelease ELSE native
  BY DEF DatabaseRelease, Idle
<1>2. ~conn.proxy /\ ~stmt /\ native.conn = 0 /\ native.stmt = 0
  BY <1>1, ConnectionFacts DEF Count
<1>3. native' = Nothing
  BY <1>1, <1>2 DEF HandOverInv, Records, Opened, HandingOver, Count, ProxyRelease, Nothing
<1>4. /\ DOMAIN db' = DOMAIN NewDatabase /\ db'.phase = "new" /\ db'.henv = FALSE
      /\ db'.proxy = "none" /\ db'.refused = FALSE
  BY <1>1 DEF NewDatabase
<1>5. Records'
  <2>1. native' \in [table : 0..1, base : 0..1, conn : 0..1, stmt : 0..1]
    BY <1>3 DEF Nothing
  <2> QED BY <1>1, <1>4, <2>1, Zenon DEF HandOverInv, Records
<1>6. Decision' /\ OneServer' /\ NativeAnswerStands'
  BY <1>1, <1>4 DEF Decision, OneServer, NativeAnswerStands, HandingOver, Deciding
<1>7. Opened'
  BY <1>1, <1>2, <1>3, <1>4 DEF Opened, Nothing, Count, HandingOver, Probing
<1> QED BY <1>5, <1>6, <1>7 DEF HandOverInv

-----------------------------------------------------------------------------
(* The inductive invariant of the hand-over holds whatever the application *)
(* calls and wherever the native driver fails.                             *)
THEOREM HandOverInvariance == Spec => []HandOverInv
<1>1. ASSUME HandOverInv, [Next]_vars PROVE HandOverInv'
  <2>1. CASE UNCHANGED vars
    BY <1>1, <2>1
    DEF vars, HandOverInv, Records, Decision, Opened, OneServer, NativeAnswerStands
  <2>2. CASE InitDatabase
    BY <1>1, <2>2, HandOverDecide, HandOverNative DEF InitDatabase
  <2> QED
    BY <1>1, <2>1, <2>2, HandOverSetOption, HandOverConnection, HandOverRelease DEF Next
<1> QED BY <1>1, HandOverInit, PTL DEF Spec

(* AdbcDatabaseInit leaves a database with exactly one server, the one the *)
(* application allowed and delegated_to names.                             *)
THEOREM OneServerAlways == Spec => []OneServer
<1>1. HandOverInv => OneServer
  BY DEF HandOverInv
<1> QED BY <1>1, HandOverInvariance, PTL

(* OdbcDelegateTryInit never falls back to ODBC for a native URI that the  *)
(* native driver refused.                                                  *)
THEOREM NativeAnswerAlwaysStands == Spec => []NativeAnswerStands
<1>1. HandOverInv => NativeAnswerStands
  BY DEF HandOverInv
<1> QED BY <1>1, HandOverInvariance, PTL

(* Between two calls of the application the native driver holds open just  *)
(* what a database, a connection or a statement is there to release.       *)
THEOREM NothingIsEverLeftOpen == Spec => []NothingIsLeftOpen
<1>1. ASSUME HandOverInv, Idle PROVE NothingIsLeftOpen
  <2>1. pc = "idle" BY <1>1 DEF Idle
  <2>2. /\ native \in [table : 0..1, base : 0..1, conn : 0..1, stmt : 0..1]
        /\ native.stmt = Count(stmt) /\ native.conn = Count(conn.proxy)
    BY <1>1, <2>1, ConnectionFacts
  <2>3. native.table = Count(db.proxy # "none") /\ native.base = Count(db.proxy # "none")
    BY <1>1, <2>1 DEF HandOverInv, Opened, HandingOver
  <2> QED BY <2>2, <2>3 DEF NothingIsLeftOpen
<1>2. HandOverInv => NothingIsLeftOpen
  BY <1>1 DEF NothingIsLeftOpen
<1> QED BY <1>2, HandOverInvariance, PTL


-----------------------------------------------------------------------------
(* Options.  Holding an option, the place of the key kept or a new one at  *)
(* the end, keeps what is held in agreement with what was asked for.       *)
LEMMA HoldAgrees ==
  ASSUME NEW held \in Seq(OptionRecord), NEW e \in OptionRecord, NEW f \in Options, Agree(held, f)
  PROVE  /\ AddPassThrough(held, e) \in Seq(OptionRecord)
         /\ [f EXCEPT ![e.key] = e.value] \in Options
         /\ Agree(AddPassThrough(held, e), [f EXCEPT ![e.key] = e.value])
         /\ \A j \in DOMAIN AddPassThrough(held, e) :
              \/ AddPassThrough(held, e)[j] = e
              \/ \E i \in DOMAIN held : AddPassThrough(held, e)[j] = held[i]
<1> DEFINE new == AddPassThrough(held, e)
           g   == [f EXCEPT ![e.key] = e.value]
<1>1. /\ DOMAIN held = 1..Len(held) /\ Len(held) \in Nat
      /\ \A j \in DOMAIN held : held[j] \in OptionRecord
  OBVIOUS
<1>2. /\ e.key \in DOMAIN None /\ e.value \in Values
      /\ \A j \in DOMAIN held : held[j].key \in DOMAIN None
  BY <1>1 DEF OptionRecord, None
<1>3. /\ g \in Options /\ g[e.key] = e.value
      /\ \A k \in DOMAIN None : k # e.key => g[k] = f[k]
  BY <1>2 DEF Options
<1> HIDE DEF g
<1>4. CASE \E j \in DOMAIN held : held[j].key = e.key
  <2>1. new = [j \in DOMAIN held |-> IF held[j].key = e.key THEN e ELSE held[j]]
    BY <1>4 DEF AddPassThrough
  <2>2. /\ DOMAIN new = DOMAIN held
        /\ \A j \in DOMAIN held : new[j] = IF held[j].key = e.key THEN e ELSE held[j]
    BY <2>1
  <2>3. new \in Seq(OptionRecord)
    BY <1>1, <2>1
  <2> HIDE DEF new
  <2>4. \A j \in DOMAIN held : new[j].key = held[j].key
    BY <2>2
  <2>5. Agree(new, g)
    BY <1>2, <1>3, <1>4, <2>2, <2>4 DEF Agree
  <2> QED BY <1>3, <2>2, <2>3, <2>5 DEF new, g
<1>5. CASE ~\E j \in DOMAIN held : held[j].key = e.key
  <2>1. new = Append(held, e)
    BY <1>5 DEF AddPassThrough
  <2>2. /\ new \in Seq(OptionRecord) /\ DOMAIN new = 1..(Len(held) + 1) /\ new[Len(held) + 1] = e
        /\ \A j \in DOMAIN held : j \in DOMAIN new /\ new[j] = held[j]
        /\ \A j \in DOMAIN new : j # Len(held) + 1 => j \in DOMAIN held
    BY <1>1, <2>1
  <2>3. Len(held) + 1 \in DOMAIN new
    BY <1>1, <2>2
  <2> HIDE DEF new
  <2>4. \A j \in DOMAIN new : g[new[j].key] = new[j].value
    <3> SUFFICES ASSUME NEW j \in DOMAIN new PROVE g[new[j].key] = new[j].value
      OBVIOUS
    <3>1. CASE j = Len(held) + 1
      BY <1>3, <2>2, <3>1
    <3>2. CASE j # Len(held) + 1
      <4>1. j \in DOMAIN held /\ new[j] = held[j] /\ held[j].key # e.key
        BY <1>5, <2>2, <3>2
      <4> QED BY <1>2, <1>3, <4>1 DEF Agree
    <3> QED BY <3>1, <3>2
  <2>5. \A k \in DOMAIN None : g[k] # Unset => \E j \in DOMAIN new : new[j].key = k
    <3> SUFFICES ASSUME NEW k \in DOMAIN None, g[k] # Unset
                 PROVE  \E j \in DOMAIN new : new[j].key = k
      OBVIOUS
    <3>1. CASE k = e.key
      BY <2>2, <2>3, <3>1
    <3>2. CASE k # e.key
      <4>1. PICK j \in DOMAIN held : held[j].key = k
        BY <1>3, <3>2 DEF Agree
      <4> QED BY <2>2, <4>1
    <3> QED BY <3>1, <3>2
  <2>6. \A j \in DOMAIN new : new[j] = e \/ \E i \in DOMAIN held : new[j] = held[i]
    BY <2>2
  <2> QED BY <1>3, <2>2, <2>4, <2>5, <2>6 DEF Agree, new, g
<1> QED BY <1>4, <1>5

(* A replay starts with nothing given, gives one option after another and  *)
(* ends with everything given that was asked for.                          *)
LEMMA ReplayFacts ==
  ASSUME NEW held \in Seq(OptionRecord), NEW f \in Options, Agree(held, f)
  PROVE  /\ Replayed(held, f, 1) = None
         /\ Replayed(held, f, Len(held) + 1) = f
         /\ \A n \in 1..Len(held) : Replayed(held, f, n + 1)
              = [Replayed(held, f, n) EXCEPT ![held[n].key] = held[n].value]
<1>1. /\ DOMAIN held = 1..Len(held) /\ Len(held) \in Nat
      /\ \A j \in DOMAIN held : held[j].key \in DOMAIN None
  <2>1. \A j \in 1..Len(held) : held[j] \in OptionRecord
    OBVIOUS
  <2> QED BY <2>1 DEF OptionRecord, None
<1>2. Replayed(held, f, 1) = None
  BY DEF Replayed, None
<1>3. Replayed(held, f, Len(held) + 1) = f
  <2>1. \A k \in DOMAIN None :
          (IF \E j \in 1..((Len(held) + 1) - 1) : held[j].key = k THEN f[k] ELSE Unset) = f[k]
    BY <1>1 DEF Agree
  <2> QED BY <2>1 DEF Replayed, Options
<1>4. ASSUME NEW n \in 1..Len(held)
      PROVE  Replayed(held, f, n + 1)
               = [Replayed(held, f, n) EXCEPT ![held[n].key] = held[n].value]
  <2> DEFINE old == Replayed(held, f, n)
             new == Replayed(held, f, n + 1)
  <2>1. /\ DOMAIN old = DOMAIN None /\ DOMAIN new = DOMAIN None
        /\ old = [k \in DOMAIN None |-> old[k]] /\ new = [k \in DOMAIN None |-> new[k]]
    BY DEF Replayed
  <2>2. held[n].key \in DOMAIN None /\ f[held[n].key] = held[n].value
    BY <1>1, <1>4 DEF Agree
  <2>3. ASSUME NEW k \in DOMAIN None
        PROVE  new[k] = IF k = held[n].key THEN held[n].value ELSE old[k]
    <3>1. new[k] = IF \E j \in 1..((n + 1) - 1) : held[j].key = k THEN f[k] ELSE Unset
      BY DEF Replayed
    <3>2. old[k] = IF \E j \in 1..(n - 1) : held[j].key = k THEN f[k] ELSE Unset
      BY DEF Replayed
    <3>3. (\E j \in 1..((n + 1) - 1) : held[j].key = k)
            <=> (held[n].key = k \/ \E j \in 1..(n - 1) : held[j].key = k)
      BY <1>1, <1>4
    <3> HIDE DEF old, new
    <3> QED BY <2>2, <3>1, <3>2, <3>3
  <2> HIDE DEF old, new
  <2>4. new = [old EXCEPT ![held[n].key] = held[n].value]
    BY <2>1, <2>2, <2>3
  <2> QED BY <2>4 DEF old, new
<1> QED BY <1>2, <1>3, <1>4


(* A step about the database leaves the connection's options alone, and a  *)
(* step about the connection the database's.                               *)
LEMMA ConnectionFrame ==
  ASSUME OptionsInv, conn' = conn, given'.conn = given.conn, asked'.conn = asked.conn,
         pc # "replay", pc' # "replay"
  PROVE  ConnectionOptions'
BY DEF OptionsInv, ConnectionOptions, Agree, Replayed

(* A step about the connection leaves the database's options alone.        *)
LEMMA DatabaseFrame ==
  ASSUME OptionsInv, db' = db, given'.db = given.db, asked'.db = asked.db,
         pc \in {"idle", "replay"}, pc' \in {"idle", "replay"}
  PROVE  DatabaseOptions'
BY DEF OptionsInv, DatabaseOptions, Agree, Replayed

(* The types of an option record and of a held option.                     *)
LEMMA OptionFacts ==
  ASSUME OptionTypes, NEW held \in {db.held, conn.pre}, NEW n \in 1..Len(held)
  PROVE  held[n].key \in DOMAIN None /\ held[n].value \in Values \cup {Unset}
<1>1. held \in Seq(OptionRecord)
  BY DEF OptionTypes
<1>2. held[n] \in OptionRecord
  BY <1>1
<1> QED BY <1>2 DEF OptionRecord, None

(* While AdbcDatabaseInit decides, what is held and asked for stays.       *)
LEMMA DecidingFrame ==
  ASSUME OptionsInv, db.phase \in {"new", "init"}, conn' = conn, asked' = asked,
         db'.held = db.held, db'.phase \in {"init", "failed"}, next' \in Nat,
         given' \in [db : Options, conn : Options], given'.conn = given.conn,
         pc \notin {"replay"}, pc' \notin {"replay"},
         pc' \in {"load", "new"} => given'.db = None,
         pc' = "options" => /\ next' \in 1..(Len(db.held) + 1)
                            /\ given'.db = Replayed(db.held, asked.db, next'),
         pc' \in {"probe", "probed", "probeFailed", "handOver"} => given'.db = asked.db
  PROVE  OptionsInv'
<1>1. OptionTypes'
  BY DEF OptionsInv, OptionTypes
<1>2. DatabaseOptions'
  <2>1. Agree(db'.held, asked'.db)
    BY DEF OptionsInv, DatabaseOptions
  <2>2. pc' = "options" => /\ next' \in 1..(Len(db'.held) + 1)
                           /\ given'.db = Replayed(db'.held, asked'.db, next')
    OBVIOUS
  <2> QED BY <2>1, <2>2 DEF DatabaseOptions
<1>3. ConnectionOptions'
  BY ConnectionFrame
<1> QED BY <1>1, <1>2, <1>3 DEF OptionsInv

(* Giving up keeps what is held.                                           *)
LEMMA GiveUpHolds ==
  ASSUME NEW d, DOMAIN d = DOMAIN NewDatabase, Failed(d) \/ DelegateGiveUp(d)
  PROVE  /\ db'.held = d.held
         /\ \/ db'.phase = "failed" /\ pc' = "idle"
            \/ db'.phase = d.phase /\ pc' = "env"
BY DEF Failed, DelegateGiveUp, NewDatabase

(* No option set is a legal state of the options, on both sides.           *)
LEMMA NoneFacts ==
  /\ None \in Options /\ Both(None) \in [db : Options, conn : Options]
  /\ Both(None).db = None /\ Both(None).conn = None
BY DEF None, Options, Both

(* AdbcDatabaseSetOption.                                                  *)
LEMMA OptionsSet ==
  ASSUME OptionsInv, HandOverInv, SetDatabaseOption
  PROVE  OptionsInv'
<1>1. DOMAIN db = DOMAIN NewDatabase
  BY DEF HandOverInv, Records
<1>2. ASSUME db'.phase = db.phase, db'.held = db.held, db'.proxy = db.proxy, asked' = asked,
             conn' = conn, given' = given, next' = next, pc' = pc, pc = "idle"
      PROVE  OptionsInv'
  BY <1>2 DEF OptionsInv, OptionTypes, DatabaseOptions, ConnectionOptions, Agree, Replayed
<1>3. ASSUME NEW uri \in {"odbc", "native"}, SetUri(uri) PROVE OptionsInv'
  <2>1. db'.phase = db.phase /\ db'.held = db.held /\ db'.proxy = db.proxy
    BY <1>1, <1>3 DEF SetUri, NewDatabase
  <2> QED BY <1>2, <1>3, <2>1 DEF SetUri, ButDb, Fresh, Idle
<1>4. ASSUME NEW mode \in {"auto", "never", "always"}, SetDelegate(mode) PROVE OptionsInv'
  <2>1. db'.phase = db.phase /\ db'.held = db.held /\ db'.proxy = db.proxy
    BY <1>1, <1>4 DEF SetDelegate, NewDatabase
  <2> QED BY <1>2, <1>4, <2>1 DEF SetDelegate, ButDb, Fresh, Idle
<1>5. ASSUME NEW b \in BOOLEAN, SetDelegatePath(b) PROVE OptionsInv'
  <2>1. db'.phase = db.phase /\ db'.held = db.held /\ db'.proxy = db.proxy
    BY <1>1, <1>5 DEF SetDelegatePath, NewDatabase
  <2> QED BY <1>2, <1>5, <2>1 DEF SetDelegatePath, ButDb, Fresh, Idle
<1>6. ASSUME NEW k \in Keys, NEW v \in Values, SetNativeOption(k, v) PROVE OptionsInv'
  <2> DEFINE e == Option(k, v, FALSE)
  <2>1. /\ db'.phase = "new" /\ db.phase = "new" /\ db'.proxy = db.proxy
        /\ db'.held = AddPassThrough(db.held, e) /\ pc = "idle" /\ pc' = "idle"
        /\ conn' = conn /\ given' = given /\ next' = next
    BY <1>1, <1>6 DEF SetNativeOption, NewDatabase, ButDb, Fresh, Idle
  <2>2. e \in OptionRecord /\ e.key = k /\ e.value = v
    BY DEF Option, OptionRecord
  <2>3. /\ asked.db \in Options /\ asked.conn \in Options /\ db.held \in Seq(OptionRecord)
        /\ Agree(db.held, asked.db) /\ given.db = None
        /\ asked \in [db : Options, conn : Options]
    BY <2>1 DEF OptionsInv, OptionTypes, DatabaseOptions
  <2>4. asked'.db = [asked.db EXCEPT ![k] = v] /\ asked'.conn = asked.conn
    BY <1>6, <2>3 DEF SetNativeOption
  <2> HIDE DEF e
  <2>5. /\ AddPassThrough(db.held, e) \in Seq(OptionRecord)
        /\ [asked.db EXCEPT ![e.key] = e.value] \in Options
        /\ Agree(AddPassThrough(db.held, e), [asked.db EXCEPT ![e.key] = e.value])
    BY <2>2, <2>3, HoldAgrees
  <2>6. asked' \in [db : Options, conn : Options]
    BY <1>6, <2>2, <2>3, <2>5 DEF SetNativeOption
  <2>7. OptionTypes'
    BY <2>1, <2>5, <2>6 DEF OptionsInv, OptionTypes
  <2>8. DatabaseOptions'
    BY <2>1, <2>2, <2>3, <2>4, <2>5 DEF DatabaseOptions, Agree, Replayed
  <2>9. ConnectionOptions'
    BY <2>1, <2>4, ConnectionFrame
  <2> QED BY <2>7, <2>8, <2>9 DEF OptionsInv
<1> QED BY <1>3, <1>4, <1>5, <1>6 DEF SetDatabaseOption


(* AdbcDatabaseInit up to the hand-over or the decision for ODBC.          *)
LEMMA OptionsDecide ==
  ASSUME OptionsInv, HandOverInv,
         \/ DatabaseInit \/ LoadNativeDriver \/ NativeDatabaseNew \/ NativeRejects
         \/ ProbeOpens \/ ProbeSucceeds \/ ProbeFails
  PROVE  OptionsInv'
<1>1. /\ db.phase \in {"new", "init"} /\ DOMAIN db = DOMAIN NewDatabase /\ pc # "replay"
      /\ pc # "idle" => db.phase = "init"
  BY DEF HandOverInv, Records, Decision, Deciding, HandingOver, DatabaseInit, Fresh, Idle,
     LoadNativeDriver, NativeDatabaseNew, NativeRejects, ProbeOpens, ProbeSucceeds, ProbeFails
<1>2. conn' = conn /\ asked' = asked
  BY DEF DatabaseInit, LoadNativeDriver, NativeDatabaseNew, NativeRejects, ProbeOpens,
     ProbeSucceeds, ProbeFails, ButInit
<1>3. /\ given \in [db : Options, conn : Options] /\ next \in Nat
      /\ db.held \in Seq(OptionRecord) /\ asked.db \in Options /\ Agree(db.held, asked.db)
  BY <1>1 DEF OptionsInv, OptionTypes, DatabaseOptions
<1>4. CASE DatabaseInit
  <2>1. pc = "idle" /\ db.phase = "new" /\ given' = given /\ next' = next
    BY <1>4 DEF DatabaseInit, Fresh, Idle
  <2>2. given.db = None
    BY <2>1 DEF OptionsInv, DatabaseOptions
  <2>3. /\ db'.held = db.held /\ db'.phase \in {"init", "failed"}
        /\ pc' \in {"env", "idle", "load"}
    <3>1. CASE db' = [db EXCEPT !.phase = "init", !.to = "odbc"] /\ pc' = "env"
      BY <1>1, <3>1 DEF NewDatabase
    <3>2. CASE Failed([db EXCEPT !.to = "odbc"])
      BY <1>1, <3>2 DEF Failed, NewDatabase
    <3>3. ASSUME NEW f \in DetectNative(db.uri),
                 LET d == [db EXCEPT !.phase = "init", !.family = f]
                 IN  IF f = "none" THEN DelegateGiveUp(d) ELSE db' = d /\ pc' = "load"
          PROVE  /\ db'.held = db.held /\ db'.phase \in {"init", "failed"}
                 /\ pc' \in {"env", "idle", "load"}
      <4> DEFINE d == [db EXCEPT !.phase = "init", !.family = f]
      <4>1. DOMAIN d = DOMAIN NewDatabase /\ d.held = db.held /\ d.phase = "init"
        BY <1>1 DEF NewDatabase
      <4>2. DelegateGiveUp(d) \/ (db' = d /\ pc' = "load")
        BY <3>3
      <4> HIDE DEF d
      <4> QED BY <4>1, <4>2, GiveUpHolds
    <3> QED BY <1>4, <3>1, <3>2, <3>3 DEF DatabaseInit
  <2> QED BY <1>1, <1>2, <1>3, <2>1, <2>2, <2>3, DecidingFrame
<1>5. CASE LoadNativeDriver
  <2>1. pc = "load" /\ given' = given /\ next' = next /\ db.phase = "init"
    BY <1>1, <1>5 DEF LoadNativeDriver
  <2>2. given.db = None
    BY <2>1 DEF OptionsInv, DatabaseOptions
  <2>3. /\ db'.held = db.held /\ db'.phase \in {"init", "failed"}
        /\ pc' \in {"env", "idle", "new"}
    BY <1>1, <1>5, <2>1, GiveUpHolds DEF LoadNativeDriver
  <2> QED BY <1>1, <1>2, <1>3, <2>1, <2>2, <2>3, DecidingFrame
<1>6. CASE NativeDatabaseNew
  <2>1. /\ pc = "new" /\ given' = given /\ next' = 1 /\ db' = db /\ db.phase = "init"
        /\ pc' \in {"reject", "options"}
    BY <1>1, <1>6 DEF NativeDatabaseNew
  <2>2. given.db = None /\ Replayed(db.held, asked.db, 1) = None
    BY <1>3, <2>1, ReplayFacts DEF OptionsInv, DatabaseOptions
  <2>3. next' \in 1..(Len(db.held) + 1) /\ given'.db = Replayed(db.held, asked.db, next')
    BY <1>3, <2>1, <2>2
  <2> QED BY <1>1, <1>2, <1>3, <2>1, <2>3, DecidingFrame
<1>7. CASE NativeRejects \/ ProbeFails
  <2>1. /\ next' = 0 /\ given' = [given EXCEPT !.db = None] /\ db.phase = "init"
    BY <1>1, <1>7 DEF NativeRejects, ProbeFails
  <2>2. given' \in [db : Options, conn : Options] /\ given'.conn = given.conn
    BY <1>3, <2>1, NoneFacts
  <2>3. /\ db'.held = db.held /\ db'.phase \in {"init", "failed"} /\ pc' \in {"env", "idle"}
    <3>1. CASE NativeRejects
      <4> DEFINE d == [db EXCEPT !.refused = (db.uri = "native")]
                 e == [d EXCEPT !.to = "odbc"]
      <4>1. /\ DOMAIN d = DOMAIN NewDatabase /\ d.held = db.held /\ d.phase = "init"
            /\ DOMAIN e = DOMAIN NewDatabase /\ e.held = db.held /\ e.phase = "init"
        BY <1>1, <2>1 DEF NewDatabase
      <4>2. Failed(e) \/ DelegateGiveUp(d)
        BY <3>1 DEF NativeRejects
      <4> HIDE DEF d, e
      <4> QED BY <4>1, <4>2, GiveUpHolds
    <3>2. CASE ProbeFails
      BY <1>1, <2>1, <3>2, GiveUpHolds DEF ProbeFails
    <3> QED BY <1>7, <3>1, <3>2
  <2> QED BY <1>1, <1>2, <1>3, <2>1, <2>2, <2>3, DecidingFrame
<1>8. CASE ProbeOpens \/ ProbeSucceeds
  <2>1. /\ db' = db /\ given' = given /\ next' = next /\ db.phase = "init"
        /\ pc \in {"probe", "probed"} /\ pc' \in {"probed", "probeFailed", "handOver"}
    BY <1>1, <1>8 DEF ProbeOpens, ProbeSucceeds
  <2>2. given.db = asked.db
    BY <2>1 DEF OptionsInv, DatabaseOptions
  <2> QED BY <1>1, <1>2, <1>3, <2>1, <2>2, DecidingFrame
<1> QED BY <1>4, <1>5, <1>6, <1>7, <1>8

(* The held options are given to the native database one by one.           *)
LEMMA OptionsGiven ==
  ASSUME OptionsInv, HandOverInv, NativeOptions
  PROVE  OptionsInv'
<1>1. /\ db.phase = "init" /\ pc = "options" /\ db' = db /\ conn' = conn /\ asked' = asked
  BY DEF HandOverInv, Decision, Deciding, HandingOver, NativeOptions, ButInit
<1>2. /\ given \in [db : Options, conn : Options] /\ next \in 1..(Len(db.held) + 1)
      /\ db.held \in Seq(OptionRecord) /\ asked.db \in Options /\ Agree(db.held, asked.db)
      /\ given.db = Replayed(db.held, asked.db, next) /\ Len(db.held) \in Nat
  BY <1>1 DEF OptionsInv, OptionTypes, DatabaseOptions
<1>3. CASE pc' = "reject" /\ given' = given /\ next' = next
  BY <1>1, <1>2, <1>3, DecidingFrame
<1>4. CASE /\ next <= Len(db.held) /\ next' = next + 1 /\ pc' = pc
           /\ given' = [given EXCEPT !.db[db.held[next].key] = db.held[next].value]
  <2>1. next \in 1..Len(db.held) /\ next' \in 1..(Len(db.held) + 1) /\ next' \in Nat
    BY <1>2, <1>4
  <2>2. db.held[next].key \in DOMAIN None /\ db.held[next].value \in Values \cup {Unset}
    BY <2>1, OptionFacts DEF OptionsInv
  <2>3. /\ given' \in [db : Options, conn : Options] /\ given'.conn = given.conn
        /\ given'.db = [given.db EXCEPT ![db.held[next].key] = db.held[next].value]
    BY <1>2, <1>4, <2>2 DEF Options
  <2>4. given'.db = Replayed(db.held, asked.db, next')
    <3>0. \A n \in 1..Len(db.held) : Replayed(db.held, asked.db, n + 1)
            = [Replayed(db.held, asked.db, n) EXCEPT ![db.held[n].key] = db.held[n].value]
      <4>1. db.held \in Seq(OptionRecord) /\ asked.db \in Options /\ Agree(db.held, asked.db)
        BY <1>2
      <4> QED BY <4>1, ReplayFacts
    <3>1. Replayed(db.held, asked.db, next + 1)
            = [Replayed(db.held, asked.db, next) EXCEPT ![db.held[next].key] = db.held[next].value]
      BY <2>1, <3>0
    <3>2. next' = next + 1
      BY <1>4
    <3> QED BY <1>2, <2>3, <3>1, <3>2, Zenon
  <2> QED BY <1>1, <1>2, <1>4, <2>1, <2>3, <2>4, DecidingFrame
<1>5. CASE ~(next <= Len(db.held)) /\ pc' \in {"probe", "handOver"} /\ given' = given /\ next' = next
  <2>1. next = Len(db.held) + 1
    BY <1>2, <1>5
  <2>2. given.db = asked.db
    BY <1>2, <2>1, ReplayFacts
  <2> QED BY <1>1, <1>2, <1>5, <2>2, DecidingFrame
<1> QED BY <1>3, <1>4, <1>5 DEF NativeOptions

(* Who serves the database has been decided.                               *)
LEMMA OptionsServed ==
  ASSUME OptionsInv, HandOverInv, HandOver \/ OpenEnvironment \/ DatabaseRelease
  PROVE  OptionsInv'
<1>1. DOMAIN db = DOMAIN NewDatabase
  BY DEF HandOverInv, Records
<1>2. CASE HandOver
  <2>1. /\ db'.phase = "ok" /\ db'.proxy = found /\ db'.held = db.held /\ pc' = "idle"
        /\ next' = 0 /\ given' = given /\ conn' = conn /\ asked' = asked /\ pc = "handOver"
    BY <1>1, <1>2 DEF HandOver, NewDatabase, ButInit
  <2>2. found # "none" /\ given.db = asked.db
    BY <2>1 DEF HandOverInv, Decision, HandingOver, OptionsInv, DatabaseOptions
  <2>3. OptionTypes'
    BY <2>1 DEF OptionsInv, OptionTypes
  <2>4. DatabaseOptions'
    BY <2>1, <2>2 DEF DatabaseOptions
  <2>5. ConnectionOptions'
    BY <2>1, ConnectionFrame
  <2> QED BY <2>3, <2>4, <2>5 DEF OptionsInv
<1>3. CASE OpenEnvironment
  <2>1. /\ pc = "env" /\ given' = given /\ next' = next /\ conn' = conn /\ asked' = asked
        /\ db.phase = "init" /\ db.proxy = "none"
    BY <1>3 DEF OpenEnvironment, ButInit, HandOverInv, Decision, Deciding
  <2>2. \/ db'.phase = "failed" /\ db'.held = db.held /\ pc' = "idle"
        \/ /\ db'.phase = "ok" /\ db'.held = db.held /\ db'.proxy = "none" /\ pc' = "idle"
           /\ db.held = <<>>
    <3>1. ASSUME NEW uri, NEW henv, Failed(db) \/ Failed([db EXCEPT !.uri = uri, !.henv = henv])
          PROVE  db'.phase = "failed" /\ db'.held = db.held /\ pc' = "idle"
      BY <1>1, <3>1 DEF Failed, NewDatabase
    <3>2. ASSUME NEW uri, db' = [db EXCEPT !.uri = uri, !.henv = TRUE, !.phase = "ok"]
          PROVE  db'.phase = "ok" /\ db'.held = db.held /\ db'.proxy = "none"
      BY <1>1, <2>1, <3>2 DEF NewDatabase
    <3> QED BY <1>3, <3>1, <3>2 DEF OpenEnvironment, HeldOption
  <2>3. Agree(db.held, asked.db) /\ asked.db \in Options
    BY <2>1 DEF OptionsInv, OptionTypes, DatabaseOptions
  <2>4. db.held = <<>> => asked.db = None
    <3> SUFFICES ASSUME db.held = <<>> PROVE asked.db = None
      OBVIOUS
    <3>1. \A k \in DOMAIN None : asked.db[k] = Unset
      BY <2>3 DEF Agree
    <3> QED BY <2>3, <3>1 DEF Options, None
  <2>5. OptionTypes'
    BY <2>1, <2>2 DEF OptionsInv, OptionTypes
  <2>6. DatabaseOptions'
    BY <2>1, <2>2, <2>4 DEF DatabaseOptions
  <2>7. ConnectionOptions'
    BY <2>1, <2>2, ConnectionFrame
  <2> QED BY <2>5, <2>6, <2>7 DEF OptionsInv
<1>4. CASE DatabaseRelease
  <2>1. /\ pc = "idle" /\ pc' = "idle" /\ next' = next /\ conn' = conn /\ conn.phase = "none"
        /\ given' = Both(None) /\ asked' = Both(None) /\ db' = NewDatabase
    BY <1>4 DEF DatabaseRelease, Idle
  <2>2. db'.phase = "new" /\ db'.held = <<>>
    BY <2>1 DEF NewDatabase
  <2>3. OptionTypes'
    BY <2>1, <2>2, NoneFacts DEF OptionsInv, OptionTypes
  <2>4. Agree(<<>>, None)
    BY DEF Agree, None
  <2>5. DatabaseOptions'
    BY <2>1, <2>2, <2>4, NoneFacts DEF DatabaseOptions
  <2>6. ConnectionOptions'
    BY <2>1, NoneFacts DEF ConnectionOptions
  <2> QED BY <2>3, <2>5, <2>6 DEF OptionsInv
<1> QED BY <1>2, <1>3, <1>4


(* An option asked for before the connection is initialised is held.       *)
LEMMA OptionsHeld ==
  ASSUME OptionsInv, HandOverInv, NEW k \in Keys \cup {Autocommit}, NEW v \in Values,
         NEW typed \in BOOLEAN,
         HoldOption(k, v, typed) \/ (SetAutocommitEarly(v) /\ k = Autocommit /\ typed = FALSE)
  PROVE  OptionsInv'
<1> DEFINE e == Option(k, v, typed)
<1>1. DOMAIN conn = DOMAIN NoConnection
  BY DEF HandOverInv, Records
<1>2. /\ conn.phase = "new" /\ conn'.phase = "new" /\ conn'.pre = AddPassThrough(conn.pre, e)
      /\ conn'.held = TRUE \/ (conn'.held = conn.held /\ k = Autocommit)
      /\ pc = "idle" /\ pc' = "idle" /\ next' = next /\ given' = given /\ db' = db
      /\ asked' = [asked EXCEPT !.conn[k] = v]
  <2>1. CASE HoldOption(k, v, typed)
    BY <1>1, <2>1 DEF HoldOption, PreOption, NoConnection, ButConn, Idle
  <2>2. CASE SetAutocommitEarly(v) /\ k = Autocommit /\ typed = FALSE
    BY <1>1, <2>2 DEF SetAutocommitEarly, PreOption, NoConnection, ButConn, Idle
  <2> QED BY <2>1, <2>2
<1>3. e \in OptionRecord /\ e.key = k /\ e.value = v
  BY DEF Option, OptionRecord
<1>4. /\ asked \in [db : Options, conn : Options] /\ asked.conn \in Options
      /\ conn.pre \in Seq(OptionRecord) /\ Agree(conn.pre, asked.conn) /\ given.conn = None
      /\ ~conn.held => \A j \in DOMAIN conn.pre : conn.pre[j].key = Autocommit
  BY <1>2 DEF OptionsInv, OptionTypes, ConnectionOptions
<1>5. asked'.conn = [asked.conn EXCEPT ![k] = v] /\ asked'.db = asked.db
  BY <1>2, <1>4
<1> HIDE DEF e
<1>6. /\ AddPassThrough(conn.pre, e) \in Seq(OptionRecord)
      /\ [asked.conn EXCEPT ![e.key] = e.value] \in Options
      /\ Agree(AddPassThrough(conn.pre, e), [asked.conn EXCEPT ![e.key] = e.value])
      /\ \A j \in DOMAIN AddPassThrough(conn.pre, e) :
           \/ AddPassThrough(conn.pre, e)[j] = e
           \/ \E i \in DOMAIN conn.pre : AddPassThrough(conn.pre, e)[j] = conn.pre[i]
  BY <1>3, <1>4, HoldAgrees
<1>7. asked' \in [db : Options, conn : Options]
  BY <1>2, <1>3, <1>4, <1>6
<1>8. OptionTypes'
  BY <1>2, <1>6, <1>7 DEF OptionsInv, OptionTypes
<1>9. DatabaseOptions'
  BY <1>2, <1>5, DatabaseFrame
<1>10. ~conn'.held => \A j \in DOMAIN conn'.pre : conn'.pre[j].key = Autocommit
  BY <1>2, <1>3, <1>4, <1>6
<1>11. Agree(conn'.pre, asked'.conn)
  BY <1>2, <1>3, <1>5, <1>6
<1>12. ConnectionOptions'
  BY <1>2, <1>4, <1>10, <1>11 DEF ConnectionOptions
<1> QED BY <1>8, <1>9, <1>12 DEF OptionsInv

(* The connection is created, initialised over ODBC or given to the native *)
(* driver, and released.                                                   *)
LEMMA OptionsConnect ==
  ASSUME OptionsInv, HandOverInv, ConnectionNew \/ ConnectionInitOdbc \/ ProxyConnectionNew
         \/ ConnectionRelease
  PROVE  OptionsInv'
<1>1. DOMAIN conn = DOMAIN NoConnection
  BY DEF HandOverInv, Records
<1>2. /\ db' = db /\ pc = "idle" /\ pc' \in {"idle", "replay"}
      /\ given \in [db : Options, conn : Options] /\ asked \in [db : Options, conn : Options]
      /\ conn.pre \in Seq(OptionRecord) /\ next \in Nat
  BY DEF ConnectionNew, ConnectionInitOdbc, ProxyConnectionNew, ConnectionRelease, ConnFailed,
     Idle, OptionsInv, OptionTypes
<1>3. CASE ConnectionNew
  <2>1. /\ conn.phase = "none" /\ conn'.phase = "new" /\ conn'.pre = <<>> /\ conn'.held = FALSE
        /\ given' = given /\ asked' = asked /\ next' = next /\ pc' = pc
    BY <1>3 DEF ConnectionNew, NoConnection
  <2>2. given.conn = None /\ asked.conn = None
    BY <2>1 DEF OptionsInv, ConnectionOptions
  <2>3. OptionTypes'
    <3>0. <<>> \in Seq(OptionRecord)
      OBVIOUS
    <3>1. conn'.pre \in Seq(OptionRecord) /\ conn'.held \in BOOLEAN
      BY <2>1, <3>0, Zenon
    <3>2. db'.held \in Seq(OptionRecord)
      BY <1>2 DEF OptionsInv, OptionTypes
    <3> QED BY <1>2, <2>1, <3>1, <3>2 DEF OptionTypes
  <2>4. DatabaseOptions'
    BY <1>2, <2>1, DatabaseFrame
  <2>5. Agree(<<>>, None)
    BY DEF Agree, None
  <2>6. ConnectionOptions'
    BY <1>2, <2>1, <2>2, <2>5 DEF ConnectionOptions
  <2> QED BY <2>3, <2>4, <2>6 DEF OptionsInv
<1>4. CASE ConnectionInitOdbc
  <2>1. /\ conn.phase = "new" /\ given' = given /\ asked' = asked /\ next' = next /\ pc' = "idle"
        /\ ~conn.proxy
    BY <1>2, <1>4 DEF ConnectionInitOdbc, ConnFailed, HandOverInv, Opened
  <2>2. /\ conn'.pre = conn.pre /\ conn'.held = conn.held
        /\ \/ conn'.phase = "failed"
           \/ conn'.phase = "ok" /\ ~conn'.proxy /\ ~conn.held
    BY <1>1, <1>4, <2>1 DEF ConnectionInitOdbc, ConnFailed, NoConnection
  <2>3. OptionTypes'
    BY <1>2, <2>1, <2>2 DEF OptionsInv, OptionTypes
  <2>4. DatabaseOptions'
    BY <1>2, <2>1, DatabaseFrame
  <2>5. ~conn.held => \A k \in Keys : asked.conn[k] = Unset
    <3> SUFFICES ASSUME ~conn.held, NEW k \in Keys, asked.conn[k] # Unset PROVE FALSE
      OBVIOUS
    <3>1. k \in DOMAIN None /\ k # Autocommit
      BY DelegationAssumption DEF None
    <3>2. PICK j \in DOMAIN conn.pre : conn.pre[j].key = k
      BY <2>1, <3>1 DEF OptionsInv, ConnectionOptions, Agree
    <3> QED BY <2>1, <3>1, <3>2 DEF OptionsInv, ConnectionOptions
  <2>6. ConnectionOptions'
    BY <2>1, <2>2, <2>5 DEF ConnectionOptions
  <2> QED BY <2>3, <2>4, <2>6 DEF OptionsInv
<1>5. CASE ProxyConnectionNew
  <2>1. conn.phase = "new" /\ given' = given /\ asked' = asked
    BY <1>5 DEF ProxyConnectionNew
  <2>2. \/ next' = 1 /\ pc' = "replay" /\ conn' = conn
        \/ /\ conn'.phase = "failed" /\ conn'.pre = conn.pre /\ conn'.held = conn.held
           /\ pc' = "idle" /\ next' = next
    BY <1>1, <1>5 DEF ProxyConnectionNew, ConnFailed, NoConnection
  <2>3. OptionTypes'
    BY <1>2, <2>1, <2>2 DEF OptionsInv, OptionTypes
  <2>4. DatabaseOptions'
    BY <1>2, <2>1, DatabaseFrame
  <2>5. asked.conn \in Options /\ Agree(conn.pre, asked.conn) /\ given.conn = None
    BY <1>2, <2>1 DEF OptionsInv, OptionTypes, ConnectionOptions
  <2>6. Replayed(conn.pre, asked.conn, 1) = None /\ 1 \in 1..(Len(conn.pre) + 1)
    BY <1>2, <2>5, ReplayFacts
  <2>7. CASE next' = 1 /\ pc' = "replay" /\ conn' = conn
    <3>1. ConnectionOptions'
      BY <2>1, <2>5, <2>6, <2>7 DEF OptionsInv, ConnectionOptions
    <3> QED BY <2>3, <2>4, <3>1 DEF OptionsInv
  <2>8. CASE conn'.phase = "failed" /\ pc' = "idle"
    <3>1. ConnectionOptions'
      BY <2>8 DEF ConnectionOptions
    <3> QED BY <2>3, <2>4, <3>1 DEF OptionsInv
  <2> QED BY <2>2, <2>7, <2>8
<1>6. CASE ConnectionRelease
  <2>1. /\ conn' = NoConnection /\ next' = next /\ pc' = "idle"
        /\ given' = [given EXCEPT !.conn = None] /\ asked' = [asked EXCEPT !.conn = None]
    BY <1>2, <1>6 DEF ConnectionRelease
  <2>2. /\ conn'.phase = "none" /\ conn'.pre = <<>> /\ conn'.held = FALSE
    BY <2>1 DEF NoConnection
  <2>3. /\ given'.conn = None /\ asked'.conn = None /\ given'.db = given.db /\ asked'.db = asked.db
        /\ given' \in [db : Options, conn : Options] /\ asked' \in [db : Options, conn : Options]
    BY <1>2, <2>1, NoneFacts
  <2>4. OptionTypes'
    <3>0. <<>> \in Seq(OptionRecord)
      OBVIOUS
    <3>1. conn'.pre \in Seq(OptionRecord) /\ conn'.held \in BOOLEAN
      BY <2>2, <3>0, Zenon
    <3>2. db'.held \in Seq(OptionRecord)
      BY <1>2 DEF OptionsInv, OptionTypes
    <3> QED BY <1>2, <2>1, <2>3, <3>1, <3>2 DEF OptionTypes
  <2>5. DatabaseOptions'
    BY <1>2, <2>3, DatabaseFrame
  <2>6. ConnectionOptions'
    BY <2>1, <2>2, <2>3 DEF ConnectionOptions
  <2> QED BY <2>4, <2>5, <2>6 DEF OptionsInv
<1> QED BY <1>3, <1>4, <1>5, <1>6

(* The native connection is given the held options, then its own.          *)
LEMMA OptionsReplayed ==
  ASSUME OptionsInv, HandOverInv, ProxyReplay
  PROVE  OptionsInv'
<1>1. DOMAIN conn = DOMAIN NoConnection
  BY DEF HandOverInv, Records
<1>2. /\ db' = db /\ pc = "replay" /\ pc' \in {"idle", "replay"} /\ asked' = asked
      /\ conn.phase = "new"
  BY DEF ProxyReplay, ConnFailed, OptionsInv, ConnectionOptions
<1>3. /\ given \in [db : Options, conn : Options] /\ asked.conn \in Options
      /\ conn.pre \in Seq(OptionRecord) /\ Len(conn.pre) \in Nat /\ Agree(conn.pre, asked.conn)
      /\ next \in 1..(Len(conn.pre) + 1) /\ given.conn = Replayed(conn.pre, asked.conn, next)
  BY <1>2 DEF OptionsInv, OptionTypes, ConnectionOptions
<1>4. CASE /\ next <= Len(conn.pre) /\ next' = next + 1 /\ conn' = conn /\ pc' = pc
           /\ given' = [given EXCEPT !.conn[conn.pre[next].key] = conn.pre[next].value]
  <2>1. next \in 1..Len(conn.pre) /\ next' \in 1..(Len(conn.pre) + 1) /\ next' \in Nat
    BY <1>3, <1>4
  <2>2. conn.pre[next].key \in DOMAIN None /\ conn.pre[next].value \in Values \cup {Unset}
    BY <2>1, OptionFacts DEF OptionsInv
  <2>3. /\ given' \in [db : Options, conn : Options] /\ given'.db = given.db
        /\ given'.conn = [given.conn EXCEPT ![conn.pre[next].key] = conn.pre[next].value]
    BY <1>3, <1>4, <2>2 DEF Options
  <2>4. given'.conn = Replayed(conn.pre, asked.conn, next')
    <3>0. \A n \in 1..Len(conn.pre) : Replayed(conn.pre, asked.conn, n + 1)
            = [Replayed(conn.pre, asked.conn, n) EXCEPT ![conn.pre[n].key] = conn.pre[n].value]
      <4>1. conn.pre \in Seq(OptionRecord) /\ asked.conn \in Options /\ Agree(conn.pre, asked.conn)
        BY <1>3
      <4> QED BY <4>1, ReplayFacts
    <3>1. Replayed(conn.pre, asked.conn, next + 1)
            = [Replayed(conn.pre, asked.conn, next) EXCEPT ![conn.pre[next].key] = conn.pre[next].value]
      BY <2>1, <3>0
    <3>2. next' = next + 1
      BY <1>4
    <3> QED BY <1>3, <2>3, <3>1, <3>2, Zenon
  <2>5. OptionTypes'
    BY <1>2, <1>4, <2>1, <2>3 DEF OptionsInv, OptionTypes
  <2>6. DatabaseOptions'
    BY <1>2, <2>3, DatabaseFrame
  <2>7. ConnectionOptions'
    BY <1>2, <1>4, <2>1, <2>4 DEF OptionsInv, ConnectionOptions
  <2> QED BY <2>5, <2>6, <2>7 DEF OptionsInv
<1>5. CASE ConnFailed(conn) /\ next' = 0 /\ given' = given
  <2>1. conn'.phase = "failed" /\ conn'.pre = conn.pre /\ conn'.held = conn.held /\ pc' = "idle"
    BY <1>1, <1>5 DEF ConnFailed, NoConnection
  <2>2. OptionTypes'
    BY <1>2, <1>5, <2>1 DEF OptionsInv, OptionTypes
  <2>3. DatabaseOptions'
    BY <1>2, <1>5, DatabaseFrame
  <2>4. ConnectionOptions'
    BY <2>1 DEF ConnectionOptions
  <2> QED BY <2>2, <2>3, <2>4 DEF OptionsInv
<1>6. CASE /\ next > Len(conn.pre) /\ conn' = [conn EXCEPT !.phase = "ok", !.proxy = TRUE]
           /\ pc' = "idle" /\ next' = 0 /\ given' = given
  <2>1. conn'.phase = "ok" /\ conn'.proxy /\ conn'.pre = conn.pre /\ conn'.held = conn.held
    BY <1>1, <1>6 DEF NoConnection
  <2>2. given.conn = asked.conn
    <3>1. next = Len(conn.pre) + 1
      BY <1>3, <1>6
    <3> QED BY <1>3, <3>1, ReplayFacts
  <2>3. OptionTypes'
    BY <1>2, <1>6, <2>1 DEF OptionsInv, OptionTypes
  <2>4. DatabaseOptions'
    BY <1>2, <1>6, DatabaseFrame
  <2>5. ConnectionOptions'
    BY <1>2, <1>6, <2>1, <2>2 DEF ConnectionOptions
  <2> QED BY <2>3, <2>4, <2>5 DEF OptionsInv
<1> QED BY <1>4, <1>5, <1>6 DEF ProxyReplay

(* The other calls on a connection that is open.                           *)
LEMMA OptionsForwarded ==
  ASSUME OptionsInv, HandOverInv,
         \/ ProxyStatementNew \/ ProxyStatementRelease \/ (\E v \in Values : SetAutocommit(v))
         \/ (\E k \in Keys \cup {Autocommit}, v \in Values, typed \in BOOLEAN :
               ForwardOption(k, v, typed))
  PROVE  OptionsInv'
<1>1. DOMAIN conn = DOMAIN NoConnection
  BY DEF HandOverInv, Records
<1>2. /\ db' = db /\ pc = "idle" /\ pc' = "idle" /\ next' = next
  BY DEF ProxyStatementNew, ProxyStatementRelease, SetAutocommit, ForwardOption, Idle
<1>3. CASE \/ ProxyStatementNew \/ ProxyStatementRelease \/ (\E v \in Values : SetAutocommit(v))
  <2>1. /\ given' = given /\ asked' = asked
        /\ conn' = conn \/ \E v \in Values : conn' = [conn EXCEPT !.auto = v]
    BY <1>3 DEF ProxyStatementNew, ProxyStatementRelease, SetAutocommit
  <2>2. /\ conn'.phase = conn.phase /\ conn'.pre = conn.pre /\ conn'.held = conn.held
        /\ conn'.proxy = conn.proxy
    BY <1>1, <2>1 DEF NoConnection
  <2>3. OptionTypes'
    BY <1>2, <2>1, <2>2 DEF OptionsInv, OptionTypes
  <2>4. DatabaseOptions'
    BY <1>2, <2>1, DatabaseFrame
  <2>5. ConnectionOptions'
    BY <1>2, <2>1, <2>2 DEF OptionsInv, ConnectionOptions
  <2> QED BY <2>3, <2>4, <2>5 DEF OptionsInv
<1>4. ASSUME NEW k \in Keys \cup {Autocommit}, NEW v \in Values, NEW typed \in BOOLEAN,
             ForwardOption(k, v, typed)
      PROVE  OptionsInv'
  <2>1. /\ conn.phase = "ok" /\ conn.proxy /\ conn' = conn
        /\ given' = [given EXCEPT !.conn[k] = v] /\ asked' = [asked EXCEPT !.conn[k] = v]
        /\ given \in [db : Options, conn : Options] /\ asked \in [db : Options, conn : Options]
    BY <1>4 DEF ForwardOption, OptionsInv, OptionTypes
  <2>2. given.conn = asked.conn
    BY <2>1 DEF OptionsInv, ConnectionOptions
  <2>3. k \in DOMAIN None
    BY DEF None
  <2>4. /\ given' \in [db : Options, conn : Options] /\ asked' \in [db : Options, conn : Options]
        /\ given'.db = given.db /\ asked'.db = asked.db
        /\ given'.conn = [given.conn EXCEPT ![k] = v] /\ asked'.conn = [asked.conn EXCEPT ![k] = v]
    BY <2>1, <2>3 DEF Options
  <2>5. OptionTypes'
    BY <1>2, <2>1, <2>4 DEF OptionsInv, OptionTypes
  <2>6. DatabaseOptions'
    BY <1>2, <2>4, DatabaseFrame
  <2>7. ConnectionOptions'
    BY <1>2, <2>1, <2>2, <2>4 DEF ConnectionOptions
  <2> QED BY <2>5, <2>6, <2>7 DEF OptionsInv
<1> QED BY <1>3, <1>4

(* An option the application asked for is never dropped: the native driver *)
(* that serves it was given its last value, and ODBC serves only a         *)
(* database and a connection of which nothing more was asked.              *)
THEOREM NoOptionIsEverDropped == Spec => []NoOptionIsDropped
<1>1. Init => OptionsInv
  <2> SUFFICES ASSUME Init PROVE OptionsInv
    OBVIOUS
  <2>1. PICK m \in {"auto", "never", "always"} : db = [NewDatabase EXCEPT !.mode = m]
    BY DEF Init
  <2>2. db.phase = "new" /\ db.held = <<>>
    BY <2>1 DEF NewDatabase
  <2>3. /\ conn = NoConnection /\ given = Both(None) /\ asked = Both(None) /\ next = 0
        /\ pc = "idle"
    BY DEF Init
  <2>4. conn.phase = "none" /\ conn.pre = <<>> /\ conn.held = FALSE
    BY <2>3 DEF NoConnection
  <2>5. Agree(<<>>, None)
    BY DEF Agree, None
  <2>6. OptionTypes
    <3>0. <<>> \in Seq(OptionRecord)
      OBVIOUS
    <3>1. conn.pre \in Seq(OptionRecord) /\ conn.held \in BOOLEAN
      BY <2>4, <3>0, Zenon
    <3>2. db.held \in Seq(OptionRecord)
      BY <2>2
    <3> QED BY <2>3, <3>1, <3>2, NoneFacts DEF OptionTypes
  <2>7. DatabaseOptions
    BY <2>2, <2>3, <2>5, NoneFacts DEF DatabaseOptions
  <2>8. ConnectionOptions
    BY <2>3, <2>4, NoneFacts DEF ConnectionOptions
  <2> QED BY <2>6, <2>7, <2>8 DEF OptionsInv
<1>2. OptionsInv /\ HandOverInv /\ [Next]_vars => OptionsInv'
  <2> SUFFICES ASSUME OptionsInv, HandOverInv, [Next]_vars PROVE OptionsInv'
    OBVIOUS
  <2>1. CASE UNCHANGED vars
    BY <2>1 DEF vars, OptionsInv, OptionTypes, DatabaseOptions, ConnectionOptions
  <2>2. CASE SetDatabaseOption
    BY <2>2, OptionsSet
  <2>3. CASE InitDatabase
    BY <2>3, OptionsDecide, OptionsGiven, OptionsServed DEF InitDatabase
  <2>4. CASE DatabaseRelease
    BY <2>4, OptionsServed
  <2>5. CASE Connection
    <3>1. ASSUME NEW v \in Values, SetAutocommitEarly(v) PROVE OptionsInv'
      BY <3>1, OptionsHeld
    <3> QED BY <2>5, <3>1, OptionsConnect, OptionsReplayed, OptionsForwarded, OptionsHeld
            DEF Connection
  <2> QED BY <2>1, <2>2, <2>3, <2>4, <2>5 DEF Next
<1>3. OptionsInv => NoOptionIsDropped
  BY DEF OptionsInv, DatabaseOptions, ConnectionOptions, NoOptionIsDropped
<1> QED BY <1>1, <1>2, <1>3, HandOverInvariance, PTL DEF Spec
=============================================================================
