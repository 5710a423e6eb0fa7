----------------------------- MODULE Delegation -----------------------------
(***************************************************************************)
(* Who serves a database, from odbc_delegate.c and the database and        *)
(* connection calls of odbc_driver.c.  AdbcDatabaseInit looks for a native *)
(* ADBC driver for the target, stands a native database up and hands the   *)
(* database over to it, or gives up at any of these steps and opens ODBC.  *)
(* Options only a native driver understands are held until it is known who *)
(* serves the database or the connection, then replayed or reported.       *)
(*                                                                         *)
(* An application initialises a database or a connection once, and after a *)
(* failure only releases it; it releases statement, connection, database   *)
(* in that order.  Each call of the native driver may succeed or fail.     *)
(***************************************************************************)
EXTENDS Naturals, Sequences, FiniteSets

CONSTANTS Keys,       \* options that only a native driver understands
          Autocommit  \* ADBC_CONNECTION_OPTION_AUTOCOMMIT

ASSUME DelegationAssumption == IsFiniteSet(Keys) /\ Autocommit \notin Keys

VARIABLES
  db,      \* OdbcDatabase and OdbcDelegateOptions
  found,   \* what the driver manager can load for the target
  native,  \* what the native driver holds open: tables, databases, connections, statements
  conn,    \* OdbcConnection
  stmt,    \* OdbcProxyStatement
  server,  \* SQL_ATTR_AUTOCOMMIT of the ODBC connection
  given,   \* the options the native database and connection were given
  asked,   \* the native-driver options the application's calls accepted
  next,    \* the held option to be replayed next
  pc       \* where the call in progress is

vars == <<db, found, native, conn, stmt, server, given, asked, next, pc>>

Values  == {"true", "false"}
Unset   == "unset"
None    == [k \in Keys \cup {Autocommit} |-> Unset]
Both(f) == [db |-> f, conn |-> f]

(* "barred": an option names a filesystem path and allow_paths is not set. *)
(* "family": of the native target.  "refused": the native driver has       *)
(* refused its own URI.                                                    *)
NewDatabase == [phase |-> "new", uri |-> "none", mode |-> "auto", held |-> <<>>,
                barred |-> FALSE, family |-> "none", proxy |-> "none", henv |-> FALSE,
                to |-> "", refused |-> FALSE]

NoConnection == [phase |-> "none", pre |-> <<>>, held |-> FALSE, auto |-> "true",
                 connected |-> FALSE, proxy |-> FALSE]

Nothing == [table |-> 0, base |-> 0, conn |-> 0, stmt |-> 0]

(* What the places searched for a driver and its loader come to: nothing   *)
(* that loads, this driver itself, or a table of that ADBC version.        *)
Loadable == {"no", "self", "1.0", "1.1"}

Init == /\ db \in {[NewDatabase EXCEPT !.mode = m] : m \in {"auto", "never", "always"}}
        /\ found \in Loadable
        /\ native = Nothing /\ conn = NoConnection /\ stmt = FALSE /\ server = "true"
        /\ given = Both(None) /\ asked = Both(None) /\ next = 0 /\ pc = "idle"

-----------------------------------------------------------------------------
(* Held options.                                                           *)

(* A key that is set again keeps its place and gets the new value.         *)
AddPassThrough(held, e) ==
  IF \E j \in DOMAIN held : held[j].key = e.key
  THEN [j \in DOMAIN held |-> IF held[j].key = e.key THEN e ELSE held[j]]
  ELSE Append(held, e)

PreOption(c, e) == [c EXCEPT !.pre = AddPassThrough(@, e)]

Option(k, v, typed) == [key |-> k, value |-> v, typed |-> typed]

-----------------------------------------------------------------------------
(* AdbcDatabaseSetOption before AdbcDatabaseInit.                          *)

Idle == pc = "idle"
Fresh == Idle /\ db.phase = "new"
ButDb == UNCHANGED <<found, native, conn, stmt, server, given, next, pc>>

SetUri(uri) ==
  /\ Fresh
  /\ db' = [db EXCEPT !.uri = uri]
  /\ ButDb /\ UNCHANGED asked

SetDelegate(mode) ==
  /\ Fresh
  /\ db' = [db EXCEPT !.mode = mode]
  /\ ButDb /\ UNCHANGED asked

(* adbc.odbc.delegate.driver or .search_path, and .allow_paths.            *)
SetDelegatePath(barred) ==
  /\ Fresh
  /\ db' = [db EXCEPT !.barred = barred]
  /\ ButDb /\ UNCHANGED asked

(* With delegation off a native driver's option is refused at once.        *)
SetNativeOption(k, v) ==
  /\ Fresh /\ db.mode # "never"
  /\ db' = [db EXCEPT !.held = AddPassThrough(@, Option(k, v, FALSE))]
  /\ asked' = [asked EXCEPT !.db[k] = v]
  /\ ButDb

-----------------------------------------------------------------------------
(* AdbcDatabaseInit: OdbcDelegateTryInit, then ODBC.                       *)

ButInit == UNCHANGED <<found, conn, stmt, server, asked>>

Failed(d) == /\ db' = [d EXCEPT !.phase = "failed", !.family = "none"]
             /\ pc' = "idle"

(* A slip: "always" is no different from "auto".                           *)
GiveUpQuietly(d) == db' = [d EXCEPT !.to = "odbc", !.family = "none"] /\ pc' = "env"

(* The decision for ODBC, which "always" turns into an error.              *)
DelegateGiveUp(d) ==
  LET given_up == [d EXCEPT !.to = "odbc", !.family = "none"]
  IN  IF d.mode = "always" THEN Failed(given_up) ELSE db' = given_up /\ pc' = "env"

(* OdbcDelegateProxyRelease: the native database, then its driver.         *)
ProxyRelease == [native EXCEPT !.base = 0, !.table = 0]

(* Only PostgreSQL is treated differently from the other known families.   *)
Families == {"postgresql", "other"}

(* A keyword of the DSN or the connection string without an equivalent, or *)
(* a part that is missing or malformed, leaves a target without a URI.     *)
CollectKeywords(family) == {family, "none"}

BuildNativeUri(family) == CollectKeywords(family) \cup {"none"}

(* DetectNative: a native URI names its family; a connection string or DSN *)
(* may name an ODBC driver of one.                                         *)
DetectNative(uri) == IF uri = "native" THEN Families
                     ELSE {"none"} \cup UNION {BuildNativeUri(f) : f \in Families}

(* A path that was not allowed is an error in every mode.                  *)
DatabaseInit ==
  /\ Fresh /\ db.uri # "none"
  /\ \/ /\ db.mode = "never"
        /\ db' = [db EXCEPT !.phase = "init", !.to = "odbc"] /\ pc' = "env"
     \/ /\ db.mode # "never" /\ db.barred
        /\ Failed([db EXCEPT !.to = "odbc"])
     \/ /\ db.mode # "never" /\ ~db.barred
        /\ \E family \in DetectNative(db.uri) :
             LET d == [db EXCEPT !.phase = "init", !.family = family]
             IN  IF family = "none" THEN DelegateGiveUp(d) ELSE db' = d /\ pc' = "load"
  /\ ButInit /\ UNCHANGED <<native, given, next>>

(* LoadNativeDriver asks every candidate for the newest table first.       *)
LoadNativeDriver ==
  /\ pc = "load"
  /\ \/ found \in {"no", "self"} /\ DelegateGiveUp(db) /\ UNCHANGED native
     \/ /\ found \in {"1.0", "1.1"}
        /\ native' = [native EXCEPT !.table = 1]
        /\ pc' = "new" /\ UNCHANGED db
     \/ Failed(db) /\ UNCHANGED native          \* out of memory
  /\ ButInit /\ UNCHANGED <<given, next>>

(* The native database is created and given the target's URI and, when the *)
(* application passed that URI, its credentials, on their own or, for      *)
(* libpq, merged into it ...                                               *)
NativeDatabaseNew ==
  /\ pc = "new"
  /\ \/ native' = [native EXCEPT !.base = 1] /\ pc' \in {"reject", "options"}
     \/ pc' = "reject" /\ UNCHANGED native
  /\ next' = 1
  /\ ButInit /\ UNCHANGED <<db, given>>

(* A slip: ODBC is tried for every target.                                 *)
NeverVerbatim == FALSE

Verbatim == db.uri = "native"

(* A PostgreSQL target that was translated is probed, unless the native    *)
(* driver is insisted on.                                                  *)
Probes == ~Verbatim /\ db.mode # "always" /\ db.family = "postgresql"

(* ... the options held for it, and is initialised.                        *)
NativeOptions ==
  /\ pc = "options"
  /\ IF next <= Len(db.held)
     THEN \/ /\ given' = [given EXCEPT !.db[db.held[next].key] = db.held[next].value]
             /\ next' = next + 1
             /\ UNCHANGED pc
          \/ pc' = "reject" /\ UNCHANGED <<given, next>>
     ELSE /\ pc' \in {"reject", IF Probes THEN "probe" ELSE "handOver"}
          /\ UNCHANGED <<given, next>>
  /\ ButInit /\ UNCHANGED <<db, native>>

(* A native URI the native driver refused is an error: ODBC cannot serve   *)
(* it.  For a translated target the next best is ODBC.                     *)
NativeRejects ==
  /\ pc = "reject"
  /\ native' = ProxyRelease
  /\ given' = [given EXCEPT !.db = None]
  /\ LET d == [db EXCEPT !.refused = (db.uri = "native")]
     IN  IF Verbatim THEN Failed([d EXCEPT !.to = "odbc"]) ELSE DelegateGiveUp(d)
  /\ next' = 0
  /\ ButInit

(* ProbeNative: open a connection and a statement, read a batch, and let   *)
(* go of whatever was opened.                                              *)
ProbeOpens ==
  /\ pc = "probe"
  /\ \/ native' = [native EXCEPT !.conn = 1, !.stmt = 1] /\ pc' \in {"probed", "probeFailed"}
     \/ native' = [native EXCEPT !.conn = 1] /\ pc' = "probeFailed"
     \/ UNCHANGED native /\ pc' = "probeFailed"
  /\ ButInit /\ UNCHANGED <<db, given, next>>

ProbeCloses == [native EXCEPT !.conn = 0, !.stmt = 0]

ProbeSucceeds ==
  /\ pc = "probed"
  /\ native' = ProbeCloses
  /\ pc' = "handOver"
  /\ ButInit /\ UNCHANGED <<db, given, next>>

ProbeFails ==
  /\ pc = "probeFailed"
  /\ native' = [ProxyRelease EXCEPT !.conn = 0, !.stmt = 0]
  /\ given' = [given EXCEPT !.db = None]
  /\ DelegateGiveUp(db)
  /\ next' = 0
  /\ ButInit

HandOver ==
  /\ pc = "handOver"
  /\ db' = [db EXCEPT !.proxy = found, !.to = "native", !.phase = "ok", !.family = "none"]
  /\ pc' = "idle" /\ next' = 0
  /\ ButInit /\ UNCHANGED <<native, given>>

(* A slip: options held for a native driver are forgotten.                 *)
HeldForgotten == FALSE

HeldOption == db.held # <<>>

(* OdbcDelegateNativeUriToOdbc: there may be no ODBC driver of the URI's   *)
(* family, or no place in a connection string for a part of the URI.       *)
NativeUriToOdbc(uri) == IF uri = "native" THEN {"odbc", "none"} ELSE {uri}

(* ODBC serves the database: held options are reported, a native URI is    *)
(* translated, and the environment allocated.                              *)
OpenEnvironment ==
  /\ pc = "env"
  /\ \/ HeldOption /\ Failed(db)
     \/ /\ ~HeldOption
        /\ \E uri \in NativeUriToOdbc(db.uri) :
             \/ uri = "none" /\ Failed(db)
             \/ /\ uri # "none"
                /\ \E henv \in BOOLEAN : Failed([db EXCEPT !.uri = uri, !.henv = henv])
             \/ /\ uri # "none"
                /\ db' = [db EXCEPT !.uri = uri, !.henv = TRUE, !.phase = "ok"]
                /\ pc' = "idle"
  /\ ButInit /\ UNCHANGED <<native, given, next>>

(* AdbcDatabaseRelease, and the next AdbcDatabaseNew.                      *)
DatabaseRelease ==
  /\ Idle /\ conn.phase = "none"
  /\ native' = IF db.proxy # "none" THEN ProxyRelease ELSE native
  /\ db' = NewDatabase
  /\ given' = Both(None) /\ asked' = Both(None)
  /\ UNCHANGED <<found, conn, stmt, server, next, pc>>

-----------------------------------------------------------------------------
(* The connection.                                                         *)

ConnectionNew ==
  /\ Idle /\ conn.phase = "none"
  /\ conn' = [NoConnection EXCEPT !.phase = "new"]
  /\ UNCHANGED <<db, found, native, stmt, server, given, asked, next, pc>>

ButConn == UNCHANGED <<db, found, native, stmt, server, given, next, pc>>

(* An option the ODBC path does not know is held before the connection is  *)
(* initialised, under its type; it knows no option of a double or of bytes. *)
HoldOption(k, v, typed) ==
  /\ Idle /\ conn.phase = "new" /\ (k = Autocommit => typed)
  /\ conn' = [PreOption(conn, Option(k, v, typed)) EXCEPT !.held = TRUE]
  /\ asked' = [asked EXCEPT !.conn[k] = v]
  /\ ButConn

(* Autocommit is ODBC's as well as a native driver's: recorded, not held.  *)
SetAutocommitEarly(v) ==
  /\ Idle /\ conn.phase = "new"
  /\ conn' = [PreOption(conn, Option(Autocommit, v, FALSE)) EXCEPT !.auto = v]
  /\ asked' = [asked EXCEPT !.conn[Autocommit] = v]
  /\ ButConn

SetAutocommit(v) ==
  /\ Idle /\ conn.phase = "ok" /\ conn.connected
  /\ \/ server' = v /\ conn' = [conn EXCEPT !.auto = v]
     \/ UNCHANGED <<server, conn>>
  /\ UNCHANGED <<db, found, native, stmt, given, asked, next, pc>>

(* A delegated connection's options go straight to the native driver.      *)
ForwardOption(k, v, typed) ==
  /\ Idle /\ conn.phase = "ok" /\ conn.proxy /\ (typed => db.proxy = "1.1")
  /\ given' = [given EXCEPT !.conn[k] = v]
  /\ asked' = [asked EXCEPT !.conn[k] = v]
  /\ UNCHANGED <<db, found, native, conn, stmt, server, next, pc>>

ConnFailed(c) == conn' = [c EXCEPT !.phase = "failed"] /\ pc' = "idle"

(* OdbcConnectionInit over ODBC: options held for a native driver are      *)
(* reported, then the connection is opened and autocommit set as asked.    *)
ConnectionInitOdbc ==
  /\ Idle /\ conn.phase = "new" /\ db.phase = "ok" /\ db.proxy = "none"
  /\ \/ conn.held /\ ConnFailed(conn) /\ UNCHANGED server
     \/ /\ ~conn.held
        /\ \/ ConnFailed(conn) /\ UNCHANGED server           \* SQLDriverConnect fails
           \/ /\ conn.auto = "false"                          \* it will not leave autocommit
              /\ ConnFailed([conn EXCEPT !.connected = TRUE])
              /\ server' = "true"
           \/ /\ conn' = [conn EXCEPT !.phase = "ok", !.connected = TRUE]
              /\ server' = conn.auto
              /\ UNCHANGED pc
  /\ UNCHANGED <<db, found, native, stmt, given, asked, next>>

(* OdbcProxyConnectionInit: create, replay the options, initialise.        *)
ProxyConnectionNew ==
  /\ Idle /\ conn.phase = "new" /\ db.phase = "ok" /\ db.proxy # "none"
  /\ \/ /\ native' = [native EXCEPT !.conn = 1] /\ next' = 1 /\ pc' = "replay"
        /\ UNCHANGED conn
     \/ ConnFailed(conn) /\ UNCHANGED <<native, next>>
  /\ UNCHANGED <<db, found, stmt, server, given, asked>>

(* A slip: the connection of a refused option is left open.                *)
LeftOpen == UNCHANGED native

CloseNativeConnection == native' = [native EXCEPT !.conn = 0]

(* A typed option needs the setter of ADBC 1.1.0; the driver may refuse    *)
(* any of them, or the connection.                                         *)
ProxyReplay ==
  /\ pc = "replay"
  /\ \/ /\ next <= Len(conn.pre)
        /\ conn.pre[next].typed => db.proxy = "1.1"
        /\ given' = [given EXCEPT !.conn[conn.pre[next].key] = conn.pre[next].value]
        /\ next' = next + 1
        /\ UNCHANGED <<conn, native, pc>>
     \/ /\ ConnFailed(conn)
        /\ CloseNativeConnection
        /\ next' = 0 /\ UNCHANGED given
     \/ /\ next > Len(conn.pre)
        /\ conn' = [conn EXCEPT !.phase = "ok", !.proxy = TRUE]
        /\ pc' = "idle" /\ next' = 0
        /\ UNCHANGED <<native, given>>
  /\ UNCHANGED <<db, found, stmt, server, asked>>

(* The release of an ODBC connection rolls back and disconnects.           *)
ConnectionRelease ==
  /\ Idle /\ conn.phase # "none" /\ ~stmt
  /\ native' = IF conn.proxy THEN [native EXCEPT !.conn = 0] ELSE native
  /\ conn' = NoConnection /\ server' = "true"
  /\ given' = [given EXCEPT !.conn = None] /\ asked' = [asked EXCEPT !.conn = None]
  /\ UNCHANGED <<db, found, stmt, next, pc>>

ProxyStatementNew ==
  /\ Idle /\ conn.proxy /\ ~stmt
  /\ stmt' = TRUE /\ native' = [native EXCEPT !.stmt = 1]
  /\ UNCHANGED <<db, found, conn, server, given, asked, next, pc>>

ProxyStatementRelease ==
  /\ Idle /\ stmt
  /\ stmt' = FALSE /\ native' = [native EXCEPT !.stmt = 0]
  /\ UNCHANGED <<db, found, conn, server, given, asked, next, pc>>

-----------------------------------------------------------------------------
SetDatabaseOption ==
  \/ \E uri \in {"odbc", "native"} : SetUri(uri)
  \/ \E mode \in {"auto", "never", "always"} : SetDelegate(mode)
  \/ \E barred \in BOOLEAN : SetDelegatePath(barred)
  \/ \E k \in Keys, v \in Values : SetNativeOption(k, v)

InitDatabase ==
  \/ DatabaseInit \/ LoadNativeDriver \/ NativeDatabaseNew
  \/ NativeOptions \/ NativeRejects \/ ProbeOpens \/ ProbeSucceeds \/ ProbeFails
  \/ HandOver \/ OpenEnvironment

Connection ==
  \/ ConnectionNew \/ ConnectionInitOdbc \/ ProxyConnectionNew \/ ProxyReplay
  \/ ConnectionRelease \/ ProxyStatementNew \/ ProxyStatementRelease
  \/ \E v \in Values : SetAutocommitEarly(v) \/ SetAutocommit(v)
  \/ \E k \in Keys \cup {Autocommit}, v \in Values, typed \in BOOLEAN :
       HoldOption(k, v, typed) \/ ForwardOption(k, v, typed)

Next == SetDatabaseOption \/ InitDatabase \/ DatabaseRelease \/ Connection

Spec == Init /\ [][Next]_vars

-----------------------------------------------------------------------------
(* Properties.                                                             *)

OptionRecord == [key : Keys \cup {Autocommit}, value : Values, typed : BOOLEAN]

(* Every variable has its type, and no key is held twice.                  *)
TypeOK ==
  /\ db.phase \in {"new", "init", "ok", "failed"} /\ db.uri \in {"none", "odbc", "native"}
  /\ db.mode \in {"auto", "never", "always"} /\ db.to \in {"", "odbc", "native"}
  /\ db.proxy \in {"none", "1.0", "1.1"} /\ db.family \in Families \cup {"none"}
  /\ db.held \in Seq(OptionRecord)
  /\ Len(db.held) <= Cardinality(Keys) /\ Len(conn.pre) <= Cardinality(Keys) + 1
  /\ native \in [table : 0..1, base : 0..1, conn : 0..1, stmt : 0..1]
  /\ conn.phase \in {"none", "new", "ok", "failed"} /\ conn.pre \in Seq(OptionRecord)
  /\ conn.auto \in Values /\ server \in Values /\ stmt \in BOOLEAN
  /\ given \in [db : [DOMAIN None -> Values \cup {Unset}],
                conn : [DOMAIN None -> Values \cup {Unset}]]
  /\ next \in 0..(Cardinality(Keys) + 2)

Count(b) == IF b THEN 1 ELSE 0

(* Whichever step a hand-over stops at, nothing of the native driver stays *)
(* open unless a database, a connection or a statement is there to release *)
(* it.                                                                     *)
NothingIsLeftOpen ==
  Idle => native = [table |-> Count(db.proxy # "none"), base |-> Count(db.proxy # "none"),
                    conn |-> Count(conn.proxy), stmt |-> Count(stmt)]

(* An option that was accepted is never dropped: if a native driver serves *)
(* the database or the connection, it was given the last value of every    *)
(* option, and ODBC serves only what was asked for nothing it cannot do.   *)
NoOptionIsDropped ==
  Idle =>
    /\ db.phase = "ok" => IF db.proxy # "none" THEN given.db = asked.db ELSE asked.db = None
    /\ conn.phase = "ok" =>
         IF conn.proxy THEN given.conn = asked.conn
         ELSE \A k \in Keys : asked.conn[k] = Unset

(* An initialised database has one server, the one delegated_to names, and *)
(* adbc.odbc.delegate decides: "always" never ends on ODBC, nor "never" on *)
(* a native driver.                                                        *)
OneServer ==
  db.phase = "ok" =>
    /\ db.henv = (db.proxy = "none")
    /\ db.to = IF db.henv THEN "odbc" ELSE "native"
    /\ db.mode = "always" => ~db.henv
    /\ db.mode = "never" => db.henv

(* The answer of the native driver to its own URI stands: a target it      *)
(* refused is not tried again over ODBC, with a worse diagnosis.           *)
NativeAnswerStands == db.refused => db.phase = "failed"

(* The inductive invariant behind OneServer, NativeAnswerStands and        *)
(* NothingIsLeftOpen.  Until AdbcDatabaseInit has decided, the database    *)
(* has no server; what the mode rules out is not reached; the steps of the *)
(* hand-over, the probe and the replay say what is open in between.        *)
HandingOver == {"new", "options", "reject", "probe", "probed", "probeFailed", "handOver"}
Probing     == {"probed", "probeFailed"}
Deciding    == HandingOver \cup {"load", "env"}

Records ==
  /\ DOMAIN db = DOMAIN NewDatabase
  /\ DOMAIN conn = DOMAIN NoConnection
  /\ native \in [table : 0..1, base : 0..1, conn : 0..1, stmt : 0..1]
  /\ db.proxy \in {"none", "1.0", "1.1"} /\ found \in Loadable
  /\ conn.proxy \in BOOLEAN /\ stmt \in BOOLEAN

Decision ==
  /\ pc \in Deciding => db.phase = "init"
  /\ db.phase = "init" => pc \in Deciding
  /\ db.phase \in {"new", "init"} => db.henv = FALSE /\ db.proxy = "none" /\ ~db.refused
  /\ pc \in HandingOver \cup {"load"} => db.mode # "never"
  /\ pc \in HandingOver => found \in {"1.0", "1.1"}
  /\ pc = "env" => db.mode # "always" /\ db.to = "odbc"
  /\ db.phase = "failed" => db.proxy = "none"

Opened ==
  /\ pc \notin HandingOver => native.table = Count(db.proxy # "none") /\ native.base = native.table
  /\ pc \in HandingOver => native.table = 1
  /\ pc = "new" => native.base = 0
  /\ pc \in HandingOver \ {"new", "reject"} => native.base = 1
  /\ stmt => conn.proxy
  /\ conn.proxy => conn.phase = "ok" /\ db.phase = "ok" /\ pc # "replay"
  /\ pc \notin Probing => native.stmt = Count(stmt)
  /\ pc \notin Probing \cup {"replay"} => native.conn = Count(conn.proxy)
  /\ pc = "replay" => native.conn = 1 /\ db.phase = "ok"

HandOverInv == Records /\ Decision /\ Opened /\ OneServer /\ NativeAnswerStands

(* The inductive invariant behind NoOptionIsDropped.  What is held says    *)
(* what was asked for, and a replay has given what comes before next.      *)
Options == [DOMAIN None -> Values \cup {Unset}]

Agree(held, f) ==
  /\ \A j \in DOMAIN held : f[held[j].key] = held[j].value
  /\ \A k \in DOMAIN None : f[k] # Unset => \E j \in DOMAIN held : held[j].key = k

Replayed(held, f, n) ==
  [k \in DOMAIN None |-> IF \E j \in 1..(n - 1) : held[j].key = k THEN f[k] ELSE Unset]

OptionTypes ==
  /\ given \in [db : Options, conn : Options] /\ asked \in [db : Options, conn : Options]
  /\ db.held \in Seq(OptionRecord) /\ conn.pre \in Seq(OptionRecord)
  /\ conn.held \in BOOLEAN /\ next \in Nat

DatabaseOptions ==
  /\ db.phase \in {"new", "init"} => Agree(db.held, asked.db)
  /\ db.phase = "new" \/ pc \in {"load", "new"} => given.db = None
  /\ pc = "options" => /\ next \in 1..(Len(db.held) + 1)
                       /\ given.db = Replayed(db.held, asked.db, next)
  /\ pc \in {"probe", "probed", "probeFailed", "handOver"} => given.db = asked.db
  /\ db.phase = "ok" => IF db.proxy # "none" THEN given.db = asked.db ELSE asked.db = None

ConnectionOptions ==
  /\ conn.phase = "none" => given.conn = None /\ asked.conn = None
  /\ conn.phase = "new" =>
       /\ Agree(conn.pre, asked.conn)
       /\ pc # "replay" => given.conn = None
       /\ ~conn.held => \A j \in DOMAIN conn.pre : conn.pre[j].key = Autocommit
  /\ pc = "replay" => /\ conn.phase = "new" /\ next \in 1..(Len(conn.pre) + 1)
                      /\ given.conn = Replayed(conn.pre, asked.conn, next)
  /\ conn.phase = "ok" => IF conn.proxy THEN given.conn = asked.conn
                          ELSE \A k \in Keys : asked.conn[k] = Unset

OptionsInv == OptionTypes /\ DatabaseOptions /\ ConnectionOptions
=============================================================================
