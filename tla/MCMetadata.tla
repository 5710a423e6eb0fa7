----------------------------- MODULE MCMetadata -----------------------------
(* Small inputs for every call of Metadata.                                *)
EXTENDS Metadata

Seqs(S, n) == UNION {[1 .. k -> S] : k \in 0 .. n}

(* Characters: a, b, '_', and the pattern signs.                           *)
MCPatterns == Seqs({97, Percent, Underscore, Backslash}, 4)
MCNames    == Seqs({97, 66, Underscore}, 3)

-----------------------------------------------------------------------------
a == <<97>>
b == <<98>>
ab == <<97, 98>>
a_ == <<97, Underscore>>
Key(n, cols, to) == [name |-> n, cols |-> cols, to |-> to]
Table(cat, sch, name, type, cols, keys) ==
  [cat |-> cat, sch |-> sch, name |-> name, type |-> type, cols |-> cols, keys |-> keys]

(* One catalog without schemas and unnamed keys; two catalogs, the same    *)
(* names in both, listed twice and out of order; names that are patterns   *)
(* of others.                                                              *)
Flat == {Table(Null, Null, a, "TABLE", <<a, b>>, <<Key(Null, <<a>>, b), Key(Null, <<b, a>>, b)>>),
         Table(Null, Null, b, "VIEW", <<ab>>, <<>>)}
Deep == {Table(a, a, a, "TABLE", <<a, ab>>, <<Key(a, <<a, ab>>, ab), Key(b, <<a>>, b)>>),
         Table(a, b, a, "TABLE", <<b>>, <<>>), Table(b, a, ab, "VIEW", <<a>>, <<>>),
         Table(b, a, a, "TABLE", <<b, a>>, <<>>)}
Alike == {Table(a, a, a_, "TABLE", <<a>>, <<>>), Table(a, a, ab, "VIEW", <<b>>, <<>>),
          Table(a, <<Underscore>>, b, "TABLE", <<ab, a>>, <<>>), Table(a, a, b, "TABLE", <<b>>, <<>>)}
MCServers ==
  {[tables |-> Flat, listing |-> SetToSeq(Flat), current |-> Null],
   [tables |-> Deep, listing |-> SetToSeq(Deep) \o SetToSeq(Deep), current |-> a],
   [tables |-> Alike, listing |-> SetToSeq(Alike), current |-> a]}

(* Names of QuestDB tables are of one namespace.                           *)
Quest == {Table(Null, Null, a, "TABLE", <<a, ab>>, <<>>), Table(Null, Null, ab, "TABLE", <<b>>, <<>>),
          Table(Null, Null, <<66>>, "MATERIALIZED VIEW", <<b, a>>, <<>>)}
MCQuestServers == {[tables |-> Quest, listing |-> SetToSeq(Quest), current |-> Null]}

Driver(ignores, rows, columns, refuses, backwards) ==
  [ignores |-> ignores, catalogs |-> rows, schemas |-> rows, columns |-> columns, refuses |-> refuses,
   backwards |-> backwards, blank |-> ~backwards]
Listing == {[Driver(i, "rows", TRUE, 0, z) EXCEPT !.catalogs = c, !.schemas = s] :
              i \in {{}, {"cat"}, {"sch", "tbl"}}, c \in {"rows", "empty"}, s \in {"rows", "empty"}, z \in BOOLEAN}
Describing == {Driver(i, c, FALSE, n, z) :
                 i \in {{}, {"sch", "tbl"}}, c \in {"rows", "empty"}, n \in 0 .. 3, z \in BOOLEAN}
MCDrivers == Listing \cup Describing

Filters == {Null, <<>>, a, <<97, Percent>>, <<Underscore>>}
MCQueries ==
  {[depth |-> d, cat |-> c, sch |-> s, tbl |-> Null, types |-> {}, col |-> Null] :
     d \in {"catalogs", "schemas"}, c \in Filters, s \in Filters}
  \cup {[depth |-> d, cat |-> c, sch |-> s, tbl |-> t, types |-> y, col |-> k] :
     d \in {"tables", "all"}, c \in {Null, <<>>, a}, s \in {Null, <<Underscore>>},
     t \in {Null, a, <<97, Percent>>, <<97, Backslash, Underscore>>}, y \in {{}, {"VIEW"}}, k \in {Null, <<Percent, 98>>}}

-----------------------------------------------------------------------------
(* One character for each number of UTF-8 bytes.                           *)
MCTexts     == Seqs({65, 233, 8364, 128512}, 3)
MCWideUnits == Seqs({65, 8364, 55357, 56832}, 3)
NarrowRepairs == Seqs({65, 233}, 4)
WideRepairs   == Seqs({65, 8364}, 3)
MCCaps == {2, 5, 16}

-----------------------------------------------------------------------------
F(type, unit) == [type |-> type, unit |-> unit]

MCValues ==
  F("bool", "s")  :> BOOLEAN
  @@ F("int64", "s")  :> {-9, -8, 0, 7, 8}
  @@ F("uint64", "s") :> {0, 7, 8, 15}
  @@ F("double", "s") :> {1}
  @@ F("float", "s")  :> {1}
  @@ F("string", "s") :> {<<>>, <<65>>, Utf8(<<128512>>), Utf8(<<233, 8364>>), <<65, 65, 65, 65, 65, 65>>}
  @@ F("binary", "s") :> {<<>>, <<0>>, <<1, 2, 3, 4>>, <<1, 2, 3, 4, 5, 6>>}
  @@ F("date32", "s") :> {-719529, -25509, -1, 0, 59, 11016, 19782, 11248737, 11248738}
  @@ F("time", "s")   :> {0, 86399}
  @@ F("time", "ms")  :> {0, 999, 86399999}
  @@ F("time", "us")  :> {1, 1234567890}
  @@ F("time", "ns")  :> {1, 100, 1500000001}
  @@ F("timestamp", "s")  :> {-1, 0, 951782400}
  @@ F("timestamp", "ms") :> {-1001, -1, 1500}
  @@ F("timestamp", "us") :> {-1, 1234567890}
  @@ F("timestamp", "ns") :> {-100, -1, 1500000000}
  @@ F("decimal", "s") :> {<<1>>, <<1, 2, 3, 4, 5>>, <<1, 2, 3, 4, 5, 6>>}

(* Dictionaries of two values, of a value and a null, and of none.         *)
Entry(x) == [null |-> FALSE, x |-> x]
Dictionaries(x, y) == {<<Entry(x), Entry(y)>>, <<[null |-> TRUE, x |-> x], Entry(y)>>, <<>>}
MCDicts == [f \in DOMAIN MCValues |->
              CASE f.type = "string" -> Dictionaries(<<65>>, Utf8(<<8364>>))
                [] f.type = "int64" -> Dictionaries(7, 8)
                [] f.type = "decimal" -> Dictionaries(<<1>>, <<1, 2>>)
                [] OTHER -> {}]

MCQuirks == {{}} \cup {{q} : q \in {"bool_param_as_varchar", "bool_param_as_int",
  "bool_param_as_tinyint", "bigint_param_as_string", "wchar_as_utf8", "narrow_params",
  "wide_utf16_pairs", "temporal_binary_param_as_varchar", "binary_param_as_varchar",
  "timestamp_as_text", "no_timestamp_param_arrays", "decimal_param_as_varchar",
  "null_param_as_varchar"}}

-----------------------------------------------------------------------------
Info(params, maxScale, max, plain) ==
  [params |-> params, maxScale |-> maxScale, max |-> max, plain |-> plain]
Bare(sql, size, digits) == Info({}, 0, 0, Described(sql, size, digits))

(* A server with everything; one whose only numbers are decimals and whose *)
(* only string is a VARCHAR; one whose names are of no use.                *)
Rich ==
  [BIT |-> Bare("BIT", 1, 0), SMALLINT |-> Bare("SMALLINT", 5, 0), INTEGER |-> Bare("INTEGER", 10, 0),
   BIGINT |-> Bare("BIGINT", 19, 0), REAL |-> Bare("REAL", 7, 0), DOUBLE |-> Bare("DOUBLE", 15, 0),
   LONGVARCHAR |-> Bare("LONGVARCHAR", 8190, 0), LONGVARBINARY |-> Bare("LONGVARBINARY", 0, 0),
   DATE |-> Bare("DATE", 10, 0), TIME |-> Info({"scale"}, 7, 0, Described("TIME", 16, 0)),
   TIMESTAMP |-> Info({"scale"}, 7, 0, Described("TIMESTAMP", 19, 0)),
   DECIMAL |-> Info({"precision", ",", "scale"}, 38, 0, Described("DECIMAL", 38, 0))]
Poor ==
  [TINYINT |-> Bare("TINYINT", 3, 0), BIGINT |-> Bare("BIGINT", 19, 0), FLOAT |-> Bare("FLOAT", 15, 0),
   VARCHAR |-> Info({"length"}, 0, 4000, Described("VARCHAR", 1, 0)),
   VARBINARY |-> Info({"length"}, 0, 0, Described("VARBINARY", 2000, 0)),
   TIMESTAMP |-> Info({}, 6, 0, Described("TIMESTAMP", 26, 6)),
   NUMERIC |-> Info({"precision", ",", "scale"}, 38, 0, Described("NUMERIC", 38, 0))]
MCInfos == {Rich, Poor}

Field(type, unit, zoned, p, s) ==
  [type |-> type, unit |-> unit, zoned |-> zoned, precision |-> p, scale |-> s]
MCFields ==
  {Field(t, "s", FALSE, 0, 0) : t \in DOMAIN Bits \cup DOMAIN Mantissa \cup {"string", "binary", "date32"}}
  \cup {Field(t, u, z, 0, 0) : t \in {"time", "timestamp"}, u \in {"s", "ms", "us", "ns"}, z \in BOOLEAN}
  \cup {Field("decimal", "s", FALSE, p, s) : p \in {5, 19, 38}, s \in {0, 3}}

Opts(flags, long, max, w) ==
  [flags |-> flags, long |-> long, max |-> max, w |-> w, fixed |-> [precision |-> 0, scale |-> 0]]
MCOptions ==
  {Opts(f \cup g, 64, max, w) : w \in {2, 4}, max \in {100, 40000},
     f \in {{}, {"getdata_bound", "getdata_repair"}, {"getdata_bound", "refetch_repair"},
            {"getdata_bound", "refetch_repair", "fixed_rowset"}, {"refetch_repair"}},
     g \in {{}, {"wchar_as_utf8", "ddl_string_as_max_varchar"}, {"windows"}, {"windows", "text_as_binary"},
            {"ansi_ddl_type_names"}, {"ddl_timestamp_type_format", "fractional_time_type_format",
             "fractional_time_format_for_seconds", "timestamp_scale_zero_trusted"},
            {"timestamp_as_text", "ddl_string_type_name"}}}
  \cup {Opts({"getdata_bound", "getdata_repair", "windows"}, 1, 100, w) : w \in {2, 4}}

Cell(sql, size, digits, unsigned, name) ==
  [sql |-> sql, size |-> size, digits |-> digits, unsigned |-> unsigned, name |-> name]
MCCells ==
  {Cell("INTEGER", 10, 0, TRUE, ""), Cell("CHAR", 5, 0, FALSE, "bool"), Cell("VARCHAR", 20, 0, FALSE, ""),
   Cell("VARCHAR", 30000, 0, FALSE, ""), Cell("LONGVARCHAR", 8190, 0, FALSE, ""),
   Cell("WVARCHAR", 20, 0, FALSE, ""), Cell("WLONGVARCHAR", 0, 0, FALSE, ""),
   Cell("VARBINARY", 0, 0, FALSE, ""), Cell("BLOB_IBM", 0, 0, FALSE, ""), Cell("BINARY", 64, 0, FALSE, ""),
   Cell("DECIMAL", 60, 2, FALSE, ""), Cell("TIMESTAMP", 26, 6, FALSE, "zoned"),
   Cell("TIME", 12, 3, FALSE, ""), Cell("GUID", 36, 0, FALSE, ""), Cell("INTERVAL", 200, 0, FALSE, "")}

-----------------------------------------------------------------------------
Client(marks, server, dbms, deaf, windows, wide, recent, txn) ==
  [marks |-> marks, recent |-> recent, txn |-> txn, noBatch |-> FALSE,
   getdata |-> {"block", "bound", "any_order"}, scroll |-> TRUE, dbms |-> dbms, server |-> server,
   deaf |-> deaf, windows |-> windows, wide |-> wide]

Marks == {"duckdb", "sqlite3odbc", "clickhouse", "maodbc", "odbcfb", "altibase", "ignite",
          "virtodbc", "monetdb", "verticaodbc", "libodbchdb", "kinetica", "iiodbcdriver",
          "arrow flight", "taos_odbc", "sqora", "msodbcsql", "exaodbc", "myodbc", "db2", "cwbodbc"}
MCClients ==
  {Client({m}, s, d, {}, win, wide, r, t) :
     m \in Marks, s \in {"columnstore", "doris", "greptimedb"}, d \in {"IDS", "DB2/400", "mongosqld"},
     win \in BOOLEAN, wide \in {2, 4}, r \in BOOLEAN, t \in BOOLEAN}
  \cup {Client({"psqlodbc"}, s, "", deaf, win, 2, FALSE, TRUE) :
          s \in DOMAIN PgServers, deaf \in SUBSET {"version", "show", "setting"}, win \in BOOLEAN}
  \cup {[Client({"sqora"}, "oracle", "", {}, FALSE, 2, FALSE, TRUE) EXCEPT !.getdata = g] :
          g \in SUBSET {"block", "bound", "any_order"}}

-----------------------------------------------------------------------------
K == Tgt!Kw
A(key, value) == Tgt!Attr(key, value)

(* Every short value of the signs that matter in a connection string.      *)
MCAttributes ==
  {A(k, v) : k \in {K.server, K.sslmode}, v \in Seqs({97, Tgt!Ch.semi, Tgt!Ch.lbrace, Tgt!Ch.rbrace, Tgt!Ch.eq}, 2)}
  \cup {A(K.uid, v) : v \in {<<32, 97>>, <<125, 125, 59>>, <<37, 52, 49>>, <<64, 58, 47>>}}

(* a@, :/?, %41, &=a and }{ in each part; sockets and IPv6 addresses.      *)
Words == {<<97, 64>>, <<58, 47, 63>>, <<37, 52, 49>>, <<38, 61, 97>>, <<125, 123>>}
HostNames == {<<97>>, <<47, 97>>, <<64, 97>>, <<97, 58, 49>>, <<91, 97, 58, 49, 93>>, <<122, 58>>, <<>>}
PqText == <<K.sslmode, 61, 39, 97, 92, 39, 32, 98, 39, 32, K.passfile, 32, 61, 38>>
MCBlocks == PqText :> <<A(K.sslmode, <<97, 39, 32, 98>>), A(K.passfile, <<38>>)>>
            @@ <<>> :> <<>> @@ <<32>> :> <<>>

Target(conn, dsn, username, password) ==
  [conn |-> conn, dsn |-> dsn, listed |-> TRUE, username |-> username, password |-> password]

MCTargets ==
  {Target(<<A(K.driver, <<100>>), A(K.host, h), A(K.port, p), A(K.database, w)>>, <<>>, n, n) :
     h \in HostNames, p \in {<<>>, <<49>>, <<120>>}, w \in Words, n \in {Tgt!NoText, <<97>>}}
  \cup {Target(<<A(K.uid, u), A(K.pwd, w), A(x, w)>>, <<A(K.server, <<97>>), A(K.user, <<98>>), A(x, <<97>>)>>, o, Tgt!NoText) :
     u \in Words \cup {<<>>}, w \in Words, x \in {K.sslmode, K.options, K.ksqo, K.readonly},
     o \in {Tgt!NoText, <<>>, <<58>>}}
  \cup {Target(<<A(x, <<97>>), A(K.pqopt, o), A(y, <<98>>)>>, <<A(K.sslmode, <<99>>), A(K.database, <<47, 47, 97>>)>>, <<97>>, <<58>>) :
     x \in {K.sslmode, K.ksqo}, y \in {K.sslmode, K.options, K.readonly}, o \in DOMAIN MCBlocks}
  \cup {[Target(<<>>, dsn, Tgt!NoText, Tgt!NoText) EXCEPT !.listed = FALSE] : dsn \in {<<>>, <<A(K.server, <<97>>)>>}}

MCFailures == Seqs([class : {"08", "28", "23", "42S02", "42", "HYT0", "HY008", "HYC00", "other"}, exists : BOOLEAN], 2)

MCQwpValues ==
  [t \in {Qwp!Type(n) : n \in {"int8", "uint8", "uint16", "uint32", "int64", "half_float", "double", "string",
                               "large_string", "binary", "binary_view", "date64", "decimal128"}} |-> {-1, 0, 7}]
  @@ Qwp!Type("uint64") :> {0, 7, 8} @@ Qwp!Type("date32") :> {-20, 0, 20}
  @@ [t \in {Qwp!Timestamp(u) : u \in {"s", "ms", "us", "ns"}} |-> {-1, 0, 1500}]
  @@ [t \in {Qwp!FixedBinary(16), Qwp!FixedBinary(8), Qwp!Dictionary("string")} |-> {1}]

(* Streaming asked for or not, in the string or in the DSN, and what is    *)
(* tuned set by the caller, to nothing even.                               *)
Settings(u, f, l) == SelectSeq(<<A(K.usedeclarefetch, u), A(K.fetch, f), A(K.lfconversion, l)>>,
                               LAMBDA x : x.value # Tgt!NoText)
MCTunings ==
  {[conn |-> Settings(u, f, l) \o <<A(K.driver, p)>>, dsn |-> Settings(v, g, l), tune |-> t, batch |-> n, windows |-> w] :
     u \in {Tgt!NoText, <<48, 49>>, <<48>>}, v \in {Tgt!NoText, <<49>>}, f \in {Tgt!NoText, <<>>, <<50>>},
     g \in {Tgt!NoText, <<>>, <<51>>}, l \in {Tgt!NoText, <<49>>}, p \in {<<112>>, <<100>>},
     t \in BOOLEAN, n \in {100, 2000, 10000}, w \in BOOLEAN}
  \cup {[conn |-> <<x>>, dsn |-> <<>>, tune |-> TRUE, batch |-> 100, windows |-> TRUE] : x \in MCAttributes}
=============================================================================
