---------------------------- MODULE DriverQuirks ----------------------------
(***************************************************************************)
(* OdbcDetectQuirks (src/odbc_driver.c): what the bridge concludes about   *)
(* the driver and the server behind a new connection.  A conclusion is a   *)
(* flag of OdbcReaderOptions; a quirk that carries a text or a number (a   *)
(* type name, a digit count) is the flag that it is set.                   *)
(*                                                                         *)
(* A driver d is what it answers:                                          *)
(*   marks    the words the code looks for that occur in SQL_DRIVER_NAME,  *)
(*            or in SQL_DBMS_NAME for a driver without it                  *)
(*   recent   SQL_DRIVER_VER is 3.2 or later                               *)
(*   txn, noBatch, getdata, scroll   the capabilities it reports           *)
(*   dbms     SQL_DBMS_NAME, or what SQL_DBMS_VER says of the server       *)
(*   server   the server it leads to, one of Servers                       *)
(*   deaf     the probing queries that fail on this connection             *)
(*   windows, wide   the build: the platform and the bytes of an SQLWCHAR  *)
(***************************************************************************)
EXTENDS Integers

Rule(mark, sets, clears) == [mark |-> mark, sets |-> sets, clears |-> clears]

(* The capability probes.  SQLGetData repairs a clipped value in place     *)
(* only with all three of its extensions.                                  *)
Capabilities(d) ==
  (IF d.noBatch THEN {} ELSE {"param_array_row_counts"})
  \cup (IF d.txn THEN {"txn_capable"} ELSE {})
  \cup (IF {"block", "bound", "any_order"} \subseteq d.getdata THEN {"getdata_repair"} ELSE {})
  \cup (IF "bound" \in d.getdata THEN {"getdata_bound"} ELSE {})
  \cup (IF d.scroll THEN {"refetch_repair"} ELSE {})

-----------------------------------------------------------------------------
(* The drivers that their name alone decides.  No rule sets what another   *)
(* clears, so that their order, the code's, does not matter.               *)

LocalRules == {
  Rule("duckdb", {"min_buffer_rows", "bool_param_as_int", "decimal_param_as_varchar",
                  "no_describe_param", "no_param_arrays", "current_schema_query"},
                 {"getdata_repair", "getdata_bound"}),
  Rule("sqlite3odbc", {"refetch_repair"}, {}),
  Rule("clickhouse", {"null_param_as_varchar", "nullable_type_format", "no_param_arrays",
                      "fractional_time_type_format"}, {}) }

(* Connector/ODBC for MariaDB: its arrays are fast up to 3.1 and broken    *)
(* from 3.2 on.                                                            *)
MariaDb(d) ==
  Rule("maodbc", {IF d.recent THEN "no_param_arrays" ELSE "prefer_param_arrays",
                  "fractional_time_type_format"}, {"getdata_repair"})

FirebirdRules == {
  Rule("odbcfb", {"wchar_as_utf8", "no_param_arrays", "multirow_union_from",
                  "ddl_string_type_name"}, {}) }

AltibaseRules == {
  Rule("altibase", {"wchar_as_utf8", "narrow_params", "ddl_string_type_name",
                    "prefer_param_arrays"}, {}) }

IgniteRule(d) ==
  Rule("ignite", {"wchar_as_utf8", "narrow_params", "no_param_arrays"}
                 \cup (IF d.windows THEN {"narrow_sql"} ELSE {}), {})

VirtuosoRule(d) ==
  Rule("virtodbc", {"bigint_param_as_string", "no_param_arrays"}
                   \cup (IF d.wide < 4 THEN {"wchar_as_utf8"} ELSE {})
                   \cup (IF d.windows THEN {"ind_stride_32bit"} ELSE {}),
                   IF d.windows THEN {"getdata_repair"} ELSE {})

WarehouseRules == {
  Rule("monetdb", {"no_param_arrays"}, {}),
  Rule("verticaodbc", {"prefer_param_arrays"}, {}),
  Rule("libodbchdb", {"wide_sql", "ddl_string_as_max_varchar", "ddl_timestamp_type_name",
                      "prefer_param_arrays"}, {}),
  Rule("kinetica", {"decimal_fixed_precision", "zero_row_suffix"}, {}) }

IngresRules == { Rule("iiodbcdriver", {"wchar_as_utf8"}, {}) }

FlightRules(d) == {
  Rule("arrow flight", {"no_sql_columns"} \cup (IF d.windows THEN {"text_as_binary"} ELSE {}), {}),
  Rule("taos_odbc", {"timestamp_as_text", "bool_param_as_tinyint"}, {}) }

(* SQORA: the rowset is never resized, and nothing is re-read from it.     *)
OracleRules == {
  Rule("sqora", {"bigint_param_as_string", "multirow_insert_all", "fixed_rowset"},
                {"getdata_repair"}) }

VendorRules == {
  Rule("msodbcsql", {"ddl_string_type_name"}, {}),
  Rule("exaodbc", {"binary_param_as_varchar", "null_decimal_param_as_char"},
                  {"getdata_repair"}) }

Rules(d) ==
  LocalRules \cup {MariaDb(d)} \cup FirebirdRules \cup AltibaseRules \cup {IgniteRule(d)}
  \cup {VirtuosoRule(d)} \cup WarehouseRules \cup IngresRules \cup FlightRules(d)
  \cup OracleRules \cup VendorRules

Named(d, flags) ==
  LET mine == {r \in Rules(d) : r.mark \in d.marks}
  IN  (flags \cup UNION {r.sets : r \in mine}) \ UNION {r.clears : r \in mine}

-----------------------------------------------------------------------------
(* Drivers that front several servers: the server is asked who it is.      *)

(* What a PostgreSQL-wire server answers: the banner of version(), the     *)
(* marker of a fork in it, whether SHOW server_version repeats it, and     *)
(* whether it has the setting only PGAdapter has.                          *)
PgServers == [
  postgresql |-> [banner |-> "postgresql", fork |-> "",           echoes |-> FALSE, spanner |-> FALSE],
  yugabyte   |-> [banner |-> "postgresql", fork |-> "-yb-",       echoes |-> FALSE, spanner |-> FALSE],
  cloudberry |-> [banner |-> "postgresql", fork |-> "cloudberry", echoes |-> FALSE, spanner |-> FALSE],
  opengauss  |-> [banner |-> "postgresql", fork |-> "opengauss",  echoes |-> FALSE, spanner |-> FALSE],
  risingwave |-> [banner |-> "postgresql", fork |-> "risingwave", echoes |-> FALSE, spanner |-> FALSE],
  questdb    |-> [banner |-> "postgresql", fork |-> "questdb",    echoes |-> FALSE, spanner |-> FALSE],
  arcadedb   |-> [banner |-> "postgresql", fork |-> "arcadedb",   echoes |-> FALSE, spanner |-> FALSE],
  cockroach  |-> [banner |-> "cockroach",  fork |-> "cockroach",  echoes |-> FALSE, spanner |-> FALSE],
  ydb        |-> [banner |-> "postgresql", fork |-> "",           echoes |-> TRUE,  spanner |-> FALSE],
  spanner    |-> [banner |-> "postgresql", fork |-> "",           echoes |-> FALSE, spanner |-> TRUE] ]

kForks == {"-yb-", "yugabyte", "cloudberry", "greenplum", "opengauss", "risingwave", "questdb",
           "arcadedb", "materialize", "cockroach", "crate", "greptime", "ydb"}

(* The answer to version(), empty when the query fails.                    *)
Version(d) == IF "version" \in d.deaf THEN [banner |-> "", fork |-> ""]
              ELSE [banner |-> PgServers[d.server].banner, fork |-> PgServers[d.server].fork]

Echoes(d)  == "show" \notin d.deaf /\ PgServers[d.server].echoes /\ Version(d).banner # ""
Spanner(d) == "setting" \notin d.deaf /\ PgServers[d.server].spanner

(* The server is PostgreSQL itself: its banner without the marker of a     *)
(* fork, no server that repeats the banner, and not PGAdapter.             *)
PlainBanner(d) == Version(d).banner = "postgresql" /\ Version(d).fork \notin kForks

BannerOnly(d) == PlainBanner(d)     \* a slip

GenuinePostgres(d) ==
  /\ PlainBanner(d)
  /\ ~(Version(d).fork \notin {"questdb", "arcadedb"} /\ Echoes(d))
  /\ ~Spanner(d)

Postgres(d) ==
  {"current_schema_query"}
  \cup (IF Version(d).fork = "questdb"
        THEN {"ansi_ddl_type_names", "bool_param_as_varchar", "no_param_arrays"} ELSE {})
  \cup (IF Version(d).fork = "arcadedb" THEN {"no_sql_columns"} ELSE {})
  \cup (IF Version(d).fork \notin {"questdb", "arcadedb"} /\ Echoes(d)
        THEN {"ddl_extra_column", "no_sql_columns"} ELSE {})
  \cup (IF Spanner(d) THEN {"no_timestamp_param_arrays", "ddl_extra_column",
                            "max_statement_params"} ELSE {})
  \cup (IF GenuinePostgres(d)
        THEN {"pg_array_ingest", "timestamp_scale_zero_trusted", "ddl_timestamp_type_format",
              "fractional_time_type_format", "fractional_time_format_for_seconds"} ELSE {})

(* ColumnStore inside a MariaDB or MySQL server.                           *)
ColumnStore(d) ==
  IF d.server = "columnstore" /\ "engines" \notin d.deaf THEN {"ansi_ddl_type_names"} ELSE {}

(* MySQL's connector in front of a warehouse without transactions.         *)
MySqlWarehouse(d) ==
  {"temporal_binary_param_as_varchar", "ansi_ddl_type_names"}
  \cup (IF d.dbms = "mongosqld" THEN {"no_sql_columns"} ELSE {})
  \cup (IF d.server = "doris" /\ "comment" \notin d.deaf THEN {"ddl_table_options"} ELSE {})
  \cup (IF d.server = "greptimedb" /\ "version" \notin d.deaf
        THEN {"ddl_extra_column", "ddl_table_options"} ELSE {})

(* IBM's drivers lead to Db2, to Informix and to Db2 for i.                *)
Db2(d) == IF d.dbms = "IDS" THEN {"wchar_as_utf8", "narrow_params", "bool_param_as_int"}
          ELSE {"ddl_string_as_max_varchar"}

Db2ForI(d) == IF d.dbms = "DB2/400" THEN {"ddl_string_type_name"} ELSE {}

Asked(d) ==
  (IF "psqlodbc" \in d.marks THEN Postgres(d) ELSE {})
  \cup (IF {"maodbc", "myodbc"} \cap d.marks # {} THEN ColumnStore(d) ELSE {})
  \cup (IF "myodbc" \in d.marks /\ ~d.txn THEN MySqlWarehouse(d) ELSE {})
  \cup (IF "db2" \in d.marks THEN Db2(d) ELSE {})
  \cup (IF "cwbodbc" \in d.marks THEN Db2ForI(d) ELSE {})

-----------------------------------------------------------------------------
(* A driver built for another width of SQLLEN, unless an option says so.   *)
Narrow32(d) ==
  ("db2" \in d.marks /\ "db2o" \notin d.marks) \/ {"mdbtools", "iiodbcdriver"} \cap d.marks # {}

(* What the build changes in the end: the narrow path is UTF-8 only off    *)
(* Windows, or with the one driver that makes it so.                       *)
Platform(d, flags) ==
  LET wide == IF d.wide >= 4 /\ "myodbc" \in d.marks THEN {"wide_utf16_pairs", "wchar_as_utf8"}
              ELSE {}
  IN  (flags \cup wide) \ (IF d.windows /\ "ignite" \notin d.marks THEN {"wchar_as_utf8"} ELSE {})

(* A driver that tells no name at all is left with its capabilities.       *)
DetectQuirks(d) ==
  IF d.marks = {} THEN Capabilities(d)
  ELSE Platform(d, Named(d, Capabilities(d)) \cup Asked(d))

-----------------------------------------------------------------------------
(* What cannot be true together.                                           *)

Never(flags, pair) == ~(pair \subseteq flags)

(* A value is re-read in place only where SQLGetData reaches bound columns,*)
(* and never from a rowset that may not be resized.                        *)
QuirksConsistent(d, flags) ==
  /\ Never(flags, {"no_param_arrays", "prefer_param_arrays"})
  /\ "getdata_repair" \in flags => "getdata_bound" \in flags
  /\ Never(flags, {"fixed_rowset", "getdata_repair"})
  /\ Never(flags, {"wide_sql", "narrow_sql"})
  /\ Never(flags, {"pg_array_ingest", "ansi_ddl_type_names"})
  /\ "pg_array_ingest" \in flags /\ d.deaf \subseteq {"version"} =>
       d.server = "postgresql" /\ "psqlodbc" \in d.marks
  /\ d.windows /\ "ignite" \notin d.marks => "wchar_as_utf8" \notin flags

(* The name is that of one driver ("db2o" is a longer "db2"), and psqlodbc *)
(* leads to a server that speaks its protocol.                             *)
OneDriver(d) == /\ \A m, n \in d.marks \ {"db2o"} : m = n
                /\ "psqlodbc" \in d.marks => d.server \in DOMAIN PgServers
=============================================================================
