------------------------------ MODULE Columns ------------------------------
(***************************************************************************)
(* Columns in both directions: the type CREATE TABLE gives an Arrow field  *)
(* (ColumnTypeSql of odbc_bind.c), and how a described column is read:     *)
(* ClassifyColumn, DescribeColumns and BuildSchema of odbc_reader.c, the   *)
(* rowset ReaderBind sizes for it, and the width that is given up.         *)
(*                                                                         *)
(* A column of a table is [sql, size, digits], as a driver describes it.   *)
(* o = [flags, long, max, w, fixed]: the quirks in force, long_bind_bytes, *)
(* max_bind_bytes, sizeof(SQLWCHAR), and the precision and scale of a      *)
(* driver that has only one decimal type.                                  *)
(***************************************************************************)
EXTENDS Temporal

Least(a, b)    == IF a < b THEN a ELSE b
Greatest(a, b) == IF a > b THEN a ELSE b

Described(sql, size, digits) == [sql |-> sql, size |-> size, digits |-> digits]

-----------------------------------------------------------------------------
(* CREATE TABLE.  info says of each SQL type the driver has which column   *)
(* its name makes: with the CREATE_PARAMS it takes, its largest size and   *)
(* scale, and what it is without parameters.                               *)

(* TypeNameOne: the parameters given are those of CREATE_PARAMS that were  *)
(* asked for.  tp = [length, precision, scale, frac].                      *)
NoParams == [length |-> 0, precision |-> 0, scale |-> 0, frac |-> 0]

TypeNameOne(info, sql, tp) ==
  LET t == info[sql]
      top == IF t.maxScale > 0 THEN Least(tp.frac, t.maxScale) ELSE tp.frac
  IN  CASE tp.frac > 0 /\ t.params \cap {"scale", "precision"} # {} /\ "," \notin t.params
             -> Described(sql, t.plain.size, top)
        [] tp.precision > 0 /\ "precision" \in t.params
             -> Described(sql, tp.precision, tp.scale)
        [] tp.length > 0 /\ "length" \in t.params -> Described(sql, tp.length, 0)
        [] OTHER -> [t.plain EXCEPT !.sql = sql]

(* TypeNameFor: the first candidate the driver has; ansi_ddl_type_names    *)
(* refuses them all, and the fallback is a name every server knows.        *)
TypeNameFor(info, o, candidates, tp, fallback) ==
  LET has == {i \in DOMAIN candidates : candidates[i] \in DOMAIN info}
  IN  IF "ansi_ddl_type_names" \in o.flags \/ has = {} THEN fallback
      ELSE TypeNameOne(info, candidates[CHOOSE i \in has : \A k \in has : i <= k], tp)

Chain == [bool   |-> <<"BIT", "TINYINT", "SMALLINT">>,
          int8   |-> <<"SMALLINT", "INTEGER">>, uint8 |-> <<"SMALLINT", "INTEGER">>,
          int16  |-> <<"SMALLINT", "INTEGER">>,
          uint16 |-> <<"INTEGER", "BIGINT">>,   int32 |-> <<"INTEGER", "BIGINT">>,
          half   |-> <<"REAL", "FLOAT", "DOUBLE">>, float |-> <<"REAL", "FLOAT", "DOUBLE">>,
          double |-> <<"DOUBLE", "FLOAT">>,
          binary |-> <<"LONGVARBINARY", "VARBINARY">>,
          date32 |-> <<"DATE", "TIMESTAMP">>]

(* What the fallback name makes on a server that has the standard types.   *)
Fallback(type) ==
  CASE type = "bool" -> Described("BIT", 1, 0)
    [] type \in {"int8", "uint8", "int16"} -> Described("SMALLINT", 5, 0)
    [] type \in {"uint16", "int32"} -> Described("INTEGER", 10, 0)
    [] type \in {"half", "float"} -> Described("REAL", 7, 0)
    [] type = "double" -> Described("DOUBLE", 15, 0)
    [] type = "binary" -> Described("LONGVARBINARY", 0, 0)
    [] type = "date32" -> Described("DATE", 10, 0)
    [] OTHER -> Described("LONGVARCHAR", 0, 0)

(* A slip: an unsigned type no wider than the signed one.                  *)
CandidatesTight(type) == IF type = "uint16" THEN Chain.int16 ELSE Chain[type]

Candidates(type) == Chain[type]

Big(info, o) ==
  TypeNameFor(info, o, <<"BIGINT", "DECIMAL", "NUMERIC">>,
              [NoParams EXCEPT !.precision = 19], Described("BIGINT", 19, 0))

(* f = [type, unit, zoned, precision, scale]                               *)
ColumnTypeSql(info, o, f) ==
  LET digits == FractionalDigits(f.unit)
      frac   == [NoParams EXCEPT !.frac = digits]
      dec    == [NoParams EXCEPT !.precision = f.precision, !.scale = f.scale]
      text   == TypeNameFor(info, o, <<"LONGVARCHAR", "WLONGVARCHAR", "VARCHAR">>, NoParams,
                            Described("LONGVARCHAR", 0, 0))
  IN  CASE f.type \in DOMAIN Chain ->
             TypeNameFor(info, o, Candidates(f.type), NoParams, Fallback(f.type))
        [] f.type \in {"uint32", "int64", "uint64"} -> Big(info, o)
        [] f.type = "string" ->
             IF "ddl_string_type_name" \in o.flags THEN Described("WLONGVARCHAR", 0, 0)
             ELSE IF /\ "ddl_string_as_max_varchar" \in o.flags
                     /\ "ansi_ddl_type_names" \notin o.flags
                     /\ "VARCHAR" \in DOMAIN info /\ info["VARCHAR"].max > 0
             THEN TypeNameOne(info, "VARCHAR", [NoParams EXCEPT !.length = info["VARCHAR"].max])
             ELSE text
        [] f.type = "time" ->
             IF /\ "fractional_time_type_format" \in o.flags
                /\ digits > 0 \/ "fractional_time_format_for_seconds" \in o.flags
             THEN Described("TIME", 8, Least(digits, 6))
             ELSE TypeNameFor(info, o, <<"TIME", "SS_TIME2">>, frac, Described("TIME", 8, digits))
        [] f.type = "timestamp" ->
             IF "ddl_timestamp_type_format" \in o.flags
             THEN Described(IF f.zoned THEN "TIMESTAMP_TZ" ELSE "TIMESTAMP", 20 + Least(digits, 6), Least(digits, 6))
             ELSE IF "ddl_timestamp_type_name" \in o.flags THEN Described("TIMESTAMP", 27, 7)
             ELSE TypeNameFor(info, o, <<"TIMESTAMP">>, frac, Described("TIMESTAMP", 26, 6))
        [] f.type = "decimal" ->
             TypeNameFor(info, o, <<"DECIMAL", "NUMERIC">>, dec, Described("DECIMAL", f.precision, f.scale))
        [] OTHER -> Described("none", 0, 0)            \* NOT_IMPLEMENTED

-----------------------------------------------------------------------------
(* ClassifyColumn.  c = [sql, size, digits, unsigned, name]: name is what  *)
(* the code looks for in the driver's name of the type, "bool" or "zoned". *)
(* A parameter is described without a statement to ask for the last two.   *)

Blobs   == {"LONGVARBINARY", "BLOB_IBM", "BLOB_ALTIBASE"}
NoDeclaredLength(sql) == sql \in {"LONGVARCHAR", "WLONGVARCHAR"} \cup Blobs
Binaries == Blobs \cup {"BINARY", "VARBINARY", "BYTE_ALTIBASE", "VARBYTE_ALTIBASE"}
Narrows == {"CHAR", "VARCHAR", "LONGVARCHAR"}
Wides   == {"WCHAR", "WVARCHAR", "WLONGVARCHAR"}

Fetch(kind, ctype, elem) ==
  [kind |-> kind, c |-> ctype, elem |-> elem, bound |-> TRUE, clipped |-> FALSE,
   unit |-> "s", precision |-> 0, scale |-> 0]

TruncationRepairable(flags) ==
  /\ "getdata_bound" \in flags
  /\ "getdata_repair" \in flags \/ ("refetch_repair" \in flags /\ "fixed_rowset" \notin flags)

(* A slip: an over-wide column is bound at its cap though nothing can read *)
(* again what does not fit.                                                *)
ApplyBindCapped(x, c, o) ==
  [x EXCEPT !.elem = IF @ > o.max THEN o.long ELSE @, !.clipped = x.elem > o.max]

ApplyBindWidth(x, c, o) ==
  LET guess      == NoDeclaredLength(c.sql)
      repairable == TruncationRepairable(o.flags) /\ o.long > 0
      wide == IF guess THEN Greatest(x.elem, o.long) ELSE x.elem
  IN  IF IF c.size = 0 THEN ~guess \/ ~repairable ELSE guess /\ ~repairable
      THEN [x EXCEPT !.bound = FALSE]
      ELSE IF wide > o.max /\ ~repairable THEN [x EXCEPT !.bound = FALSE]
      ELSE [x EXCEPT !.elem = IF wide > o.max THEN o.long ELSE wide,
                     !.clipped = guess \/ wide > o.max]

UseTextBuffer(kind, c, o, minimum) ==
  LET elem == Greatest(c.size + 8, minimum)
  IN  [Fetch(kind, "CHAR", elem) EXCEPT !.bound = elem <= o.max]

UnitOfDigits(n) == IF n <= 0 THEN "s" ELSE IF n <= 3 THEN "ms" ELSE IF n <= 6 THEN "us" ELSE "ns"

Trusted(c, o) == "timestamp_scale_zero_trusted" \in o.flags /\ c.size = 19

TimestampUnitForColumn(c, o) ==
  IF c.digits > 0 THEN UnitOfDigits(c.digits)
  ELSE IF c.size \in 21 .. 29 THEN UnitOfDigits(c.size - 20)
  ELSE IF Trusted(c, o) THEN "s" ELSE "us"

ZonedTimestampUnitForColumn(c, o) ==
  IF c.digits > 0 THEN (IF c.digits <= 3 THEN "ms" ELSE "us")
  ELSE IF Trusted(c, o) THEN "s" ELSE "us"

ZonedTimestamp(c, o) ==
  [UseTextBuffer("timestamp_tz", c, o, 80) EXCEPT !.unit = ZonedTimestampUnitForColumn(c, o)]

TimestampColumn(c, o) ==
  IF c.name = "zoned" THEN ZonedTimestamp(c, o)
  ELSE IF "timestamp_as_text" \in o.flags
  THEN [UseTextBuffer("timestamp_text", c, o, 80) EXCEPT !.unit = "us"]
  ELSE [Fetch("timestamp", "TIMESTAMP", 16) EXCEPT !.unit = TimestampUnitForColumn(c, o)]

TimeColumn(c, o) ==
  IF c.digits <= 0 THEN Fetch("time", "TIME", 6)
  ELSE IF c.digits <= 3 THEN [UseTextBuffer("time_ms", c, o, 40) EXCEPT !.unit = "ms"]
  ELSE [UseTextBuffer("time64", c, o, 40) EXCEPT !.unit = IF c.digits > 6 THEN "ns" ELSE "us"]

DecimalColumn(c, o) ==
  LET p == IF o.fixed.precision > 0 THEN o.fixed ELSE [precision |-> c.size, scale |-> c.digits]
      fits == /\ "decimal_as_string" \notin o.flags
              /\ p.precision \in 1 .. 38 /\ p.scale \in 0 .. p.precision
  IN  [Fetch(IF fits THEN "decimal" ELSE "char", "CHAR", Greatest(c.size + 4, 48))
         EXCEPT !.precision = p.precision, !.scale = p.scale]

WideColumn(c, o) ==
  LET x == ApplyBindWidth(Fetch("wchar", "WCHAR", (c.size + 1) * o.w), c, o)
  IN  IF "text_as_binary" \in o.flags
      THEN ApplyBindWidth(Fetch("char", "BINARY", c.size * 4 + 1), c, o)
      ELSE IF "wchar_as_utf8" \in o.flags
      THEN ApplyBindWidth(Fetch("char", "CHAR", c.size * 4 + 1), c, o)
      ELSE [x EXCEPT !.elem = @ - (@ % o.w)]

TextColumn(c, o) ==
  IF "windows" \in o.flags THEN WideColumn(c, o)
  ELSE ApplyBindWidth(Fetch("char", "CHAR", c.size * 4 + 1), c, o)

Ints == [TINYINT |-> [s |-> "int8", u |-> "uint8", elem |-> 1],
         SMALLINT |-> [s |-> "int16", u |-> "uint16", elem |-> 2],
         INTEGER |-> [s |-> "int32", u |-> "uint32", elem |-> 4],
         BIGINT |-> [s |-> "int64", u |-> "uint64", elem |-> 8]]

(* A short text of a type that is called boolean.                          *)
BoolText(c) == c.sql \in {"CHAR", "VARCHAR", "WCHAR", "WVARCHAR"} /\ c.size <= 8 /\ c.name = "bool"

ClassifyColumn(c, o) ==
  LET int == Ints[c.sql]
      kind == IF c.unsigned THEN int.u ELSE int.s
  IN  CASE BoolText(c) -> Fetch("bool_str", "CHAR", 16)
        [] c.sql = "BIT" -> Fetch("bool", "BIT", 1)
        [] c.sql \in DOMAIN Ints -> Fetch(kind, kind, int.elem)
        [] c.sql = "REAL" -> Fetch("float", "FLOAT", 4)
        [] c.sql \in {"FLOAT", "DOUBLE"} -> Fetch("double", "DOUBLE", 8)
        [] c.sql \in {"DECIMAL", "NUMERIC"} -> DecimalColumn(c, o)
        [] c.sql = "DATE" -> Fetch("date", "DATE", 6)
        [] c.sql \in {"TIME", "SS_TIME2"} -> TimeColumn(c, o)
        [] c.sql = "TIME_TZ" -> UseTextBuffer("char", c, o, 40)
        [] c.sql = "TIMESTAMP_TZ" -> ZonedTimestamp(c, o)
        [] c.sql = "TIMESTAMP" -> TimestampColumn(c, o)
        [] c.sql \in {"GUID", "INTERVAL"} -> UseTextBuffer("char", c, o, 64)
        [] c.sql \in Binaries -> ApplyBindWidth(Fetch("binary", "BINARY", c.size), c, o)
        [] c.sql \in Wides /\ ~BoolText(c) -> WideColumn(c, o)
        [] OTHER -> TextColumn(c, o)

(* DescribeColumns: from the first column that is not bound on, none is.   *)
DescribeColumns(cs, o) ==
  LET cols == [i \in DOMAIN cs |-> ClassifyColumn(cs[i], o)]
  IN  [i \in DOMAIN cs |-> [cols[i] EXCEPT !.bound = \A k \in 1 .. i : cols[k].bound]]

(* BuildSchema: the Arrow type of a fetch kind.                            *)
BuildSchema(x) ==
  LET type(n) == [type |-> n, unit |-> "s", zoned |-> FALSE, precision |-> 0, scale |-> 0]
  IN  CASE x.kind \in {"bool", "bool_str"} -> type("bool")
        [] x.kind \in {"char", "wchar"} -> type("string")
        [] x.kind = "date" -> type("date32")
        [] x.kind = "time" -> type("time")
        [] x.kind \in {"time_ms", "time64"} -> [type("time") EXCEPT !.unit = x.unit]
        [] x.kind \in {"timestamp", "timestamp_text"} -> [type("timestamp") EXCEPT !.unit = x.unit]
        [] x.kind = "timestamp_tz" -> [type("timestamp") EXCEPT !.unit = x.unit, !.zoned = TRUE]
        [] x.kind = "decimal" -> [type("decimal") EXCEPT !.precision = x.precision, !.scale = x.scale]
        [] OTHER -> type(x.kind)

(* OdbcDescribeParameterSchema: one parameter the driver cannot describe   *)
(* makes all of them text.                                                 *)
DescribeParameters(ps, o) ==
  LET plain(c) == [c EXCEPT !.unsigned = FALSE, !.name = ""]
  IN  IF "no_describe_param" \in o.flags \/ \E i \in DOMAIN ps : ps[i].sql = "none"
      THEN [i \in DOMAIN ps |-> BuildSchema(Fetch("char", "CHAR", 0))]
      ELSE [i \in DOMAIN ps |-> BuildSchema(ClassifyColumn(plain(ps[i]), o))]

-----------------------------------------------------------------------------
(* A value of a bound column.  o = [flags, long, max, w, fixed]: the       *)
(* reader's options, and w the size of SQLWCHAR.                           *)

Variable == {"CHAR", "WCHAR", "BINARY"}
Terminator(x, w) == CASE x.c = "CHAR" -> 1 [] x.c = "WCHAR" -> w [] OTHER -> 0
BoundValueCap(x, w) == x.elem - Terminator(x, w)

(* The room is a size_t: in a buffer with none for a terminator, every     *)
(* length seems to fit.                                                    *)
BoundValueTruncated(x, len, w) ==
  x.c \in Variable /\ x.elem >= Terminator(x, w) /\ len > BoundValueCap(x, w)

(* With rows per fetch: a value is read again where it sits, or its rowset *)
(* is, row by row.                                                         *)
Rereads(flags, rows) ==
  \/ "getdata_repair" \in flags
  \/ /\ "getdata_bound" \in flags
     /\ rows <= 1 \/ ("refetch_repair" \in flags /\ "fixed_rowset" \notin flags)

(* AppendValue: how many bytes of a value of len bytes arrive.             *)
Delivered(x, len, o, rows) ==
  IF ~x.bound \/ x.c \notin Variable THEN len
  ELSE IF ~BoundValueTruncated(x, len, o.w) THEN Least(len, Greatest(0, BoundValueCap(x, o.w)))
  ELSE IF Rereads(o.flags, rows) THEN len ELSE BoundValueCap(x, o.w)

-----------------------------------------------------------------------------
(* ReaderBind: rows per fetch by count and by bytes, in whole chunks of a  *)
(* driver that has them.                                                   *)
RowsPerFetch(xs, batch, bytes, chunk) ==
  LET all  == \A i \in DOMAIN xs : xs[i].bound
      row  == FoldLeft(LAMBDA n, x : n + (IF x.bound THEN x.elem + 8 ELSE 0), 0, xs)
      fit  == IF row = 0 THEN batch ELSE Least(batch, Greatest(1, bytes \div row))
  IN  IF ~all THEN 1
      ELSE IF chunk > 0 THEN ((fit + chunk - 1) \div chunk) * chunk ELSE fit

(* Whether the widths are on trial, decided before the driver has said     *)
(* that it fetches blocks.                                                 *)
AdaptOpen(xs, rows, flags) ==
  /\ "getdata_repair" \in flags /\ "fixed_rowset" \notin flags /\ rows > 1
  /\ \E i \in DOMAIN xs : xs[i].bound /\ xs[i].clipped

(* ReaderUnbindFrom: a driver that will not fetch one row at a time keeps  *)
(* its bindings and its rows.                                              *)
ReaderUnbindFrom(xs, from, rows, collapses) ==
  IF rows > 1 /\ ~collapses THEN [cols |-> xs, rows |-> rows]
  ELSE [cols |-> [i \in DOMAIN xs |-> IF i >= from /\ xs[i].bound
                                      THEN [xs[i] EXCEPT !.bound = FALSE, !.clipped = FALSE] ELSE xs[i]],
        rows |-> Least(rows, 1)]

(* AdaptBindWidth: after a window of rows, lens[i][k] being the length of  *)
(* column i in row k, the first clipped column that was read again for     *)
(* more than budget bytes a row is unbound, and what follows it.           *)
AdaptBindWidth(xs, lens, budget, rows, collapses, w) ==
  LET reread(i) == FoldLeft(LAMBDA n, len : n + (IF BoundValueTruncated(xs[i], len, w)
                                                 THEN Greatest(len, xs[i].elem) ELSE 0), 0, lens[i])
      costly == {i \in DOMAIN xs : /\ xs[i].bound /\ xs[i].clipped /\ xs[i].c \in Variable
                                   /\ reread(i) > Len(lens[i]) * budget}
  IN  IF costly = {} THEN [cols |-> xs, rows |-> rows]
      ELSE ReaderUnbindFrom(xs, CHOOSE i \in costly : \A k \in costly : i <= k, rows, collapses)

-----------------------------------------------------------------------------
(* What a description says of the values, apart from any buffer: their     *)
(* longest, in the bytes of the C type, where a character takes u units.   *)

UnitsPerCharacter(w) == IF w < 4 THEN 2 ELSE 1

(* The longest text of a type that is written in full.                     *)
FormatLength == [TIME |-> 18, SS_TIME2 |-> 18, TIME_TZ |-> 24, TIMESTAMP |-> 29, TIMESTAMP_TZ |-> 36,
                 INTERVAL |-> 30, GUID |-> 38]

Longest(c, x, w, u) ==
  CASE x.kind = "bool_str" -> 5
    [] x.c = "WCHAR" -> c.size * u * w
    [] x.kind = "binary" -> c.size
    [] c.sql \in {"DECIMAL", "NUMERIC"} -> c.size + 3       \* sign, zero and point
    [] c.sql \in DOMAIN FormatLength -> Greatest(c.size, FormatLength[c.sql])
    [] OTHER -> c.size * 4

(* A value of len bytes that the description c admits arrives whole.       *)
ArrivesWhole(c, x, o, rows, u, len) ==
  NoDeclaredLength(c.sql) \/ len <= Longest(c, x, o.w, u) => Delivered(x, len, o, rows) = len
=============================================================================
