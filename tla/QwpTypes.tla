------------------------------ MODULE QwpTypes ------------------------------
(***************************************************************************)
(* The decisions of the QuestDB driver (questdb/src/qwp_driver.c) that are *)
(* functions of their arguments: the type a column is created with, the    *)
(* Arrow type it is read back as, how a bound value is sent, the column    *)
(* that becomes the designated timestamp, and what a client error becomes. *)
(*                                                                         *)
(* An Arrow type is a record of its name and of the parameter the code     *)
(* looks at: the width in bits, the time unit, the width in bytes of a     *)
(* fixed-size binary, the precision and scale of a decimal, the value type *)
(* of a dictionary or of a list.                                           *)
(***************************************************************************)
EXTENDS Integers, FiniteSets

None == "none"

Type(n)       == [name |-> n, unit |-> None, size |-> 0, scale |-> 0, of |-> None]
Timestamp(u)  == [Type("timestamp") EXCEPT !.unit = u]
FixedBinary(w) == [Type("fixed_size_binary") EXCEPT !.size = w]
Decimal(w, p, s) == [Type(w) EXCEPT !.size = p, !.scale = s]
Dictionary(v) == [Type("dictionary") EXCEPT !.of = v]
ListOf(v)     == [Type("list") EXCEPT !.of = v]

Units == {"s", "ms", "us", "ns"}
TextNames == {"string", "large_string", "string_view"}
Blobs == {"binary", "large_binary", "binary_view"}

(* QdbSchemaIsText: plain text, or a dictionary of it.                     *)
IsText(t) == t.name \in TextNames \/ (t.name = "dictionary" /\ t.of \in TextNames)

(* QdbSchemaIsTimestamp                                                    *)
IsTimestamp(t) == t.name = "timestamp"

-----------------------------------------------------------------------------
(* QdbQuestTypeFor: the column type CREATE TABLE gives a field, None when  *)
(* the client cannot send it.  mode is the option symbol_mode.             *)

Column(n) == [name |-> n, size |-> 0, scale |-> 0]

Fixed == [bool |-> "BOOLEAN", int8 |-> "BYTE", int16 |-> "SHORT", uint8 |-> "SHORT",
          int32 |-> "INT", uint16 |-> "INT", int64 |-> "LONG", uint32 |-> "LONG",
          uint64 |-> "LONG", half_float |-> "FLOAT", float |-> "FLOAT", double |-> "DOUBLE",
          binary |-> "BINARY", large_binary |-> "BINARY", binary_view |-> "BINARY",
          date32 |-> "DATE", date64 |-> "DATE"]

QuestTypeFor(t, mode) ==
  CASE t.name \in DOMAIN Fixed -> Column(Fixed[t.name])
    [] t.name \in TextNames -> Column(IF mode = "symbol" THEN "SYMBOL" ELSE "VARCHAR")
    [] t.name = "dictionary" /\ IsText(t) ->
         Column(IF mode = "not_symbol" THEN "VARCHAR" ELSE "SYMBOL")
    [] t.name = "fixed_size_binary" -> Column(IF t.size = 16 THEN "UUID" ELSE "BINARY")
    [] IsTimestamp(t) -> Column(IF t.unit = "ns" THEN "TIMESTAMP_NS" ELSE "TIMESTAMP")
    [] t.name = "decimal128" -> [name |-> "DECIMAL", size |-> t.size, scale |-> t.scale]
    [] t.name = "list" /\ t.of = "double" -> Column("DOUBLE[]")
    [] OTHER -> Column(None)

(* The columns the sender is told to send as text after all, or as symbols *)
(* (the symbol overrides of QdbIngest); designated is the timestamp.       *)
Override(t, mode, designated) ==
  IF mode = "auto" \/ ~IsText(t) \/ designated THEN None
  ELSE IF mode = "symbol" /\ t.name # "dictionary" THEN "symbol"
  ELSE IF mode = "not_symbol" /\ t.name = "dictionary" THEN "not_symbol"
  ELSE None

(* QdbTypeToArrow: the Arrow type a column of a table reads back as.  A    *)
(* decimal is read in the precision of its storage class.                  *)
Read == [BOOLEAN |-> "bool", BYTE |-> "int8", SHORT |-> "int16", CHAR |-> "uint16",
         INT |-> "int32", LONG |-> "int64", FLOAT |-> "float", DOUBLE |-> "double",
         BINARY |-> "binary", IPV4 |-> "uint32", GEOHASH |-> "int64"]

TypeToArrow(c) ==
  CASE c.name = "DOUBLE[]" -> ListOf("double")
    [] c.name \in DOMAIN Read -> Type(Read[c.name])
    [] c.name = "TIMESTAMP" -> Timestamp("us")
    [] c.name = "TIMESTAMP_NS" -> Timestamp("ns")
    [] c.name = "DATE" -> Timestamp("ms")
    [] c.name = "UUID" -> FixedBinary(16)
    [] c.name = "LONG256" -> FixedBinary(32)
    [] c.name = "DECIMAL" /\ c.size <= 18 -> Decimal("decimal64", 18, c.scale)
    [] c.name = "DECIMAL" /\ c.size \in 19..38 -> Decimal("decimal128", 38, c.scale)
    [] c.name = "DECIMAL" /\ c.size > 38 -> Decimal("decimal256", 76, c.scale)
    [] c.name = "SYMBOL" -> Dictionary("string")
    [] OTHER -> Type("string")

-----------------------------------------------------------------------------
(* QdbBindValue: the kind a bound value is sent as, with the value itself  *)
(* where the code changes or refuses it.  An unsigned 64-bit value has to  *)
(* fit a LONG; a time is brought to micro- or milliseconds.                *)

Refused(why) == [kind |-> None, value |-> why]
Bound(k, v)  == [kind |-> k, value |-> v]

DayMillis == 86400000

BoundAs == [bool |-> "boolean", int8 |-> "byte", int16 |-> "short", uint8 |-> "short",
            int32 |-> "int", uint16 |-> "int", int64 |-> "long", uint32 |-> "long",
            half_float |-> "float", float |-> "float", double |-> "double",
            binary |-> "binary", large_binary |-> "binary", binary_view |-> "binary"]

(* limit is INT64_MAX, scaled to the instance.                             *)
BindValue(t, v, limit) ==
  CASE t.name \in DOMAIN BoundAs -> Bound(BoundAs[t.name], v)
    [] t.name = "uint64" -> IF v > limit THEN Refused("does not fit") ELSE Bound("long", v)
    [] t.name \in TextNames \/ t.name = "dictionary" -> Bound("varchar", v)
    [] t.name = "fixed_size_binary" -> Bound(IF t.size = 16 THEN "uuid" ELSE "binary", v)
    [] IsTimestamp(t) /\ t.unit = "s"  -> Bound("timestamp", v * 1000000)
    [] IsTimestamp(t) /\ t.unit = "ms" -> Bound("timestamp", v * 1000)
    [] IsTimestamp(t) /\ t.unit = "us" -> Bound("timestamp", v)
    [] IsTimestamp(t) /\ t.unit = "ns" -> Bound("timestamp_nanos", v)
    [] t.name = "date32" -> Bound("date", v * DayMillis)
    [] t.name = "date64" -> Bound("date", v)
    [] t.name = "decimal128" -> Bound("decimal128", v)
    [] OTHER -> Refused("cannot be bound")

(* The null branch of QdbBindValue: the kind a null of the type is sent as.*)
NullAs == [bool |-> "boolean", int8 |-> "byte", uint8 |-> "byte", int16 |-> "short",
           uint16 |-> "short", int32 |-> "int", uint32 |-> "int", int64 |-> "long",
           uint64 |-> "long", float |-> "float", double |-> "double", date32 |-> "date",
           date64 |-> "date", binary |-> "binary", large_binary |-> "binary",
           decimal128 |-> "decimal128"]

BindNull(t) ==
  CASE t.name \in DOMAIN NullAs -> NullAs[t.name]
    [] IsTimestamp(t) -> IF t.unit = "ns" THEN "timestamp_nanos" ELSE "timestamp"
    [] t.name = "fixed_size_binary" -> IF t.size = 16 THEN "uuid" ELSE "binary"
    [] OTHER -> "varchar"

-----------------------------------------------------------------------------
(* The designated timestamp of an ingest (QdbIngest): the option, else the *)
(* table's own if the data has it, else the only timestamp column of the   *)
(* data of a new table; a new table without one gets a column `timestamp`  *)
(* the server stamps.  d.cols are the names of the data's columns and      *)
(* d.stamps those of a timestamp type.  at is the column the frames are    *)
(* stamped by, None for the server's clock; made is the designated column  *)
(* of the table the call creates.                                          *)

ChosenTimestamp(d, option, exists, own) ==
  IF option # None THEN option
  ELSE IF exists THEN (IF own \in d.cols THEN own ELSE None)
  ELSE IF Cardinality(d.stamps) = 1 THEN CHOOSE c \in d.stamps : TRUE
  ELSE None

DesignatedTimestamp(d, option, exists, own) ==
  LET ts    == ChosenTimestamp(d, option, exists, own)
      added == ~exists /\ ts = None
  IN  [ok   |-> (ts # None => ts \in d.cols) /\ (added => "timestamp" \notin d.cols),
       at   |-> ts,
       made |-> IF added THEN "timestamp" ELSE ts]

(* QdbStatusFor and the SQLSTATE QdbError adds to it.                      *)
StatusFor(code) ==
  CASE code \in {"server_security_error", "auth_error"} -> "UNAUTHENTICATED"
    [] code \in {"invalid_api_call", "invalid_utf8", "invalid_name", "invalid_timestamp",
                 "invalid_decimal", "invalid_bind", "config_error",
                 "arrow_unsupported_column_kind", "server_parse_error"} -> "INVALID_ARGUMENT"
    [] code = "query_timeout" -> "TIMEOUT"
    [] code = "cancelled" -> "CANCELLED"
    [] code \in {"unsupported_server", "protocol_version_error"} -> "NOT_IMPLEMENTED"
    [] code = "server_internal_error" -> "INTERNAL"
    [] OTHER -> "IO"
=============================================================================
