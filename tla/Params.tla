------------------------------- MODULE Params -------------------------------
(***************************************************************************)
(* Parameters of odbc_bind.c: how one Arrow value is bound (the row path,  *)
(* SlotFromArrow) and how a column of a batch is staged as an array of     *)
(* parameter sets (ArrayParamPlan, ArrayParamFill).                        *)
(*                                                                         *)
(* A field is [type, unit]; unit matters to times only.  A value is [null, *)
(* x]: x a number, a truth value, a sequence of bytes, or of digits for a  *)
(* decimal.  o is the set of the driver quirks in force.                   *)
(***************************************************************************)
EXTENDS TextCodec, Temporal

CONSTANTS Int32Max,          \* INT32_MAX
          LongValue,         \* 4000: from here on a LONG type
          MaxVarlen,         \* ARRAY_BIND_MAX_VARLEN
          TextRoom           \* sizeof(ParamSlot.fixed.text)

IntTypes    == {"int8", "int16", "int32", "int64", "uint8", "uint16", "uint32", "uint64"}
StringTypes == {"string", "large_string", "string_view"}
BinaryTypes == {"binary", "large_binary", "fixed_binary", "binary_view"}
FloatTypes  == {"half", "float", "double"}

(* A parameter as SQLBindParameter is told of it: C type, SQL type, size,  *)
(* digits, data, and the length (SQL_NULL_DATA for a null).                *)
NullData == -1
Param(c, sql, size, digits, data, ind) ==
  [ok |-> TRUE, c |-> c, sql |-> sql, size |-> size, digits |-> digits, data |-> data, ind |-> ind]
Unbound == [Param("CHAR", "VARCHAR", 0, 0, <<>>, 0) EXCEPT !.ok = FALSE]
NullVarchar == Param("CHAR", "VARCHAR", 1, 0, <<>>, NullData)

AtLeast1(n) == IF n > 0 THEN n ELSE 1
IsUnsignedInt(type) == type \in {"uint8", "uint16", "uint32", "uint64"}
Fits32(n) == n \in -(Int32Max + 1) .. Int32Max

(* "%lld": sign and digits.                                                *)
NumText(n) == [neg |-> n < 0, digits |-> Digits(IF n < 0 THEN -n ELSE n, 6)]

Narrow(o) == o \cap {"wchar_as_utf8", "narrow_params"} # {}
BinaryAsText(o) == o \cap {"temporal_binary_param_as_varchar", "binary_param_as_varchar"} # {}

-----------------------------------------------------------------------------
(* The row path.                                                           *)

BoolSlot(x, o) ==
  IF "bool_param_as_varchar" \in o
  THEN Param("CHAR", "VARCHAR", 5, 0, IF x THEN "true" ELSE "false", IF x THEN 4 ELSE 5)
  ELSE IF o \cap {"bool_param_as_int", "bool_param_as_tinyint"} # {}
  THEN Param("SBIGINT", IF "bool_param_as_tinyint" \in o THEN "TINYINT" ELSE "INTEGER", 0, 0,
             IF x THEN 1 ELSE 0, 0)
  ELSE Param("BIT", "BIT", 0, 0, IF x THEN 1 ELSE 0, 0)

IntSlot(type, n, o) ==
  IF Fits32(n) THEN Param("SLONG", "INTEGER", 0, 0, n, 0)
  ELSE IF "bigint_param_as_string" \in o THEN Param("CHAR", "NUMERIC", 20, 0, NumText(n), 6)
  ELSE Param(IF IsUnsignedInt(type) THEN "UBIGINT" ELSE "SBIGINT", "BIGINT", 0, 0, n, 0)

Long(n, long, short) == IF n > LongValue THEN long ELSE short

StringSlot(s, w, o) ==
  LET units == Utf8ToUtf16Into(s, w, "wide_utf16_pairs" \in o)
  IN  IF Narrow(o)
      THEN Param("CHAR", Long(Len(s), "LONGVARCHAR", "VARCHAR"), AtLeast1(Len(s)), 0, s, Len(s))
      ELSE Param("WCHAR", Long(Len(units), "WLONGVARCHAR", "WVARCHAR"), AtLeast1(Len(units)), 0,
                 units, Len(units) * w)

BinarySlot(s, o) ==
  IF BinaryAsText(o)
  THEN Param("CHAR", Long(Len(s), "LONGVARCHAR", "VARCHAR"), AtLeast1(Len(s)), 0, s, Len(s))
  ELSE Param("BINARY", Long(Len(s), "LONGVARBINARY", "VARBINARY"), AtLeast1(Len(s)), 0, s, Len(s))

DateSlot(days, o) ==
  IF "temporal_binary_param_as_varchar" \in o
  THEN Param("CHAR", "VARCHAR", 10, 0, CivilFromDays(days), 10 + YearExcess(CivilFromDays(days).y))
  ELSE Param("TYPE_DATE", "TYPE_DATE", 0, 0, DateStruct(CivilFromDays(days)), 0)

TimeSize(unit) == IF FractionalDigits(unit) > 0 THEN 9 + FractionalDigits(unit) ELSE 8
TimestampSize(unit) == IF FractionalDigits(unit) > 0 THEN 20 + FractionalDigits(unit) ELSE 19

(* A time with a fraction is a text, TIME_STRUCT having no room for it.    *)
TimeSlot(v, unit) ==
  IF unit = "s" THEN Param("TYPE_TIME", "TYPE_TIME", TimeSize(unit), 0, TimeStructFromArrow(v, unit), 0)
  ELSE Param("CHAR", "VARCHAR", TimeSize(unit), 0, TimeTextFromArrow(v, unit), TimeSize(unit))

TimestampSlot(v, unit, o) ==
  LET ts == TimestampFromArrow(v, unit)
  IN  IF o \cap {"temporal_binary_param_as_varchar", "timestamp_as_text"} # {}
      THEN Param("CHAR", "VARCHAR", TimestampSize(unit), 0, TimestampTextFromStruct(ts, unit),
                 TimestampSize(unit) + YearExcess(ts.date.y))
      ELSE Param("TYPE_TIMESTAMP", "TYPE_TIMESTAMP", TimestampSize(unit), FractionalDigits(unit), ts, 0)

(* The text of a decimal is cut to the slot.                               *)
DecimalSlot(text, o) ==
  LET cut == Upto(text, TextRoom - 1)
  IN  IF "decimal_param_as_varchar" \in o THEN Param("CHAR", "VARCHAR", TextRoom, 0, cut, Len(cut))
      ELSE Param("CHAR", "DECIMAL", 0, 0, cut, Len(cut))

(* SlotFromArrowValue.  A null is described as the type's zero.            *)
SlotFromArrowValue(f, v, w, o) ==
  LET x == v.x
      slot == CASE f.type = "bool"         -> BoolSlot(x, o)
                [] f.type \in IntTypes     -> IntSlot(f.type, IF v.null THEN 0 ELSE x, o)
                [] f.type \in FloatTypes   -> Param("DOUBLE", "DOUBLE", 0, 0, x, 0)
                [] f.type \in StringTypes  -> StringSlot(IF v.null THEN <<>> ELSE x, w, o)
                [] f.type \in BinaryTypes  -> BinarySlot(IF v.null THEN <<>> ELSE x, o)
                [] f.type = "date32"       -> DateSlot(x, o)
                [] f.type = "time"         -> TimeSlot(x, f.unit)
                [] f.type = "timestamp"    -> TimestampSlot(x, f.unit, o)
                [] f.type = "decimal"      -> DecimalSlot(x, o)
                [] OTHER                   -> Unbound
  IN  IF f.type = "na" \/ (v.null /\ "null_param_as_varchar" \in o) THEN NullVarchar
      ELSE [slot EXCEPT !.ind = IF v.null THEN NullData ELSE @]

(* SlotFromArrow: dict is the dictionary of an encoded column, whose value *)
(* is the place (from 0), and << >> of a plain one.                        *)
SlotFromArrow(f, dict, encoded, v, w, o) ==
  LET idx == IF v.null THEN 0 ELSE v.x
      at  == IF encoded THEN [dict[idx + 1] EXCEPT !.null = v.null \/ @] ELSE v
  IN  IF encoded => idx \in 0 .. Len(dict) - 1 THEN SlotFromArrowValue(f, at, w, o)
      ELSE IF v.null THEN NullVarchar
      ELSE Unbound

-----------------------------------------------------------------------------
(* The array path.                                                         *)

Valid(vs) == {i \in DOMAIN vs : ~vs[i].null}

(* A slip: only the first value of the column is looked at.                *)
FirstFits32(vs) == \A i \in Valid(vs) : i = 1 => Fits32(vs[i].x)

ArrayParamIntFits32(vs) == \A i \in Valid(vs) : Fits32(vs[i].x)

(* The longest value, in the unit it is bound in; NullData is too long.    *)
ArrayParamVarLenMax(vs, binary, wide, w, o) ==
  LET len(s) == IF wide THEN Utf16Units(s, w, "wide_utf16_pairs" \in o) ELSE Len(s)
      lens == {len(vs[i].x) : i \in Valid(vs)} \cup {0}
      longest == CHOOSE n \in lens : \A k \in lens : k <= n
  IN  IF \E i \in Valid(vs) : ~binary /\ Len(vs[i].x) > MaxVarlen THEN NullData
      ELSE IF longest > MaxVarlen THEN NullData ELSE longest

(* How the column is bound; elem is the room for one value, in the unit of *)
(* its data, and inds tells that lengths and nulls are given one by one.   *)
Plan(c, sql, size, elem, inds) ==
  [ok |-> TRUE, c |-> c, sql |-> sql, size |-> size, elem |-> elem, inds |-> inds]
NoPlan == [Plan("CHAR", "VARCHAR", 0, 0, FALSE) EXCEPT !.ok = FALSE]

ArrayPlan(f, vs, max, o) ==
  LET wide == f.type \in StringTypes /\ ~Narrow(o)
      n    == AtLeast1(max)
      like(p, elem, inds) == Plan(p.c, p.sql, p.size, elem, inds)
  IN
      CASE f.type \in IntTypes ->
             IF ArrayParamIntFits32(vs) THEN Plan("SLONG", "INTEGER", 0, 1, FALSE)
             ELSE IF "bigint_param_as_string" \in o THEN Plan("CHAR", "NUMERIC", 20, 24, TRUE)
             ELSE Plan(IF IsUnsignedInt(f.type) THEN "UBIGINT" ELSE "SBIGINT", "BIGINT", 0, 1, FALSE)
        [] f.type = "float" -> Plan("FLOAT", "REAL", 0, 1, FALSE)
        [] f.type \in {"double", "half"} -> Plan("DOUBLE", "DOUBLE", 0, 1, FALSE)
        [] f.type = "bool" -> like(BoolSlot(TRUE, o), 6, "bool_param_as_varchar" \in o)
        [] f.type = "date32" ->
             IF "temporal_binary_param_as_varchar" \in o THEN NoPlan ELSE like(DateSlot(0, o), 1, FALSE)
        [] f.type = "timestamp" ->
             IF o \cap {"temporal_binary_param_as_varchar", "no_timestamp_param_arrays"} # {} THEN NoPlan
             ELSE like(TimestampSlot(0, f.unit, o), 32, "timestamp_as_text" \in o)
        [] f.type = "time" -> like(TimeSlot(0, f.unit), 24, f.unit # "s")
        [] f.type = "decimal" -> like(DecimalSlot(<<>>, o), TextRoom, TRUE)
        [] f.type \in BinaryTypes ->
             IF BinaryAsText(o) \/ max < 0 THEN NoPlan
             ELSE Plan("BINARY", Long(n, "LONGVARBINARY", "VARBINARY"), n, n, TRUE)
        [] f.type \in StringTypes ->
             IF max < 0 THEN NoPlan
             ELSE IF wide THEN Plan("WCHAR", Long(n, "WLONGVARCHAR", "WVARCHAR"), n, n + 1, TRUE)
             ELSE Plan("CHAR", Long(n, "LONGVARCHAR", "VARCHAR"), n, n + 1, TRUE)
        [] OTHER -> NoPlan

ArrayParamPlan(f, vs, w, o) ==
  LET hasNulls == Valid(vs) # DOMAIN vs
      max == ArrayParamVarLenMax(vs, f.type \in BinaryTypes, f.type \in StringTypes /\ ~Narrow(o), w, o)
  IN  IF hasNulls /\ "null_param_as_varchar" \in o THEN NoPlan
      ELSE [ArrayPlan(f, vs, max, o) EXCEPT !.inds = @ \/ hasNulls]

(* Of an encoded column the dictionary is planned.                         *)
PlanColumn(f, dict, encoded, vs, w, o) ==
  [ArrayParamPlan(f, IF encoded THEN dict ELSE vs, w, o)
     EXCEPT !.inds = @ \/ (encoded /\ Valid(vs) # DOMAIN vs)]

(* What is staged for one value, and the length that is set with it.       *)
Staged(p, f, x, w, o) ==
  CASE f.type = "bool"        -> [data |-> BoolSlot(x, o).data, len |-> BoolSlot(x, o).ind]
    [] f.type \in IntTypes    -> IF p.c = "CHAR" THEN [data |-> NumText(x), len |-> 6]
                                 ELSE [data |-> IF p.c = "SLONG" /\ ~Fits32(x) THEN x % (Int32Max + 1) ELSE x,
                                       len |-> 0]
    [] f.type \in StringTypes ->
         IF p.c = "WCHAR" THEN LET u == Utf8ToUtf16Into(x, w, "wide_utf16_pairs" \in o)
                               IN  [data |-> u, len |-> Len(u) * w]
         ELSE [data |-> x, len |-> Len(x)]
    [] f.type \in BinaryTypes -> [data |-> x, len |-> Len(x)]
    [] f.type = "date32"      -> [data |-> DateStruct(CivilFromDays(x)), len |-> 0]
    [] f.type = "time"        -> [data |-> TimeSlot(x, f.unit).data, len |-> TimeSlot(x, f.unit).ind]
    [] f.type = "timestamp"   ->
         LET t == TimestampSlot(x, f.unit, o) IN [data |-> t.data, len |-> t.ind]
    [] f.type = "decimal"     -> LET t == Upto(x, p.elem - 1) IN [data |-> t, len |-> Len(t)]
    [] OTHER                  -> [data |-> x, len |-> 0]

-----------------------------------------------------------------------------
(* The indicators, as 32-bit halves.  A driver of 32-bit SQLLEN (q) reads  *)
(* them four bytes apart, and OdbcIndicatorSet writes them so.             *)

High(n) == IF n < 0 THEN -1 ELSE 0

IndicatorSet64(mem, i, n) == [mem EXCEPT ![2 * i - 1] = n, ![2 * i] = High(n)]
IndicatorSet(mem, i, n, q) == IF q THEN [mem EXCEPT ![i] = n] ELSE IndicatorSet64(mem, i, n)
IndicatorRead(mem, i, q) == IF q THEN mem[i] ELSE mem[2 * i - 1]

(* The length of a time or timestamp text is stored as it is.              *)
StoreLength(mem, f, i, n, q) ==
  IF f.type \in {"time", "timestamp"} THEN IndicatorSet64(mem, i, n) ELSE IndicatorSet(mem, i, n, q)

(* ArrayParamFill over the rows vs (decoded), as the driver then reads it. *)
FillRows(p, f, vs, staged, q) ==
  LET fill(mem, i) ==
        IF vs[i].null THEN IndicatorSet(mem, i, NullData, q)
        ELSE LET set == IndicatorSet(mem, i, 0, q)
             IN  IF staged[i].len = 0 THEN set ELSE StoreLength(set, f, i, staged[i].len, q)
      mem == FoldLeft(fill, [k \in 1 .. 2 * Len(vs) |-> 0], [i \in DOMAIN vs |-> i])
  IN  [i \in DOMAIN vs |->
         [ind |-> IF p.inds THEN IndicatorRead(mem, i, q) ELSE 0,
          len |-> staged[i].len, data |-> staged[i].data]]

(* An index outside the dictionary fails the call.                         *)
InDictionary(dict, v) == ~v.null => v.x \in 0 .. Len(dict) - 1

(* The value an index stands for: a null one or one of a null entry none.  *)
EntryOf(dict, v) == IF v.null \/ dict[v.x + 1].null THEN [null |-> TRUE, x |-> <<>>] ELSE dict[v.x + 1]

ArrayParamFill(p, f, dict, encoded, vs, w, o, q) ==
  LET values == IF encoded THEN [i \in DOMAIN vs |-> EntryOf(dict, vs[i])] ELSE vs
      staged == [i \in DOMAIN vs |-> IF values[i].null THEN [data |-> <<>>, len |-> 0]
                                     ELSE Staged(p, f, values[i].x, w, o)]
  IN  IF encoded /\ \E i \in DOMAIN vs : ~InDictionary(dict, vs[i]) THEN [ok |-> FALSE, rows |-> <<>>]
      ELSE [ok |-> TRUE, rows |-> FillRows(p, f, values, staged, q)]

-----------------------------------------------------------------------------
(* What the server takes a parameter for (external): text is parsed, a     *)
(* struct is the moment it names.                                          *)
Meaning(f, c, data, w) ==
  CASE f.type = "bool" -> IF c = "CHAR" THEN data = "true" ELSE data = 1
    [] f.type \in IntTypes /\ c = "CHAR" ->
         (IF data.neg THEN -1 ELSE 1) * FoldLeft(LAMBDA n, g : n * 10 + g, 0, data.digits)
    [] f.type \in StringTypes /\ c = "WCHAR" -> Utf16ToUtf8(data, w)
    [] f.type = "date32" -> DateFromStruct(data)
    [] f.type = "time" -> IF c = "CHAR" THEN ParseTimeScaled(data, UnitFractionDigits(f.unit))
                          ELSE [secs |-> TimeFromStruct(data), frac |-> 0]
    [] f.type = "timestamp" -> IF c = "CHAR" THEN ParseTimestampUtcScaled(data, UnitFractionDigits(f.unit))
                               ELSE TimestampFromStruct(data, f.unit)
    [] OTHER -> data
=============================================================================
