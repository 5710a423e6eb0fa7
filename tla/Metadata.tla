------------------------------ MODULE Metadata ------------------------------
(***************************************************************************)
(* The calls whose answer is a function of what they are given: catalog    *)
(* listings, text, parameter values, column types and driver quirks.  Each *)
(* action is one call with one of the inputs of the instance; the modules  *)
(* extended here say what the code answers, and the invariants compare the *)
(* answer with what it should be, worked out another way.                  *)
(***************************************************************************)
EXTENDS Catalog, Params, Columns, DriverQuirks, FiniteSets

Qwp == INSTANCE QwpTypes
Tgt == INSTANCE Targets

CONSTANTS
  Patterns, Names,           \* for the matching of one name
  Servers, Queries,          \* catalogs and calls of GetObjects
  QuestServers,              \* catalogs of one namespace
  Drivers,                   \* what the driver makes of its catalog calls
  TypeCap,                   \* table types GetTableTypes remembers
  Texts,                     \* code point sequences
  WideUnits,                 \* unit sequences as a driver may return them
  RepairedTexts,             \* texts of clipped values that were read again
  Caps, MostBytes,           \* buffers for strings, and the longest message
  Values,                    \* field -> the values of it that are bound
  Dicts,                     \* field -> dictionaries of it
  Quirks,                    \* sets of quirks for parameters
  RowsBound,                 \* rows of an array of parameter sets
  NarrowTexts,               \* 32-bit indicators with time texts too
  Infos,                     \* SQLGetTypeInfo of the drivers
  Fields,                    \* Arrow fields of a new table
  Cells,                     \* described columns
  Options,                   \* reader options
  Clients,                   \* drivers and servers for the quirks
  SomeAttributes,            \* attributes of connection strings
  Blocks,                    \* psqlodbc's blocks of settings -> what they set
  Tunings,                   \* databases whose connection string may be tuned
  Failures,                  \* diagnostic records of a statement that failed
  QwpValues, LongMax,        \* type -> values bound over QWP; the largest LONG
  SomeTargets                \* connection strings and DSNs, with their options

VARIABLES call, answer
vars == <<call, answer>>

None == "none"
Widths == {2, 4}

Init == call = [op |-> None] /\ answer = None
Idle == call.op = None

-----------------------------------------------------------------------------
(* Catalogs                                                                *)

MatchName == Idle /\ \E p \in Patterns, n \in Names :
  /\ call' = [op |-> "MatchName", p |-> p, n |-> n]
  /\ answer' = [odbc |-> LikeMatch(p, n), quest |-> QdbLikeMatch(p, n)]

ConnectionGetObjects == Idle /\ \E v \in Servers, d \in Drivers, q \in Queries :
  /\ call' = [op |-> "ConnectionGetObjects", v |-> v, d |-> d, q |-> q]
  /\ answer' = GetObjects(v, d, q)

QdbConnectionGetObjects == Idle /\ \E v \in QuestServers, q \in Queries :
  /\ call' = [op |-> "QdbConnectionGetObjects", v |-> v, q |-> q]
  /\ answer' = QdbGetObjects(v, q, <<113>>, <<112>>)

ConnectionGetTableTypes == Idle /\ \E v \in Servers, refused \in BOOLEAN :
  /\ call' = [op |-> "ConnectionGetTableTypes", v |-> v, refused |-> refused]
  /\ answer' = TableTypes(v, refused, TypeCap)

(* The qualifiers and the names of the tables there are.                   *)
TableNames(v) == {[cat |-> c, sch |-> s, name |-> n] :
                    c \in {Null} \cup {t.cat : t \in v.tables},
                    s \in {Null} \cup {t.sch : t \in v.tables}, n \in {t.name : t \in v.tables}}

ConnectionGetTableSchema == Idle /\ \E v \in Servers, d \in Drivers : \E r \in TableNames(v) :
  /\ call' = [op |-> "ConnectionGetTableSchema", v |-> v, d |-> d, r |-> r]
  /\ answer' = GetTableSchema(v, d, r.cat, r.sch, r.name)

QdbConnectionGetTableSchema == Idle /\ \E v \in QuestServers :
  \E cat, sch \in {Null, <<>>, <<112>>, <<113>>}, n \in Names :
    /\ call' = [op |-> "QdbConnectionGetTableSchema", v |-> v, cat |-> cat, sch |-> sch, n |-> n]
    /\ answer' = QdbGetTableSchema(v, cat, sch, n, <<113>>, <<112>>)

(* The status of a statement of GetTableSchema that failed.                *)
SchemaStatus(records) ==
  LET s == ErrorStatus(records) IN IF s \in {"INVALID_ARGUMENT", "UNKNOWN"} THEN "NOT_FOUND" ELSE s

GetTableSchemaFails == Idle /\ \E records \in Failures :
  /\ call' = [op |-> "GetTableSchemaFails", records |-> records]
  /\ answer' = SchemaStatus(records)

-----------------------------------------------------------------------------
(* Text                                                                    *)

ConvertText == Idle /\ \E s \in Texts, w \in Widths, pairs \in BOOLEAN :
  /\ call' = [op |-> "ConvertText", s |-> s, w |-> w, pairs |-> pairs]
  /\ answer' = [units |-> Utf8ToUtf16Into(Utf8(s), w, pairs),
                count |-> Utf16Units(Utf8(s), w, pairs)]

SendStatement == Idle /\ \E s \in Texts, w \in Widths, reads \in {"utf8", "bytes"},
                           p \in [windows : BOOLEAN, wide_sql : BOOLEAN, narrow_sql : BOOLEAN] :
  /\ call' = [op |-> "SendStatement", s |-> s, w |-> w, reads |-> reads, p |-> p]
  /\ answer' = ExecDirectSql(Utf8(s), p, w, reads)

SendPattern == Idle /\ \E s \in Texts, windows \in BOOLEAN, w \in Widths, reads \in {"utf8", "bytes"} :
  /\ call' = [op |-> "SendPattern", s |-> s, wide |-> windows, reads |-> reads]
  /\ answer' = CatalogArgument(Utf8(s), windows, w, reads)

ReturnString == Idle /\ \E s \in Texts, windows \in BOOLEAN, w \in Widths, cap \in Caps :
  /\ call' = [op |-> "ReturnString", s |-> s, windows |-> windows, w |-> w, cap |-> cap]
  /\ answer' = StringBack(s, windows, w, cap, cap)

SetError == Idle /\ \E s \in Texts, windows \in BOOLEAN, cap \in Caps :
  /\ call' = [op |-> "SetError", s |-> s, windows |-> windows, cap |-> cap]
  /\ answer' = DiagMessage(s, windows, 2, cap, MostBytes)

ReadWide == Idle /\ \E u \in WideUnits, w \in Widths, bound \in BOOLEAN :
  /\ call' = [op |-> "ReadWide", u |-> u, w |-> w]
  /\ answer' = AppendWide(u, w, bound, FALSE)

RepairWide == Idle /\ \E s \in RepairedTexts, w \in Widths, bound \in BOOLEAN :
  /\ call' = [op |-> "RepairWide", s |-> s, w |-> w]
  /\ answer' = AppendWide(Utf8ToUtf16Into(Utf8(s), w, FALSE), w, bound, TRUE)

-----------------------------------------------------------------------------
(* Parameters.  An encoded column is given by places in its dictionary.    *)

Nulls(f) == {[null |-> TRUE, x |-> v] : v \in {CHOOSE v \in Values[f] : TRUE}}
Given(f) == {[null |-> FALSE, x |-> v] : v \in Values[f]} \cup Nulls(f)
Places == {[null |-> FALSE, x |-> k] : k \in 0 .. 2} \cup {[null |-> TRUE, x |-> 0]}

(* What an encoded value is, and whether it names a place there is not.    *)
Astray(d, k) == ~k.null /\ k.x >= Len(d)
Decoded(d, k) == IF k.null \/ Astray(d, k) THEN [null |-> k.null, x |-> 0] ELSE d[k.x + 1]

BindRow == Idle /\ \E f \in DOMAIN Values, w \in Widths, o \in Quirks :
  \/ \E v \in Given(f) :
       /\ call' = [op |-> "BindRow", f |-> f, w |-> w, v |-> v, astray |-> FALSE]
       /\ answer' = SlotFromArrow(f, <<>>, FALSE, v, w, o)
  \/ \E d \in Dicts[f], k \in Places :
       /\ call' = [op |-> "BindRow", f |-> f, w |-> w, v |-> Decoded(d, k), astray |-> Astray(d, k)]
       /\ answer' = SlotFromArrow(f, d, TRUE, k, w, o)

StageArray == Idle /\ \E f \in DOMAIN Values, w \in Widths, o \in Quirks, q \in BOOLEAN :
  /\ q => NarrowTexts \/ f.type \notin {"time", "timestamp"}
  /\ \/ \E vs \in UNION {[1 .. n -> Given(f)] : n \in 1 .. RowsBound} :
          \E p \in {PlanColumn(f, <<>>, FALSE, vs, w, o)} :
              /\ call' = [op |-> "StageArray", f |-> f, w |-> w, vs |-> vs, astray |-> FALSE]
              /\ answer' = [plan |-> p, fill |-> ArrayParamFill(p, f, <<>>, FALSE, vs, w, o, q)]
     \/ \E d \in Dicts[f], ks \in UNION {[1 .. n -> Places] : n \in 1 .. RowsBound} :
          \E p \in {PlanColumn(f, d, TRUE, ks, w, o)} :
              /\ call' = [op |-> "StageArray", f |-> f, w |-> w, vs |-> [i \in DOMAIN ks |-> Decoded(d, ks[i])],
                          astray |-> \E i \in DOMAIN ks : Astray(d, ks[i])]
              /\ answer' = [plan |-> p, fill |-> ArrayParamFill(p, f, d, TRUE, ks, w, o, q)]

-----------------------------------------------------------------------------
(* Columns                                                                 *)

CreateColumn == Idle /\ \E info \in Infos, o \in Options, f \in Fields :
  LET col == ColumnTypeSql(info, o, f)
      cell == [sql |-> col.sql, size |-> col.size, digits |-> col.digits,
               unsigned |-> FALSE, name |-> ""]
  IN  /\ col.sql # "none"
      /\ call' = [op |-> "CreateColumn", info |-> info, o |-> o, f |-> f]
      /\ answer' = BuildSchema(ClassifyColumn(cell, o))

QdbCreateColumn == Idle /\ \E f \in Fields, mode \in {"auto", "symbol", "not_symbol"}, coded \in BOOLEAN :
  LET t == IF f.type = "string" /\ coded THEN Qwp!Dictionary("string")
           ELSE IF f.type = "timestamp" THEN Qwp!Timestamp(f.unit)
           ELSE IF f.type = "decimal" THEN Qwp!Decimal("decimal128", f.precision, f.scale)
           ELSE Qwp!Type(f.type)
      col == Qwp!QuestTypeFor(t, mode)
  IN  /\ col.name # None
      /\ call' = [op |-> "QdbCreateColumn", f |-> f, coded |-> coded, mode |-> mode]
      /\ answer' = [col |-> col.name, read |-> Qwp!TypeToArrow(col), override |-> Qwp!Override(t, mode, FALSE)]

QdbBind == Idle /\ \E t \in DOMAIN QwpValues : \E v \in QwpValues[t] :
  /\ call' = [op |-> "QdbBind", t |-> t, v |-> v]
  /\ answer' = [value |-> Qwp!BindValue(t, v, LongMax), null |-> Qwp!BindNull(t)]

(* A result set, and what is left of its bindings once long values have    *)
(* come, of a driver that may refuse blocks and may refuse to leave them.  *)
DescribeResult == Idle /\ \E o \in Options, cs \in UNION {[1 .. n -> Cells] : n \in 1 .. 2} :
  \E xs \in {DescribeColumns(cs, o)}, blocks, collapses \in BOOLEAN :
    LET asked == RowsPerFetch(xs, 64, 4096, 0)
        rows  == IF blocks THEN asked ELSE 1
        lens  == [i \in DOMAIN xs |-> <<1, 10000>>]
        first == [cols |-> xs, rows |-> rows]
    IN  /\ call' = [op |-> "DescribeResult", o |-> o, cs |-> cs]
        /\ answer' = [first |-> first,
                      kept  |-> IF AdaptOpen(xs, asked, o.flags)
                                THEN AdaptBindWidth(xs, lens, 256, rows, collapses, o.w) ELSE first]

DescribeParams == Idle /\ \E o \in Options, cs \in [1 .. 2 -> Cells] :
  /\ call' = [op |-> "DescribeParams", o |-> o, cs |-> cs]
  /\ answer' = DescribeParameters(cs, o)

-----------------------------------------------------------------------------
(* Quirks                                                                  *)

DetectDriver == Idle /\ \E d \in Clients :
  /\ call' = [op |-> "DetectDriver", d |-> d]
  /\ answer' = DetectQuirks(d)

-----------------------------------------------------------------------------
(* Targets                                                                 *)

(* What an application writes (external): a value in braces, or plain when *)
(* nothing in it would end it.                                             *)
Plain(v) == v = <<>> \/ (v[1] # Tgt!Ch.lbrace /\ \A i \in DOMAIN v : v[i] # Tgt!Ch.semi)
Written(attrs, braces) ==
  FlattenSeq([i \in DOMAIN attrs |->
    <<attrs[i].key, Tgt!Ch.blank, Tgt!Ch.eq>>
    \o (IF braces \/ ~Plain(attrs[i].value) THEN Tgt!AppendOdbcValue(attrs[i].value) ELSE attrs[i].value)
    \o <<Tgt!Ch.semi, Tgt!Ch.blank>>])

ReadConnString == Idle /\ \E x, y \in SomeAttributes, braces \in BOOLEAN :
  /\ call' = [op |-> "ReadConnString", attrs |-> <<x, y>>]
  /\ answer' = Tgt!Attributes(Written(<<x, y>>, braces))

Connect == Idle /\ \E t \in Tunings, braces \in BOOLEAN :
  \E name \in {Tgt!NoText} \cup {x.value : x \in {a \in SomeAttributes : a.key = Tgt!Kw.uid /\ Plain(a.value)}} :
  \E word \in {name, Tgt!NoText} :
    LET dsn   == IF t.dsn = <<>> THEN Tgt!NoText ELSE <<97>>
        added == Tgt!TuneConnectionString(t.conn, t.dsn, t.tune, t.batch, t.windows)
    IN  /\ call' = [op |-> "Connect", t |-> t, name |-> name, word |-> word]
        /\ answer' = [added |-> added,
                      attrs |-> Tgt!Attributes(Tgt!OpenHdbc(Written(t.conn, braces), dsn, name, word, added))]

TranslateTarget == Idle /\ \E t \in SomeTargets, family \in {"postgresql", "file", "other"} :
  \E uri \in {Tgt!BuildNativeUri(family, t.conn, t.dsn, t.listed, t.username, t.password)} :
  \E text \in {Tgt!NativeUriToOdbc(family, uri, <<100>>)} :
      /\ call' = [op |-> "TranslateTarget", t |-> t, family |-> family]
      /\ answer' = IF uri = Tgt!NoText THEN [uri |-> FALSE]
                   ELSE [uri |-> TRUE, back |-> Tgt!ParseUriRest(uri), odbc |-> text # Tgt!NoText,
                         attrs |-> Tgt!Attributes(IF text = Tgt!NoText THEN <<>> ELSE text)]

(* Credentials for a URI the application passed, here one made of t.       *)
MergeCredentials == Idle /\ \E t \in SomeTargets, v \in {x.value : x \in SomeAttributes} :
  LET uri == Tgt!BuildNativeUri("postgresql", t.conn, t.dsn, t.listed, t.username, t.password)
      kv  == <<Tgt!Attr(Tgt!Kw.user, v), Tgt!Attr(Tgt!Kw.password, v)>>
  IN  /\ uri # Tgt!NoText
      /\ call' = [op |-> "MergeCredentials", before |-> Tgt!ParseUriRest(uri), v |-> v]
      /\ answer' = Tgt!ParseUriRest(Tgt!UriWithParams(uri, kv))

Next == \/ MatchName \/ ConnectionGetObjects \/ QdbConnectionGetObjects
        \/ ConnectionGetTableTypes \/ ConnectionGetTableSchema \/ QdbConnectionGetTableSchema
        \/ GetTableSchemaFails
        \/ ReadConnString \/ Connect \/ TranslateTarget \/ MergeCredentials
        \/ ConvertText \/ SendStatement \/ SendPattern \/ ReturnString \/ SetError \/ ReadWide \/ RepairWide
        \/ BindRow \/ StageArray
        \/ CreateColumn \/ QdbCreateColumn \/ QdbBind \/ DescribeResult \/ DescribeParams
        \/ DetectDriver

Spec == Init /\ [][Next]_vars

-----------------------------------------------------------------------------
(* Catalogs                                                                *)

(* The tables a call is about.                                             *)
Wanted(v, q) ==
  {t \in v.tables : /\ Selects(q.cat, t.cat) /\ Selects(q.sch, t.sch) /\ Selects(q.tbl, t.name)
                    /\ q.types = {} \/ t.type \in q.types}

NoDuplicates(seq) == Cardinality({seq[i] : i \in DOMAIN seq}) = Len(seq)

CatalogsOf(a) == [i \in DOMAIN a |-> a[i].cat]
Schemas(a, i) == [k \in DOMAIN a[i].schemas |-> a[i].schemas[k].sch]

(* The table entries of an answer, with the names above them.              *)
EntriesOf(a) ==
  UNION {UNION {{<<a[i].cat, a[i].schemas[k].sch, a[i].schemas[k].tables[n]>> :
                   n \in DOMAIN a[i].schemas[k].tables} : k \in DOMAIN a[i].schemas} : i \in DOMAIN a}

OwnColumns(t, pat) == SelectSeq(ColumnsOf(t), LAMBDA c : Selects(pat, c.name))

(* Tables the columns of t may be mistaken for: those its schema and name  *)
(* match as patterns, and, for a server that refuses qualifiers, those of  *)
(* the same name in the current catalog.                                   *)
Doubles(v, d, t) ==
  IF d.columns
  THEN {x \in v.tables \ {t} : /\ t.cat = Null \/ x.cat = t.cat
                               /\ Selects(t.sch, x.sch) /\ Selects(t.name, x.name)}
  ELSE IF d.refuses = 0 \/ (d.refuses = 1 /\ t.cat = v.current) THEN {}
  ELSE {x \in v.tables \ {t} : x.cat = v.current /\ x.name = t.name}

IsEntry(e, t) == e[1] = t.cat /\ e[2] = t.sch /\ e[3].name = t.name

(* What the entry of table t says.                                         *)
Describes(e, t, v, d, q) ==
  /\ IsEntry(e, t) /\ e[3].type = t.type
  /\ q.depth = "all" => /\ Doubles(v, d, t) = {} => e[3].cols = OwnColumns(t, q.col)
                        /\ d.columns => Range(OwnColumns(t, q.col)) \subseteq Range(e[3].cols)
                        /\ Range(e[3].keys) = Range(t.keys) /\ Len(e[3].keys) = Len(t.keys)

Grouped(a) == /\ NoDuplicates(CatalogsOf(a))
              /\ \A i \in DOMAIN a : NoDuplicates(Schemas(a, i))

CatalogsExact(v, q, a) ==
  {a[i].cat : i \in DOMAIN a} = {c \in {t.cat : t \in v.tables} \cup {v.current} : Selects(q.cat, c)}

(* The schemas a driver lists are the current catalog's only.              *)
SchemasExact(v, q, a) ==
  LET told == UNION {{<<a[i].cat, a[i].schemas[k].sch>> : k \in DOMAIN a[i].schemas} : i \in DOMAIN a}
      real == {<<t.cat, t.sch>> : t \in {x \in v.tables : Selects(q.cat, x.cat) /\ Selects(q.sch, x.sch)}}
  IN  /\ told \subseteq real \cup {<<v.current, Null>>}
      /\ {p \in real : p[1] = v.current \/ q.cat # Null} \subseteq told

TablesExact(v, d, q, a) ==
  /\ \A e \in EntriesOf(a) : \E t \in Wanted(v, q) : Describes(e, t, v, d, q)
  /\ \A t \in Wanted(v, q) : Cardinality({e \in EntriesOf(a) : IsEntry(e, t)}) = 1

(* A table's schema is that of a table with the names given, and is found  *)
(* when there is one and the server takes names with those qualifiers; a   *)
(* catalog without a schema says nothing where there are schemas.          *)
SchemaExact(v, d, r, a) ==
  LET clear == Stated(r.sch) \/ ~Stated(r.cat) \/ \A t \in v.tables : t.sch = Null
      taken == d.refuses <= (IF Stated(r.cat) THEN 0 ELSE IF Stated(r.sch) THEN 1 ELSE 2)
      fit   == {t \in v.tables : /\ t.name = r.name
                                 /\ t.cat = IF Stated(r.cat) THEN r.cat ELSE v.current
                                 /\ Stated(r.sch) => t.sch = r.sch}
  IN  clear => IF fit = {} \/ ~taken THEN a = NotFound ELSE \E t \in fit : a = ColumnsOf(t)

(* A table is listed with its own columns and no others: the listing is    *)
(* "for one table", and where "the driver cannot list this table's         *)
(* columns; describing a zero-row SELECT can" (AppendColumns,              *)
(* src/src/odbc_objects.c).                                                *)
ColumnsAreItsOwn ==
  call.op = "ConnectionGetObjects" /\ call.q.depth = "all" =>
    \A e \in EntriesOf(answer.list), t \in call.v.tables :
      IsEntry(e, t) => e[3].cols = OwnColumns(t, call.q.col)

(* GetObjects answers with exactly the objects its filters select, once    *)
(* and under their own catalog and schema, and each table with its own     *)
(* columns, at their places, and its whole foreign keys -- whichever       *)
(* filters the driver ignores, whichever listings it leaves empty or       *)
(* returns twice, and when its columns have to be described instead; it    *)
(* fails only where the server refuses to describe a table by any name.    *)
(* (The columns of a table that can be mistaken for another, see Doubles,  *)
(* are an exception: ColumnsAreItsOwn fails there.)  The pattern matching  *)
(* of the bridge agrees with that of ODBC, and the schema of a table is    *)
(* that of the table named; a table is not called missing because the      *)
(* session was lost, refused, late or cancelled.                           *)
(* (CollectTables and AppendColumns, src/src/odbc_objects.c, and           *)
(* QdbConnectionGetObjects, src/questdb/src/qwp_driver.c.)                 *)
ObjectsAreExact ==
  /\ call.op = "MatchName" =>
       /\ answer.odbc = IsLike(call.p, call.n)
       /\ (\A i \in DOMAIN call.p : call.p[i] # Backslash) => answer.quest = IsLike(call.p, call.n)
  /\ call.op = "ConnectionGetObjects" =>
       IF ~answer.ok THEN call.q.depth = "all" /\ ~call.d.columns /\ call.d.refuses > 0
       ELSE /\ Grouped(answer.list)
            /\ CASE call.q.depth = "catalogs" -> CatalogsExact(call.v, call.q, answer.list)
                 [] call.q.depth = "schemas" -> SchemasExact(call.v, call.q, answer.list)
                 [] OTHER -> TablesExact(call.v, call.d, call.q, answer.list)
  /\ call.op = "QdbConnectionGetObjects" =>
       LET q == call.q
           here == QdbLikeMatch(q.cat, <<113>>) /\ QdbLikeMatch(q.sch, <<112>>)
           mine == {t \in call.v.tables : Selects(q.tbl, t.name) /\ (q.types = {} \/ t.type \in q.types)}
       IN  q.depth \in {"tables", "all"} =>
             {<<e[3].name, e[3].cols>> : e \in EntriesOf(answer)}
               = IF ~here THEN {}
                 ELSE {<<t.name, IF q.depth = "all" THEN OwnColumns(t, q.col) ELSE Absent>> : t \in mine}
  /\ call.op = "ConnectionGetTableTypes" =>
       {answer[i] : i \in DOMAIN answer} = {t.type : t \in call.v.tables} /\ NoDuplicates(answer)
  /\ call.op = "ConnectionGetTableSchema" => SchemaExact(call.v, call.d, call.r, answer)
  /\ call.op = "GetTableSchemaFails" /\ call.records # <<>> =>
       LET class == call.records[1].class
       IN  answer = "NOT_FOUND" => class \notin {"08", "28", "HYT0", "HY008"}
  /\ call.op = "QdbConnectionGetTableSchema" =>
       LET here == call.cat \in {Null, <<>>, <<113>>} /\ call.sch \in {Null, <<>>, <<112>>}
           mine == {t \in call.v.tables : here /\ t.name = call.n}
       IN  IF mine = {} THEN answer = NotFound ELSE \E t \in mine : answer = ColumnsOf(t)

-----------------------------------------------------------------------------
(* Text                                                                    *)

Surrogate(cp) == cp \in 55296 .. 57343
Ascii(s) == \A i \in DOMAIN s : s[i] < 128

(* A repaired value of a bound wide column arrives whole: "the whole value *)
(* with SQLGetData rather than silently returning a prefix" (AppendValue,  *)
(* src/src/odbc_reader.c).                                                 *)
RepairIsWhole == call.op = "RepairWide" => answer = Utf8(call.s)

(* A message longer than the first buffer arrives whole: the "second call  *)
(* must be able to bring the whole message back" (OdbcGetDiagRecUtf8,      *)
(* src/src/odbc_text.c).                                                   *)
ErrorIsWhole == call.op = "SetError" /\ Len(Utf8(call.s)) <= MostBytes => answer = Utf8(call.s)

(* Text keeps every character through the two encodings of ODBC: units     *)
(* sent fill exactly the room that was counted for them, whatever units    *)
(* come back become valid UTF-8, a string that fits its buffer and an      *)
(* error message that does not are whole, a statement or a pattern reaches *)
(* a driver as it was written, and a clipped value that is read again is   *)
(* whole.  (Messages on Windows that are not plain ASCII are an exception: *)
(* the second buffer is sized in units and filled in bytes, ErrorIsWhole.  *)
(* So are bytes a driver reads one by one as characters.)                  *)
(* (Utf8ToUtf16Into, src/src/odbc_bind.c; odbc_text.c; Utf16ToUtf8 and     *)
(* OdbcSetError, src/src/odbc_reader.c.)                                   *)
TextSurvives ==
  /\ call.op = "ConvertText" =>
       /\ CodePoints(answer.units, call.w) = call.s
       /\ Len(answer.units) = answer.count /\ answer.count <= Len(Utf8(call.s))
       /\ Len(Utf8(call.s)) <= Utf16Utf8MaxBytes(answer.count, call.w)
  /\ call.op = "SendStatement" /\ (call.reads = "utf8" \/ StatementIsWide(call.p)) =>
       answer = call.s
  /\ call.op = "SendPattern" /\ (call.reads = "utf8" \/ call.wide) => answer = call.s
  /\ call.op = "ReturnString" =>
       /\ Len(Utf8(call.s)) < call.cap => answer.out = Utf8(call.s) /\ answer.len = Len(Utf8(call.s))
       /\ Len(answer.out) < call.cap
  /\ call.op = "SetError" /\ Len(Utf8(call.s)) <= MostBytes /\ (call.windows => Ascii(call.s)) =>
       answer = Utf8(call.s)
  /\ call.op = "ReadWide" =>
       LET cs == Leads(answer)
       IN  /\ \A i \in DOMAIN cs : ~Surrogate(cs[i].cp)
           /\ Utf8([i \in DOMAIN cs |-> cs[i].cp]) = answer
           /\ Len(answer) <= Utf16Utf8MaxBytes(Len(call.u), call.w)
  /\ RepairIsWhole

-----------------------------------------------------------------------------
(* Parameters                                                              *)

(* The value as the server should have it.  A text has seven digits of a   *)
(* second at most.                                                         *)
Cut(f, c, n) == IF f.unit = "ns" /\ c = "CHAR" THEN n - (n % 100) ELSE n

Expected(f, c, x) ==
  LET per == TicksPerSecond(f.unit)
  IN  CASE f.type = "time" -> [secs |-> (x \div per) % 86400, frac |-> Cut(f, c, x % per)]
        [] f.type = "timestamp" -> [secs |-> x \div per, frac |-> Cut(f, c, x % per)]
        [] OTHER -> x

Counted(c) == c \in {"CHAR", "WCHAR", "BINARY"}

(* Values the parameter cannot carry: a year beyond the DATE_STRUCT's, and *)
(* a decimal longer than its buffer.                                       *)
Carried(f, c, x) ==
  CASE f.type = "date32"  -> c = "CHAR" \/ CivilFromDays(x).y \in -32768 .. 32767
    [] f.type = "decimal" -> Len(x) < TextRoom
    [] OTHER -> TRUE

Arrives(f, c, data, w, x) == Meaning(f, c, data, w) = Expected(f, c, x)

(* "The driver writes the decimal as an exact SQL_C_CHAR string"           *)
(* (src/tests/validation/RESULTS.md; SlotFromArrow and ArrayParamFill,     *)
(* src/src/odbc_bind.c).                                                   *)
DecimalIsExact ==
  call.op = "BindRow" /\ call.f.type = "decimal" /\ ~call.v.null =>
    Arrives(call.f, answer.c, answer.data, call.w, call.v.x)

(* Over QWP: a number that fits is itself and one that does not is         *)
(* refused, a moment keeps its distance from the epoch in the unit it is   *)
(* sent in, and a null is of the kind a value would be -- but for types    *)
(* that are sent as a wider one.                                           *)
PerSecond == [timestamp |-> 1000000, timestamp_nanos |-> 1000000000, date |-> 1000]
Widened == {"uint8", "uint16", "uint32", "half_float", "binary_view"}

QdbArrives(t, v, a) ==
  LET sent == a.value
      step == CASE t.name = "timestamp" -> PerSecond[sent.kind] \div TicksPerSecond(t.unit)
                [] t.name = "date32" -> 86400 * PerSecond[sent.kind] [] OTHER -> 1
  IN  /\ sent.kind = None <=> t.name = "uint64" /\ v > LongMax
      /\ sent.kind # None => /\ sent.value = v * step
                             /\ t.name \notin Widened => a.null = sent.kind

(* A bound value arrives at the server as it was in the Arrow array: null  *)
(* when and only when it was null, the same number, moment or text         *)
(* otherwise, within the room that was planned for it and with the length  *)
(* that goes with it -- bound row by row or as an array, plain or through  *)
(* a dictionary, under every quirk of a driver -- or the call fails, which *)
(* it does for an index outside the dictionary and nothing else.  (Years   *)
(* beyond a SQLSMALLINT in a struct, and decimals too long for the buffer, *)
(* are exceptions: they are cut, see Carried and DecimalIsExact.)          *)
(* (SlotFromArrow, ArrayParamPlan and ArrayParamFill,                      *)
(* src/src/odbc_bind.c; QdbBindValue, src/questdb/src/qwp_driver.c.)       *)
ParamsArrive ==
  /\ call.op = "BindRow" =>
       /\ answer.ok <=> ~call.astray
       /\ call.v.null <=> answer.ind = NullData
       /\ ~call.v.null /\ answer.ok /\ Carried(call.f, answer.c, call.v.x) =>
            /\ Arrives(call.f, answer.c, answer.data, call.w, call.v.x)
            /\ call.f.type \in StringTypes =>
                 answer.ind = Len(answer.data) * (IF answer.c = "WCHAR" THEN call.w ELSE 1)
  /\ call.op = "QdbBind" => QdbArrives(call.t, call.v, answer)
  /\ call.op = "StageArray" /\ answer.plan.ok =>
       /\ answer.fill.ok <=> ~call.astray
       /\ \A i \in DOMAIN answer.fill.rows :
         LET row == answer.fill.rows[i]  c == answer.plan.c
         IN  /\ call.vs[i].null <=> row.ind = NullData
             /\ ~call.vs[i].null /\ Carried(call.f, c, call.vs[i].x) =>
                  /\ Arrives(call.f, c, row.data, call.w, call.vs[i].x)
                  /\ Counted(c) => answer.plan.inds /\ row.ind = row.len
                  /\ call.f.type \in StringTypes => Len(row.data) < answer.plan.elem
                  /\ call.f.type \in BinaryTypes => Len(row.data) <= answer.plan.elem

-----------------------------------------------------------------------------
(* Columns                                                                 *)

Bits == [bool |-> 1, int8 |-> 7, uint8 |-> 8, int16 |-> 15, uint16 |-> 16, int32 |-> 31,
         uint32 |-> 32, int64 |-> 63, uint64 |-> 64]
Mantissa == [half |-> 11, float |-> 24, double |-> 53]

IsSigned(type) == type \notin {"bool", "uint8", "uint16", "uint32", "uint64"}

(* Every value of field f is a value of g; digits is how finely the server *)
(* can keep a second.                                                      *)
Holds(f, g, digits) ==
  CASE f.type \in DOMAIN Bits ->
         \/ g.type \in DOMAIN Bits /\ Bits[f.type] <= Bits[g.type]
            /\ (IsSigned(f.type) => IsSigned(g.type))
         \/ g.type = "decimal" /\ g.precision - g.scale >= 19
    [] f.type \in DOMAIN Mantissa -> g.type \in DOMAIN Mantissa /\ Mantissa[f.type] <= Mantissa[g.type]
    [] f.type = "date32" -> g.type \in {"date32", "timestamp"}
    [] f.type \in {"time", "timestamp"} ->
         /\ g.type = f.type
         /\ UnitFractionDigits(g.unit) >= Least(UnitFractionDigits(f.unit), digits)
    [] f.type = "decimal" ->
         \/ g.type = "string"
         \/ /\ g.type = "decimal" /\ g.scale >= f.scale
            /\ g.precision - g.scale >= f.precision - f.scale
    [] OTHER -> g.type = f.type

(* A server whose types the driver does not tell apart keeps six digits.   *)
Finest(info, o, sql) ==
  IF \/ o.flags \cap {"ddl_timestamp_type_format", "fractional_time_type_format",
                      "ansi_ddl_type_names", "timestamp_as_text"} # {}
     \/ sql \notin DOMAIN info
  THEN 6 ELSE info[sql].maxScale

(* The QuestDB types in the terms of a field.                              *)
FromQwp(t) == [type |-> CASE t.name \in {"decimal64", "decimal128", "decimal256"} -> "decimal"
                          [] t.name = "dictionary" -> "string" [] OTHER -> t.name,
               unit |-> IF t.unit = None THEN "s" ELSE t.unit, zoned |-> FALSE,
               precision |-> t.size, scale |-> t.scale]

(* A column made for an Arrow field reads back as a type that holds every  *)
(* value of the field, whatever types the driver has: no integer narrower, *)
(* no decimal with fewer places, no second cut coarser than the server's.  *)
(* A QuestDB column made for symbols is sent symbols.                      *)
(* (64-bit unsigned columns are the exception: both drivers make them of   *)
(* a signed type.)                                                         *)
(* (ColumnTypeSql, src/src/odbc_bind.c, against ClassifyColumn,            *)
(* src/src/odbc_reader.c; QdbQuestTypeFor against QdbTypeToArrow,          *)
(* src/questdb/src/qwp_driver.c.)                                          *)
ColumnsReadBack ==
  /\ call.op = "CreateColumn" /\ call.f.type # "uint64" =>
       Holds(call.f, answer, Finest(call.info, call.o, IF call.f.type = "time" THEN "TIME" ELSE "TIMESTAMP"))
  /\ call.op = "QdbCreateColumn" /\ call.f.type # "uint64" =>
       /\ Holds(call.f, FromQwp(answer.read), 9)
       /\ (answer.col = "SYMBOL") <=>
            IF call.f.type = "string" /\ call.coded THEN answer.override # "not_symbol"
            ELSE answer.override = "symbol"
  /\ call.op = "DescribeParams" =>
       \/ \A i \in DOMAIN answer : answer[i].type = "string"
       \/ \A i \in DOMAIN answer : ~call.cs[i].unsigned /\ call.cs[i].name = "" =>
                                   answer[i] = BuildSchema(DescribeColumns(call.cs, call.o)[i])

(* Lengths of values: short, the longest that column i may have, and far   *)
(* longer than any buffer.                                                 *)
LengthsOf(c, x, w, u) == {1, Longest(c, x, w, u), 100000}

(* Every value of column i, as it is bound in r, arrives whole where a     *)
(* character takes u units.                                                *)
WholeAt(r, i, u) ==
  \A len \in LengthsOf(call.cs[i], r.cols[i], call.o.w, u) :
    ArrivesWhole(call.cs[i], r.cols[i], call.o, r.rows, u, len)

(* long_bind_bytes has room for a unit.                                    *)
UnitFits(x, o) == x.c = "WCHAR" => o.long >= o.w

(* Columns left to SQLGetData come last, and then rows come one by one.    *)
UnboundLast(r) ==
  \A i \in DOMAIN r.cols : ~r.cols[i].bound => r.rows = 1 /\ \A k \in i .. Len(r.cols) : ~r.cols[k].bound

(* A result set and what is left of its bindings.                          *)
Readings == {answer.first, answer.kept}

(* "column_size is in characters; UTF-8 may need up to 4 bytes each"       *)
(* (ClassifyColumn, src/src/odbc_reader.c), and of the columns marked      *)
(* clipped "Only such a column can force the repair path": a value of      *)
(* column_size characters of any kind arrives whole, in a wide column too. *)
WideValuesAreWhole ==
  call.op = "DescribeResult" =>
    \A r \in Readings, i \in DOMAIN call.cs :
      UnitFits(r.cols[i], call.o) => WholeAt(r, i, UnitsPerCharacter(call.o.w))

(* A column is bound "at `long_bind_bytes` instead and the few values that *)
(* overflow that are re-read in full" (ApplyBindWidth,                     *)
(* src/src/odbc_reader.c).                                                 *)
LongValuesAreWhole ==
  call.op = "DescribeResult" => \A r \in Readings, i \in DOMAIN call.cs : WholeAt(r, i, 1)

(* No value is clipped in silence: every value a column is described to    *)
(* have, and any value of a column described without a length, arrives     *)
(* whole, from a buffer that holds it or because the driver can read it    *)
(* again; columns left to SQLGetData come last and rows then come one by   *)
(* one -- before a width is given up and after, and when the driver        *)
(* refuses to give up its rowset.  (Two exceptions.  Where a wide value    *)
(* cannot be read again, a character is one unit: WideValuesAreWhole fails *)
(* there.  For a wide column long_bind_bytes has room for a unit:          *)
(* LongValuesAreWhole fails otherwise.)                                    *)
(* (ApplyBindWidth, DescribeColumns, ReaderBind, AppendValue,              *)
(* AdaptBindWidth and ReaderUnbindFrom, src/src/odbc_reader.c.)            *)
NothingIsClipped ==
  call.op = "DescribeResult" =>
    \A r \in Readings :
      /\ UnboundLast(r)
      /\ \A i \in DOMAIN call.cs :
           UnitFits(r.cols[i], call.o) =>
             WholeAt(r, i, IF Rereads(call.o.flags, r.rows) THEN UnitsPerCharacter(call.o.w) ELSE 1)

-----------------------------------------------------------------------------
(* Quirks                                                                  *)

(* Connecting concludes nothing that cannot be true together: arrays are   *)
(* not both preferred and forbidden, a value is re-read in place only      *)
(* where SQLGetData reaches bound columns, a rowset that may not move is   *)
(* never collapsed for a repair, statement text is not both wide and       *)
(* narrow, and what is claimed of PostgreSQL alone is not claimed of a     *)
(* server that only speaks its protocol, as long as that server answers    *)
(* the questions it is asked.                                              *)
(* (OdbcDetectQuirks, src/src/odbc_driver.c.)                              *)
QuirksAgree == call.op = "DetectDriver" => QuirksConsistent(call.d, answer)

-----------------------------------------------------------------------------
(* Targets                                                                 *)

(* The values the keywords of a target give, the connection string's first *)
(* and the DSN's where that has none.                                      *)
ValuesOf(t, keys) ==
  LET in(attrs) == {attrs[i].value : i \in {k \in DOMAIN attrs : attrs[k].key \in keys}} \ {<<>>}
  IN  IF in(t.conn) # {} THEN in(t.conn) ELSE in(t.dsn)

(* v is one of the values, or missing where there is none.                 *)
OneOf(v, values) == IF values = {} THEN ~Tgt!Given(v) ELSE v \in values

(* The settings for libpq, in the order in which they take effect, and     *)
(* what all of them come to.                                               *)
SettingsOf(t) ==
  LET sets(a) == IF a.key = Tgt!Kw.pqopt THEN Blocks[a.value]
                 ELSE IF a.key \in {Tgt!Kw.sslmode, Tgt!Kw.options} /\ a.value # <<>> THEN <<a>> ELSE <<>>
      all == t.dsn \o t.conn
  IN  FlattenSeq([i \in DOMAIN all |-> sets(all[i])])

InEffect(list) ==
  {list[i] : i \in {k \in DOMAIN list : \A n \in k + 1 .. Len(list) : list[n].key # list[k].key}}

Login(option, t, keys) == IF option # Tgt!NoText THEN {option} \ {<<>>} ELSE ValuesOf(t, keys)

Unbracketed(h) == IF h[1] = Tgt!Ch.lbracket THEN SubSeq(h, 2, Len(h) - 1) ELSE h
IsSocket(h) == h[1] \in {Tgt!Ch.slash, Tgt!Ch.at}

ParamOf(u, key) == {u.params[i].value : i \in {k \in DOMAIN u.params : u.params[k].key = key}}

(* The URI names the target t and carries its settings, and nothing else.  *)
SameTarget(t, u) ==
  LET k == Tgt!Kw
      hosts == ValuesOf(t, {k.server, k.host})
      socket == \E h \in hosts : IsSocket(h)
      users == Login(t.username, t, {k.uid, k.user})
      place == IF socket THEN {k.host, k.port} ELSE {}
  IN  /\ IF hosts = {} THEN u.host = <<108>>
         ELSE IF socket THEN u.host = Tgt!NoText /\ ParamOf(u, k.host) \subseteq hosts /\ ParamOf(u, k.host) # {}
         ELSE u.host \in {Unbracketed(h) : h \in hosts}
      /\ IF socket THEN ParamOf(u, k.port) = ValuesOf(t, {k.port}) ELSE OneOf(u.port, ValuesOf(t, {k.port}))
      /\ OneOf(u.path, ValuesOf(t, {k.database}))
      /\ OneOf(u.user, users)
      /\ users # {} => OneOf(u.password, Login(t.password, t, {k.pwd, k.password}))
      /\ {u.params[i] : i \in {n \in DOMAIN u.params : u.params[n].key \notin place}} = InEffect(SettingsOf(t))

(* A connection string says the same as the URI it was made of.            *)
SameConnection(attrs, u) ==
  LET k == Tgt!Kw
      get(key) == Tgt!ConnStringGet(attrs, key)
  IN  /\ get(k.server) = u.host /\ get(k.port) = u.port /\ get(k.database) = u.path
      /\ get(k.uid) = u.user /\ get(k.pwd) = u.password
      /\ \A i \in DOMAIN u.params : get(k.sslmode) = u.params[i].value

(* A target stays what it is through its spellings: attributes written     *)
(* with or without braces are read as they were meant, a URI made of a     *)
(* connection string and a DSN has every part and every setting of them,   *)
(* the string's before the DSN's, and no other; only a keyword that cannot *)
(* be carried over leaves no URI; a URI made into a connection string      *)
(* again reads the same; credentials added to a URI change nothing else;   *)
(* and what is added to connect with replaces nothing the caller set.      *)
(* (A socket directory, a password without a user, and credentials with    *)
(* the signs of a connection string, are exceptions.)                      *)
(* (ConnStringNext, CollectKeywords, BuildPostgresUri, ParseUriRest and    *)
(* OdbcDelegateNativeUriToOdbc, src/src/odbc_delegate.c.)                  *)
TargetsSurvive ==
  /\ call.op = "ReadConnString" => answer = call.attrs
  /\ call.op = "TranslateTarget" /\ call.family = "postgresql" =>
       LET all == call.t.dsn \o call.t.conn
       IN  /\ answer.uri => /\ \A i \in DOMAIN all : all[i].key # Tgt!Kw.readonly
                            /\ call.t.listed \/ call.t.dsn = <<>>
                            /\ SameTarget(call.t, answer.back)
           /\ /\ \A i \in DOMAIN all : all[i].key # Tgt!Kw.readonly
              /\ call.t.listed
              /\ \A p \in ValuesOf(call.t, {Tgt!Kw.port}) : Tgt!AllDigits(p)
              /\ \A h \in ValuesOf(call.t, {Tgt!Kw.server, Tgt!Kw.host}) :
                   \A i \in DOMAIN h : h[i] # Tgt!Ch.colon
              => answer.uri
           /\ answer.uri /\ answer.odbc /\ answer.back.host # Tgt!NoText =>
                SameConnection(answer.attrs, answer.back)
  /\ call.op = "TranslateTarget" /\ call.family = "file" /\ answer.uri =>
       Tgt!ConnStringGet(answer.attrs, Tgt!Kw.database) \in
         {SubSeq(v, IF Len(v) > 1 /\ v[1] = 47 /\ v[2] = 47 THEN 3 ELSE 1, Len(v)) :
            v \in ValuesOf(call.t, {Tgt!Kw.database})}
  /\ call.op = "Connect" =>
       LET login == (IF call.t.dsn = <<>> THEN <<>> ELSE <<Tgt!Attr(Tgt!Kw.dsn, <<97>>)>>)
                    \o (IF call.name = Tgt!NoText THEN <<>> ELSE <<Tgt!Attr(Tgt!Kw.uid, call.name)>>)
                    \o (IF call.word = Tgt!NoText THEN <<>> ELSE <<Tgt!Attr(Tgt!Kw.pwd, call.word)>>)
           all == call.t.conn \o call.t.dsn
       IN  /\ answer.attrs = call.t.conn \o login \o answer.added
           /\ \A i \in DOMAIN answer.added, k \in DOMAIN all :
                all[k].key = answer.added[i].key => k > Len(call.t.conn) /\ all[k].value = <<>>
           /\ ~call.t.tune => answer.added = <<>>
  /\ call.op = "MergeCredentials" =>
       LET login == {Tgt!Kw.user, Tgt!Kw.password}
           others(u) == {u.params[i] : i \in {n \in DOMAIN u.params : u.params[n].key \notin login}}
       IN  /\ \A key \in login : ParamOf(answer, key) = {call.v}
           /\ others(answer) = others(call.before)
           /\ answer.host = call.before.host /\ answer.port = call.before.port
           /\ answer.user = call.before.user /\ answer.path = call.before.path
=============================================================================
