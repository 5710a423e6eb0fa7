------------------------------ MODULE Catalog ------------------------------
(***************************************************************************)
(* ConnectionGetObjects over ODBC (src/odbc_objects.c) and of the QuestDB  *)
(* driver, as functions of the call's filters, of the objects the server   *)
(* has and of what the driver makes of its catalog functions.              *)
(*                                                                         *)
(* A name is a sequence of character codes; Null is the absent name.  A    *)
(* server v is [tables, listing, current]: its tables, the order in which  *)
(* the driver lists them, and the current catalog.  A table is [cat, sch,  *)
(* name, type, cols, keys], keys being its foreign keys [name, cols, to].  *)
(* A driver d tells which patterns it ignores, how it answers the listings *)
(* of all catalogs and of all schemas, whether its SQLColumns works, how   *)
(* many of the three spellings of a table name the server refuses, the     *)
(* most qualified first, and whether it has an empty name for an absent    *)
(* one.                                                                    *)
(***************************************************************************)
EXTENDS Integers, SequencesExt

Null == <<-1>>
Absent == <<>>          \* the list of a level below the depth asked for
NameOf(s) == IF s = <<>> THEN Null ELSE s      \* GetNameCol, AppendNameOrNull

Percent    == 37
Underscore == 95
Backslash  == 92

AsciiLower(c) == IF c \in 65 .. 90 THEN c + 32 ELSE c

-----------------------------------------------------------------------------
(* LikeMatch: the loop over pattern and name, with the position to go back *)
(* to after the last '%' (0 before the first).                             *)

RECURSIVE LikeFrom(_, _, _, _, _, _)
LikeFrom(pat, s, i, j, sp, ss) ==
  LET at(k) == IF k <= Len(pat) THEN pat[k] ELSE 0
      lit   == IF at(i) = Backslash /\ at(i + 1) # 0 THEN i + 1 ELSE i
  IN  IF j > Len(s) THEN \A k \in i .. Len(pat) : pat[k] = Percent
      ELSE IF at(i) = Percent THEN LikeFrom(pat, s, i + 1, j, i + 1, j)
      ELSE IF at(i) = Underscore THEN LikeFrom(pat, s, i + 1, j + 1, sp, ss)
      ELSE IF at(lit) # 0 /\ AsciiLower(at(lit)) = AsciiLower(s[j])
           THEN LikeFrom(pat, s, lit + 1, j + 1, sp, ss)
      ELSE sp # 0 /\ LikeFrom(pat, s, sp, ss + 1, sp, ss + 1)

LikeMatch(pat, s) == LikeFrom(pat, s, 1, 1, 0, 0)

(* QdbLikeMatch: by recursion, and without an escape.                      *)
RECURSIVE QdbLikeMatch(_, _)
QdbLikeMatch(pat, s) ==
  IF pat = Null THEN TRUE
  ELSE IF pat = <<>> THEN s = <<>>
  ELSE IF pat[1] = Percent
       THEN Tail(pat) = <<>> \/ \E k \in 1 .. Len(s) + 1 : QdbLikeMatch(Tail(pat), SubSeq(s, k, Len(s)))
  ELSE /\ s # <<>>
       /\ pat[1] = Underscore \/ AsciiLower(pat[1]) = AsciiLower(s[1])
       /\ QdbLikeMatch(Tail(pat), Tail(s))

NameMatches(pattern, name) ==
  \/ pattern = Null
  \/ pattern = <<>> /\ name = Null
  \/ pattern \notin {Null, <<>>} /\ name # Null /\ LikeMatch(pattern, name)

-----------------------------------------------------------------------------
(* The catalog functions of the driver (external).                         *)

(* A name matches a pattern as ODBC has it: '%' for any characters, '_'    *)
(* for one, backslash for the character that follows.                      *)
RECURSIVE IsLike(_, _)
IsLike(pat, s) ==
  IF pat = <<>> THEN s = <<>>
  ELSE IF pat[1] = Percent THEN \E k \in 1 .. Len(s) + 1 : IsLike(Tail(pat), SubSeq(s, k, Len(s)))
  ELSE IF pat[1] = Backslash /\ Len(pat) > 1
       THEN s # <<>> /\ AsciiLower(pat[2]) = AsciiLower(s[1]) /\ IsLike(SubSeq(pat, 3, Len(pat)), Tail(s))
  ELSE /\ s # <<>> /\ (pat[1] = Underscore \/ AsciiLower(pat[1]) = AsciiLower(s[1]))
       /\ IsLike(Tail(pat), Tail(s))

(* What a filter of GetObjects selects.                                    *)
Selects(pat, n) == IF pat = Null THEN TRUE
                   ELSE IF pat = <<>> THEN n = Null
                   ELSE n # Null /\ IsLike(pat, n)

SqlTables(v, d, cat, sch, tbl, types) ==
  LET hits == SelectSeq(v.listing, LAMBDA t : /\ "cat" \in d.ignores \/ Selects(cat, t.cat)
                                              /\ "sch" \in d.ignores \/ Selects(sch, t.sch)
                                              /\ "tbl" \in d.ignores \/ Selects(tbl, t.name)
                                              /\ types = {} \/ t.type \in types)
      told(n) == IF n = Null /\ d.blank THEN <<>> ELSE n
  IN  [i \in DOMAIN hits |-> [hits[i] EXCEPT !.cat = told(@), !.sch = told(@)]]

Row(cat, sch, name, type) == [cat |-> cat, sch |-> sch, name |-> name, type |-> type]
RowsOf(ts) == [i \in DOMAIN ts |-> Row(NameOf(ts[i].cat), NameOf(ts[i].sch), ts[i].name, ts[i].type)]

(* SQL_ALL_CATALOGS and SQL_ALL_SCHEMAS, answered, empty or refused; the   *)
(* schemas are the current catalog's, and do not name it.                  *)
AllCatalogs(v, d) ==
  IF d.catalogs # "rows" THEN <<>>
  ELSE SetToSeq({Row(t.cat, Null, Null, Null) : t \in v.tables})
AllSchemas(v, d) ==
  IF d.schemas # "rows" THEN <<>>
  ELSE SetToSeq({Row(Null, t.sch, Null, Null) : t \in {x \in v.tables : x.cat = v.current}})

-----------------------------------------------------------------------------
(* CollectTables                                                           *)

(* StrCmpNull: an absent name comes first.  strcmp on the codes.           *)
Below(a, b) ==
  \/ \E k \in 1 .. Len(b) : /\ k <= Len(a) + 1
                            /\ \A i \in 1 .. k - 1 : a[i] = b[i]
                            /\ k = Len(a) + 1 \/ a[k] < b[k]

RowBelow(x, y) ==
  \/ Below(x.cat, y.cat)
  \/ x.cat = y.cat /\ Below(x.sch, y.sch)
  \/ x.cat = y.cat /\ x.sch = y.sch /\ Below(x.name, y.name)

Same(x, y) == x.cat = y.cat /\ x.sch = y.sch /\ x.name = y.name

(* The rows of the first of each set of equals remain, in order; which of  *)
(* several equal rows comes first is the sort's choice.                    *)
SortAndDedupe(rows) ==
  LET sorted == SortSeq(rows, RowBelow)
      firsts == {i \in DOMAIN sorted : i = 1 \/ ~Same(sorted[i - 1], sorted[i])}
  IN  [k \in 1 .. Cardinality(firsts) |-> sorted[SetToSortSeq(firsts, <)[k]]]

TruncateRows(rows, depth) ==
  [i \in DOMAIN rows |-> Row(rows[i].cat, IF depth = "catalogs" THEN Null ELSE rows[i].sch, Null, Null)]

(* The driver's list of catalogs, or else those of its tables, and always  *)
(* the catalog the connection is in.                                       *)
CollectCatalogs(v, d, q) ==
  LET all  == AllCatalogs(v, d)
      rows == IF all # <<>> THEN all ELSE RowsOf(SqlTables(v, d, q.cat, Null, Null, {}))
  IN  Append(TruncateRows(rows, "catalogs"), Row(v.current, Null, Null, Null))

(* The list of all schemas cannot answer for one catalog; its rows are of  *)
(* the current catalog.                                                    *)
CollectSchemas(v, d, q) ==
  LET all   == IF q.cat = Null THEN AllSchemas(v, d) ELSE <<>>
      named == [i \in DOMAIN all |-> [all[i] EXCEPT !.cat = v.current]]
      rows  == TruncateRows(IF all # <<>> THEN named
                            ELSE RowsOf(SqlTables(v, d, q.cat, q.sch, Null, {})), "schemas")
  IN  IF rows = <<>> THEN <<Row(v.current, Null, Null, Null)>> ELSE rows

(* A slip: the patterns are left to the driver.                            *)
KeepAll(q, depth, r) == TRUE

(* The patterns are enforced on what the driver returned.                  *)
Keep(q, depth, r) ==
  /\ NameMatches(q.cat, r.cat)
  /\ depth = "catalogs" \/ NameMatches(q.sch, r.sch)
  /\ depth \in {"catalogs", "schemas"} \/ NameMatches(q.tbl, r.name)

CollectTables(v, d, q) ==
  LET rows == CASE q.depth = "catalogs" -> CollectCatalogs(v, d, q)
                [] q.depth = "schemas"  -> CollectSchemas(v, d, q)
                [] OTHER -> RowsOf(SqlTables(v, d, q.cat, q.sch, q.tbl, q.types))
  IN  SortAndDedupe(SelectSeq(rows, LAMBDA r : Keep(q, q.depth, r)))

-----------------------------------------------------------------------------
(* Columns and constraints of one table row.                               *)

ColumnsOf(t) == [k \in DOMAIN t.cols |-> [name |-> t.cols[k], pos |-> k]]

(* SQLColumns takes schema and table as patterns, as it is handed them.    *)
SqlColumns(v, r, pat) ==
  LET hits == SelectSeq(SetToSeq(v.tables), LAMBDA t : /\ r.cat = Null \/ t.cat = r.cat
                                              /\ Selects(r.sch, t.sch)
                                              /\ Selects(r.name, t.name))
      cols == [i \in DOMAIN hits |-> [k \in DOMAIN hits[i].cols |-> [name |-> hits[i].cols[k], pos |-> k]]]
  IN  SelectSeq(FlattenSeq(cols), LAMBDA c : Selects(pat, c.name))

(* DescribeTableStmt: the most qualified spelling the server takes.  A     *)
(* name with fewer qualifiers means the current catalog's table, and with  *)
(* none the first of that name.                                            *)
Spelled(v, d, r) ==
  LET levels == {l \in d.refuses .. 2 : (l = 0 => r.cat # Null) /\ (l = 1 => r.sch # Null)}
      meant(l) == {t \in v.tables : /\ t.name = r.name
                                    /\ l <= 1 => t.sch = r.sch
                                    /\ IF l = 0 THEN t.cat = r.cat ELSE t.cat = v.current}
      found == {l \in levels : meant(l) # {}}
  IN  IF found = {} THEN {} ELSE meant(CHOOSE l \in found : \A m \in found : l <= m)

ColumnsViaDescribe(v, d, r, pat) ==
  LET t == CHOOSE x \in Spelled(v, d, r) : TRUE
  IN  SelectSeq(ColumnsOf(t), LAMBDA c : pat = Null \/ LikeMatch(pat, c.name))

(* AppendColumns: the list, and the description where there is none; no    *)
(* spelling of the table the server takes is a failure.                    *)
AppendColumns(v, d, r, pat) ==
  IF d.columns THEN [ok |-> TRUE, cols |-> SqlColumns(v, r, pat)]
  ELSE IF Spelled(v, d, r) = {} THEN [ok |-> FALSE, cols |-> <<>>]
  ELSE [ok |-> TRUE, cols |-> ColumnsViaDescribe(v, d, r, pat)]

(* SQLForeignKeys: a row per column of a key, with the place of the column *)
(* in it, in the order d.keyOrder of the keys.                             *)
SqlForeignKeys(t, d) ==
  LET rows(k) == [i \in DOMAIN k.cols |-> [key |-> k.name, col |-> k.cols[i], to |-> k.to, seq |-> i]]
  IN  FlattenSeq([i \in DOMAIN t.keys |-> rows(t.keys[IF d.backwards THEN Len(t.keys) + 1 - i ELSE i])])

(* AppendConstraints: a row of another name, or whose place does not grow, *)
(* opens the next key.                                                     *)
ForeignKeys(rows) ==
  LET opens  == {i \in DOMAIN rows : i = 1 \/ rows[i].key # rows[i - 1].key
                                           \/ rows[i].seq <= rows[i - 1].seq}
      starts == SetToSortSeq(opens, <)
      last(k) == IF k = Len(starts) THEN Len(rows) ELSE starts[k + 1] - 1
  IN  [k \in DOMAIN starts |->
         [name |-> rows[starts[k]].key, to |-> rows[starts[k]].to,
          cols |-> [i \in 1 .. last(k) - starts[k] + 1 |-> rows[starts[k] + i - 1].col]]]

-----------------------------------------------------------------------------
(* GetObjects: rows that follow one another with the same catalog are one  *)
(* catalog, those with the same schema in it one schema.                   *)

Runs(rows, SameRun(_, _)) ==
  LET opens  == {i \in DOMAIN rows : i = 1 \/ ~SameRun(rows[i - 1], rows[i])}
      starts == SetToSortSeq(opens, <)
      last(k) == IF k = Len(starts) THEN Len(rows) ELSE starts[k + 1] - 1
  IN  [k \in DOMAIN starts |-> SubSeq(rows, starts[k], last(k))]

TableEntry(v, d, q, r) ==
  LET t == CHOOSE x \in v.tables : x.cat = r.cat /\ x.sch = r.sch /\ x.name = r.name
  IN  [name |-> r.name, type |-> r.type,
       cols |-> IF q.depth = "all" THEN AppendColumns(v, d, r, q.col).cols ELSE Absent,
       keys |-> IF q.depth = "all" THEN ForeignKeys(SqlForeignKeys(t, d)) ELSE Absent]

SchemaEntries(runs, v, d, q) ==
  [i \in DOMAIN runs |->
     [sch |-> runs[i][1].sch,
      tables |-> IF q.depth = "schemas" THEN Absent
                 ELSE [k \in DOMAIN runs[i] |-> TableEntry(v, d, q, runs[i][k])]]]

CatalogEntries(runs, v, d, q) ==
  [i \in DOMAIN runs |->
     [cat |-> runs[i][1].cat,
      schemas |-> IF q.depth = "catalogs" THEN Absent
                  ELSE SchemaEntries(Runs(runs[i], LAMBDA x, y : x.sch = y.sch), v, d, q)]]

(* One table whose columns cannot be had fails the whole call.             *)
GetObjects(v, d, q) ==
  LET rows == CollectTables(v, d, q)
  IN  IF q.depth = "all" /\ \E i \in DOMAIN rows : ~AppendColumns(v, d, rows[i], q.col).ok
      THEN [ok |-> FALSE, list |-> <<>>]
      ELSE [ok |-> TRUE, list |-> CatalogEntries(Runs(rows, LAMBDA x, y : x.cat = y.cat), v, d, q)]

NotFound == <<[name |-> Null, pos |-> 0]>>

(* The server refuses to list the columns of a table it does not have.     *)
QdbListColumns(v, name) ==
  LET found == {t \in v.tables : t.name = name}
  IN  IF found = {} THEN NotFound ELSE ColumnsOf(CHOOSE t \in found : TRUE)

QdbTypeAllowed(types, type) == types = {} \/ type \in types

(* The QuestDB driver has one catalog and one schema, sorts its tables and *)
(* filters everything itself.                                              *)
QdbGetObjects(v, q, catalog, schema) ==
  LET kept == SelectSeq(SortSeq(v.listing, LAMBDA x, y : Below(x.name, y.name)),
                        LAMBDA t : QdbLikeMatch(q.tbl, t.name) /\ QdbTypeAllowed(q.types, t.type))
      entry(t) == [name |-> t.name, type |-> t.type, keys |-> <<>>,
                   cols |-> IF q.depth # "all" THEN Absent
                            ELSE SelectSeq(QdbListColumns(v, t.name), LAMBDA c : QdbLikeMatch(q.col, c.name))]
      tables == IF q.depth = "schemas" THEN Absent ELSE [i \in DOMAIN kept |-> entry(kept[i])]
      schemas == IF QdbLikeMatch(q.sch, schema) THEN <<[sch |-> schema, tables |-> tables]>> ELSE <<>>
  IN  IF ~QdbLikeMatch(q.cat, catalog) THEN <<>>
      ELSE <<[cat |-> catalog, schemas |-> IF q.depth = "catalogs" THEN Absent ELSE schemas]>>

-----------------------------------------------------------------------------
(* GetTableSchema: the columns of a table, or NOT_FOUND.                   *)

Stated(n) == n \notin {Null, <<>>}

(* The tables a name with those qualifiers means to the server (external): *)
(* one qualifier alone is a schema where there are schemas; what is left   *)
(* out is the current catalog, and any schema.                             *)
Meant(v, cat, sch, name) ==
  LET flat == \A t \in v.tables : t.sch = Null
      s == IF Stated(sch) \/ flat THEN sch ELSE cat
      c == IF Stated(cat) /\ (Stated(sch) \/ flat) THEN cat ELSE v.current
  IN  {t \in v.tables : t.name = name /\ t.cat = c /\ (Stated(s) => t.sch = s)}

(* One spelling, with the qualifiers the caller gave; a statement that is  *)
(* refused is a table that is not there.                                   *)
GetTableSchema(v, d, cat, sch, name) ==
  LET level == IF Stated(cat) THEN 0 ELSE IF Stated(sch) THEN 1 ELSE 2
      meant == IF level < d.refuses THEN {} ELSE Meant(v, cat, sch, name)
  IN  IF meant = {} THEN NotFound ELSE ColumnsOf(CHOOSE t \in meant : TRUE)

(* QuestDB has one namespace, which need not be named.                   *)
QdbGetTableSchema(v, cat, sch, name, catalog, schema) ==
  IF (Stated(cat) /\ cat # catalog) \/ (Stated(sch) /\ sch # schema) THEN NotFound
  ELSE QdbListColumns(v, name)

(* GetTableTypes: the driver's list of types, or each type of its tables   *)
(* once; beyond the cap of remembered types a type may repeat.             *)
TableTypes(v, refused, cap) ==
  LET types == [i \in DOMAIN v.listing |-> v.listing[i].type]
      seen(i) == {types[k] : k \in {x \in 1 .. i - 1 :
                    Cardinality({types[y] : y \in 1 .. x}) <= cap}}
      firsts == {i \in DOMAIN types : types[i] \notin seen(i)}
  IN  IF refused THEN [k \in 1 .. Cardinality(firsts) |-> types[SetToSortSeq(firsts, <)[k]]]
      ELSE SetToSeq({t.type : t \in v.tables})
=============================================================================
