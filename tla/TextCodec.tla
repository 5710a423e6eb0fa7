----------------------------- MODULE TextCodec -----------------------------
(***************************************************************************)
(* Text between Arrow's UTF-8 and the SQLWCHAR units of ODBC: odbc_text.c, *)
(* the encoders of odbc_bind.c and the decoder of odbc_reader.c.           *)
(*                                                                         *)
(* Text is a sequence of byte values, of unit values or of code points.    *)
(* w is sizeof(SQLWCHAR): 2 with unixODBC and on Windows, 4 with iODBC.    *)
(***************************************************************************)
EXTENDS Integers, SequencesExt

Replacement == 65533          \* U+FFFD

Concat(f, n) == FoldLeft(LAMBDA acc, k : acc \o f[k], <<>>, [k \in 1 .. n |-> k])

-----------------------------------------------------------------------------
(* UTF-8                                                                   *)

(* The UTF-8 bytes of one code point.                                      *)
Utf8Of(cp) ==
  LET low(n) == 128 + ((cp \div n) % 64)
  IN  CASE cp < 128   -> <<cp>>
        [] cp \in 128 .. 2047    -> <<192 + cp \div 64, low(1)>>
        [] cp \in 2048 .. 65535  -> <<224 + cp \div 4096, low(64), low(1)>>
        [] cp > 65535 -> <<240 + cp \div 262144, low(4096), low(64), low(1)>>

Utf8(cps) == Concat([k \in DOMAIN cps |-> Utf8Of(cps[k])], Len(cps))

(* The code point the bytes from place i stand for, and their number.  A   *)
(* lead byte takes the bytes that follow it for what they are.             *)
LeadAt(s, i) ==
  LET b == s[i]
      low(k) == s[i + k] % 64
      has(k) == i + k <= Len(s)
  IN  CASE b < 128 -> [cp |-> b, len |-> 1]
        [] b \in 192 .. 223 /\ has(1) -> [cp |-> (b % 32) * 64 + low(1), len |-> 2]
        [] b \in 224 .. 239 /\ has(2) ->
             [cp |-> (b % 16) * 4096 + low(1) * 64 + low(2), len |-> 3]
        [] b \in 240 .. 247 /\ has(3) ->
             [cp |-> (b % 8) * 262144 + low(1) * 4096 + low(2) * 64 + low(3), len |-> 4]
        [] OTHER -> [cp |-> Replacement, len |-> 1]

(* The characters of s, in order.                                          *)
Leads(s) ==
  LET from[i \in 1 .. Len(s) + 4] ==
        IF i > Len(s) THEN <<>> ELSE <<LeadAt(s, i)>> \o from[i + LeadAt(s, i).len]
  IN  from[1]

-----------------------------------------------------------------------------
(* To SQLWCHAR                                                             *)

Pairs(w, utf16_pairs) == w < 4 \/ utf16_pairs

UnitsOf(cp, pairs) ==
  IF cp >= 65536 /\ pairs
  THEN <<55296 + (cp - 65536) \div 1024, 56320 + ((cp - 65536) % 1024)>>
  ELSE <<cp>>

(* A slip: one unit for every character.                                   *)
Utf8ToUtf16Short(s, w, utf16_pairs) ==
  LET cs == Leads(s) IN [k \in DOMAIN cs |-> cs[k].cp % 65536]

Utf8ToUtf16Into(s, w, utf16_pairs) ==
  LET cs == Leads(s)
  IN  Concat([k \in DOMAIN cs |-> UnitsOf(cs[k].cp, Pairs(w, utf16_pairs))], Len(cs))

(* How many units that writes, told from the lead bytes alone.             *)
Utf16Units(s, w, utf16_pairs) ==
  LET cs == Leads(s)
  IN  FoldLeft(LAMBDA n, c : n + (IF c.len = 4 /\ Pairs(w, utf16_pairs) THEN 2 ELSE 1), 0, cs)

(* ToW makes room for Len(s) + 1 units and ends them with a 0.             *)
ToW(s, w) == Utf8ToUtf16Into(s, w, FALSE)

-----------------------------------------------------------------------------
(* From SQLWCHAR                                                           *)

IsHigh(u) == u \in 55296 .. 56319
IsLow(u)  == u \in 56320 .. 57343

(* The code points of the units: a pair is one whatever the width, a lone  *)
(* half and a value outside Unicode are U+FFFD.                            *)
CodePoints(u, w) ==
  LET pair(i) == IsHigh(u[i]) /\ i < Len(u) /\ IsLow(u[i + 1])
      from[i \in 1 .. Len(u) + 2] ==
        IF i > Len(u) THEN <<>>
        ELSE IF w >= 4 /\ u[i] > 1114111 THEN <<Replacement>> \o from[i + 1]
        ELSE IF pair(i)
             THEN <<65536 + (u[i] - 55296) * 1024 + (u[i + 1] - 56320)>> \o from[i + 2]
        ELSE <<IF IsHigh(u[i]) \/ IsLow(u[i]) THEN Replacement ELSE u[i]>> \o from[i + 1]
  IN  from[1]

Utf16ToUtf8(u, w) == Utf8(CodePoints(u, w))
Utf16Utf8MaxBytes(units, w) == units * (IF w < 4 THEN 3 ELSE 4)

(* The same where the output starts at the first byte of the units, which  *)
(* are read from what is left of them.                                     *)
Utf16ToUtf8InPlace(u, w) ==
  LET n == Len(u)
      byte(x) == (u[(x - 1) \div w + 1] \div 256 ^ ((x - 1) % w)) % 256
      mem == [x \in 1 .. n * w + 4 |-> IF x <= n * w THEN byte(x) ELSE 0]
      unit(m, i) == LET at(k) == m[w * (i - 1) + k]
                    IN  IF i > n THEN 0
                        ELSE at(1) + 256 * at(2) + (IF w = 4 THEN 65536 * at(3) ELSE 0)
      step(st, i) ==
        LET a == unit(st.mem, i)
            b == unit(st.mem, i + 1)
            out == Utf8Of(CodePoints(<<a, b>>, w)[1])
        IN  IF st.skip THEN [st EXCEPT !.skip = FALSE]
            ELSE [mem  |-> [x \in DOMAIN st.mem |->
                              IF x \in st.k + 1 .. st.k + Len(out) THEN out[x - st.k] ELSE st.mem[x]],
                  k    |-> st.k + Len(out),
                  skip |-> IsHigh(a) /\ IsLow(b)]
      end == FoldLeft(step, [mem |-> mem, k |-> 0, skip |-> FALSE], [i \in 1 .. n |-> i])
  IN  SubSeq(end.mem, 1, end.k)

(* A wide value of a row.  One that outgrew its bound buffer was read      *)
(* again into the scratch buffer, and a bound column's text is decoded     *)
(* into that same buffer; only an unbound column has one of its own.  (A   *)
(* value of many thousand units would also move the buffer.)               *)
AppendWide(u, w, bound, repaired) ==
  IF bound /\ repaired THEN Utf16ToUtf8InPlace(u, w) ELSE Utf16ToUtf8(u, w)

(* Into a buffer of cap bytes: a character that does not fit is left out.  *)
(* The length told is the whole text's, 32000 at most.                     *)
FromW(u, w, cap) ==
  LET step(acc, cp) ==
        LET b == Utf8Of(cp)
        IN  [out  |-> IF Len(acc.out) + Len(b) < cap THEN acc.out \o b ELSE acc.out,
             full |-> acc.full + Len(b)]
      end == FoldLeft(step, [out |-> <<>>, full |-> 0], CodePoints(u, w))
  IN  [out |-> end.out, len |-> IF end.full > 32000 THEN 32000 ELSE end.full]

-----------------------------------------------------------------------------
(* The calls.  p = [windows, wide_sql, narrow_sql]: statement text goes    *)
(* through the W entry point on Windows and to the driver that asks for    *)
(* it, everything else is the narrow call.                                 *)
StatementIsWide(p) == IF p.windows THEN ~p.narrow_sql ELSE p.wide_sql

(* How a driver reads a narrow string (external): as UTF-8, or each byte   *)
(* as a character.                                                         *)
NarrowRead(s, reads) ==
  IF reads = "utf8" THEN LET cs == Leads(s) IN [k \in DOMAIN cs |-> cs[k].cp] ELSE s

(* What the driver takes the statement text s for.                         *)
ExecDirectSql(s, p, w, reads) ==
  IF StatementIsWide(p) THEN CodePoints(ToW(s, w), w) ELSE NarrowRead(s, reads)

(* What it takes a name or a pattern for that a catalog function is given: *)
(* the W functions are called on Windows and the narrow ones elsewhere.    *)
CatalogArgument(s, windows, w, reads) ==
  IF windows THEN CodePoints(ToW(s, w), w) ELSE NarrowRead(s, reads)

(* A string the driver returns into a buffer of cap bytes: the name of a   *)
(* column or of an attribute, a value of a catalog function.  On Windows   *)
(* it comes as units into a buffer of wcap of them.                        *)
Upto(seq, n) == SubSeq(seq, 1, IF n < Len(seq) THEN n ELSE Len(seq))

StringBack(cps, windows, w, wcap, cap) ==
  IF windows THEN FromW(Upto(Utf8ToUtf16Into(Utf8(cps), w, FALSE), wcap - 1), w, cap)
  ELSE [out |-> Upto(Utf8(cps), cap - 1), len |-> Len(Utf8(cps))]

(* OdbcGetDiagRecUtf8: the text and the length the driver told, that of    *)
(* the whole message.                                                      *)
GetDiagRec(cps, windows, w, cap) ==
  LET units == Utf8ToUtf16Into(Utf8(cps), w, FALSE)
      back  == StringBack(cps, windows, w, cap, cap)
  IN  [out |-> back.out,
       len |-> IF windows /\ Len(units) > back.len THEN Len(units) ELSE back.len]

(* OdbcSetError's reading of one record: a message longer than the buffer  *)
(* of cap bytes is read again into one that fits, of most bytes at most.   *)
DiagAgain(again, room) == Upto(again.out, IF again.len < room THEN again.len ELSE room)

DiagWhole(cps, windows, w, cap, most, first) ==
  LET room == IF first.len > most THEN most ELSE first.len
  IN  IF first.len <= cap - 1 THEN Upto(first.out, first.len)
      ELSE DiagAgain(GetDiagRec(cps, windows, w, room + 1), room)

DiagMessage(cps, windows, w, cap, most) ==
  DiagWhole(cps, windows, w, cap, most, GetDiagRec(cps, windows, w, cap))

(* SqlStateToStatus, by the class the state belongs to.                    *)
SqlStateToStatus(class) ==
  CASE class = "08" -> "IO"
    [] class = "28" -> "UNAUTHENTICATED"
    [] class = "23" -> "INTEGRITY"
    [] class \in {"42S02", "42S12", "42S22"} -> "NOT_FOUND"
    [] class \in {"42S01", "42S11", "42S21"} -> "ALREADY_EXISTS"
    [] class \in {"42", "22", "07", "IM"} -> "INVALID_ARGUMENT"
    [] class = "HYT0" -> "TIMEOUT"
    [] class = "HY008" -> "CANCELLED"
    [] class \in {"HYC00", "IM001"} -> "NOT_IMPLEMENTED"
    [] class = "HY010" -> "INVALID_STATE"
    [] OTHER -> "UNKNOWN"

(* The status is the first record's; where its state says nothing, a       *)
(* message of any record that says so makes it ALREADY_EXISTS.             *)
ErrorStatus(records) ==
  LET first == IF records = <<>> THEN "UNKNOWN" ELSE SqlStateToStatus(records[1].class)
  IN  IF first = "UNKNOWN" /\ \E k \in DOMAIN records : records[k].exists
      THEN "ALREADY_EXISTS" ELSE first
=============================================================================
