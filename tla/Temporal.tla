------------------------------ MODULE Temporal ------------------------------
(***************************************************************************)
(* Dates, times, timestamps and decimals between Arrow's integers and what *)
(* ODBC carries: the writers of odbc_bind.c and the readers of             *)
(* odbc_reader.c.                                                          *)
(*                                                                         *)
(* A text is the record of its fields: a fraction is the sequence of its   *)
(* digits, empty when the text has none.  Refused is an unread text.       *)
(***************************************************************************)
EXTENDS Integers, SequencesExt, FiniteSets

Units == {"s", "ms", "us", "ns"}
Refused == -1
NoOffset == [sign |-> 0, h |-> 0, mi |-> 0]

(* Division in C rounds toward zero.                                       *)
Quot(a, b) == IF a >= 0 THEN a \div b ELSE -((-a) \div b)
Rem(a, b)  == a - b * Quot(a, b)

TicksPerSecond(unit) == CASE unit = "s" -> 1 [] unit = "ms" -> 1000
                          [] unit = "us" -> 1000000 [] OTHER -> 1000000000
UnitFractionDigits(unit) == CASE unit = "s" -> 0 [] unit = "ms" -> 3 [] unit = "us" -> 6 [] OTHER -> 9

(* Nanoseconds are written with seven digits.                              *)
FractionalDigits(unit) == IF unit = "ns" THEN 7 ELSE UnitFractionDigits(unit)

-----------------------------------------------------------------------------
(* Days                                                                    *)

CivilOfYear(y, doy) ==
  LET mp == (5 * doy + 2) \div 153
      m  == IF mp < 10 THEN mp + 3 ELSE mp - 9
  IN  [y |-> y + (IF m <= 2 THEN 1 ELSE 0), m |-> m, d |-> doy - (153 * mp + 2) \div 5 + 1]

CivilOfEra(era, doe) ==
  LET yoe == (doe - doe \div 1460 + doe \div 36524 - doe \div 146096) \div 365
  IN  CivilOfYear(yoe + era * 400, doe - (365 * yoe + yoe \div 4 - yoe \div 100))

CivilFromDays(days) ==
  LET z   == days + 719468
      era == Quot(IF z >= 0 THEN z ELSE z - 146096, 146097)
  IN  CivilOfEra(era, z - era * 146097)

DaysFromCivil(y0, m, d) ==
  LET y   == IF m <= 2 THEN y0 - 1 ELSE y0
      era == Quot(IF y >= 0 THEN y ELSE y - 399, 400)
      yoe == y - era * 400
      doy == (153 * (m + (IF m > 2 THEN -3 ELSE 9)) + 2) \div 5 + d - 1
  IN  era * 146097 + (yoe * 365 + yoe \div 4 - yoe \div 100 + doy) - 719468

-----------------------------------------------------------------------------
(* Writers                                                                 *)

(* The date of a struct: its year is a SQLSMALLINT.                        *)
DateStruct(c) == [c EXCEPT !.y = ((@ + 32768) % 65536) - 32768]

(* How many characters more than the usual four "%04d" writes for a year.  *)
YearExcess(y) == IF y < 0 THEN Cardinality({n \in 3 .. 6 : -y >= 10 ^ n}) ELSE Cardinality({n \in 4 .. 6 : y >= 10 ^ n})

(* Seconds and ticks of v, the ticks never negative.                       *)
Split(v, per) == LET s == Quot(v, per)  f == Rem(v, per)
                 IN  IF f < 0 THEN [secs |-> s - 1, frac |-> f + per] ELSE [secs |-> s, frac |-> f]

(* A time outside the day wraps.                                           *)
TimeOfDayFromArrow(v, unit) ==
  LET x == Split(v, TicksPerSecond(unit))
      s == Rem(x.secs, 86400)
  IN  [secs |-> IF s < 0 THEN s + 86400 ELSE s, frac |-> x.frac]

Clock(secs) == [h |-> secs \div 3600, mi |-> (secs % 3600) \div 60, s |-> secs % 60]

(* The n digits of a fraction x.                                           *)
Digits(x, n) == [k \in 1 .. n |-> (x \div 10 ^ (n - k)) % 10]

TimeStructFromArrow(v, unit) == Clock(TimeOfDayFromArrow(v, unit).secs)

TimeTextFromArrow(v, unit) ==
  LET x == TimeOfDayFromArrow(v, unit)
      n == FractionalDigits(unit)
      scaled == x.frac \div (TicksPerSecond(unit) \div 10 ^ n)
  IN  [time |-> Clock(x.secs), frac |-> Digits(scaled, n)]

(* The TIMESTAMP_STRUCT of v; its fraction is in nanoseconds.              *)
TimestampFromArrow(v, unit) ==
  LET per == TicksPerSecond(unit)
      x   == Split(v, per)
      day == Split(x.secs, 86400)
      c   == DateStruct(CivilFromDays(day.secs))
  IN  [date |-> c, time |-> Clock(day.frac), ns |-> x.frac * (1000000000 \div per)]

TimestampTextFromStruct(ts, unit) ==
  LET n == FractionalDigits(unit)
  IN  [date |-> ts.date, time |-> ts.time, off |-> NoOffset,
       frac |-> Digits(ts.ns \div 10 ^ (9 - n), n)]

-----------------------------------------------------------------------------
(* Readers                                                                 *)

(* ScanFractionDigits: what is too long is cut, what is short is padded.   *)
ScanFractionDigits(frac, want) ==
  LET at(k) == IF k <= Len(frac) THEN frac[k] ELSE 0
  IN  FoldLeft(LAMBDA n, k : n * 10 + at(k), 0, [k \in 1 .. want |-> k])

Seconds(t) == t.h * 3600 + t.mi * 60 + t.s
ClockIsValid(t) == t.h <= 23 /\ t.mi <= 59 /\ t.s <= 59

(* The ticks read are secs * 10^digits + frac.                             *)
ParseTimeScaled(x, digits) ==
  IF ~ClockIsValid(x.time) THEN [secs |-> 0, frac |-> Refused]
  ELSE [secs |-> Seconds(x.time), frac |-> ScanFractionDigits(x.frac, digits)]

(* A text with an offset is a time in UTC, one without is taken as UTC.    *)
ParseTimestampUtcScaled(x, digits) ==
  LET off == x.off.sign * (x.off.h * 3600 + x.off.mi * 60)
      day == x.date
  IN  IF \/ day.m \notin 1 .. 12 \/ day.d \notin 1 .. 31 \/ ~ClockIsValid(x.time)
         \/ x.off.h > 23 \/ x.off.mi > 59
      THEN [secs |-> 0, frac |-> Refused]
      ELSE [secs |-> DaysFromCivil(day.y, day.m, day.d) * 86400 + Seconds(x.time) - off,
            frac |-> ScanFractionDigits(x.frac, digits)]

(* FETCH_DATE, FETCH_TIME and FETCH_TIMESTAMP of AppendValue and of        *)
(* BulkAppendColumn.                                                       *)
DateFromStruct(c) == DaysFromCivil(c.y, c.m, c.d)
TimeFromStruct(t) == Seconds(t)
TimestampFromStruct(ts, unit) ==
  [secs |-> DaysFromCivil(ts.date.y, ts.date.m, ts.date.d) * 86400 + Seconds(ts.time),
   frac |-> ts.ns \div (1000000000 \div TicksPerSecond(unit))]

-----------------------------------------------------------------------------
(* AppendDecimalString: the digits of the text at the column's scale; room *)
(* is that for digits.                                                     *)
AppendDecimalString(x, scale, room) ==
  LET most(q, n) == SubSeq(q, 1, IF n < Len(q) THEN n ELSE Len(q))
      frac   == most(x.frac, scale)
      digits == most(x.whole \o frac \o [k \in 1 .. scale - Len(frac) |-> 0], room)
      value  == FoldLeft(LAMBDA n, g : n * 10 + g, 0, digits)
  IN  IF x.neg THEN -value ELSE value
=============================================================================
