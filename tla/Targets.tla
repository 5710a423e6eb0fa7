------------------------------ MODULE Targets ------------------------------
(***************************************************************************)
(* The target of a database in its two spellings, an ODBC connection       *)
(* string (with a DSN) and a native URI, and the translation of each into  *)
(* the other (src/odbc_delegate.c).                                        *)
(*                                                                         *)
(* Text is a sequence of character codes, since quoting is what this is    *)
(* about; but the name of a keyword is one symbol, whatever its case, and  *)
(* a URI is what follows its scheme.  An attribute is [key, value].        *)
(***************************************************************************)
EXTENDS Integers, SequencesExt

NoText == <<-1>>             \* NULL
Given(t) == t \notin {NoText, <<>>}

Ch == [blank |-> 32, hash |-> 35, pct |-> 37, amp |-> 38, quote |-> 39, slash |-> 47,
       colon |-> 58, semi |-> 59, eq |-> 61, quest |-> 63, at |-> 64, lbracket |-> 91, backslash |-> 92,
       rbracket |-> 93, lbrace |-> 123, rbrace |-> 125]

(* Two spellings of the host, the user and the password, the other parts   *)
(* of a target, two settings of libpq and one it only takes in psqlodbc's  *)
(* block of them, some that concern the ODBC driver alone and one that     *)
(* nothing else understands.                                               *)
Kw == [empty |-> 999, other |-> 1000, driver |-> 1001, server |-> 1002, host |-> 1003, port |-> 1004,
       database |-> 1005, uid |-> 1006, user |-> 1007,
       pwd |-> 1008, password |-> 1009, sslmode |-> 1010, options |-> 1011, pqopt |-> 1012, passfile |-> 1013,
       ksqo |-> 1014, readonly |-> 1015, usedeclarefetch |-> 1016, fetch |-> 1017,
       lfconversion |-> 1018, dsn |-> 1019]

Attr(key, value) == [key |-> key, value |-> value]

(* The first place from i on with a character in S, or not in S.           *)
Find(s, i, S) == Min({k \in i .. Len(s) : s[k] \in S} \cup {Len(s) + 1})
Skip(s, i, S) == Min({k \in i .. Len(s) : s[k] \notin S} \cup {Len(s) + 1})

-----------------------------------------------------------------------------
(* Connection strings                                                      *)

(* The text from i to the closing brace, "}}" being a brace of it, and the *)
(* place after that brace.                                                 *)
Braced(s, i) ==
  LET more(c, rest) == [value |-> <<c>> \o rest.value, at |-> rest.at]
      read[k \in i .. Len(s) + 2] ==
        IF k > Len(s) THEN [value |-> <<>>, at |-> Len(s) + 1]
        ELSE IF s[k] # Ch.rbrace THEN more(s[k], read[k + 1])
        ELSE IF k < Len(s) /\ s[k + 1] = Ch.rbrace THEN more(Ch.rbrace, read[k + 2])
        ELSE [value |-> <<>>, at |-> k + 1]
  IN  read[i]

(* The attribute that starts at place i, and where the next one starts.    *)
(* The rest of a text without '=' is no attribute.  A name may be empty.   *)
ConnStringNext(s, i) ==
  LET p    == Skip(s, i, {Ch.semi, Ch.blank})
      eq   == Find(s, p, {Ch.eq})
      name == SelectSeq(SubSeq(s, p, eq - 1), LAMBDA c : c # Ch.blank)
      in   == Braced(s, eq + 2)
      semi == Find(s, eq + 1, {Ch.semi})
  IN  IF eq > Len(s) THEN [more |-> FALSE, key |-> 0, value |-> <<>>, at |-> Len(s) + 1]
      ELSE [more |-> TRUE, key |-> IF name = <<>> THEN Kw.empty ELSE IF Len(name) = 1 THEN name[1] ELSE Kw.other,
            value |-> IF eq < Len(s) /\ s[eq + 1] = Ch.lbrace THEN in.value
                      ELSE SubSeq(s, eq + 1, semi - 1),
            at |-> IF eq < Len(s) /\ s[eq + 1] = Ch.lbrace THEN Find(s, in.at, {Ch.semi}) ELSE semi]

Attributes(s) ==
  LET from[i \in 1 .. Len(s) + 1] ==
        LET n == ConnStringNext(s, i)
        IN  IF n.more THEN <<Attr(n.key, n.value)>> \o from[n.at] ELSE <<>>
  IN  from[1]

(* The first of several attributes of a name.                              *)
ConnStringGet(attrs, key) ==
  LET mine == SelectSeq(attrs, LAMBDA a : a.key = key)
  IN  IF mine = <<>> THEN NoText ELSE Head(mine).value

(* The names of a keyword in turn, in the connection string and then in    *)
(* the DSN; an empty value is passed over.                                 *)
KeywordGet(conn, dsn, aliases) ==
  LET values(attrs) == [i \in DOMAIN aliases |-> ConnStringGet(attrs, aliases[i])]
      given == SelectSeq(values(conn) \o values(dsn), Given)
  IN  IF given = <<>> THEN NoText ELSE Head(given)

(* A value as it is written into a connection string.                      *)
AppendOdbcValue(v) ==
  <<Ch.lbrace>>
  \o FlattenSeq([i \in DOMAIN v |-> IF v[i] = Ch.rbrace THEN <<v[i], v[i]>> ELSE <<v[i]>>])
  \o <<Ch.rbrace>>

(* The value of the connection string, even if empty, or of the DSN.       *)
OdbcConnStringKeyword(conn, dsn, key) ==
  LET own == ConnStringGet(conn, key)  other == ConnStringGet(dsn, key)
  IN  IF own # NoText THEN own ELSE IF other = <<>> THEN NoText ELSE other

(* A value atoi() makes something else than 0 of.                          *)
IsOn(v) == v # NoText /\ \E i \in DOMAIN v : v[i] \in 49 .. 57 /\ \A k \in 1 .. i - 1 : v[k] = 48

IsPsqlodbc(driver) == driver = <<112>>

(* What is added to a connection string of psqlodbc: the rows of one round *)
(* trip of a streamed result (one symbol here), and on Windows line ends   *)
(* as they are.                                                            *)
TuneConnectionString(conn, dsn, tune, batch, windows) ==
  LET get(key) == OdbcConnStringKeyword(conn, dsn, key)
      rows == IF batch > 8192 THEN 65536 ELSE IF batch > 1024 THEN batch * 8 ELSE 8192
      psqlodbc == IsPsqlodbc(get(Kw.driver)) \/ get(Kw.usedeclarefetch) # NoText
  IN  (IF tune /\ IsOn(get(Kw.usedeclarefetch)) /\ get(Kw.fetch) = NoText
       THEN <<Attr(Kw.fetch, <<rows>>)>> ELSE <<>>)
      \o (IF tune /\ windows /\ psqlodbc /\ get(Kw.lfconversion) = NoText
          THEN <<Attr(Kw.lfconversion, <<48>>)>> ELSE <<>>)

(* The text the driver is connected with; nothing is quoted here.          *)
OpenHdbc(text, dsn, username, password, added) ==
  LET more(key, v) == IF v = NoText THEN <<>> ELSE <<key, Ch.eq>> \o v \o <<Ch.semi>>
  IN  text \o (IF text # <<>> /\ Last(text) # Ch.semi THEN <<Ch.semi>> ELSE <<>>)
      \o more(Kw.dsn, dsn) \o more(Kw.uid, username) \o more(Kw.pwd, password)
      \o FlattenSeq([i \in DOMAIN added |-> more(added[i].key, added[i].value)])

-----------------------------------------------------------------------------
(* Which keywords of a connection string go where                          *)

kConsumedKeys == {Kw.driver, Kw.dsn, Kw.server, Kw.host, Kw.port, Kw.database, Kw.uid, Kw.user,
                  Kw.pwd, Kw.password}
kPgIgnoredKeys == {Kw.ksqo, Kw.usedeclarefetch, Kw.fetch, Kw.lfconversion}
kPgForwardKeys == {Kw.sslmode, Kw.options}
kPqoptKeys     == {Kw.sslmode, Kw.options, Kw.passfile}

ClassifyKeyword(family, key) ==
  IF key = Kw.empty THEN "ignored"
  ELSE IF key \in kConsumedKeys THEN "consumed"
  ELSE IF family # "postgresql" THEN "unknown"
  ELSE IF key \in kPgIgnoredKeys THEN "ignored"
  ELSE IF key \in kPgForwardKeys \cup {Kw.pqopt} THEN "forward"
  ELSE "unknown"

KvAdd(kv, a) ==
  IF \E i \in DOMAIN kv : kv[i].key = a.key
  THEN [i \in DOMAIN kv |-> IF kv[i].key = a.key THEN a ELSE kv[i]]
  ELSE Append(kv, a)

(* A value of psqlodbc's block from place i to a character in stop, where  *)
(* a backslash makes any character part of the value.                      *)
Unescaped(s, i, stop) ==
  LET more(c, rest) == [value |-> <<c>> \o rest.value, at |-> rest.at]
      read[k \in i .. Len(s) + 2] ==
        IF k > Len(s) \/ s[k] \in stop THEN [value |-> <<>>, at |-> k]
        ELSE IF s[k] = Ch.backslash /\ k < Len(s) THEN more(s[k + 1], read[k + 2])
        ELSE more(s[k], read[k + 1])
  IN  read[i]

(* acc = [ok, kv]: a block that cannot be parsed, or that names a setting  *)
(* which cannot be handed on, stops the translation.                       *)
ParsePqopt(v, acc) ==
  LET step(i, sofar) ==
        LET p    == Skip(v, i, {Ch.blank})
            e    == Find(v, p, {Ch.eq, Ch.blank})
            q    == Skip(v, e, {Ch.blank})
            r    == Skip(v, q + 1, {Ch.blank})
            quoted == r <= Len(v) /\ v[r] = Ch.quote
            got  == IF quoted THEN Unescaped(v, r + 1, {Ch.quote}) ELSE Unescaped(v, r, {Ch.blank})
        IN  IF p > Len(v) THEN [ok |-> TRUE, kv |-> sofar, at |-> Len(v) + 1]
            ELSE IF ~(e = p + 1 /\ q <= Len(v) /\ v[q] = Ch.eq /\ v[p] \in kPqoptKeys)
            THEN [ok |-> FALSE, kv |-> sofar, at |-> Len(v) + 1]
            ELSE [ok |-> TRUE, kv |-> KvAdd(sofar, Attr(v[p], got.value)),
                  at |-> IF quoted THEN got.at + 1 ELSE got.at]
      walk[n \in 0 .. Len(v)] ==
        IF n = 0 THEN [ok |-> TRUE, kv |-> acc.kv, at |-> 1]
        ELSE LET was == walk[n - 1]
             IN  IF was.ok /\ was.at <= Len(v) THEN step(was.at, was.kv) ELSE was
  IN  [ok |-> walk[Len(v)].ok, kv |-> walk[Len(v)].kv]

AcceptKeyword(family, acc, a) ==
  LET class == ClassifyKeyword(family, a.key)
  IN  IF ~acc.ok THEN acc
      ELSE CASE class = "unknown" -> [acc EXCEPT !.ok = FALSE]
             [] class = "forward" /\ a.key = Kw.pqopt ->
                  ParsePqopt(IF a.value = NoText THEN <<>> ELSE a.value, acc)
             [] class = "forward" /\ a.key # Kw.pqopt /\ Given(a.value) ->
                  [acc EXCEPT !.kv = KvAdd(@, a)]
             [] OTHER -> acc

(* The DSN first, so that the connection string's values replace its.  A   *)
(* DSN whose keywords cannot be listed stops the translation too.          *)
CollectKeywords(family, conn, dsn, listed) ==
  IF dsn # <<>> /\ ~listed THEN [ok |-> FALSE, kv |-> <<>>]
  ELSE FoldLeft(LAMBDA acc, a : AcceptKeyword(family, acc, a), [ok |-> TRUE, kv |-> <<>>], dsn \o conn)

-----------------------------------------------------------------------------
(* Native URIs                                                             *)

(* Names of keywords are of letters and '_'.                               *)
Unreserved(c) == c \in 48 .. 57 \cup 65 .. 90 \cup 97 .. 122 \cup {45, 46, 95, 126} \/ c > 1000
Hex(n) == IF n < 10 THEN 48 + n ELSE 55 + n

(* A slip: only the percent sign itself is encoded.                        *)
AppendHalfEncoded(v) ==
  FlattenSeq([i \in DOMAIN v |-> IF v[i] # Ch.pct THEN <<v[i]>> ELSE <<Ch.pct, Hex(2), Hex(5)>>])

AppendEncoded(v) ==
  FlattenSeq([i \in DOMAIN v |-> IF Unreserved(v[i]) THEN <<v[i]>>
                                 ELSE <<Ch.pct, Hex(v[i] \div 16), Hex(v[i] % 16)>>])

HexValue(c) == CASE c \in 48 .. 57 -> c - 48 [] c \in 97 .. 102 -> c - 87
                 [] c \in 65 .. 70 -> c - 55 [] OTHER -> -1

PercentDecode(v) ==
  LET coded(i) == /\ v[i] = Ch.pct /\ i + 2 <= Len(v)
                  /\ HexValue(v[i + 1]) >= 0 /\ HexValue(v[i + 2]) >= 0
      read[i \in 1 .. Len(v) + 1] ==
        IF i > Len(v) THEN <<>>
        ELSE IF coded(i) THEN <<16 * HexValue(v[i + 1]) + HexValue(v[i + 2])>> \o read[i + 3]
        ELSE <<v[i]>> \o read[i + 1]
  IN  read[1]

Query(sep, kv) ==
  FlattenSeq([i \in DOMAIN kv |->
    <<IF i = 1 THEN sep ELSE Ch.amp>> \o AppendEncoded(<<kv[i].key>>)
    \o <<Ch.eq>> \o AppendEncoded(kv[i].value)])

AllDigits(t) == \A i \in DOMAIN t : t[i] \in 48 .. 57

(* NoText for a target that has no URI.  A socket's directory is only      *)
(* taken as a parameter, an IPv6 address only in brackets.                 *)
BuildPostgresUri(t, kv) ==
  LET socket == Given(t.host) /\ t.host[1] \in {Ch.slash, Ch.at}
      given  == IF Given(t.host) THEN t.host ELSE <<108>>      \* localhost
      n      == Len(given)
      h      == IF n >= 2 /\ given[1] = Ch.lbracket /\ given[n] = Ch.rbracket
                THEN SubSeq(given, 2, n - 1) ELSE given
      ipv6   == \E i \in DOMAIN h : h[i] = Ch.colon
      badHost == ~socket /\ ipv6 /\ \E i \in DOMAIN h : HexValue(h[i]) < 0 /\ h[i] \notin {Ch.colon, 46}
      login  == IF ~Given(t.user) THEN <<>>
                ELSE AppendEncoded(t.user)
                     \o (IF Given(t.password) THEN <<Ch.colon>> \o AppendEncoded(t.password) ELSE <<>>)
                     \o <<Ch.at>>
      name   == IF ipv6 THEN <<Ch.lbracket>> \o h \o <<Ch.rbracket>> ELSE AppendEncoded(h)
      place  == IF socket THEN <<>>
                ELSE name \o (IF Given(t.port) THEN <<Ch.colon>> \o t.port ELSE <<>>)
      asParams == IF ~socket THEN <<>>
                  ELSE <<Attr(Kw.host, t.host)>>
                       \o (IF Given(t.port) THEN <<Attr(Kw.port, t.port)>> ELSE <<>>)
  IN  IF (Given(t.port) /\ ~AllDigits(t.port)) \/ badHost THEN NoText
      ELSE <<Ch.slash, Ch.slash>> \o login \o place \o <<Ch.slash>>
           \o (IF Given(t.database) THEN AppendEncoded(t.database) ELSE <<>>)
           \o Query(Ch.quest, asParams \o kv)

(* username and password are the options of the database.                  *)
BuildNativeUri(family, conn, dsn, listed, username, password) ==
  LET params == CollectKeywords(family, conn, dsn, listed)
      database == KeywordGet(conn, dsn, <<Kw.database>>)
      t == [host     |-> KeywordGet(conn, dsn, <<Kw.server, Kw.host>>),
            port     |-> KeywordGet(conn, dsn, <<Kw.port>>),
            database |-> database,
            user     |-> IF username # NoText THEN username
                         ELSE KeywordGet(conn, dsn, <<Kw.uid, Kw.user>>),
            password |-> IF password # NoText THEN password
                         ELSE KeywordGet(conn, dsn, <<Kw.pwd, Kw.password>>)]
  IN  IF ~params.ok THEN NoText
      ELSE CASE family = "postgresql" -> BuildPostgresUri(t, params.kv)
             [] family = "file" -> database
             [] OTHER -> NoText

(* Parameters at the end of a URI that may have some.                      *)
UriWithParams(uri, kv) ==
  uri \o Query(IF Find(uri, 1, {Ch.quest}) <= Len(uri) THEN Ch.amp ELSE Ch.quest, kv)

ParseUriQuery(s) ==
  LET cut(i) == Find(s, i, {Ch.amp})
      from[i \in 1 .. Len(s) + 2] ==
        IF i > Len(s) THEN <<>>
        ELSE LET part == SubSeq(s, i, cut(i) - 1)
                 eq   == Find(part, 1, {Ch.eq})
             IN  (IF eq > Len(part) THEN <<>>
                  ELSE <<Attr(PercentDecode(SubSeq(part, 1, eq - 1))[1],
                              PercentDecode(SubSeq(part, eq + 1, Len(part))))>>) \o from[cut(i) + 1]
  IN  FoldLeft(KvAdd, <<>>, from[1])

(* The login ends at the last '@' before the path, the user at the first   *)
(* ':' of it.                                                              *)
UriLogin(login) ==
  LET colon == Find(login, 1, {Ch.colon})
  IN  [user     |-> PercentDecode(SubSeq(login, 1, colon - 1)),
       password |-> IF colon > Len(login) THEN NoText
                    ELSE PercentDecode(SubSeq(login, colon + 1, Len(login)))]

UriPlace(place) ==
  LET close == Find(place, 1, {Ch.rbracket})
      six   == place # <<>> /\ place[1] = Ch.lbracket /\ close <= Len(place)
      split == IF six THEN close + 1 ELSE Find(place, 1, {Ch.colon})
  IN  [host |-> IF place = <<>> THEN NoText
                ELSE PercentDecode(IF six THEN SubSeq(place, 2, close - 1)
                                   ELSE SubSeq(place, 1, split - 1)),
       port |-> IF split <= Len(place) /\ place[split] = Ch.colon
                THEN PercentDecode(SubSeq(place, split + 1, Len(place))) ELSE NoText]

UriAuthority(text) ==
  LET ats == {i \in DOMAIN text : text[i] = Ch.at}
  IN  IF ats = {} THEN [user |-> NoText, password |-> NoText] @@ UriPlace(text)
      ELSE UriLogin(SubSeq(text, 1, Max(ats) - 1))
           @@ UriPlace(SubSeq(text, Max(ats) + 1, Len(text)))

UriPath(rest) ==
  LET quest == Find(rest, 1, {Ch.quest})
      start == IF rest # <<>> /\ rest[1] = Ch.slash THEN 2 ELSE 1
  IN  [path   |-> IF quest > start THEN PercentDecode(SubSeq(rest, start, quest - 1)) ELSE NoText,
       params |-> ParseUriQuery(SubSeq(rest, quest + 1, Len(rest)))]

ParseUriRest(s) ==
  LET bare == Len(s) < 2 \/ SubSeq(s, 1, 2) # <<Ch.slash, Ch.slash>>
      end  == IF bare THEN 1 ELSE Find(s, 3, {Ch.slash, Ch.quest, Ch.hash})
  IN  UriAuthority(SubSeq(s, 3, end - 1)) @@ UriPath(SubSeq(s, end, Len(s)))

(* OdbcDelegateNativeUriToOdbc for the installed driver: the parts, then   *)
(* the parameters psqlodbc has a keyword for; any other is refused.        *)
OdbcFromUri(family, s, u, driver) ==
  LET part(key, v) == IF v = NoText THEN <<>> ELSE <<Attr(key, v)>>
      under == Kw.sslmode :> Kw.sslmode @@ Kw.host :> Kw.server @@ Kw.port :> Kw.port
               @@ Kw.user :> Kw.uid @@ Kw.password :> Kw.pwd
      path  == IF Len(s) >= 2 /\ SubSeq(s, 1, 2) = <<Ch.slash, Ch.slash>>
               THEN SubSeq(s, 3, Len(s)) ELSE s
      attrs == part(Kw.driver, driver)
               \o IF family = "file" THEN part(Kw.database, path)
                  ELSE part(Kw.server, IF u.host = NoText THEN <<108>> ELSE u.host)
                       \o part(Kw.port, u.port) \o part(Kw.database, u.path)
                       \o part(Kw.uid, u.user) \o part(Kw.pwd, u.password)
                       \o [i \in DOMAIN u.params |-> Attr(under[u.params[i].key], u.params[i].value)]
      text(a) == <<a.key, Ch.eq>> \o AppendOdbcValue(a.value) \o <<Ch.semi>>
  IN  IF \/ driver = NoText \/ family \notin {"file", "postgresql"}
         \/ family = "postgresql" /\ \E i \in DOMAIN u.params : u.params[i].key \notin DOMAIN under
      THEN NoText
      ELSE FlattenSeq([i \in DOMAIN attrs |-> text(attrs[i])])

NativeUriToOdbc(family, s, driver) == OdbcFromUri(family, s, ParseUriRest(s), driver)
=============================================================================
