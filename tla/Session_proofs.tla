--------------------------- MODULE Session_proofs ---------------------------
(* Proofs about Session, for every set of drivers and option values and    *)
(* every number of rows.                                                   *)
EXTENDS Session, SequenceTheorems, TLAPS

(* Telling the caller of some rows tells of the same rows as before.       *)
LEMMA ToldRows ==
  ASSUME NEW rows, NEW what \in Fates, fate \in Seq(Fates)
  PROVE  /\ Told(rows, what) \in Seq(Fates)
         /\ DOMAIN Told(rows, what) = DOMAIN fate
         /\ \A r \in DOMAIN fate :
              Told(rows, what)[r] = IF r \in rows THEN what ELSE fate[r]
<1>1. DOMAIN fate = 1 .. Len(fate) /\ Len(fate) \in Nat
  OBVIOUS
<1>2. Told(rows, what) \in [1 .. Len(fate) -> Fates]
  BY <1>1 DEF Told
<1>3. Told(rows, what) \in Seq(Fates)
  BY <1>1, <1>2
<1> QED BY <1>1, <1>2, <1>3 DEF Told

(* A report of two more rows leaves the earlier ones as they were.         *)
LEMMA TwoMore ==
  ASSUME NEW two \in Seq(Fates), Len(two) = 2, fate \in Seq(Fates)
  PROVE  /\ fate \o two \in Seq(Fates)
         /\ DOMAIN (fate \o two) = DOMAIN fate \cup {Len(fate) + 1, Len(fate) + 2}
         /\ Len(fate) + 1 \notin DOMAIN fate /\ Len(fate) + 2 \notin DOMAIN fate
         /\ \A r \in DOMAIN fate : (fate \o two)[r] = fate[r]
         /\ (fate \o two)[Len(fate) + 1] = two[1]
         /\ (fate \o two)[Len(fate) + 2] = two[2]
<1>1. DOMAIN fate = 1 .. Len(fate) /\ Len(fate) \in Nat
  OBVIOUS
<1>2. /\ fate \o two \in Seq(Fates)
      /\ Len(fate \o two) = Len(fate) + Len(two)
      /\ \A r \in 1 .. Len(fate) + Len(two) :
           (fate \o two)[r] = IF r <= Len(fate) THEN fate[r] ELSE two[r - Len(fate)]
  BY ConcatProperties, Zenon
<1>3. DOMAIN (fate \o two) = 1 .. Len(fate) + 2
  BY <1>1, <1>2
<1>4. \A r \in 1 .. Len(fate) + 2 :
        (fate \o two)[r] = IF r <= Len(fate) THEN fate[r] ELSE two[r - Len(fate)]
  BY <1>2, Zenon
<1> QED BY <1>1, <1>2, <1>3, <1>4

(* One more row.                                                           *)
LEMMA OneMore ==
  ASSUME NEW what \in Fates, fate \in Seq(Fates)
  PROVE  /\ Append(fate, what) \in Seq(Fates)
         /\ DOMAIN Append(fate, what) = DOMAIN fate \cup {Len(fate) + 1}
         /\ Len(fate) + 1 \notin DOMAIN fate
         /\ \A r \in DOMAIN fate : Append(fate, what)[r] = fate[r]
         /\ Append(fate, what)[Len(fate) + 1] = what
<1>1. DOMAIN fate = 1 .. Len(fate) /\ Len(fate) \in Nat
  OBVIOUS
<1>2. Append(fate, what) \in Seq(Fates) /\ Len(Append(fate, what)) = Len(fate) + 1
  OBVIOUS
<1>3. DOMAIN Append(fate, what) = 1 .. Len(fate) + 1
  BY <1>1, <1>2
<1> QED BY <1>1, <1>2, <1>3

-----------------------------------------------------------------------------
(* The options of an open connection, one by one.                          *)
EachAsAsked ==
  conn.st = "open" =>
    /\ "batch" \notin seen.late =>
         conn.batch \in IF asked.batch # {} THEN asked.batch ELSE seen.batch
    /\ "prefetch" \notin seen.late =>
         conn.prefetch \in IF asked.prefetch # {} THEN asked.prefetch ELSE seen.prefetch
    /\ "sqllen" \notin seen.late =>
         conn.sqllen \in IF asked.sqllen # {} THEN asked.sqllen
                         ELSE IF seen.sqllen # {} THEN seen.sqllen ELSE {Narrow32(driver)}

(* OptionsAsAsked says just that, now and after a step.                    *)
LEMMA AskedOneByOne ==
  ASSUME DOMAIN asked = DOMAIN Nothing
  PROVE  OptionsAsAsked <=> EachAsAsked
<1> DEFINE fits(o) == ConnectionGetOption[o] \in IF asked[o] # {} THEN asked[o]
                                                 ELSE Inherited(seen.sqllen)[o]
<1>1. DOMAIN asked = {"batch", "prefetch", "sqllen"}
  BY DEF Nothing
<1>2. /\ fits("batch") <=> (conn.batch \in IF asked.batch # {} THEN asked.batch ELSE seen.batch)
      /\ fits("prefetch") <=>
           (conn.prefetch \in IF asked.prefetch # {} THEN asked.prefetch ELSE seen.prefetch)
      /\ fits("sqllen") <=>
           (conn.sqllen \in IF asked.sqllen # {} THEN asked.sqllen
                            ELSE IF seen.sqllen # {} THEN seen.sqllen ELSE {Narrow32(driver)})
  BY DEF ConnectionGetOption, Inherited
<1>3. OptionsAsAsked <=>
        (conn.st = "open" => \A o \in DOMAIN asked \ seen.late : fits(o))
  BY DEF OptionsAsAsked
<1> HIDE DEF fits
<1> QED BY <1>1, <1>2, <1>3 DEF EachAsAsked

(* The same in the next state.                                             *)
LEMMA AskedOneByOneNext ==
  ASSUME DOMAIN asked' = DOMAIN Nothing
  PROVE  OptionsAsAsked' <=> EachAsAsked'
<1> DEFINE fits(o) == ConnectionGetOption[o] \in IF asked[o] # {} THEN asked[o]
                                                 ELSE Inherited(seen.sqllen)[o]
<1>1. DOMAIN asked' = {"batch", "prefetch", "sqllen"}
  BY DEF Nothing
<1>2. /\ fits("batch")' <=> (conn.batch \in IF asked.batch # {} THEN asked.batch ELSE seen.batch)'
      /\ fits("prefetch")' <=>
           (conn.prefetch \in IF asked.prefetch # {} THEN asked.prefetch ELSE seen.prefetch)'
      /\ fits("sqllen")' <=>
           (conn.sqllen \in IF asked.sqllen # {} THEN asked.sqllen
                            ELSE IF seen.sqllen # {} THEN seen.sqllen ELSE {Narrow32(driver)})'
  BY DEF ConnectionGetOption, Inherited
<1>3. OptionsAsAsked' <=>
        (conn.st = "open" => \A o \in DOMAIN asked \ seen.late : fits(o))'
  BY DEF OptionsAsAsked
<1> HIDE DEF fits
<1> QED BY <1>1, <1>2, <1>3 DEF EachAsAsked

(* Narrow32 answers yes or no.                                             *)
LEMMA Narrow32Type == \A d : Narrow32(d) \in BOOLEAN
BY DEF Narrow32

(* There is neither a database nor a session at first.                     *)
LEMMA SessionInit == Init => SessionInv
<1> SUFFICES ASSUME Init PROVE SessionInv
  OBVIOUS
<1>1. /\ db = NoDatabase /\ conn = NoConnection /\ srv = NoSession /\ asked = Nothing
      /\ seen = Unseen /\ fate = <<>>
  BY DEF Init
<1>2. Shapes
  <2>1. fate \in Seq(Fates) /\ DOMAIN fate = {}
    BY <1>1
  <2> QED BY <1>1, <2>1 DEF Shapes, Sessions, NoDatabase, NoConnection, NoSession
<1>3. OneSession /\ OptionsWait /\ OptionsAsAsked
  BY <1>1 DEF OneSession, OptionsWait, OptionsAsAsked, NoConnection, NoSession
<1> QED BY <1>2, <1>3 DEF SessionInv

-----------------------------------------------------------------------------
(* The calls on the database touch nothing a connection relies on.         *)
LEMMA DatabaseKeepsSession ==
  ASSUME SessionInv,
         DatabaseNew \/ DatabaseSetOption \/ DatabaseInit \/ DatabaseRelease
  PROVE  SessionInv'
<1>1. /\ driver' = driver /\ conn' = conn /\ srv' = srv /\ asked' = asked /\ seen' = seen
      /\ fate' = fate
  BY DEF DatabaseNew, DatabaseSetOption, DatabaseInit, DatabaseRelease, options
<1>2. Shapes
  BY DEF SessionInv
<1>3. /\ DOMAIN db' = DOMAIN NoDatabase /\ db'.st \in {"none", "new", "ready"}
      /\ db'.sqllen \in BOOLEAN /\ db'.forced \in BOOLEAN
      /\ conn.connected => db'.st = "ready"
  <2>1. conn.connected => db.st = "ready" /\ conn.st # "none"
    BY <1>2 DEF SessionInv, OneSession
  <2>2. CASE DatabaseNew
    BY <2>1, <2>2 DEF DatabaseNew, NoDatabase
  <2>3. CASE DatabaseSetOption
    BY <1>2, <2>1, <2>3, LengthsAssumption DEF DatabaseSetOption, Shapes, NoDatabase
  <2>4. CASE DatabaseInit
    BY <1>2, <2>1, <2>4 DEF DatabaseInit, Shapes, NoDatabase
  <2>5. CASE DatabaseRelease
    BY <2>1, <2>5 DEF DatabaseRelease, NoDatabase
  <2> QED BY <2>2, <2>3, <2>4, <2>5
<1>4. Shapes'
  BY <1>1, <1>2, <1>3 DEF Shapes, Sessions
<1>5. OneSession' /\ OptionsWait' /\ OptionsAsAsked'
  BY <1>1, <1>3 DEF SessionInv, OneSession, OptionsWait, OptionsAsAsked, ConnectionGetOption,
                    Inherited
<1> QED BY <1>4, <1>5 DEF SessionInv

-----------------------------------------------------------------------------
(* The connection: an option is taken or waits, a connect merges what      *)
(* waits with the database's, and a new connection asked for nothing.      *)
LEMMA NewKeepsSession ==
  ASSUME SessionInv, ConnectionNew
  PROVE  SessionInv'
<1>1. /\ conn' = [NoConnection EXCEPT !.st = "new"] /\ conn.st = "none"
      /\ driver' = driver /\ db' = db /\ srv' = srv /\ asked' = asked /\ seen' = seen
      /\ fate' = fate
  BY DEF ConnectionNew, options
<1>2. /\ DOMAIN conn' = DOMAIN NoConnection /\ conn'.st = "new" /\ conn'.connected = FALSE
      /\ conn'.autocommit = TRUE /\ conn'.pre_batch_size = FALSE /\ conn'.pre_prefetch = FALSE
      /\ conn'.sqllen = FALSE /\ conn'.forced = FALSE
  BY <1>1 DEF NoConnection
<1>3. Shapes'
  BY <1>1, <1>2 DEF SessionInv, Shapes, Sessions
<1>4. OneSession' /\ OptionsWait' /\ OptionsAsAsked'
  BY <1>1, <1>2 DEF SessionInv, Shapes, OneSession, OptionsWait, OptionsAsAsked, Nothing,
                         Unseen
<1> QED BY <1>3, <1>4 DEF SessionInv

(* A change of mode keeps the session open.                                *)
LEMMA ModeType ==
  ASSUME NEW R, NEW s \in Sessions(R), NEW on \in BOOLEAN
  PROVE  /\ Mode(s, on) \in Sessions(R)
         /\ Mode(s, on).open = s.open /\ Mode(s, on).lost = s.lost
<1>1. CASE on /\ ~s.auto
  <2>1. Mode(s, on) = [s EXCEPT !.auto = TRUE, !.begun = FALSE, !.pending = {},
                                !.committed = s.committed \cup s.pending]
    BY <1>1 DEF Mode, Sessions
  <2> QED BY <2>1 DEF Sessions
<1>2. CASE ~(on /\ ~s.auto)
  <2>1. Mode(s, on) = [s EXCEPT !.auto = on]
    BY <1>2 DEF Mode
  <2> QED BY <2>1 DEF Sessions
<1> QED BY <1>1, <1>2

(* The return to autocommit commits, and no other change of mode does.     *)
LEMMA ModeCommits ==
  ASSUME NEW R, NEW s \in Sessions(R), ~s.auto
  PROVE  /\ Mode(s, TRUE).auto = TRUE /\ Mode(s, TRUE).begun = FALSE
         /\ Mode(s, TRUE).pending = {}
         /\ Mode(s, TRUE).committed = s.committed \cup s.pending
BY DEF Mode, Sessions

(* Setting the mode that is on, or leaving autocommit, moves no rows.      *)
LEMMA ModeMoves ==
  ASSUME NEW R, NEW s \in Sessions(R), NEW on \in BOOLEAN, on => s.auto
  PROVE  /\ Mode(s, on).auto = on /\ Mode(s, on).begun = s.begun
         /\ Mode(s, on).pending = s.pending /\ Mode(s, on).committed = s.committed
BY DEF Mode, Sessions

(* Setting autocommit moves the session's rows and nothing of the options. *)
LEMMA AutocommitKeepsSession ==
  ASSUME SessionInv, NEW on \in BOOLEAN, SetAutocommit(on)
  PROVE  SessionInv'
<1> USE DEF SessionInv
<1>1. /\ conn' = [conn EXCEPT !.autocommit = on]
      /\ driver' = driver /\ db' = db /\ asked' = asked /\ seen' = seen
  BY DEF SetAutocommit, options
<1>2. /\ DOMAIN conn' = DOMAIN NoConnection /\ conn'.autocommit = on
      /\ conn'.st = conn.st /\ conn'.connected = conn.connected
      /\ conn'.pre_batch_size = conn.pre_batch_size /\ conn'.pre_prefetch = conn.pre_prefetch
      /\ conn'.batch = conn.batch /\ conn'.prefetch = conn.prefetch
      /\ conn'.sqllen = conn.sqllen /\ conn'.forced = conn.forced
  BY <1>1 DEF Shapes, NoConnection
<1>3. fate' \in Seq(Fates) /\ DOMAIN fate' = DOMAIN fate
  BY ToldRows DEF SetAutocommit, Shapes, Fates
<1>4. srv' \in Sessions(DOMAIN fate) /\ srv'.open = srv.open
  <2>1. srv \in Sessions(DOMAIN fate) /\ (srv' = srv \/ srv' = Mode(srv, on))
    BY DEF SetAutocommit, Shapes
  <2>2. Mode(srv, on) \in Sessions(DOMAIN fate) /\ Mode(srv, on).open = srv.open
    BY <2>1, ModeType
  <2> QED BY <2>1, <2>2, Zenon
<1>5. Shapes'
  <2>1. srv' \in Sessions(DOMAIN fate')
    BY <1>3, <1>4 DEF Sessions
  <2> QED BY <1>1, <1>2, <1>3, <2>1 DEF Shapes
<1>6. OneSession' /\ OptionsWait'
  BY <1>1, <1>2, <1>4 DEF OneSession, OptionsWait
<1>7. OptionsAsAsked'
  BY <1>1, <1>2 DEF OptionsAsAsked, ConnectionGetOption, Inherited
<1> QED BY <1>5, <1>6, <1>7

(* AdbcConnectionSetOption, whatever the option, keeps the session         *)
(* invariant.                                                              *)
LEMMA SetOptionKeepsSession ==
  ASSUME SessionInv, ConnectionSetOption
  PROVE  SessionInv'
<1> USE DEF SessionInv
<1>1. CASE \E on \in BOOLEAN : SetAutocommit(on)
  BY <1>1, AutocommitKeepsSession DEF ConnectionSetOption
<1>2. CASE ~\E on \in BOOLEAN : SetAutocommit(on)
  <2>1. /\ driver' = driver /\ db' = db /\ srv' = srv /\ fate' = fate
        /\ conn.st \in {"new", "open", "failed"}
    BY <1>2 DEF ConnectionSetOption, Shapes
  <2>2. conn.connected <=> conn.st # "new"
    BY <2>1 DEF OneSession
  <2>3. DOMAIN asked' = DOMAIN Nothing /\ DOMAIN seen' = DOMAIN Unseen
    BY <1>2 DEF ConnectionSetOption, Shapes, Nothing, Unseen, options
  <2>4. /\ DOMAIN conn' = DOMAIN NoConnection /\ conn'.st = conn.st
        /\ conn'.connected = conn.connected /\ conn'.autocommit = conn.autocommit
        /\ conn'.pre_batch_size \in BOOLEAN /\ conn'.pre_prefetch \in BOOLEAN
        /\ conn'.sqllen \in BOOLEAN /\ conn'.forced \in BOOLEAN
    BY <1>2, LengthsAssumption DEF ConnectionSetOption, Shapes, NoConnection
  <2>5. Shapes'
    BY <2>1, <2>3, <2>4 DEF Shapes, Sessions
  <2>6. OneSession'
    BY <2>1, <2>4 DEF OneSession
  <2>7. OptionsWait' /\ OptionsAsAsked'
    <3> DEFINE Kept(o) ==
          /\ asked'[o] = asked[o]
          /\ o \in seen'.late <=> o \in seen.late
        SameBatch == conn'.batch = conn.batch /\ conn'.pre_batch_size = conn.pre_batch_size
                     /\ Kept("batch")
        SamePrefetch == conn'.prefetch = conn.prefetch /\ conn'.pre_prefetch = conn.pre_prefetch
                        /\ Kept("prefetch")
        SameLength == conn'.sqllen = conn.sqllen /\ conn'.forced = conn.forced /\ Kept("sqllen")
        NewBatch == /\ conn'.pre_batch_size = ~conn.connected /\ asked'.batch = {conn'.batch}
                    /\ conn.st = "failed" => "batch" \in seen'.late
        NewPrefetch == /\ conn'.pre_prefetch = ~conn.connected /\ asked'.prefetch = {conn'.prefetch}
                       /\ conn.st = "failed" => "prefetch" \in seen'.late
        NewLength == conn'.forced = TRUE /\ asked'.sqllen = {conn'.sqllen}
    <3>1. /\ SameBatch \/ NewBatch
          /\ SamePrefetch \/ NewPrefetch
          /\ SameLength \/ NewLength
          /\ seen'.batch = seen.batch /\ seen'.prefetch = seen.prefetch /\ seen'.sqllen = seen.sqllen
      <4> USE DEF Shapes, NoConnection, Nothing, Unseen
      <4>1. ASSUME NEW v \in Batches,
                   conn' = [conn EXCEPT !.batch = v, !.pre_batch_size = ~conn.connected],
                   asked' = [asked EXCEPT !.batch = {v}],
                   seen' = [seen EXCEPT !.late = Late("batch")]
            PROVE  NewBatch /\ SamePrefetch /\ SameLength /\ seen'.batch = seen.batch
                   /\ seen'.prefetch = seen.prefetch /\ seen'.sqllen = seen.sqllen
        BY <4>1 DEF Late
      <4>2. ASSUME NEW v \in Prefetches,
                   conn' = [conn EXCEPT !.prefetch = v, !.pre_prefetch = ~conn.connected],
                   asked' = [asked EXCEPT !.prefetch = {v}],
                   seen' = [seen EXCEPT !.late = Late("prefetch")]
            PROVE  SameBatch /\ NewPrefetch /\ SameLength /\ seen'.batch = seen.batch
                   /\ seen'.prefetch = seen.prefetch /\ seen'.sqllen = seen.sqllen
        BY <4>2 DEF Late
      <4>3. ASSUME NEW v \in Lengths,
                   conn' = [conn EXCEPT !.sqllen = v, !.forced = TRUE],
                   asked' = [asked EXCEPT !.sqllen = {v}], seen' = seen
            PROVE  SameBatch /\ SamePrefetch /\ NewLength
        BY <4>3
      <4>4. ASSUME conn' = [conn EXCEPT !.held = TRUE], asked' = asked, seen' = seen
            PROVE  SameBatch /\ SamePrefetch /\ SameLength
        BY <4>4
      <4> HIDE DEF SameBatch, SamePrefetch, SameLength, NewBatch, NewPrefetch, NewLength
      <4> QED BY <1>2, <4>1, <4>2, <4>3, <4>4 DEF ConnectionSetOption, options
    <3>2. OptionsWait'
      BY <2>1, <2>2, <2>4, <3>1 DEF OptionsWait, Shapes
    <3>3. OptionsAsAsked'
      BY <2>1, <2>3, <2>4, <3>1, AskedOneByOne, AskedOneByOneNext DEF Shapes, EachAsAsked
    <3> QED BY <3>2, <3>3
  <2> QED BY <2>5, <2>6, <2>7
<1> QED BY <1>1, <1>2

(* The connect: what waits goes over the database's options.               *)
LEMMA ConnectKeepsSession ==
  ASSUME SessionInv, ConnectionInit
  PROVE  SessionInv'
<1> USE DEF SessionInv
<1> DEFINE c == StartOptions(conn, db)
<1>1. /\ conn.st \in {"new", "failed"} /\ db.st = "ready" /\ seen' = Looked
      /\ driver' = driver /\ db' = db /\ asked' = asked /\ fate' = fate
  BY DEF ConnectionInit
<1>2. /\ DOMAIN c = DOMAIN NoConnection /\ c.st = conn.st
      /\ c.connected = conn.connected /\ c.autocommit = conn.autocommit
      /\ c.pre_batch_size = conn.pre_batch_size /\ c.pre_prefetch = conn.pre_prefetch
      /\ c.batch = (IF conn.pre_batch_size THEN conn.batch ELSE db.batch)
      /\ c.prefetch = (IF conn.pre_prefetch THEN conn.prefetch ELSE db.prefetch)
      /\ c.sqllen = (IF conn.forced THEN conn.sqllen ELSE db.sqllen)
      /\ c.forced = (conn.forced \/ db.forced)
      /\ c.sqllen \in BOOLEAN /\ c.forced \in BOOLEAN
  BY <1>1 DEF StartOptions, Shapes, NoConnection, OneSession
<1> HIDE DEF c
<1>3. /\ DOMAIN seen' = DOMAIN Unseen /\ seen'.late = seen.late
      /\ seen'.batch = {db.batch} /\ seen'.prefetch = {db.prefetch}
      /\ seen'.sqllen = IF seen.sqllen # {} THEN seen.sqllen
                        ELSE IF db.forced THEN {db.sqllen} ELSE {}
  BY <1>1 DEF Looked, Forced, Shapes, Unseen
(* SQLLEN after the merge is what was asked for or found in the database.  *)
<1>4. IF c.forced THEN {c.sqllen} = IF asked.sqllen # {} THEN asked.sqllen ELSE seen'.sqllen
      ELSE asked.sqllen = {} /\ seen'.sqllen = {}
  <2>1. CASE conn.forced
    BY <1>1, <1>2, <1>3, <2>1 DEF OptionsWait
  <2>2. CASE ~conn.forced
    BY <1>1, <1>2, <1>3, <2>2 DEF OptionsWait
  <2> QED BY <2>1, <2>2
<1>5. CASE conn' = c /\ srv' = [NoSession EXCEPT !.committed = srv.committed]
  <2>1. srv' \in Sessions(DOMAIN fate) /\ srv'.open = FALSE
    BY <1>5 DEF Shapes, Sessions, NoSession
  <2>2. Shapes'
    BY <1>1, <1>2, <1>3, <1>5, <2>1 DEF Shapes, Sessions
  <2>3. OneSession' /\ OptionsAsAsked'
    BY <1>1, <1>2, <1>5, <2>1 DEF OneSession, OptionsAsAsked
  <2>4. OptionsWait'
    BY <1>1, <1>2, <1>3, <1>4, <1>5 DEF OptionsWait
  <2> QED BY <2>2, <2>3, <2>4
<1>6. ASSUME NEW end \in {"open", "failed"}, conn' = [Detected(c) EXCEPT !.st = end],
             NEW auto \in BOOLEAN,
             srv' = [NoSession EXCEPT !.open = TRUE, !.committed = srv.committed, !.auto = auto]
      PROVE  SessionInv'
  <2>1. /\ DOMAIN conn' = DOMAIN NoConnection /\ conn'.st = end
        /\ conn'.connected = TRUE /\ conn'.autocommit = conn.autocommit
        /\ conn'.pre_batch_size = conn.pre_batch_size /\ conn'.pre_prefetch = conn.pre_prefetch
        /\ conn'.batch = c.batch /\ conn'.prefetch = c.prefetch
        /\ conn'.sqllen = (IF c.forced THEN c.sqllen ELSE Narrow32(driver))
        /\ conn'.forced = c.forced
    BY <1>2, <1>6 DEF Detected, NoConnection
  <2>2. /\ srv' \in Sessions(DOMAIN fate) /\ srv'.open = TRUE
    BY <1>6 DEF Shapes, Sessions, NoSession
  <2>3. Shapes'
    <3>1. conn'.sqllen \in BOOLEAN /\ conn'.forced \in BOOLEAN
      BY <1>2, <2>1, Narrow32Type
    <3>2. srv' \in Sessions(DOMAIN fate')
      BY <1>1, <2>2
    <3> QED BY <1>1, <1>3, <2>1, <3>1, <3>2 DEF Shapes
  <2>4. OneSession'
    BY <1>1, <1>6, <2>1, <2>2 DEF OneSession
  <2>5. OptionsWait'
    BY <1>1, <1>2, <1>3, <1>4, <2>1 DEF OptionsWait
  <2>6. EachAsAsked'
    <3>1. "batch" \notin seen.late =>
            conn'.batch \in IF asked.batch # {} THEN asked.batch ELSE seen'.batch
      BY <1>1, <1>2, <1>3, <2>1 DEF OptionsWait, Shapes
    <3>2. "prefetch" \notin seen.late =>
            conn'.prefetch \in IF asked.prefetch # {} THEN asked.prefetch ELSE seen'.prefetch
      BY <1>1, <1>2, <1>3, <2>1 DEF OptionsWait, Shapes
    <3>3. conn'.sqllen \in IF asked.sqllen # {} THEN asked.sqllen
                           ELSE IF seen'.sqllen # {} THEN seen'.sqllen ELSE {Narrow32(driver)}
      BY <1>2, <1>4, <2>1
    <3> QED BY <1>1, <1>3, <3>1, <3>2, <3>3 DEF EachAsAsked
  <2>7. OptionsAsAsked'
    BY <1>1, <2>6, AskedOneByOneNext DEF Shapes
  <2> QED BY <2>3, <2>4, <2>5, <2>7
<1>7. \/ conn' = c /\ srv' = [NoSession EXCEPT !.committed = srv.committed]
      \/ \E end \in {"open", "failed"}, auto \in BOOLEAN :
           /\ conn' = [Detected(c) EXCEPT !.st = end]
           /\ srv' = [NoSession EXCEPT !.open = TRUE, !.committed = srv.committed, !.auto = auto]
  BY DEF ConnectionInit, c, Shapes
<1> QED BY <1>5, <1>6, <1>7

-----------------------------------------------------------------------------
(* SQLDisconnect shuts the session, or refuses a transaction; it commits   *)
(* one only in manual commit.                                              *)
LEMMA DisconnectsFacts ==
  ASSUME NEW R, NEW s \in Sessions(R), NEW t \in Disconnects(s)
  PROVE  /\ t \in Sessions(R)
         /\ \/ /\ ~t.open /\ t.pending = {}
               /\ \/ t.committed = s.committed
                  \/ ~s.lost /\ ~s.auto /\ t.committed = s.committed \cup s.pending
            \/ t = s /\ (s.begun \/ s.pending # {})
<1> DEFINE shut == [s EXCEPT !.open = FALSE, !.pending = {}, !.begun = FALSE]
           done == [shut EXCEPT !.committed = s.committed \cup s.pending]
           busy == ~s.lost /\ (s.begun \/ s.pending # {})
<1>1. shut \in Sessions(R) /\ ~shut.open /\ shut.pending = {} /\ shut.committed = s.committed
  BY DEF Sessions
<1>2. /\ done \in Sessions(R) /\ ~done.open /\ done.pending = {}
      /\ done.committed = s.committed \cup s.pending
  BY DEF Sessions
<1>3. t = shut \/ (busy /\ t = s) \/ (busy /\ ~s.auto /\ t = done)
  BY <1>1 DEF Disconnects
<1> HIDE DEF shut, done
<1> QED BY <1>1, <1>2, <1>3

(* A rollback leaves nothing that a disconnect refuses.                    *)
LEMMA RolledBackFacts ==
  ASSUME NEW R, NEW s \in Sessions(R)
  PROVE  /\ RolledBack(s) \in Sessions(R)
         /\ RolledBack(s).pending = {} /\ ~RolledBack(s).begun
         /\ RolledBack(s).committed = s.committed /\ RolledBack(s).open = s.open
BY DEF RolledBack, Sessions

(* AdbcConnectionRelease always shuts the session, and what it left open   *)
(* is committed by the driver only when the bridge takes a session in      *)
(* manual commit for one in autocommit.                                    *)
LEMMA ReleasedFacts ==
  ASSUME srv \in Sessions(DOMAIN fate), srv.open, NEW t \in Released
  PROVE  /\ t \in Sessions(DOMAIN fate) /\ ~t.open /\ t.pending = {}
         /\ \/ t.committed = srv.committed
            \/ /\ conn.autocommit /\ ~srv.lost /\ ~srv.auto
               /\ t.committed = srv.committed \cup srv.pending
<1> DEFINE first == IF conn.autocommit THEN srv ELSE RolledBack(srv)
<1>1. PICK s \in Disconnects(first) : t \in IF s.open THEN Disconnects(RolledBack(s)) ELSE {s}
  BY DEF Released
<1>2. /\ first \in Sessions(DOMAIN fate) /\ first.open /\ first.committed = srv.committed
      /\ first.pending = (IF conn.autocommit THEN srv.pending ELSE {})
      /\ conn.autocommit => first = srv
  BY RolledBackFacts
<1> HIDE DEF first
<1>3. /\ s \in Sessions(DOMAIN fate)
      /\ \/ /\ ~s.open /\ s.pending = {}
            /\ \/ s.committed = first.committed
               \/ ~first.lost /\ ~first.auto /\ s.committed = first.committed \cup first.pending
         \/ s = first
  BY <1>1, <1>2, DisconnectsFacts
<1>4. CASE ~s.open /\ s.pending = {}
  <2>1. t = s
    BY <1>1, <1>4
  <2> QED BY <1>2, <1>3, <1>4, <2>1
<1>5. CASE s = first /\ s.open
  <2>1. t \in Disconnects(RolledBack(s))
    BY <1>1, <1>5
  <2>2. /\ RolledBack(s) \in Sessions(DOMAIN fate) /\ RolledBack(s).pending = {} /\ ~RolledBack(s).begun
        /\ RolledBack(s).committed = s.committed
    BY <1>3, RolledBackFacts
  <2> DEFINE rb == RolledBack(s)
  <2>3. /\ t \in Sessions(DOMAIN fate)
        /\ \/ /\ ~t.open /\ t.pending = {}
              /\ \/ t.committed = rb.committed
                 \/ t.committed = rb.committed \cup rb.pending
           \/ rb.begun \/ rb.pending # {}
    BY <2>1, <2>2, DisconnectsFacts, Zenon
  <2>4. ~t.open /\ t.pending = {} /\ t.committed = s.committed
    BY <2>2, <2>3
  <2> QED BY <1>2, <1>5, <2>3, <2>4
<1> QED BY <1>2, <1>3, <1>4, <1>5

(* AdbcConnectionRelease takes the session and the rows it had open with   *)
(* it.                                                                     *)
LEMMA ReleaseKeepsSession ==
  ASSUME SessionInv, ConnectionRelease
  PROVE  SessionInv'
<1> USE DEF SessionInv
<1>1. /\ driver' = driver /\ db' = db /\ asked' = Nothing /\ seen' = Unseen
      /\ conn' = NoConnection
      /\ fate' = Told(srv.pending, "gone")
  BY DEF ConnectionRelease
<1>2. fate' \in Seq(Fates) /\ DOMAIN fate' = DOMAIN fate
  BY <1>1, ToldRows DEF Shapes, Fates
<1>3. srv' \in Sessions(DOMAIN fate) /\ ~srv'.open
  BY ReleasedFacts DEF ConnectionRelease, Shapes, OneSession
<1>4. Shapes'
  BY <1>1, <1>2, <1>3 DEF Shapes, Sessions, NoConnection
<1>5. OneSession' /\ OptionsWait' /\ OptionsAsAsked'
  BY <1>1, <1>3 DEF OneSession, OptionsWait, OptionsAsAsked, NoConnection
<1> QED BY <1>4, <1>5

-----------------------------------------------------------------------------
(* Work on a connection changes the session's rows and their fate, neither *)
(* the connection nor whether the session is open.                         *)
LEMMA WorkKeepsSession ==
  ASSUME SessionInv, driver' = driver, db' = db, conn' = conn, asked' = asked, seen' = seen,
         fate' \in Seq(Fates), DOMAIN fate \subseteq DOMAIN fate',
         srv' \in Sessions(DOMAIN fate'), srv'.open = srv.open
  PROVE  SessionInv'
<1> USE DEF SessionInv
<1>1. Shapes'
  BY DEF Shapes
<1>2. OneSession' /\ OptionsWait'
  BY DEF OneSession, OptionsWait
<1>3. OptionsAsAsked'
  BY DEF OptionsAsAsked, ConnectionGetOption, Inherited
<1> QED BY <1>1, <1>2, <1>3

(* What every step on rows keeps: the shape of the session, and what the   *)
(* caller knows of the rows.                                               *)
RowsKept == SessionInv' /\ (RowsInv /\ ~RestoreRefused => RowsInv')

(* A session the server ends loses the rows it had open and no others.     *)
LEMMA LoseKeepsRows ==
  ASSUME SessionInv, Lose
  PROVE  RowsKept
<1>1. srv \in Sessions(DOMAIN fate) /\ fate \in Seq(Fates)
  BY DEF SessionInv, Shapes
<1>2. /\ fate' \in Seq(Fates) /\ DOMAIN fate' = DOMAIN fate
      /\ \A r \in DOMAIN fate : fate'[r] = IF r \in srv.pending THEN "gone" ELSE fate[r]
  BY <1>1, ToldRows DEF Lose, Fates
<1>3. srv' = [srv EXCEPT !.lost = TRUE, !.pending = {}]
  BY DEF Lose
<1>4. /\ srv' \in Sessions(DOMAIN fate) /\ srv'.open = srv.open /\ srv'.lost
      /\ srv'.pending = {} /\ srv'.committed = srv.committed
  BY <1>1, <1>3 DEF Sessions
<1>5. SessionInv'
  <2>1. srv' \in Sessions(DOMAIN fate')
    BY <1>2, <1>4 DEF Sessions
  <2> QED BY <1>2, <1>4, <2>1, WorkKeepsSession DEF Lose, options
<1>6. ASSUME RowsInv PROVE RowsInv'
  BY <1>2, <1>4, <1>5, <1>6 DEF RowsInv, ModeIsKnown, OpenRows, RowsKeepTheirFate
<1> QED BY <1>5, <1>6 DEF RowsKept

(* One row: open exactly when the driver's session is in a transaction,    *)
(* which the bridge knows by its mode.                                     *)
LEMMA RowKeepsRows ==
  ASSUME SessionInv, ExecuteRow
  PROVE  RowsKept
<1> DEFINE r == Len(fate) + 1
           what == IF OpenToCaller THEN "open" ELSE "durable"
<1>1. srv \in Sessions(DOMAIN fate) /\ fate \in Seq(Fates)
  BY DEF SessionInv, Shapes
<1>2. /\ fate' \in Seq(Fates) /\ DOMAIN fate' = DOMAIN fate \cup {r} /\ r \notin DOMAIN fate
      /\ \A q \in DOMAIN fate : fate'[q] = fate[q]
      /\ fate'[r] = what
  BY <1>1, OneMore DEF ExecuteRow, Fates
<1>3. /\ srv' = IF InTransaction(srv) THEN [srv EXCEPT !.pending = @ \cup {r}]
                ELSE [srv EXCEPT !.committed = @ \cup {r}]
      /\ conn.st = "open" /\ ~srv.lost
      /\ driver' = driver /\ db' = db /\ conn' = conn /\ asked' = asked /\ seen' = seen
  BY DEF ExecuteRow, Idle, options
<1> HIDE DEF r
<1>4. /\ srv'.open = srv.open /\ srv'.lost = srv.lost /\ srv'.auto = srv.auto
      /\ srv'.begun = srv.begun
      /\ srv'.pending = (IF InTransaction(srv) THEN srv.pending \cup {r} ELSE srv.pending)
      /\ srv'.committed = (IF InTransaction(srv) THEN srv.committed ELSE srv.committed \cup {r})
      /\ srv' \in Sessions(DOMAIN fate')
  BY <1>1, <1>2, <1>3 DEF Sessions
<1>5. SessionInv'
  BY <1>2, <1>3, <1>4, WorkKeepsSession
<1>6. ASSUME RowsInv PROVE RowsInv'
  <2>1. InTransaction(srv) <=> OpenToCaller
    BY <1>3, <1>6 DEF RowsInv, ModeIsKnown, InTransaction, OpenToCaller
  <2>2. ModeIsKnown'
    BY <1>3, <1>4, <1>6 DEF RowsInv, ModeIsKnown
  <2>3. r \notin srv.pending /\ r \notin srv.committed
    BY <1>1, <1>2 DEF Sessions
  <2>4. OpenRows' /\ RowsKeepTheirFate'
    BY <1>1, <1>2, <1>3, <1>4, <1>6, <2>1, <2>3
       DEF RowsInv, OpenRows, RowsKeepTheirFate, InTransaction
  <2> QED BY <1>5, <2>2, <2>4 DEF RowsInv
<1> QED BY <1>5, <1>6 DEF RowsKept

(* A BEGIN sent as SQL opens a transaction in a session in autocommit; no  *)
(* row changes hands.                                                      *)
LEMMA BeginKeepsRows ==
  ASSUME SessionInv, ExecuteBegin
  PROVE  RowsKept
<1>1. srv \in Sessions(DOMAIN fate) /\ fate \in Seq(Fates)
  BY DEF SessionInv, Shapes
<1>2. /\ srv' = [srv EXCEPT !.begun = TRUE] /\ fate' = fate /\ srv.auto
      /\ driver' = driver /\ db' = db /\ conn' = conn /\ asked' = asked /\ seen' = seen
  BY DEF ExecuteBegin, options
<1>3. /\ srv'.open = srv.open /\ srv'.lost = srv.lost /\ srv'.auto = srv.auto
      /\ srv'.begun = TRUE /\ srv'.pending = srv.pending /\ srv'.committed = srv.committed
      /\ srv' \in Sessions(DOMAIN fate')
  BY <1>1, <1>2 DEF Sessions
<1>4. SessionInv'
  BY <1>1, <1>2, <1>3, WorkKeepsSession
<1>5. ASSUME RowsInv PROVE RowsInv'
  BY <1>2, <1>3, <1>4, <1>5
     DEF RowsInv, ModeIsKnown, OpenRows, RowsKeepTheirFate, InTransaction
<1> QED BY <1>4, <1>5 DEF RowsKept

(* A commit, confirmed, refused or lost on the way, a rollback, and the    *)
(* caller's own COMMIT or ROLLBACK end the transaction for all of its rows *)
(* at once.                                                                *)
LEMMA EndKeepsRows ==
  ASSUME SessionInv, ConnectionCommit \/ ConnectionRollback \/ ExecuteEnd
  PROVE  RowsKept
<1>1. srv \in Sessions(DOMAIN fate) /\ fate \in Seq(Fates)
  BY DEF SessionInv, Shapes
<1>2. driver' = driver /\ db' = db /\ conn' = conn /\ asked' = asked /\ seen' = seen
  BY DEF ConnectionCommit, ConnectionRollback, ExecuteEnd, options
<1>3. PICK what \in {"durable", "gone", "unknown"} :
        /\ fate' = Told(srv.pending, what)
        /\ srv' \in Sessions(DOMAIN fate)
        /\ srv'.open = srv.open /\ srv'.auto = srv.auto
        /\ srv'.pending = {}
        /\ \/ what # "durable" /\ srv'.committed = srv.committed
           \/ what # "gone" /\ srv'.committed = srv.committed \cup srv.pending
  <2>1. CASE ConnectionCommit
    BY <1>1, <2>1 DEF ConnectionCommit, Sessions
  <2>2. CASE ConnectionRollback
    BY <1>1, <2>2 DEF ConnectionRollback, Sessions
  <2>3. CASE ExecuteEnd
    BY <1>1, <2>3 DEF ExecuteEnd, Sessions
  <2> QED BY <2>1, <2>2, <2>3
<1>4. /\ fate' \in Seq(Fates) /\ DOMAIN fate' = DOMAIN fate
      /\ \A r \in DOMAIN fate : fate'[r] = IF r \in srv.pending THEN what ELSE fate[r]
  BY <1>1, <1>3, ToldRows DEF Fates
<1>5. SessionInv'
  <2>1. srv' \in Sessions(DOMAIN fate')
    BY <1>3, <1>4 DEF Sessions
  <2> QED BY <1>2, <1>3, <1>4, <2>1, WorkKeepsSession
<1>6. ASSUME RowsInv PROVE RowsInv'
  <2>1. ModeIsKnown'
    BY <1>2, <1>3, <1>6 DEF RowsInv, ModeIsKnown, ConnectionCommit, ConnectionRollback,
                            ExecuteEnd
  <2>2. OpenRows' /\ RowsKeepTheirFate'
    BY <1>3, <1>4, <1>6 DEF RowsInv, OpenRows, RowsKeepTheirFate
  <2> QED BY <1>5, <2>1, <2>2 DEF RowsInv
<1> QED BY <1>5, <1>6 DEF RowsKept

(* Two values in a row are a sequence.                                     *)
LEMMA TwoSeq ==
  ASSUME NEW S, NEW f \in [1 .. 2 -> S]
  PROVE  f \in Seq(S) /\ Len(f) = 2
<1>1. \A n \in Nat : [1 .. n -> S] \subseteq Seq(S)
  BY SeqDef
<1>2. f \in Seq(S)
  BY <1>1
<1>3. DOMAIN f = 1 .. 2 /\ DOMAIN f = 1 .. Len(f) /\ Len(f) \in Nat
  BY <1>2, LenProperties
<1> QED BY <1>2, <1>3

(* A row is where its report says, or its report says nothing.             *)
Accounted(p) ==
  \/ fate[p] = "durable" /\ p \in srv.committed /\ p \notin srv.pending
  \/ fate[p] = "gone" /\ p \notin srv.committed /\ p \notin srv.pending
  \/ fate[p] = "open" /\ p \notin srv.committed /\ p \in srv.pending
  \/ fate[p] \in {"unknown", "swept", "kept"} /\ p \notin srv.pending

(* All rows accounted for is what OpenRows and RowsKeepTheirFate say.      *)
LEMMA RowsAccounted ==
  ASSUME fate \in Seq(Fates), OpenRows, RowsKeepTheirFate, NEW p \in DOMAIN fate
  PROVE  Accounted(p)
<1>1. fate[p] \in Fates
  OBVIOUS
<1> QED BY <1>1 DEF Accounted, OpenRows, RowsKeepTheirFate, Fates

(* The same the other way, in the next state.                              *)
LEMMA AccountedKeepsRows ==
  ASSUME \A p \in DOMAIN fate' : Accounted(p)',
         srv'.pending # {} => conn'.st = "open" /\ (srv'.lost \/ InTransaction(srv'))
  PROVE  OpenRows' /\ RowsKeepTheirFate'
<1>1. OpenRows'
  BY DEF OpenRows, InTransaction, Accounted
<1>2. RowsKeepTheirFate'
  BY DEF RowsKeepTheirFate, Accounted
<1> QED BY <1>1, <1>2

(* The report of a bulk ingest: the open rows are swept, two are added.    *)
LEMMA SweptAndTwo ==
  ASSUME fate \in Seq(Fates), NEW two \in Seq(Fates), Len(two) = 2
  PROVE  /\ Told(srv.pending, "swept") \o two \in Seq(Fates)
         /\ DOMAIN (Told(srv.pending, "swept") \o two) = DOMAIN fate \cup TwoRows
         /\ TwoRows \cap DOMAIN fate = {}
         /\ \A p \in DOMAIN fate :
              (Told(srv.pending, "swept") \o two)[p] = IF p \in srv.pending THEN "swept" ELSE fate[p]
         /\ (Told(srv.pending, "swept") \o two)[Len(fate) + 1] = two[1]
         /\ (Told(srv.pending, "swept") \o two)[Len(fate) + 2] = two[2]
<1> DEFINE rows == srv.pending
           f == Told(rows, "swept") \o two
<1> DEFINE t == Told(rows, "swept")
<1>1. /\ t \in Seq(Fates) /\ DOMAIN t = DOMAIN fate
      /\ \A p \in DOMAIN fate : t[p] = IF p \in rows THEN "swept" ELSE fate[p]
  BY ToldRows DEF Fates
<1> HIDE DEF t
<1>3. Len(t) = Len(fate) /\ Len(t) \in Nat /\ DOMAIN fate = 1 .. Len(fate)
  BY <1>1
<1>4. /\ t \o two \in Seq(Fates)
      /\ Len(t \o two) = Len(t) + Len(two)
      /\ \A r \in 1 .. Len(t) + Len(two) :
           (t \o two)[r] = IF r <= Len(t) THEN t[r] ELSE two[r - Len(t)]
  BY <1>1, ConcatProperties, Zenon
<1>5. DOMAIN (t \o two) = 1 .. Len(t) + 2
  BY <1>3, <1>4
<1>6. \A r \in 1 .. Len(t) + 2 : (t \o two)[r] = IF r <= Len(t) THEN t[r] ELSE two[r - Len(t)]
  BY <1>4, Zenon
<1>7. f = t \o two
  BY DEF t
<1> HIDE DEF f
<1>8. /\ f \in Seq(Fates) /\ DOMAIN f = 1 .. Len(fate) + 2
      /\ \A r \in 1 .. Len(fate) + 2 :
           f[r] = IF r <= Len(fate) THEN t[r] ELSE two[r - Len(fate)]
  BY <1>3, <1>4, <1>5, <1>6, <1>7
<1>9. DOMAIN f = DOMAIN fate \cup TwoRows /\ TwoRows \cap DOMAIN fate = {}
  BY <1>3, <1>8 DEF TwoRows
<1>10. \A p \in DOMAIN fate : f[p] = t[p]
  BY <1>3, <1>8
<1>11. f[Len(fate) + 1] = two[1] /\ f[Len(fate) + 2] = two[2]
  <2>1. /\ Len(fate) \in Nat
        /\ Len(fate) + 1 \in 1 .. Len(fate) + 2 /\ ~(Len(fate) + 1 <= Len(fate))
        /\ Len(fate) + 2 \in 1 .. Len(fate) + 2 /\ ~(Len(fate) + 2 <= Len(fate))
        /\ (Len(fate) + 1) - Len(fate) = 1 /\ (Len(fate) + 2) - Len(fate) = 2
    BY <1>3
  <2>2. /\ f[Len(fate) + 1] = two[(Len(fate) + 1) - Len(fate)]
        /\ f[Len(fate) + 2] = two[(Len(fate) + 2) - Len(fate)]
    BY <1>8, <2>1, Zenon
  <2> QED BY <2>1, <2>2
<1> QED BY <1>1, <1>8, <1>9, <1>10, <1>11 DEF f

(* The rows an ingest sends are rows it has.                               *)
LEMMA SentRows ==
  ASSUME NEW done \in 0 .. 2, fate \in Seq(Fates)
  PROVE  /\ Sent(done) \subseteq TwoRows
         /\ Len(fate) + 1 \in Sent(done) <=> 1 <= done
         /\ Len(fate) + 2 \in Sent(done) <=> 2 <= done
<1>1. Len(fate) \in Nat
  OBVIOUS
<1> QED BY <1>1 DEF Sent, TwoRows

(* A bulk ingest in a transaction of its own.  The return to autocommit    *)
(* commits what the driver kept open, and the rows the caller had open are *)
(* no longer in a transaction.                                             *)
LEMMA IngestKeepsRows ==
  ASSUME SessionInv, Ingest
  PROVE  RowsKept
<1> DEFINE r == Len(fate) + 1
           q == Len(fate) + 2
<1>1. srv \in Sessions(DOMAIN fate) /\ fate \in Seq(Fates)
  BY DEF SessionInv, Shapes
<1>2. PICK done \in 0 .. 2, answer \in {"agreed", "discarded", "kept"}, refused \in BOOLEAN :
        /\ refused => RestoreRefused
        /\ srv' = Restore(Ended(done, answer), refused)
        /\ fate' = Told(srv.pending, "swept") \o Report(done, answer)
  BY DEF Ingest
<1>3. /\ conn.st = "open" /\ conn.autocommit /\ ~srv.lost
      /\ driver' = driver /\ db' = db /\ conn' = conn /\ asked' = asked /\ seen' = seen
  BY DEF Ingest, AutoTxn, Idle, options
<1>4. /\ Report(done, answer) \in [1 .. 2 -> Fates]
      /\ \A i \in 1 .. 2 : Report(done, answer)[i] =
           IF done = 2 THEN IF answer = "agreed" THEN "durable" ELSE "unknown"
           ELSE IF answer = "kept" /\ i <= done THEN "kept" ELSE "gone"
  BY DEF Report, Fates
<1>5. /\ fate' \in Seq(Fates) /\ DOMAIN fate' = DOMAIN fate \cup TwoRows
      /\ TwoRows \cap DOMAIN fate = {}
      /\ \A p \in DOMAIN fate : fate'[p] = IF p \in srv.pending THEN "swept" ELSE fate[p]
      /\ fate'[r] = Report(done, answer)[1] /\ fate'[q] = Report(done, answer)[2]
  <2> DEFINE two == Report(done, answer)
  <2>1. two \in [1 .. 2 -> Fates] /\ "swept" \in Fates
    BY <1>4 DEF Fates
  <2>2. fate' = Told(srv.pending, "swept") \o two
    BY <1>2
  <2> HIDE DEF two
  <2>3. two \in Seq(Fates) /\ Len(two) = 2
    BY <2>1, TwoSeq
  <2>4. /\ fate' \in Seq(Fates) /\ DOMAIN fate' = DOMAIN fate \cup TwoRows
        /\ TwoRows \cap DOMAIN fate = {}
        /\ \A p \in DOMAIN fate : fate'[p] = IF p \in srv.pending THEN "swept" ELSE fate[p]
        /\ fate'[Len(fate) + 1] = two[1] /\ fate'[Len(fate) + 2] = two[2]
    BY <1>1, <2>2, <2>3, SweptAndTwo
  <2> QED BY <2>4 DEF two
<1>6. /\ Sent(done) \subseteq TwoRows
      /\ r \in Sent(done) <=> 1 <= done
      /\ q \in Sent(done) <=> 2 <= done
  BY <1>1, SentRows
<1>7. TwoRows = {r, q}
  BY DEF TwoRows
<1> HIDE DEF r, q
<1> DEFINE s == Ended(done, answer)
           all == srv.pending \cup Sent(done)
<1>8. /\ s \in Sessions(DOMAIN fate') /\ s.open = srv.open /\ s.lost = srv.lost /\ s.auto = FALSE
      /\ s.pending = (IF answer = "kept" THEN all ELSE {})
      /\ s.committed = (IF done = 2 /\ answer = "agreed" THEN srv.committed \cup all
                        ELSE srv.committed)
  BY <1>1, <1>5, <1>6 DEF Ended, Sessions
<1>9. srv' = IF refused THEN s ELSE Mode(s, TRUE)
  BY <1>2 DEF Restore
<1> HIDE DEF s
<1>10. /\ Mode(s, TRUE) \in Sessions(DOMAIN fate') /\ Mode(s, TRUE).open = srv.open
       /\ Mode(s, TRUE).auto = TRUE /\ Mode(s, TRUE).pending = {}
       /\ Mode(s, TRUE).committed = s.committed \cup s.pending
  <2> DEFINE R == DOMAIN fate'
  <2>1. s \in Sessions(R) /\ ~s.auto
    BY <1>8
  <2> HIDE DEF R
  <2>2. Mode(s, TRUE) \in Sessions(R) /\ Mode(s, TRUE).open = s.open
    BY <2>1, ModeType
  <2>3. /\ Mode(s, TRUE).auto = TRUE /\ Mode(s, TRUE).pending = {}
        /\ Mode(s, TRUE).committed = s.committed \cup s.pending
    BY <2>1, ModeCommits
  <2> QED BY <1>8, <2>2, <2>3 DEF R
<1>11. SessionInv'
  BY <1>3, <1>5, <1>8, <1>9, <1>10, WorkKeepsSession
<1>12. ASSUME RowsInv, ~RestoreRefused PROVE RowsInv'
  <2>1. srv' = Mode(s, TRUE)
    BY <1>2, <1>9, <1>12
  <2>2. /\ srv'.pending = {}
        /\ srv'.committed = s.committed \cup s.pending
    BY <1>10, <2>1
  <2>3. ModeIsKnown'
    BY <1>3, <1>10, <2>1 DEF ModeIsKnown
  <2>4. ASSUME NEW p \in DOMAIN fate PROVE Accounted(p)'
    <3>1. Accounted(p)
      BY <1>1, <1>12, RowsAccounted DEF RowsInv
    <3>2. p \notin Sent(done)
      BY <1>5, <1>6
    <3>3. CASE p \in srv.pending
      BY <1>5, <2>2, <3>3 DEF Accounted
    <3>4. CASE p \notin srv.pending
      <4>1. p \in srv'.committed <=> p \in srv.committed
        BY <1>8, <2>2, <3>2, <3>4
      <4> QED BY <1>5, <2>2, <3>1, <3>4, <4>1 DEF Accounted
    <3> QED BY <3>3, <3>4
  <2>5. ASSUME NEW p \in {r, q} PROVE Accounted(p)'
    <3>1. p \notin srv.committed /\ p \notin srv.pending
      BY <1>1, <1>5, <1>7 DEF Sessions
    <3>2. p \in srv'.committed <=> p \in Sent(done) /\ (answer = "kept" \/ (done = 2 /\ answer = "agreed"))
      BY <1>8, <2>2, <3>1
    <3>3. fate'[p] = IF done = 2 THEN IF answer = "agreed" THEN "durable" ELSE "unknown"
                     ELSE IF answer = "kept" /\ p \in Sent(done) THEN "kept" ELSE "gone"
      BY <1>4, <1>5, <1>6
    <3>4. done = 2 => p \in Sent(done)
      BY <1>6
    <3> QED BY <2>2, <3>2, <3>3, <3>4 DEF Accounted
  <2>6. OpenRows' /\ RowsKeepTheirFate'
    <3>1. \A p \in DOMAIN fate' : Accounted(p)'
      BY <1>5, <1>7, <2>4, <2>5
    <3> QED BY <2>2, <3>1, AccountedKeepsRows
  <2> QED BY <1>11, <2>3, <2>6 DEF RowsInv
<1> QED BY <1>11, <1>12 DEF RowsKept

(* A bulk ingest in the caller's transaction, or in none: the rows sent    *)
(* are open or durable, as a single row would be.                          *)
LEMMA PlainIngestKeepsRows ==
  ASSUME SessionInv, IngestPlain
  PROVE  RowsKept
<1> DEFINE r == Len(fate) + 1
           q == Len(fate) + 2
           what == IF OpenToCaller THEN "open" ELSE "durable"
<1>1. srv \in Sessions(DOMAIN fate) /\ fate \in Seq(Fates)
  BY DEF SessionInv, Shapes
<1>2. PICK done \in 0 .. 2 :
        /\ srv' = IF InTransaction(srv) THEN [srv EXCEPT !.pending = @ \cup Sent(done)]
                  ELSE [srv EXCEPT !.committed = @ \cup Sent(done)]
        /\ fate' = fate \o [i \in 1 .. 2 |-> IF i > done THEN "gone" ELSE what]
  BY DEF IngestPlain
<1>3. /\ conn.st = "open" /\ ~srv.lost
      /\ driver' = driver /\ db' = db /\ conn' = conn /\ asked' = asked /\ seen' = seen
  BY DEF IngestPlain, Idle, options
<1>4. /\ Sent(done) \subseteq {r, q}
      /\ r \in Sent(done) <=> 1 <= done
      /\ q \in Sent(done) <=> 2 <= done
  BY <1>1, SentRows DEF TwoRows
<1>5. /\ fate' \in Seq(Fates) /\ DOMAIN fate' = DOMAIN fate \cup {r, q}
      /\ r \notin DOMAIN fate /\ q \notin DOMAIN fate
      /\ \A p \in DOMAIN fate : fate'[p] = fate[p]
      /\ fate'[r] = (IF r \notin Sent(done) THEN "gone" ELSE what)
      /\ fate'[q] = (IF q \notin Sent(done) THEN "gone" ELSE what)
  <2> DEFINE two == [i \in 1 .. 2 |-> IF i > done THEN "gone" ELSE what]
  <2>1. two \in [1 .. 2 -> Fates] /\ two[1] = (IF r \notin Sent(done) THEN "gone" ELSE what)
        /\ two[2] = (IF q \notin Sent(done) THEN "gone" ELSE what)
    <3> HIDE DEF r, q
    <3> QED BY <1>4 DEF Fates
  <2>2. two \in Seq(Fates) /\ Len(two) = 2
    <3> HIDE DEF two
    <3> QED BY <2>1, TwoSeq
  <2>3. fate' = fate \o two
    BY <1>2
  <2> HIDE DEF two, what
  <2> QED BY <1>1, <2>1, <2>2, <2>3, TwoMore
<1> HIDE DEF r, q
<1>6. /\ srv'.open = srv.open /\ srv'.lost = srv.lost /\ srv'.auto = srv.auto
      /\ srv'.begun = srv.begun
      /\ srv'.pending = (IF InTransaction(srv) THEN srv.pending \cup Sent(done) ELSE srv.pending)
      /\ srv'.committed = (IF InTransaction(srv) THEN srv.committed
                           ELSE srv.committed \cup Sent(done))
      /\ srv' \in Sessions(DOMAIN fate')
  BY <1>1, <1>2, <1>4, <1>5 DEF Sessions
<1>7. SessionInv'
  BY <1>3, <1>5, <1>6, WorkKeepsSession
<1>8. ASSUME RowsInv PROVE RowsInv'
  <2>1. InTransaction(srv) <=> OpenToCaller
    BY <1>3, <1>8 DEF RowsInv, ModeIsKnown, InTransaction, OpenToCaller
  <2>2. ModeIsKnown'
    BY <1>3, <1>6, <1>8 DEF RowsInv, ModeIsKnown
  <2>3. ASSUME NEW p \in DOMAIN fate PROVE Accounted(p)'
    <3>1. Accounted(p)
      BY <1>1, <1>8, RowsAccounted DEF RowsInv
    <3>2. p \notin Sent(done)
      BY <1>4, <1>5
    <3> QED BY <1>5, <1>6, <3>1, <3>2 DEF Accounted
  <2>4. ASSUME NEW p \in {r, q} PROVE Accounted(p)'
    <3>1. p \notin srv.committed /\ p \notin srv.pending
      BY <1>1, <1>5 DEF Sessions
    <3> QED BY <1>5, <1>6, <2>1, <3>1 DEF Accounted
  <2>5. OpenRows' /\ RowsKeepTheirFate'
    <3>1. \A p \in DOMAIN fate' : Accounted(p)'
      BY <1>5, <2>3, <2>4
    <3>2. srv'.pending # {} => conn'.st = "open" /\ (srv'.lost \/ InTransaction(srv'))
      BY <1>3, <1>6, <1>8 DEF RowsInv, OpenRows, InTransaction
    <3> QED BY <3>1, <3>2, AccountedKeepsRows
  <2> QED BY <1>7, <2>2, <2>5 DEF RowsInv
<1> QED BY <1>7, <1>8 DEF RowsKept

(* An ingest whose commit got lost says of its rows that nobody knows.     *)
LEMMA IngestLostKeepsRows ==
  ASSUME SessionInv, IngestLost
  PROVE  RowsKept
<1>1. srv \in Sessions(DOMAIN fate) /\ fate \in Seq(Fates)
  BY DEF SessionInv, Shapes
<1>2. <<"unknown", "unknown">> \in [1 .. 2 -> Fates]
  BY DEF Fates
<1>3. /\ fate' \in Seq(Fates) /\ DOMAIN fate' = DOMAIN fate \cup TwoRows
      /\ TwoRows \cap DOMAIN fate = {}
      /\ \A p \in DOMAIN fate : fate'[p] = IF p \in srv.pending THEN "swept" ELSE fate[p]
      /\ fate'[Len(fate) + 1] = "unknown" /\ fate'[Len(fate) + 2] = "unknown"
  <2> DEFINE two == <<"unknown", "unknown">>
  <2>1. two \in [1 .. 2 -> Fates] /\ "swept" \in Fates /\ two[1] = "unknown" /\ two[2] = "unknown"
    BY <1>2 DEF Fates
  <2>2. fate' = Told(srv.pending, "swept") \o two
    BY DEF IngestLost
  <2> HIDE DEF two
  <2>3. two \in Seq(Fates) /\ Len(two) = 2
    BY <2>1, TwoSeq
  <2>4. /\ fate' \in Seq(Fates) /\ DOMAIN fate' = DOMAIN fate \cup TwoRows
        /\ TwoRows \cap DOMAIN fate = {}
        /\ \A p \in DOMAIN fate : fate'[p] = IF p \in srv.pending THEN "swept" ELSE fate[p]
        /\ fate'[Len(fate) + 1] = two[1] /\ fate'[Len(fate) + 2] = two[2]
    BY <1>1, <2>2, <2>3, SweptAndTwo
  <2> QED BY <2>1, <2>4
<1>4. PICK applied \in BOOLEAN :
        srv' = [srv EXCEPT !.lost = TRUE, !.auto = FALSE, !.pending = {},
                  !.committed = IF applied THEN @ \cup srv.pending \cup TwoRows ELSE @]
  BY DEF IngestLost
<1>5. /\ conn.st = "open" /\ ~srv.lost
      /\ driver' = driver /\ db' = db /\ conn' = conn /\ asked' = asked /\ seen' = seen
  BY DEF IngestLost, AutoTxn, Idle, options
<1>6. /\ srv'.open = srv.open /\ srv'.lost = TRUE /\ srv'.pending = {}
      /\ srv'.committed = (IF applied THEN srv.committed \cup srv.pending \cup TwoRows
                           ELSE srv.committed)
      /\ srv' \in Sessions(DOMAIN fate')
  BY <1>1, <1>3, <1>4 DEF Sessions
<1>7. SessionInv'
  BY <1>3, <1>5, <1>6, WorkKeepsSession
<1>8. ASSUME RowsInv PROVE RowsInv'
  <2>1. ASSUME NEW p \in DOMAIN fate PROVE Accounted(p)'
    <3>1. Accounted(p) /\ p \notin TwoRows
      BY <1>1, <1>3, <1>8, RowsAccounted DEF RowsInv
    <3>2. CASE p \in srv.pending
      BY <1>3, <1>6, <3>2 DEF Accounted
    <3>3. CASE p \notin srv.pending
      BY <1>3, <1>6, <3>1, <3>3 DEF Accounted
    <3> QED BY <3>2, <3>3
  <2>2. ASSUME NEW p \in TwoRows PROVE Accounted(p)'
    <3>1. fate'[p] = "unknown"
      BY <1>3 DEF TwoRows
    <3> QED BY <1>6, <3>1 DEF Accounted
  <2>3. OpenRows' /\ RowsKeepTheirFate'
    <3>1. \A p \in DOMAIN fate' : Accounted(p)'
      BY <1>3, <2>1, <2>2
    <3> QED BY <1>6, <3>1, AccountedKeepsRows
  <2>4. ModeIsKnown'
    BY <1>6 DEF ModeIsKnown
  <2> QED BY <1>7, <2>3, <2>4 DEF RowsInv
<1> QED BY <1>7, <1>8 DEF RowsKept

-----------------------------------------------------------------------------
(* The calls on the database and the connection that touch no row.         *)
LEMMA OthersKeepRows ==
  ASSUME RowsInv, SessionInv', srv' = srv, fate' = fate,
         conn'.st = conn.st, conn'.autocommit = conn.autocommit
  PROVE  RowsInv'
BY DEF RowsInv, ModeIsKnown, OpenRows, RowsKeepTheirFate, InTransaction

(* Autocommit set on an open connection: the rows of the transaction       *)
(* become durable with it.                                                 *)
LEMMA AutocommitKeepsRows ==
  ASSUME RowsInv, SessionInv', NEW on \in BOOLEAN, SetAutocommit(on)
  PROVE  RowsInv'
<1>1. srv \in Sessions(DOMAIN fate) /\ fate \in Seq(Fates)
  BY DEF RowsInv, SessionInv, Shapes
<1>2. conn'.st = conn.st /\ conn'.autocommit = on
  BY DEF SetAutocommit, RowsInv, SessionInv, Shapes, NoConnection
<1>3. CASE ~conn.connected /\ srv' = srv /\ fate' = fate
  <2>1. conn.st # "open"
    BY <1>3 DEF RowsInv, SessionInv, OneSession
  <2> QED BY <1>2, <1>3, <2>1 DEF RowsInv, ModeIsKnown, OpenRows, RowsKeepTheirFate
<1>4. CASE conn.connected /\ ~srv.lost /\ on /\ ~srv.auto
  <2>1. srv' = Mode(srv, TRUE) /\ fate' = Told(srv.pending, "durable")
    BY <1>4 DEF SetAutocommit
  <2>2. /\ srv'.auto = TRUE /\ srv'.pending = {}
        /\ srv'.committed = srv.committed \cup srv.pending
    BY <1>1, <1>4, <2>1, ModeCommits
  <2>3. /\ DOMAIN fate' = DOMAIN fate
        /\ \A r \in DOMAIN fate : fate'[r] = IF r \in srv.pending THEN "durable" ELSE fate[r]
    BY <1>1, <2>1, ToldRows DEF Fates
  <2>4. ModeIsKnown'
    BY <1>2, <1>4, <2>2 DEF ModeIsKnown
  <2>5. OpenRows' /\ RowsKeepTheirFate'
    BY <2>2, <2>3 DEF RowsInv, OpenRows, RowsKeepTheirFate
  <2> QED BY <2>4, <2>5 DEF RowsInv
<1>5. CASE conn.connected /\ ~srv.lost /\ (on => srv.auto)
  <2>1. srv' = Mode(srv, on) /\ fate' = fate
    BY <1>5 DEF SetAutocommit
  <2>2. /\ srv'.auto = on /\ srv'.begun = srv.begun /\ srv'.pending = srv.pending
        /\ srv'.committed = srv.committed
    BY <1>1, <1>5, <2>1, ModeMoves
  <2>3. srv'.lost = srv.lost
    BY <1>1, <2>1, ModeType
  <2>4. ModeIsKnown'
    BY <1>2, <2>2 DEF ModeIsKnown
  <2>5. OpenRows' /\ RowsKeepTheirFate'
    BY <1>2, <1>5, <2>1, <2>2 DEF RowsInv, OpenRows, RowsKeepTheirFate, InTransaction
  <2> QED BY <2>4, <2>5 DEF RowsInv
<1> QED BY <1>3, <1>4, <1>5 DEF SetAutocommit

(* A session is opened in the mode that was asked for, with no row open.   *)
LEMMA ConnectKeepsRows ==
  ASSUME RowsInv, SessionInv', ConnectionInit
  PROVE  RowsInv'
<1>1. /\ srv \in Sessions(DOMAIN fate) /\ conn.st # "open" /\ DOMAIN conn = DOMAIN NoConnection
      /\ conn.autocommit \in BOOLEAN /\ fate' = fate
  BY DEF RowsInv, SessionInv, Shapes, ConnectionInit
<1>2. srv.pending = {}
  BY <1>1 DEF RowsInv, OpenRows
<1>3. srv'.pending = {} /\ srv'.committed = srv.committed
  BY <1>1, <1>2 DEF ConnectionInit, NoSession
<1>4. conn'.st = "open" => srv'.auto = conn'.autocommit
  <2>1. PICK answer \in {"connected", "silent", "truncated", "refused"},
             wide \in BOOLEAN, off \in BOOLEAN :
          LET c == StartOptions(conn, db)
              agreed == conn.autocommit \/ off
          IN  IF ~Connects(answer, wide)
              THEN conn' = c
              ELSE /\ conn' = [Detected(c) EXCEPT !.st = IF agreed THEN "open" ELSE "failed"]
                   /\ srv' = [NoSession EXCEPT !.open = TRUE, !.committed = srv.committed,
                                               !.auto = conn.autocommit \/ ~off]
    BY DEF ConnectionInit
  <2> DEFINE c == StartOptions(conn, db)
  <2>2. /\ DOMAIN c = DOMAIN NoConnection
        /\ c.st = conn.st /\ c.autocommit = conn.autocommit
    BY <1>1 DEF StartOptions, NoConnection
  <2>3. CASE ~Connects(answer, wide)
    BY <1>1, <2>1, <2>2, <2>3
  <2>4. CASE Connects(answer, wide)
    <3>1. /\ DOMAIN Detected(c) = DOMAIN NoConnection
          /\ Detected(c).autocommit = conn.autocommit
      BY <2>2 DEF Detected, NoConnection
    <3>2. /\ conn'.st = IF conn.autocommit \/ off THEN "open" ELSE "failed"
          /\ conn'.autocommit = conn.autocommit
      BY <2>1, <2>4, <3>1 DEF NoConnection
    <3>3. srv'.auto = (conn.autocommit \/ ~off)
      BY <2>1, <2>4 DEF NoSession
    <3> QED BY <1>1, <3>2, <3>3
  <2> QED BY <2>3, <2>4
<1>5. ModeIsKnown'
  BY <1>4 DEF ModeIsKnown
<1>6. OpenRows' /\ RowsKeepTheirFate'
  BY <1>1, <1>2, <1>3 DEF RowsInv, OpenRows, RowsKeepTheirFate
<1> QED BY <1>5, <1>6 DEF RowsInv

(* What is left open at the release is rolled back, never committed by a   *)
(* driver that ends the transaction as it likes.                           *)
LEMMA ReleaseKeepsRows ==
  ASSUME RowsInv, SessionInv', ConnectionRelease
  PROVE  RowsInv'
<1>1. srv \in Sessions(DOMAIN fate) /\ fate \in Seq(Fates)
  BY DEF RowsInv, SessionInv, Shapes
<1>2. /\ DOMAIN fate' = DOMAIN fate
      /\ \A r \in DOMAIN fate : fate'[r] = IF r \in srv.pending THEN "gone" ELSE fate[r]
  BY <1>1, ToldRows DEF ConnectionRelease, Fates
<1>3. srv'.pending = {} /\ srv'.committed = srv.committed
  <2>1. CASE ~srv.open
    <3>1. srv.pending = {} /\ srv' = srv
      BY <2>1 DEF RowsInv, SessionInv, OneSession, OpenRows, ConnectionRelease
    <3> QED BY <3>1
  <2>2. CASE srv.open
    <3>1. /\ srv'.pending = {}
          /\ \/ srv'.committed = srv.committed
             \/ /\ conn.autocommit /\ ~srv.lost /\ ~srv.auto
                /\ srv'.committed = srv.committed \cup srv.pending
      BY <1>1, <2>2, ReleasedFacts DEF ConnectionRelease, RowsInv, SessionInv, OneSession
    <3>2. conn.autocommit /\ ~srv.lost /\ ~srv.auto => srv.pending = {}
      BY DEF RowsInv, ModeIsKnown, OpenRows
    <3> QED BY <3>1, <3>2
  <2> QED BY <2>1, <2>2 DEF RowsInv, SessionInv, Shapes
<1>4. conn'.st = "none"
  BY DEF ConnectionRelease, NoConnection
<1>5. ModeIsKnown'
  BY <1>4 DEF ModeIsKnown
<1>6. OpenRows' /\ RowsKeepTheirFate'
  BY <1>2, <1>3 DEF RowsInv, OpenRows, RowsKeepTheirFate
<1> QED BY <1>5, <1>6 DEF RowsInv

(* There are no rows at first.                                             *)
LEMMA RowsInit == Init => RowsInv
<1> SUFFICES ASSUME Init PROVE RowsInv
  OBVIOUS
<1>1. conn.st = "none" /\ srv.pending = {} /\ DOMAIN fate = {}
  BY DEF Init, NoConnection, NoSession
<1>2. ModeIsKnown /\ OpenRows /\ RowsKeepTheirFate
  BY <1>1 DEF ModeIsKnown, OpenRows, RowsKeepTheirFate
<1> QED BY <1>2, SessionInit DEF RowsInv

(* Every step keeps the shape of the session, and the rows.                *)
LEMMA StepKeepsRows ==
  ASSUME SessionInv, [Next]_vars
  PROVE  RowsKept
<1>1. CASE UNCHANGED vars
  <2>1. /\ driver' = driver /\ db' = db /\ conn' = conn /\ asked' = asked /\ seen' = seen
        /\ srv' = srv /\ fate' = fate
    BY <1>1 DEF vars, options
  <2>2. srv \in Sessions(DOMAIN fate) /\ fate \in Seq(Fates)
    BY DEF SessionInv, Shapes
  <2>3. SessionInv'
    BY <2>1, <2>2, WorkKeepsSession
  <2> QED BY <2>1, <2>3, OthersKeepRows DEF RowsKept
<1>2. CASE DatabaseNew \/ DatabaseSetOption \/ DatabaseInit \/ DatabaseRelease
  <2>1. conn' = conn /\ srv' = srv /\ fate' = fate
    BY <1>2 DEF DatabaseNew, DatabaseSetOption, DatabaseInit, DatabaseRelease
  <2> QED BY <1>2, <2>1, DatabaseKeepsSession, OthersKeepRows DEF RowsKept
<1>3. CASE ConnectionNew
  <2>1. RowsInv => RowsInv'
    <3>1. /\ conn.st = "none" /\ srv' = srv /\ fate' = fate /\ conn'.st = "new"
      BY <1>3 DEF ConnectionNew, NoConnection
    <3> QED BY <1>3, <3>1, NewKeepsSession
               DEF RowsInv, ModeIsKnown, OpenRows, RowsKeepTheirFate
  <2> QED BY <1>3, <2>1, NewKeepsSession DEF RowsKept
<1>4. CASE ConnectionSetOption
  <2>1. SessionInv'
    BY <1>4, SetOptionKeepsSession
  <2>2. ASSUME RowsInv PROVE RowsInv'
    <3>1. CASE \E on \in BOOLEAN : SetAutocommit(on)
      BY <2>1, <2>2, <3>1, AutocommitKeepsRows
    <3>2. CASE ~\E on \in BOOLEAN : SetAutocommit(on)
      <4>1. /\ srv' = srv /\ fate' = fate
            /\ conn'.st = conn.st /\ conn'.autocommit = conn.autocommit
        BY <1>4, <3>2 DEF ConnectionSetOption, SessionInv, Shapes, NoConnection
      <4> QED BY <2>1, <2>2, <4>1, OthersKeepRows
    <3> QED BY <3>1, <3>2
  <2> QED BY <2>1, <2>2 DEF RowsKept
<1>5. CASE ConnectionInit
  BY <1>5, ConnectKeepsSession, ConnectKeepsRows DEF RowsKept
<1>6. CASE ConnectionRelease
  BY <1>6, ReleaseKeepsSession, ReleaseKeepsRows DEF RowsKept
<1>7. CASE ExecuteRow \/ ExecuteBegin \/ IngestPlain \/ Ingest \/ IngestLost
  BY <1>7, RowKeepsRows, BeginKeepsRows, PlainIngestKeepsRows, IngestKeepsRows,
     IngestLostKeepsRows
<1>8. CASE ConnectionCommit \/ ConnectionRollback \/ ExecuteEnd \/ Lose
  BY <1>8, EndKeepsRows, LoseKeepsRows
<1> QED BY <1>1, <1>2, <1>3, <1>4, <1>5, <1>6, <1>7, <1>8 DEF Next

-----------------------------------------------------------------------------
(* SessionInv is inductive, whatever the driver refuses.                   *)
THEOREM SessionAlways == Spec => []SessionInv
<1>1. SessionInv /\ [Next]_vars => SessionInv'
  BY StepKeepsRows DEF RowsKept
<1> QED BY SessionInit, <1>1, PTL DEF Spec

(* AdbcConnectionRelease leaves no session behind: not after a connect     *)
(* that failed half-way, not with a transaction the bridge knows nothing   *)
(* of, and not when the first disconnect is refused.                       *)
THEOREM NoSessionLeftAlways == Spec => []NoSessionLeft
<1>1. SessionInv => NoSessionLeft
  BY DEF SessionInv, OneSession, NoSessionLeft
<1> QED BY <1>1, SessionAlways, PTL

(* The options of an open connection are those asked for, however often a  *)
(* connect failed before and whatever autocommit mode the driver is in.    *)
THEOREM OptionsAsAskedAlways == Spec => []OptionsAsAsked
<1>1. SessionInv => OptionsAsAsked
  BY DEF SessionInv
<1> QED BY <1>1, SessionAlways, PTL

(* With a driver that goes back to autocommit when told to, RowsInv is     *)
(* inductive.                                                              *)
THEOREM RowsAlways ==
  ASSUME ~RestoreRefused
  PROVE  Spec => []RowsInv
<1>1. RowsInv /\ [Next]_vars => RowsInv'
  <2>1. RowsInv => SessionInv
    BY DEF RowsInv
  <2> QED BY <2>1, StepKeepsRows DEF RowsKept
<1> QED BY RowsInit, <1>1, PTL DEF Spec

(* The options in force, the autocommit mode of the session included.      *)
THEOREM OptionsInForceAlways ==
  ASSUME ~RestoreRefused
  PROVE  Spec => []OptionsInForce
<1>1. RowsInv => OptionsInForce
  BY DEF RowsInv, SessionInv, OptionsInForce
<1> QED BY <1>1, RowsAlways, PTL

(* What the caller was told of a row stays true: a row reported done is    *)
(* committed, one reported gone is never seen, through commits, releases   *)
(* and sessions lost at any step.                                          *)
THEOREM RowsKeepTheirFateAlways ==
  ASSUME ~RestoreRefused
  PROVE  Spec => []RowsKeepTheirFate
<1>1. RowsInv => RowsKeepTheirFate
  BY DEF RowsInv
<1> QED BY <1>1, RowsAlways, PTL

-----------------------------------------------------------------------------
(* What OdbcDetectQuirks concludes.  The rules that a driver's name alone  *)
(* decides: what each may set and clear.                                   *)
LEMMA RuleFacts ==
  ASSUME NEW d, NEW r \in Rules(d)
  PROVE  /\ "no_param_arrays" \in r.sets =>
              \/ r.mark \in {"duckdb", "clickhouse", "odbcfb", "ignite", "virtodbc", "monetdb"}
              \/ r.mark = "maodbc" /\ d.recent
         /\ "prefer_param_arrays" \in r.sets =>
              \/ r.mark \in {"altibase", "verticaodbc", "libodbchdb"}
              \/ r.mark = "maodbc" /\ ~d.recent
         /\ "wide_sql" \in r.sets => r.mark = "libodbchdb"
         /\ "narrow_sql" \in r.sets => r.mark = "ignite"
         /\ "pg_array_ingest" \notin r.sets /\ "ansi_ddl_type_names" \notin r.sets
         /\ "getdata_repair" \notin r.sets
         /\ "getdata_bound" \in r.clears => "getdata_repair" \in r.clears
         /\ "fixed_rowset" \in r.sets => "getdata_repair" \in r.clears
         /\ r.mark \notin {"psqlodbc", "db2o"}
<1>1. CASE r \in LocalRules
  BY <1>1 DEF LocalRules, Rule
<1>2. CASE r = MariaDb(d)
  BY <1>2 DEF MariaDb, Rule
<1>3. CASE r \in FirebirdRules \cup AltibaseRules \cup IngresRules \cup OracleRules \cup VendorRules
  BY <1>3 DEF FirebirdRules, AltibaseRules, IngresRules, OracleRules, VendorRules, Rule
<1>4. CASE r = IgniteRule(d)
  BY <1>4 DEF IgniteRule, Rule
<1>5. CASE r = VirtuosoRule(d)
  BY <1>5 DEF VirtuosoRule, Rule
<1>6. CASE r \in WarehouseRules
  BY <1>6 DEF WarehouseRules, Rule
<1>7. CASE r \in FlightRules(d)
  <2>1. CASE r = Rule("taos_odbc", {"timestamp_as_text", "bool_param_as_tinyint"}, {})
    BY <2>1 DEF Rule
  <2>2. CASE r = Rule("arrow flight", {"no_sql_columns"}
                                      \cup (IF d.windows THEN {"text_as_binary"} ELSE {}), {})
    BY <2>2 DEF Rule
  <2> QED BY <1>7, <2>1, <2>2 DEF FlightRules
<1> QED BY <1>1, <1>2, <1>3, <1>4, <1>5, <1>6, <1>7 DEF Rules

(* The questions put to a server never decide for arrays, wide statements  *)
(* or repairs, and a PostgreSQL is not one whose types are named in ANSI.  *)
LEMMA AskedFacts ==
  ASSUME NEW d, OneDriver(d)
  PROVE  /\ Asked(d) \cap {"prefer_param_arrays", "wide_sql", "narrow_sql", "getdata_repair",
                           "getdata_bound", "fixed_rowset"} = {}
         /\ "no_param_arrays" \in Asked(d) => "psqlodbc" \in d.marks
         /\ "pg_array_ingest" \in Asked(d) => "psqlodbc" \in d.marks /\ GenuinePostgres(d)
         /\ "ansi_ddl_type_names" \in Asked(d) =>
              \/ {"maodbc", "myodbc"} \cap d.marks # {}
              \/ Version(d).fork = "questdb"
<1> DEFINE None6 == {"prefer_param_arrays", "wide_sql", "narrow_sql", "getdata_repair",
                     "getdata_bound", "fixed_rowset"}
<1>1. /\ Postgres(d) \cap None6 = {}
      /\ "pg_array_ingest" \in Postgres(d) => GenuinePostgres(d)
      /\ "ansi_ddl_type_names" \in Postgres(d) => Version(d).fork = "questdb"
  BY DEF Postgres
<1>2. /\ ColumnStore(d) \cap None6 = {}
      /\ ColumnStore(d) \cap {"no_param_arrays", "pg_array_ingest"} = {}
  BY DEF ColumnStore
<1>3. /\ MySqlWarehouse(d) \cap None6 = {}
      /\ MySqlWarehouse(d) \cap {"no_param_arrays", "pg_array_ingest"} = {}
  BY DEF MySqlWarehouse
<1>4. /\ (Db2(d) \cup Db2ForI(d)) \cap None6 = {}
      /\ (Db2(d) \cup Db2ForI(d)) \cap {"no_param_arrays", "pg_array_ingest", "ansi_ddl_type_names"} = {}
  BY DEF Db2, Db2ForI
<1> QED BY <1>1, <1>2, <1>3, <1>4 DEF Asked

(* A server that answers what psqlodbc asks of it, and passes for          *)
(* PostgreSQL, is PostgreSQL.                                              *)
LEMMA GenuineFacts ==
  ASSUME NEW d, d.server \in DOMAIN PgServers, GenuinePostgres(d)
  PROVE  /\ Version(d).fork # "questdb"
         /\ d.deaf \subseteq {"version"} => d.server = "postgresql"
<1>1. Version(d).fork \notin kForks /\ Version(d).banner = "postgresql"
  BY DEF GenuinePostgres, PlainBanner
<1>2. "version" \notin d.deaf
  BY <1>1 DEF Version
<1>3. /\ Version(d).fork = PgServers[d.server].fork
      /\ Version(d).banner = PgServers[d.server].banner
  BY <1>2 DEF Version
<1>4. Version(d).fork # "questdb"
  BY <1>1 DEF kForks
<1>5. ASSUME d.deaf \subseteq {"version"}
      PROVE  d.server = "postgresql"
  <2>1. "show" \notin d.deaf /\ "setting" \notin d.deaf
    BY <1>5
  <2>2. ~PgServers[d.server].spanner
    BY <2>1 DEF GenuinePostgres, Spanner
  <2>3. Version(d).fork # "arcadedb" /\ Version(d).banner # ""
    BY <1>1 DEF kForks
  <2>4. ~PgServers[d.server].echoes
    BY <1>4, <2>1, <2>3 DEF GenuinePostgres, Echoes
  <2>5. PgServers[d.server].fork \notin {"-yb-", "cloudberry", "opengauss", "risingwave",
                                         "questdb", "arcadedb", "cockroach"}
    BY <1>1, <1>3 DEF kForks
  <2>6. d.server \in {"postgresql", "yugabyte", "cloudberry", "opengauss", "risingwave", "questdb",
                      "arcadedb", "cockroach", "ydb", "spanner"}
    BY DEF PgServers
  <2>7. /\ PgServers["yugabyte"].fork = "-yb-" /\ PgServers["cloudberry"].fork = "cloudberry"
        /\ PgServers["opengauss"].fork = "opengauss" /\ PgServers["risingwave"].fork = "risingwave"
        /\ PgServers["questdb"].fork = "questdb" /\ PgServers["arcadedb"].fork = "arcadedb"
        /\ PgServers["cockroach"].fork = "cockroach" /\ PgServers["ydb"].echoes = TRUE
        /\ PgServers["spanner"].spanner = TRUE
    BY DEF PgServers
  <2> QED BY <2>2, <2>4, <2>5, <2>6, <2>7
<1> QED BY <1>4, <1>5

(* A flag a driver is left with is a capability of it, was set by a rule   *)
(* of its name or by an answer of its server, and no rule cleared it after *)
(* the capabilities were probed.                                           *)
LEMMA FlagOrigin ==
  ASSUME NEW d, NEW f \in DetectQuirks(d)
  PROVE  \/ /\ f \in Capabilities(d)
            /\ d.marks # {} => \A r \in Rules(d) : r.mark \in d.marks => f \notin r.clears
         \/ \E r \in Rules(d) : r.mark \in d.marks /\ f \in r.sets
         \/ f \in Asked(d)
         \/ f \in {"wide_utf16_pairs", "wchar_as_utf8"}
  BY DEF DetectQuirks, Platform, Named

(* Whatever driver is behind a connection, if its name is that of one      *)
(* driver: what OdbcDetectQuirks concludes of it is consistent.            *)
LEMMA QuirksDetected ==
  ASSUME NEW d, OneDriver(d)
  PROVE  QuirksConsistent(d, DetectQuirks(d))
<1> DEFINE F == DetectQuirks(d)
           C == Capabilities(d)
<1>1. C \subseteq {"param_array_row_counts", "txn_capable", "getdata_repair", "getdata_bound",
                   "refetch_repair"}
  BY DEF Capabilities
<1>2. ASSUME NEW m \in d.marks, NEW n \in d.marks, m # "db2o", n # "db2o"
      PROVE  m = n
  BY <1>2 DEF OneDriver
<1>3. Never(F, {"no_param_arrays", "prefer_param_arrays"})
  <2> SUFFICES ASSUME "no_param_arrays" \in F, "prefer_param_arrays" \in F
               PROVE  FALSE
    BY DEF Never
  <2>1. PICK q \in Rules(d) : q.mark \in d.marks /\ "prefer_param_arrays" \in q.sets
    BY FlagOrigin, AskedFacts, <1>1
  <2>2. /\ q.mark \in {"altibase", "verticaodbc", "libodbchdb"} \/ (q.mark = "maodbc" /\ ~d.recent)
        /\ q.mark # "db2o"
    BY <2>1, RuleFacts
  <2>3. CASE "no_param_arrays" \in Asked(d)
    BY <1>2, <2>1, <2>2, <2>3, AskedFacts
  <2>4. CASE \E r \in Rules(d) : r.mark \in d.marks /\ "no_param_arrays" \in r.sets
    <3>1. PICK r \in Rules(d) : r.mark \in d.marks /\ "no_param_arrays" \in r.sets
      BY <2>4
    <3>2. /\ \/ r.mark \in {"duckdb", "clickhouse", "odbcfb", "ignite", "virtodbc", "monetdb"}
             \/ r.mark = "maodbc" /\ d.recent
          /\ r.mark # "db2o"
      BY <3>1, RuleFacts
    <3>3. r.mark = q.mark
      BY <1>2, <2>1, <2>2, <3>1, <3>2
    <3> QED BY <2>2, <3>2, <3>3
  <2> QED BY <1>1, <2>3, <2>4, FlagOrigin
<1>4. "getdata_repair" \in F => /\ "getdata_repair" \in C
                                /\ d.marks # {} => \A r \in Rules(d) :
                                     r.mark \in d.marks => "getdata_repair" \notin r.clears
  BY FlagOrigin, RuleFacts, AskedFacts
<1>5. "getdata_repair" \in F => "getdata_bound" \in F
  <2> SUFFICES ASSUME "getdata_repair" \in F
               PROVE  "getdata_bound" \in F
    OBVIOUS
  <2>1. "getdata_bound" \in C
    BY <1>4 DEF Capabilities
  <2>2. d.marks # {} => \A r \in Rules(d) : r.mark \in d.marks => "getdata_bound" \notin r.clears
    BY <1>4, RuleFacts
  <2> QED BY <2>1, <2>2 DEF DetectQuirks, Platform, Named
<1>6. Never(F, {"fixed_rowset", "getdata_repair"})
  <2> SUFFICES ASSUME "fixed_rowset" \in F, "getdata_repair" \in F
               PROVE  FALSE
    BY DEF Never
  <2>1. PICK r \in Rules(d) : r.mark \in d.marks /\ "fixed_rowset" \in r.sets
    BY FlagOrigin, AskedFacts, <1>1
  <2> QED BY <1>4, <2>1, RuleFacts
<1>7. Never(F, {"wide_sql", "narrow_sql"})
  <2> SUFFICES ASSUME "wide_sql" \in F, "narrow_sql" \in F
               PROVE  FALSE
    BY DEF Never
  <2>1. PICK r \in Rules(d) : r.mark \in d.marks /\ "wide_sql" \in r.sets
    BY FlagOrigin, AskedFacts, <1>1
  <2>2. PICK q \in Rules(d) : q.mark \in d.marks /\ "narrow_sql" \in q.sets
    BY FlagOrigin, AskedFacts, <1>1
  <2>3. r.mark = "libodbchdb" /\ q.mark = "ignite"
    BY <2>1, <2>2, RuleFacts
  <2> QED BY <1>2, <2>1, <2>2, <2>3
<1>8. "pg_array_ingest" \in F => "psqlodbc" \in d.marks /\ GenuinePostgres(d)
  BY FlagOrigin, RuleFacts, AskedFacts, <1>1
<1>9. "pg_array_ingest" \in F => d.server \in DOMAIN PgServers
  BY <1>8 DEF OneDriver
<1>10. Never(F, {"pg_array_ingest", "ansi_ddl_type_names"})
  <2> SUFFICES ASSUME "pg_array_ingest" \in F, "ansi_ddl_type_names" \in F
               PROVE  FALSE
    BY DEF Never
  <2>1. "ansi_ddl_type_names" \in Asked(d)
    BY FlagOrigin, RuleFacts, <1>1
  <2>2. {"maodbc", "myodbc"} \cap d.marks = {}
    BY <1>2, <1>8
  <2> QED BY <1>8, <1>9, <2>1, <2>2, AskedFacts, GenuineFacts
<1>11. "pg_array_ingest" \in F /\ d.deaf \subseteq {"version"} =>
         d.server = "postgresql" /\ "psqlodbc" \in d.marks
  BY <1>8, <1>9, GenuineFacts
<1>12. d.windows /\ "ignite" \notin d.marks => "wchar_as_utf8" \notin F
  BY <1>1 DEF DetectQuirks, Platform
<1> QED BY <1>3, <1>5, <1>6, <1>7, <1>10, <1>11, <1>12 DEF QuirksConsistent

(* The flags of a connected session are what OdbcDetectQuirks concluded of *)
(* its driver: only AdbcConnectionInit sets them, and a release resets     *)
(* them.                                                                   *)
FlagsDetected == conn.connected => conn.flags = DetectQuirks(driver)

(* Every step keeps them.                                                  *)
LEMMA FlagsStep == SessionInv /\ FlagsDetected /\ [Next]_vars => FlagsDetected'
<1> SUFFICES ASSUME SessionInv, FlagsDetected, [Next]_vars
             PROVE  FlagsDetected'
  OBVIOUS
<1>1. DOMAIN conn = DOMAIN NoConnection
  BY DEF SessionInv, Shapes
<1>2. CASE UNCHANGED <<driver, conn>>
  BY <1>2 DEF FlagsDetected
<1>3. CASE ConnectionNew \/ ConnectionRelease
  BY <1>3 DEF ConnectionNew, ConnectionRelease, FlagsDetected, NoConnection
<1>4. CASE ConnectionSetOption
  BY <1>1, <1>4 DEF ConnectionSetOption, SetAutocommit, FlagsDetected, NoConnection
<1>5. CASE ConnectionInit
  <2>1. PICK answer \in {"connected", "silent", "truncated", "refused"}, wide, off \in BOOLEAN :
          LET c == StartOptions(conn, db)
          IN  \/ conn' = c
              \/ conn' = [Detected(c) EXCEPT !.st = IF conn.autocommit \/ off THEN "open" ELSE "failed"]
    BY <1>5 DEF ConnectionInit
  <2>2. driver' = driver
    BY <1>5 DEF ConnectionInit
  <2>3. /\ StartOptions(conn, db).connected = conn.connected
        /\ StartOptions(conn, db).flags = conn.flags
        /\ DOMAIN StartOptions(conn, db) = DOMAIN NoConnection
    BY <1>1 DEF StartOptions, NoConnection
  <2>4. \A st : [Detected(StartOptions(conn, db)) EXCEPT !.st = st].flags = DetectQuirks(driver)
    BY <2>3 DEF Detected, NoConnection
  <2> QED BY <2>1, <2>2, <2>3, <2>4 DEF FlagsDetected
<1>6. CASE Next /\ ~(ConnectionNew \/ ConnectionRelease \/ ConnectionSetOption \/ ConnectionInit)
  <2>1. UNCHANGED <<driver, conn>>
    BY <1>6 DEF Next, DatabaseNew, DatabaseSetOption, DatabaseInit, DatabaseRelease, ExecuteRow,
                ExecuteBegin, ExecuteEnd, IngestPlain, Ingest, IngestLost, ConnectionCommit, ConnectionRollback, Lose
  <2> QED BY <1>2, <2>1
<1> QED BY <1>2, <1>3, <1>4, <1>5, <1>6 DEF vars

(* A connected session never works with conclusions about its driver that  *)
(* cannot be true together, for every driver and server whose name is that *)
(* of one driver, and through every connect that failed before.            *)
THEOREM QuirksConsistentAlways ==
  ASSUME \A d \in Drivers : OneDriver(d)
  PROVE  Spec => [](conn.connected => QuirksConsistent(driver, conn.flags))
<1>1. Init => FlagsDetected
  BY DEF Init, FlagsDetected, NoConnection
<1>2. Init => driver \in Drivers
  BY DEF Init
<1>3. driver \in Drivers /\ [Next]_vars => (driver \in Drivers)'
  BY DEF Next, vars, DatabaseNew, DatabaseSetOption, DatabaseInit, DatabaseRelease, ConnectionNew,
         ConnectionSetOption, SetAutocommit, ConnectionInit, ConnectionRelease, ExecuteRow,
         ExecuteBegin, ExecuteEnd, IngestPlain, Ingest, IngestLost, ConnectionCommit, ConnectionRollback, Lose
<1>4. driver \in Drivers /\ FlagsDetected =>
        (conn.connected => QuirksConsistent(driver, conn.flags))
  BY QuirksDetected DEF FlagsDetected
<1> QED BY <1>1, <1>2, <1>3, <1>4, SessionAlways, FlagsStep, PTL DEF Spec
=============================================================================
