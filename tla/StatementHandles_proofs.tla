----------------------- MODULE StatementHandles_proofs -----------------------
(* Proofs about StatementHandles, for every number of statements, streams, *)
(* handles, queries and rollbacks.                                         *)
EXTENDS StatementHandles, FiniteSetTheorems, TLAPS

(* A handle with no reference belongs to nobody.                           *)
LEMMA FreeHandle ==
  ASSUME NEW ss, NEW hs, NEW sm, Sound(ss, hs, sm), NEW h \in Handles, hs[h].refs = 0
  PROVE  /\ \A s \in Statements : ss[s].ref # h
         /\ \A t \in Streams : sm[t].handle # h
<1>1. Uses(ss, sm, h) = 0
  BY DEF Sound, Counted
<1>2. ~HasStatement(ss, h) /\ ~HasReader(sm, h) /\ ~HasBound(sm, h)
  BY <1>1 DEF Uses
<1>3. \A t \in Streams : sm[t].kind \in {"none", "reader", "bound"}
  BY DEF Sound, StreamType
<1>4. h # 0
  BY HandlesAssumption
<1> QED BY <1>2, <1>3, <1>4 DEF Sound, Apart, HasStatement, HasReader, HasBound

(* A handle with one reference that a statement holds is no stream's.      *)
LEMMA OwnHandle ==
  ASSUME NEW ss, NEW hs, NEW sm, Sound(ss, hs, sm), NEW s \in Statements, ss[s].ref # 0,
         hs[ss[s].ref].refs = 1
  PROVE  /\ \A t \in Streams : sm[t].handle # ss[s].ref
         /\ \A r \in Statements \ {s} : ss[r].ref # ss[s].ref
<1> DEFINE h == ss[s].ref
<1>1. h \in Handles /\ HasStatement(ss, h)
  BY DEF Sound, StatementType, HasStatement
<1>2. Uses(ss, sm, h) = 1
  BY <1>1 DEF Sound, Counted
<1>3. ~HasReader(sm, h) /\ ~HasBound(sm, h)
  BY <1>1, <1>2 DEF Uses
<1>4. \A t \in Streams : sm[t].kind \in {"none", "reader", "bound"}
  BY DEF Sound, StreamType
<1> QED BY <1>1, <1>3, <1>4 DEF Sound, Apart, HasReader, HasBound

(* A statement may change anything but its handle, and stop taking its     *)
(* query for prepared.                                                     *)
LEMMA EditStatement ==
  ASSUME NEW ss, NEW hs, NEW sm, Sound(ss, hs, sm), NEW s \in Statements, NEW r \in StatementType,
         r.ref = ss[s].ref, r.epoch = ss[s].epoch,
         r.live, r.prepared => ss[s].prepared /\ r.query = ss[s].query
  PROVE  Sound([ss EXCEPT ![s] = r], hs, sm)
<1> DEFINE new == [ss EXCEPT ![s] = r]
<1>1. /\ new \in [Statements -> StatementType] /\ hs \in [Handles -> HandleType]
      /\ sm \in [Streams -> StreamType] /\ Kept(hs, sm)
  BY DEF Sound
<1>2. \A a \in Statements : new[a].ref = ss[a].ref /\ (a # s => new[a] = ss[a])
  BY DEF Sound
<1>3. new[s] = r
  BY DEF Sound
<1> HIDE DEF new
<1>4. Apart(new, sm)
  BY <1>2 DEF Sound, Apart
<1>5. Counted(new, hs, sm)
  <2>1. \A h \in Handles : HasStatement(new, h) <=> HasStatement(ss, h)
    BY <1>2 DEF HasStatement
  <2> QED BY <2>1 DEF Sound, Counted, Uses
<1>6. Known(new, hs)
  BY <1>2, <1>3 DEF Sound, Known
<1> QED BY <1>1, <1>4, <1>5, <1>6 DEF Sound, new

(* What a change to one handle leaves of what the others' owners know.     *)
LEMMA EditOthers ==
  ASSUME NEW ss, NEW hs, NEW sm, Sound(ss, hs, sm), NEW h \in Handles, NEW g \in HandleType,
         \A t \in Streams : sm[t].handle # h
  PROVE  /\ [hs EXCEPT ![h] = g] \in [Handles -> HandleType]
         /\ Kept([hs EXCEPT ![h] = g], sm)
         /\ \A k \in Handles \ {h} : [hs EXCEPT ![h] = g][k] = hs[k]
         /\ [hs EXCEPT ![h] = g][h] = g
<1> DEFINE new == [hs EXCEPT ![h] = g]
<1>1. /\ new \in [Handles -> HandleType] /\ new[h] = g
      /\ \A k \in Handles \ {h} : new[k] = hs[k]
  BY DEF Sound
<1>2. \A t \in Streams : sm[t].open \/ sm[t].kind = "bound" => sm[t].handle \in Handles
  BY DEF Sound, StreamType, Apart
<1> HIDE DEF new
<1>3. Kept(new, sm)
  BY <1>1, <1>2 DEF Sound, Kept
<1> QED BY <1>1, <1>3 DEF new

(* Letting go of n references of a handle.                                 *)
LEMMA UnrefFacts ==
  ASSUME NEW hs \in [Handles -> HandleType], NEW h \in Handles, NEW n \in Nat, hs[h].refs >= n
  PROVE  /\ Unref(hs, h, n) \in [Handles -> HandleType]
         /\ \A k \in Handles \ {h} : Unref(hs, h, n)[k] = hs[k]
         /\ Unref(hs, h, n)[h].refs = hs[h].refs - n
         /\ hs[h].refs # n => /\ Unref(hs, h, n)[h].prepared = hs[h].prepared
                              /\ Unref(hs, h, n)[h].cursor = hs[h].cursor
                              /\ Unref(hs, h, n)[h].dead = hs[h].dead
<1> DEFINE g == IF hs[h].refs = n THEN NoHandle ELSE [hs[h] EXCEPT !.refs = hs[h].refs - n]
<1>1. h # 0
  BY HandlesAssumption
<1>2. /\ DOMAIN Unref(hs, h, n) = Handles
      /\ \A k \in Handles \ {h} : Unref(hs, h, n)[k] = hs[k]
      /\ Unref(hs, h, n) = [k \in Handles |-> Unref(hs, h, n)[k]]
  BY <1>1 DEF Unref
<1>3. Unref(hs, h, n)[h] = g
  BY <1>1 DEF Unref
<1>4. hs[h] \in HandleType /\ hs[h].refs \in Nat
  BY DEF HandleType
<1>5. CASE hs[h].refs = n
  <2>1. g = NoHandle /\ NoHandle \in HandleType /\ NoHandle.refs = 0
    BY <1>5 DEF NoHandle, HandleType, AnyQuery
  <2> HIDE DEF g
  <2> QED BY <1>2, <1>3, <1>4, <1>5, <2>1
<1>6. CASE hs[h].refs # n
  <2>1. hs[h].refs - n \in Nat
    BY <1>4
  <2>2. /\ g \in HandleType /\ g.refs = hs[h].refs - n /\ g.prepared = hs[h].prepared
        /\ g.cursor = hs[h].cursor /\ g.dead = hs[h].dead
    BY <1>4, <1>6, <2>1 DEF HandleType
  <2> HIDE DEF g
  <2> QED BY <1>2, <1>3, <2>2
<1> QED BY <1>5, <1>6

(* A statement lets go of its handle, which the last reference frees.      *)
LEMMA DropHandle ==
  ASSUME NEW ss, NEW hs, NEW sm, Sound(ss, hs, sm), NEW s \in Statements, NEW r \in StatementType,
         r.ref = 0, ~r.prepared, r.epoch <= epoch
  PROVE  Sound([ss EXCEPT ![s] = r], Unref(hs, ss[s].ref, 1), sm)
<1> DEFINE new == [ss EXCEPT ![s] = r]
           h   == ss[s].ref
           ns  == Unref(hs, h, 1)
<1>1. /\ new \in [Statements -> StatementType] /\ sm \in [Streams -> StreamType]
      /\ \A a \in Statements : a # s => new[a] = ss[a]
      /\ new[s] = r /\ h \in Handles \cup {0}
  BY DEF Sound, StatementType
<1>2. Apart(new, sm)
  BY <1>1 DEF Sound, Apart
<1>3. CASE h = 0
  <2>1. ns = hs
    BY <1>3 DEF Unref
  <2>2. Known(new, hs)
    BY <1>1 DEF Sound, Known
  <2>3. Counted(new, hs, sm)
    <3>1. \A k \in Handles : HasStatement(new, k) <=> HasStatement(ss, k)
      BY <1>1, <1>3, HandlesAssumption DEF HasStatement
    <3> QED BY <3>1 DEF Sound, Counted, Uses
  <2> QED BY <1>1, <1>2, <2>1, <2>2, <2>3 DEF Sound
<1>4. CASE h # 0
  <2>1. h \in Handles
    BY <1>1, <1>4
  <2>2. /\ \A a \in Statements : new[a].ref # h
        /\ \A a \in Statements : \A k \in Handles \ {h} : new[a].ref = k <=> ss[a].ref = k
    BY <1>1, <1>4, HandlesAssumption DEF Sound, Apart
  <2>3. hs[h] \in HandleType /\ hs[h].refs \in Nat
    BY <2>1 DEF Sound, HandleType
  <2>4. hs[h].refs = Uses(ss, sm, h) /\ HasStatement(ss, h) /\ ~HasStatement(new, h)
    BY <2>1, <2>2 DEF Sound, Counted, HasStatement
  <2>5. hs[h].refs >= 1
    BY <2>4 DEF Uses
  <2>6. /\ ns \in [Handles -> HandleType] /\ ns[h].refs = hs[h].refs - 1
        /\ \A k \in Handles \ {h} : ns[k] = hs[k]
        /\ hs[h].refs # 1 => ns[h].prepared = hs[h].prepared /\ ns[h].cursor = hs[h].cursor
    BY <2>1, <2>5, UnrefFacts DEF Sound
  <2> HIDE DEF ns
  <2>7. Counted(new, ns, sm)
    <3> SUFFICES ASSUME NEW k \in Handles PROVE ns[k].refs = Uses(new, sm, k)
      BY DEF Counted
    <3>1. CASE k = h
      BY <2>3, <2>4, <2>6, <3>1 DEF Uses
    <3>2. CASE k # h
      <4>1. HasStatement(new, k) <=> HasStatement(ss, k)
        BY <2>2, <3>2 DEF HasStatement
      <4>2. ns[k].refs = Uses(ss, sm, k)
        BY <2>6, <3>2 DEF Sound, Counted
      <4> QED BY <4>1, <4>2 DEF Uses
    <3> QED BY <3>1, <3>2
  <2>8. Known(new, ns)
    BY <1>1, <2>2, <2>6 DEF Sound, Known, StatementType
  <2>9. Kept(ns, sm)
    <3>1. \A t \in Streams : sm[t].open \/ sm[t].kind = "bound" => sm[t].handle \in Handles
      BY DEF Sound, StreamType, Apart
    <3>2. CASE hs[h].refs = 1
      <4>1. \A t \in Streams : sm[t].handle # h
        BY <1>4, <3>2, OwnHandle
      <4> QED BY <2>6, <3>1, <4>1 DEF Sound, Kept
    <3>3. CASE hs[h].refs # 1
      BY <2>6, <3>1, <3>3 DEF Sound, Kept
    <3> QED BY <3>2, <3>3
  <2> QED BY <1>1, <1>2, <2>6, <2>7, <2>8, <2>9 DEF Sound, ns
<1> QED BY <1>3, <1>4


(* A statement without a handle takes one that nobody has.                 *)
LEMMA TakeHandle ==
  ASSUME NEW ss, NEW hs, NEW sm, Sound(ss, hs, sm), NEW s \in Statements, ss[s].ref = 0,
         NEW h \in Handles, hs[h].refs = 0, NEW r \in StatementType,
         r.live, r.ref = h, r.epoch = epoch, ~r.prepared, epoch \in 0..MaxEpoch
  PROVE  Sound([ss EXCEPT ![s] = r], [hs EXCEPT ![h] = NewHandle], sm)
<1> DEFINE new == [ss EXCEPT ![s] = r]
           ns  == [hs EXCEPT ![h] = NewHandle]
<1>1. /\ new \in [Statements -> StatementType] /\ sm \in [Streams -> StreamType]
      /\ \A a \in Statements : a # s => new[a] = ss[a]
      /\ new[s] = r /\ h # 0
  BY HandlesAssumption DEF Sound
<1>2. /\ \A a \in Statements : ss[a].ref # h
      /\ \A t \in Streams : sm[t].handle # h
  BY FreeHandle
<1>3. /\ NewHandle \in HandleType /\ NewHandle.refs = 1 /\ NewHandle.dead = "no"
  BY DEF NewHandle, NoHandle, HandleType, AnyQuery
<1>4. /\ ns \in [Handles -> HandleType] /\ Kept(ns, sm) /\ ns[h] = NewHandle
      /\ \A k \in Handles \ {h} : ns[k] = hs[k]
  BY <1>2, <1>3, EditOthers
<1> HIDE DEF new, ns
<1>5. Apart(new, sm)
  BY <1>1, <1>2 DEF Sound, Apart
<1>6. Counted(new, ns, sm)
  <2> SUFFICES ASSUME NEW k \in Handles PROVE ns[k].refs = Uses(new, sm, k)
    BY DEF Counted
  <2>1. CASE k = h
    <3>1. HasStatement(new, k) /\ ~HasReader(sm, k) /\ ~HasBound(sm, k)
      BY <1>1, <1>2, <2>1 DEF HasStatement, HasReader, HasBound
    <3> QED BY <1>3, <1>4, <2>1, <3>1 DEF Uses
  <2>2. CASE k # h
    <3>1. HasStatement(new, k) <=> HasStatement(ss, k)
      BY <1>1, <2>2, HandlesAssumption DEF HasStatement
    <3>2. ns[k].refs = Uses(ss, sm, k)
      BY <1>4, <2>2 DEF Sound, Counted
    <3> QED BY <3>1, <3>2 DEF Uses
  <2> QED BY <2>1, <2>2
<1>7. Known(new, ns)
  <2> SUFFICES ASSUME NEW a \in Statements
               PROVE  /\ new[a].ref # 0 => new[a].live
                      /\ new[a].prepared => new[a].ref # 0 /\ ns[new[a].ref].prepared \in {new[a].query, 0}
                      /\ new[a].epoch <= epoch
                      /\ new[a].ref # 0 /\ ns[new[a].ref].dead = "rollback" => new[a].epoch < epoch
    BY DEF Known
  <2>1. CASE a = s
    BY <1>1, <1>3, <1>4, <2>1
  <2>2. CASE a # s
    <3>1. ss[a].ref \in Handles \cup {0}
      BY DEF Sound, StatementType
    <3> QED BY <1>1, <1>2, <1>4, <2>2, <3>1 DEF Sound, Known
  <2> QED BY <2>1, <2>2
<1> QED BY <1>1, <1>4, <1>5, <1>6, <1>7 DEF Sound, new, ns

(* A statement alone on its handle may close its cursor and prepare on it. *)
LEMMA EditHandle ==
  ASSUME NEW ss, NEW hs, NEW sm, Sound(ss, hs, sm), NEW s \in Statements, ss[s].ref # 0,
         hs[ss[s].ref].refs = 1, NEW g \in HandleType, g.refs = 1, g.dead = hs[ss[s].ref].dead,
         NEW r \in StatementType, r.ref = ss[s].ref, r.epoch = ss[s].epoch,
         r.live, r.prepared => g.prepared \in {r.query, 0}
  PROVE  Sound([ss EXCEPT ![s] = r], [hs EXCEPT ![ss[s].ref] = g], sm)
<1> DEFINE h   == ss[s].ref
           new == [ss EXCEPT ![s] = r]
           ns  == [hs EXCEPT ![h] = g]
<1>1. /\ new \in [Statements -> StatementType] /\ sm \in [Streams -> StreamType]
      /\ \A a \in Statements : a # s => new[a] = ss[a]
      /\ new[s] = r /\ h \in Handles
  BY DEF Sound, StatementType
<1>2. /\ \A a \in Statements \ {s} : ss[a].ref # h
      /\ \A t \in Streams : sm[t].handle # h
  BY OwnHandle
<1>3. \A a \in Statements : new[a].ref = ss[a].ref
  BY <1>1
<1>4. /\ ns \in [Handles -> HandleType] /\ Kept(ns, sm) /\ ns[h] = g
      /\ \A k \in Handles \ {h} : ns[k] = hs[k]
  BY <1>1, <1>2, EditOthers
<1> HIDE DEF new, ns
<1>5. Apart(new, sm)
  BY <1>3 DEF Sound, Apart
<1>6. Counted(new, ns, sm)
  <2>1. \A k \in Handles : ns[k].refs = hs[k].refs
    BY <1>1, <1>4
  <2>2. \A k \in Handles : HasStatement(new, k) <=> HasStatement(ss, k)
    BY <1>3 DEF HasStatement
  <2> QED BY <2>1, <2>2 DEF Sound, Counted, Uses
<1>7. Known(new, ns)
  <2> SUFFICES ASSUME NEW a \in Statements
               PROVE  /\ new[a].ref # 0 => new[a].live
                      /\ new[a].prepared => new[a].ref # 0 /\ ns[new[a].ref].prepared \in {new[a].query, 0}
                      /\ new[a].epoch <= epoch
                      /\ new[a].ref # 0 /\ ns[new[a].ref].dead = "rollback" => new[a].epoch < epoch
    BY DEF Known
  <2>1. CASE a = s
    BY <1>1, <1>4, <2>1 DEF Sound, Known
  <2>2. CASE a # s
    <3>1. ss[a].ref \in Handles \cup {0}
      BY DEF Sound, StatementType
    <3> QED BY <1>1, <1>2, <1>4, <2>2, <3>1 DEF Sound, Known
  <2> QED BY <2>1, <2>2
<1> QED BY <1>1, <1>4, <1>5, <1>6, <1>7 DEF Sound, new, ns


(* The references of a stream.                                             *)
OwnsOf(v) == (IF v.open THEN 1 ELSE 0) + (IF v.kind = "bound" THEN 1 ELSE 0)

(* A stream comes to a handle that has none, changes or goes, and takes or *)
(* gives back the references it has; it leaves what the handle's statement *)
(* knows of it alone.                                                      *)
LEMMA EditStream ==
  ASSUME NEW ss, NEW hs, NEW sm, Sound(ss, hs, sm), NEW t \in Streams, NEW v \in StreamType,
         NEW h \in Handles, NEW ns \in [Handles -> HandleType],
         sm[t].handle = h \/ (sm[t].handle = 0 /\ \A u \in Streams : sm[u].handle # h),
         (v.handle = h /\ v.kind # "none" /\ (v.kind = "reader" => v.open)) \/ v = NoStream,
         \A k \in Handles \ {h} : ns[k] = hs[k],
         ns[h].refs = (hs[h].refs - OwnsOf(sm[t])) + OwnsOf(v),
         HasStatement(ss, h) => ns[h].prepared = hs[h].prepared /\ ns[h].dead = hs[h].dead,
         v.open => ns[h].cursor = t,
         v.kind = "bound" => ns[h].prepared = v.query
  PROVE  Sound(ss, ns, [sm EXCEPT ![t] = v])
<1> DEFINE new == [sm EXCEPT ![t] = v]
<1>1. /\ ss \in [Statements -> StatementType] /\ new \in [Streams -> StreamType] /\ new[t] = v
      /\ \A u \in Streams : u # t => new[u] = sm[u]
  BY DEF Sound
<1>2. \A u \in Streams : u # t => sm[u].handle # h /\ new[u].handle # h
  BY <1>1, HandlesAssumption DEF Sound, Apart
<1>3. /\ v.kind = "none" <=> v.handle = 0
      /\ v.open => v.kind # "none"
      /\ v.kind = "reader" => v.open
      /\ v.handle \in {0, h} /\ h # 0
  BY HandlesAssumption DEF NoStream
<1>4. /\ sm[t].handle = 0 => ~sm[t].open /\ sm[t].kind = "none"
      /\ sm[t].open \in BOOLEAN /\ v.open \in BOOLEAN
  BY DEF Sound, Apart, StreamType
<1> HIDE DEF new
<1>5. Apart(ss, new)
  BY <1>1, <1>2, <1>3 DEF Sound, Apart
<1>6. Counted(ss, ns, new)
  <2> SUFFICES ASSUME NEW k \in Handles PROVE ns[k].refs = Uses(ss, new, k)
    BY DEF Counted
  <2>1. CASE k = h
    <3>1. /\ HasReader(new, h) <=> v.open
          /\ HasBound(new, h) <=> v.kind = "bound"
      BY <1>1, <1>2, <1>3 DEF HasReader, HasBound
    <3>2. /\ HasReader(sm, h) <=> sm[t].open
          /\ HasBound(sm, h) <=> sm[t].kind = "bound"
      BY <1>2, <1>4 DEF HasReader, HasBound
    <3>3. hs[h].refs = Uses(ss, sm, h)
      BY DEF Sound, Counted
    <3> QED BY <2>1, <3>1, <3>2, <3>3 DEF Uses, OwnsOf
  <2>2. CASE k # h
    <3>1. \A u \in Streams : u # t => (new[u].handle = k <=> sm[u].handle = k)
      BY <1>1
    <3>2. new[t].handle # k /\ sm[t].handle # k
      BY <1>1, <1>3, <2>2, HandlesAssumption
    <3>3. HasReader(new, k) <=> HasReader(sm, k)
      BY <1>1, <3>1, <3>2 DEF HasReader
    <3>4. HasBound(new, k) <=> HasBound(sm, k)
      BY <1>1, <3>1, <3>2 DEF HasBound
    <3>5. ns[k].refs = Uses(ss, sm, k)
      BY <2>2 DEF Sound, Counted
    <3> QED BY <3>3, <3>4, <3>5 DEF Uses
  <2> QED BY <2>1, <2>2
<1>7. Known(ss, ns)
  <2> SUFFICES ASSUME NEW a \in Statements
               PROVE  /\ ss[a].ref # 0 => ss[a].live
                      /\ ss[a].prepared => ss[a].ref # 0 /\ ns[ss[a].ref].prepared \in {ss[a].query, 0}
                      /\ ss[a].epoch <= epoch
                      /\ ss[a].ref # 0 /\ ns[ss[a].ref].dead = "rollback" => ss[a].epoch < epoch
    BY DEF Known
  <2>1. ss[a].ref \in Handles \cup {0}
    BY DEF Sound, StatementType
  <2>2. CASE ss[a].ref = h
    BY <2>2 DEF Sound, Known, HasStatement
  <2>3. CASE ss[a].ref # h
    BY <2>1, <2>3 DEF Sound, Known
  <2> QED BY <2>2, <2>3
<1>8. Kept(ns, new)
  <2> SUFFICES ASSUME NEW u \in Streams
               PROVE  /\ new[u].open => ns[new[u].handle].cursor = u
                      /\ new[u].kind = "bound" => ns[new[u].handle].prepared = new[u].query
    BY DEF Kept
  <2>1. CASE u = t
    BY <1>1, <1>3, <2>1
  <2>2. CASE u # t
    <3>1. sm[u].open \/ sm[u].kind = "bound" => sm[u].handle \in Handles \ {h}
      BY <1>2, <2>2 DEF Sound, Apart, StreamType
    <3> QED BY <1>1, <2>2, <3>1 DEF Sound, Kept
  <2> QED BY <2>1, <2>2
<1> QED BY <1>1, <1>5, <1>6, <1>7, <1>8 DEF Sound, new


-----------------------------------------------------------------------------
(* Calls of a statement.  A call is good when the state would be sound if  *)
(* it ended here; it is ready when its statement is alone on its handle.   *)
CallType == [ok : BOOLEAN, st : StatementType, hs : [Handles -> HandleType]]
Good(s, c) ==
  c \in CallType /\ c.st.live /\ Sound([stmt EXCEPT ![s] = c.st], c.hs, stream)
Ready(c) == c.st.ref # 0 /\ c.hs[c.st.ref].refs = 1

(* A call that starts from the current state is good.                      *)
LEMMA CallIsGood ==
  ASSUME HandlesInv, NEW s \in Statements, stmt[s].live
  PROVE  Good(s, Call(s)) /\ Call(s).st = stmt[s] /\ Call(s).hs = handle /\ Call(s).ok
<1>1. Call(s) \in CallType /\ Call(s).st = stmt[s] /\ Call(s).hs = handle /\ Call(s).ok
  BY DEF HandlesInv, TypeOK, Call, CallType
<1>2. [stmt EXCEPT ![s] = stmt[s]] = stmt
  BY DEF HandlesInv, TypeOK
<1> QED BY <1>1, <1>2 DEF HandlesInv, Good

(* A good call whose statement and handles are replaced by sound ones.     *)
LEMMA ReplaceCall ==
  ASSUME TypeOK, NEW s \in Statements, NEW c \in CallType, NEW d \in CallType, d.st.live,
         Sound([[stmt EXCEPT ![s] = c.st] EXCEPT ![s] = d.st], d.hs, stream)
  PROVE  Good(s, d)
<1>1. c.st \in StatementType
  BY DEF CallType
<1>2. [[stmt EXCEPT ![s] = c.st] EXCEPT ![s] = d.st] = [stmt EXCEPT ![s] = d.st]
  BY <1>1 DEF TypeOK
<1> QED BY <1>2 DEF Good

(* Detach leaves the call good, and its statement without a handle.        *)
LEMMA DetachIsGood ==
  ASSUME TypeOK, NEW s \in Statements, NEW c, Good(s, c)
  PROVE  /\ Good(s, Detach(c)) /\ Detach(c).ok = c.ok /\ Detach(c).st.ref = 0
         /\ ~Detach(c).st.prepared
<1> DEFINE d  == Detach(c)
           ss == [stmt EXCEPT ![s] = c.st]
<1>1. c \in CallType /\ c.st \in StatementType /\ c.ok \in BOOLEAN /\ ss[s] = c.st
  BY DEF Good, CallType, TypeOK
<1>2. /\ d.st \in StatementType /\ d.st.ref = 0 /\ d.st.prepared = FALSE
      /\ d.st.epoch = c.st.epoch /\ d.st.live
  BY <1>1 DEF Good, Detach, CallType, StatementType
<1>3. d.ok = c.ok /\ d.hs = Unref(c.hs, c.st.ref, 1)
  BY <1>1 DEF Detach, CallType
<1>4. c.st.epoch <= epoch
  BY <1>1 DEF Good, Sound, Known
<1>5. Sound([ss EXCEPT ![s] = d.st], Unref(c.hs, ss[s].ref, 1), stream)
  <2> HIDE DEF d
  <2> QED BY <1>2, <1>4, DropHandle DEF Good
<1>6. d.hs \in [Handles -> HandleType]
  BY <1>1, <1>3, <1>5 DEF Sound
<1>7. d \in CallType
  BY <1>1, <1>2, <1>3, <1>6 DEF Detach, CallType
<1> HIDE DEF d, ss
<1>8. Sound([[stmt EXCEPT ![s] = c.st] EXCEPT ![s] = d.st], d.hs, stream)
  BY <1>1, <1>3, <1>5 DEF ss
<1>9. Good(s, d)
  BY <1>1, <1>2, <1>7, <1>8, ReplaceCall
<1> QED BY <1>2, <1>3, <1>9 DEF d


(* Alloc fails, or gives the statement a handle of its own.                *)
LEMMA AllocIsGood ==
  ASSUME TypeOK, NEW s \in Statements, NEW c, Good(s, c), c.st.ref = 0, NEW d \in Alloc(c)
  PROVE  Good(s, d) /\ (d.ok => Ready(d))
<1> DEFINE ss == [stmt EXCEPT ![s] = c.st]
<1>1. /\ c \in CallType /\ c.st \in StatementType /\ c.ok \in BOOLEAN /\ ss[s] = c.st
      /\ c.hs \in [Handles -> HandleType]
  BY DEF Good, CallType, TypeOK
<1>2. CASE d = [c EXCEPT !.ok = FALSE]
  <2>1. d \in CallType /\ d.ok = FALSE /\ d.st = c.st /\ d.hs = c.hs
    BY <1>1, <1>2 DEF CallType
  <2> QED BY <2>1 DEF Good
<1>3. ASSUME NEW h \in Handles, c.hs[h].refs = 0,
             d = [c EXCEPT !.hs[h] = NewHandle, !.st.ref = h, !.st.epoch = epoch]
      PROVE  Good(s, d) /\ (d.ok => Ready(d))
  <2>1. d.hs = [c.hs EXCEPT ![h] = NewHandle]
    BY <1>1, <1>3 DEF CallType
  <2>2. epoch \in 0..MaxEpoch
    BY DEF TypeOK
  <2>3. /\ d.st \in StatementType /\ d.st.ref = h /\ d.st.epoch = epoch
        /\ d.st.prepared = c.st.prepared /\ d.st.live
    BY <1>1, <1>3, <2>2 DEF Good, CallType, StatementType
  <2>4. ~c.st.prepared
    BY <1>1 DEF Good, Sound, Known
  <2>5. NewHandle \in HandleType /\ NewHandle.refs = 1
    BY DEF NewHandle, NoHandle, HandleType, AnyQuery
  <2>6. d.hs \in [Handles -> HandleType] /\ d.hs[h] = NewHandle
    BY <1>1, <2>1, <2>5
  <2>7. d \in CallType
    BY <1>1, <1>3, <2>3, <2>6 DEF CallType
  <2>8. Sound([ss EXCEPT ![s] = d.st], [c.hs EXCEPT ![h] = NewHandle], stream)
    BY <1>1, <1>3, <2>2, <2>3, <2>4, TakeHandle DEF Good
  <2>9. Good(s, d)
    BY <1>1, <2>1, <2>3, <2>7, <2>8, ReplaceCall
  <2>10. h # 0
    BY HandlesAssumption
  <2> QED BY <2>3, <2>5, <2>6, <2>9, <2>10 DEF Ready
<1> QED BY <1>2, <1>3 DEF Alloc

(* After EnsureHandle the statement is alone on its handle.                *)
LEMMA EnsureIsGood ==
  ASSUME TypeOK, NEW s \in Statements, NEW c, Good(s, c), NEW d \in EnsureHandle(c)
  PROVE  Good(s, d) /\ (d.ok => Ready(d))
<1> DEFINE ss == [stmt EXCEPT ![s] = c.st]
           h  == c.st.ref
<1>1. /\ c \in CallType /\ c.st \in StatementType /\ c.ok \in BOOLEAN /\ ss[s] = c.st
      /\ c.hs \in [Handles -> HandleType] /\ h \in Handles \cup {0}
  BY DEF Good, CallType, TypeOK, StatementType
<1>2. CASE ~c.ok
  BY <1>2 DEF EnsureHandle
<1>3. CASE c.ok /\ h = 0
  BY <1>3, AllocIsGood DEF EnsureHandle
<1>4. ASSUME d \in Alloc(Detach(c)) PROVE Good(s, d) /\ (d.ok => Ready(d))
  BY <1>4, DetachIsGood, AllocIsGood
<1>5. CASE /\ h # 0 /\ ~(c.hs[h].refs > 1 \/ c.st.epoch # epoch)
           /\ d = [c EXCEPT !.hs[h].cursor = 0, !.st.epoch = epoch]
  <2> DEFINE g == [c.hs[h] EXCEPT !.cursor = 0]
  <2>1. h \in Handles /\ c.hs[h] \in HandleType
    BY <1>1, <1>5
  <2>2. c.hs[h].refs = 1
    <3>1. HasStatement(ss, h) /\ c.hs[h].refs = Uses(ss, stream, h)
      BY <1>1, <2>1 DEF Good, Sound, Counted, HasStatement
    <3> QED BY <1>5, <2>1, <3>1 DEF Uses
  <2>3. g \in HandleType /\ g.refs = 1 /\ g.dead = c.hs[h].dead /\ g.prepared = c.hs[h].prepared
    BY <2>1, <2>2 DEF HandleType
  <2>4. d.hs = [c.hs EXCEPT ![h] = g]
    BY <1>1, <1>5, <2>1 DEF CallType
  <2>5. d.st = c.st /\ c.st.live
    BY <1>1, <1>5 DEF Good, CallType, StatementType
  <2>6. d.hs \in [Handles -> HandleType] /\ d.hs[h] = g
    BY <1>1, <2>1, <2>3, <2>4
  <2>7. d \in CallType
    BY <1>1, <1>5, <2>5, <2>6 DEF CallType
  <2>8. c.st.prepared => g.prepared \in {c.st.query, 0}
    BY <1>1, <2>3 DEF Good, Sound, Known
  <2> HIDE DEF g
  <2>9. Sound([ss EXCEPT ![s] = c.st], [c.hs EXCEPT ![ss[s].ref] = g], stream)
    BY <1>1, <1>5, <2>2, <2>3, <2>5, <2>8, EditHandle DEF Good
  <2>10. Sound([[stmt EXCEPT ![s] = c.st] EXCEPT ![s] = d.st], d.hs, stream)
    BY <1>1, <2>4, <2>5, <2>9
  <2>11. Good(s, d)
    BY <1>1, <2>5, <2>7, <2>10, ReplaceCall
  <2> QED BY <1>5, <2>3, <2>5, <2>6, <2>11 DEF Ready
<1> QED BY <1>2, <1>3, <1>4, <1>5 DEF EnsureHandle

(* SQLPrepare on a handle the statement is alone on: a failure leaves the  *)
(* handle with no query, whatever the statement believes.                  *)
LEMMA PrepareIsGood ==
  ASSUME TypeOK, NEW s \in Statements, NEW c, Good(s, c), c.ok => Ready(c), NEW d \in SQLPrepare(c)
  PROVE  Good(s, d) /\ (d.ok => Ready(d) /\ d.st.prepared)
<1> DEFINE ss == [stmt EXCEPT ![s] = c.st]
           h  == c.st.ref
<1>1. /\ c \in CallType /\ c.st \in StatementType /\ c.ok \in BOOLEAN /\ ss[s] = c.st
      /\ c.hs \in [Handles -> HandleType] /\ h \in Handles \cup {0}
  BY DEF Good, CallType, TypeOK, StatementType
<1>2. CASE ~c.ok
  BY <1>2 DEF SQLPrepare
<1>3. ASSUME c.ok, NEW q \in AnyQuery,
             d.hs = [c.hs EXCEPT ![h] = [c.hs[h] EXCEPT !.prepared = q]],
             d \in CallType, d.st.live, d.st.ref = h, d.st.epoch = c.st.epoch,
             d.st.prepared => q \in {d.st.query, 0}
      PROVE  Good(s, d) /\ Ready(d)
  <2> DEFINE g == [c.hs[h] EXCEPT !.prepared = q]
  <2>1. h # 0 /\ h \in Handles /\ c.hs[h] \in HandleType /\ c.hs[h].refs = 1
    BY <1>1, <1>3 DEF Ready
  <2>2. g \in HandleType /\ g.refs = 1 /\ g.dead = c.hs[h].dead /\ g.prepared = q
    BY <1>3, <2>1 DEF HandleType
  <2>3. d.st \in StatementType /\ d.hs[h] = g
    BY <1>1, <1>3, <2>1 DEF CallType
  <2> HIDE DEF g
  <2>4. Sound([ss EXCEPT ![s] = d.st], [c.hs EXCEPT ![ss[s].ref] = g], stream)
    <3>1. Sound(ss, c.hs, stream)
      BY DEF Good
    <3>2. /\ ss[s].ref # 0 /\ c.hs[ss[s].ref].refs = 1 /\ g.dead = c.hs[ss[s].ref].dead
          /\ d.st.ref = ss[s].ref /\ d.st.epoch = ss[s].epoch
          /\ (d.st.prepared => g.prepared \in {d.st.query, 0})
      BY <1>1, <1>3, <2>1, <2>2
    <3> HIDE DEF ss
    <3> QED BY <1>3, <2>2, <2>3, <3>1, <3>2, EditHandle
  <2>5. Sound([[stmt EXCEPT ![s] = c.st] EXCEPT ![s] = d.st], d.hs, stream)
    BY <1>1, <1>3, <2>4 DEF g
  <2>6. Good(s, d)
    BY <1>1, <1>3, <2>5, ReplaceCall
  <2> QED BY <1>3, <2>1, <2>2, <2>3, <2>6 DEF Ready
<1>4. CASE c.ok /\ d = [c EXCEPT !.hs[c.st.ref].prepared = c.st.query, !.st.prepared = TRUE]
  <2>1. h \in Handles /\ c.hs[h] \in HandleType /\ c.st.query \in AnyQuery
    BY <1>1, <1>4 DEF Ready, StatementType
  <2>2. d.hs = [c.hs EXCEPT ![h] = [c.hs[h] EXCEPT !.prepared = c.st.query]]
    BY <1>1, <1>4, <2>1 DEF CallType
  <2>3. /\ d.st \in StatementType /\ d.st.ref = h /\ d.st.epoch = c.st.epoch
        /\ d.st.query = c.st.query /\ d.st.prepared /\ d.st.live
    BY <1>1, <1>4 DEF Good, CallType, StatementType
  <2>4. d.hs \in [Handles -> HandleType]
    BY <1>1, <2>1, <2>2 DEF HandleType
  <2>5. d \in CallType
    BY <1>1, <1>4, <2>3, <2>4 DEF CallType
  <2> QED BY <1>3, <1>4, <2>1, <2>2, <2>3, <2>5
<1>5. CASE c.ok /\ d = [c EXCEPT !.hs[c.st.ref].prepared = 0, !.ok = FALSE]
  <2>1. h \in Handles /\ c.hs[h] \in HandleType /\ 0 \in AnyQuery
    BY <1>1, <1>5 DEF Ready, AnyQuery
  <2>2. d.hs = [c.hs EXCEPT ![h] = [c.hs[h] EXCEPT !.prepared = 0]]
    BY <1>1, <1>5, <2>1 DEF CallType
  <2>3. d.st = c.st /\ d.ok = FALSE /\ c.st.live
    BY <1>1, <1>5 DEF Good, CallType, StatementType
  <2>4. d.hs \in [Handles -> HandleType]
    BY <1>1, <2>1, <2>2 DEF HandleType
  <2>5. d \in CallType
    BY <1>1, <1>5, <2>3, <2>4 DEF CallType
  <2> QED BY <1>3, <1>5, <2>1, <2>2, <2>3, <2>5
<1> QED BY <1>2, <1>4, <1>5 DEF SQLPrepare

(* DoPrepare, and a call with bound rows up to its execution.              *)
LEMMA DoPrepareIsGood ==
  ASSUME TypeOK, NEW s \in Statements, NEW c, Good(s, c), NEW d \in DoPrepare(c)
  PROVE  Good(s, d)
<1>1. CASE c.st.prepared
  BY <1>1 DEF DoPrepare
<1>2. CASE ~c.st.prepared
  <2>1. PICK e \in EnsureHandle(c) : d \in SQLPrepare(e)
    BY <1>2 DEF DoPrepare
  <2>2. Good(s, e) /\ (e.ok => Ready(e))
    BY <2>1, EnsureIsGood
  <2> QED BY <2>1, <2>2, PrepareIsGood
<1> QED BY <1>1, <1>2

(* The handle a bound query is executed on is prepared, if the call has    *)
(* got that far.                                                           *)
LEMMA BoundCallIsGood ==
  ASSUME TypeOK, NEW s \in Statements, NEW c, Good(s, c), NEW d \in BoundCall(c)
  PROVE  Good(s, d) /\ (d.ok => Ready(d) /\ d.st.prepared)
<1>1. PICK e \in EnsureHandle(c) : d \in IF e.ok /\ ~e.st.prepared THEN SQLPrepare(e) ELSE {e}
  BY DEF BoundCall
<1>2. Good(s, e) /\ (e.ok => Ready(e))
  BY <1>1, EnsureIsGood
<1>3. CASE e.ok /\ ~e.st.prepared
  <2>1. d \in SQLPrepare(e)
    BY <1>1, <1>3
  <2> QED BY <1>2, <2>1, PrepareIsGood
<1>4. CASE ~(e.ok /\ ~e.st.prepared)
  <2>1. d = e
    BY <1>1, <1>4
  <2> QED BY <1>2, <1>4, <2>1
<1> QED BY <1>3, <1>4


-----------------------------------------------------------------------------
(* Steps.  A step that leaves the connection alone and sound pieces behind *)
(* preserves the invariant.                                                *)
LEMMA SoundNext ==
  ASSUME HandlesInv, Sound(stmt', handle', stream'), UNCHANGED <<epoch, autocommit>>,
         touched' \in Handles \cup {0}
  PROVE  HandlesInv'
<1>1. TypeOK'
  BY DEF HandlesInv, TypeOK, Sound
<1>2. Known(stmt, handle)'
  BY DEF Sound, Known
<1> QED BY <1>1, <1>2 DEF HandlesInv, Sound, Apart, Counted, Kept, Uses, HasStatement, HasReader,
       HasBound

(* A call that ends with its statement's handle as it has left it.         *)
LEMMA EndCall ==
  ASSUME HandlesInv, NEW s \in Statements, NEW c, Good(s, c), NEW r \in StatementType,
         r.live, r.ref = c.st.ref, r.epoch = c.st.epoch,
         r.prepared => c.st.prepared /\ r.query = c.st.query
  PROVE  Sound([stmt EXCEPT ![s] = r], c.hs, stream)
<1> DEFINE ss == [stmt EXCEPT ![s] = c.st]
<1>1. ss[s] = c.st /\ c.st \in StatementType /\ stmt \in [Statements -> StatementType]
  BY DEF HandlesInv, TypeOK, Good, CallType
<1>2. [ss EXCEPT ![s] = r] = [stmt EXCEPT ![s] = r]
  BY <1>1
<1>3. Sound(ss, c.hs, stream)
  BY DEF Good
<1> HIDE DEF ss
<1>4. Sound([ss EXCEPT ![s] = r], c.hs, stream)
  BY <1>1, <1>3, EditStatement
<1> QED BY <1>2, <1>4

(* Spoiling the handles with a cursor touches nothing else of them.        *)
LEMMA SpoilFacts ==
  ASSUME NEW hs \in [Handles -> HandleType], NEW how \in {"rollback", "autotxn"}
  PROVE  /\ Spoil(hs, how) \in [Handles -> HandleType]
         /\ \A h \in Handles : /\ Spoil(hs, how)[h].refs = hs[h].refs
                               /\ Spoil(hs, how)[h].prepared = hs[h].prepared
                               /\ Spoil(hs, how)[h].cursor = hs[h].cursor
         /\ how = "autotxn" => \A h \in Handles : Spoil(hs, how)[h].dead = "rollback"
                                                    => hs[h].dead = "rollback"
<1>1. ASSUME NEW h \in Handles
      PROVE  /\ Spoil(hs, how)[h] \in HandleType
             /\ Spoil(hs, how)[h].refs = hs[h].refs
             /\ Spoil(hs, how)[h].prepared = hs[h].prepared
             /\ Spoil(hs, how)[h].cursor = hs[h].cursor
             /\ how = "autotxn" => (Spoil(hs, how)[h].dead = "rollback" => hs[h].dead = "rollback")
  <2>1. hs[h] \in HandleType
    OBVIOUS
  <2>2. CASE hs[h].cursor # 0 /\ hs[h].dead # "rollback"
    <3>1. Spoil(hs, how)[h] = [hs[h] EXCEPT !.dead = how]
      BY <2>2 DEF Spoil
    <3> QED BY <2>1, <3>1 DEF HandleType
  <2>3. CASE ~(hs[h].cursor # 0 /\ hs[h].dead # "rollback")
    <3>1. Spoil(hs, how)[h] = hs[h]
      BY <2>3 DEF Spoil
    <3> QED BY <2>1, <3>1
  <2> QED BY <2>2, <2>3
<1>2. Spoil(hs, how) = [h \in Handles |-> Spoil(hs, how)[h]]
  BY DEF Spoil
<1> QED BY <1>1, <1>2

(* ... and keeps the references and the streams' results.                  *)
LEMMA SpoilKeeps ==
  ASSUME NEW ss, NEW hs, NEW sm, Sound(ss, hs, sm), NEW how \in {"rollback", "autotxn"}
  PROVE  /\ Spoil(hs, how) \in [Handles -> HandleType] /\ Counted(ss, Spoil(hs, how), sm)
         /\ Kept(Spoil(hs, how), sm)
<1> DEFINE ns == Spoil(hs, how)
<1>1. /\ ns \in [Handles -> HandleType]
      /\ \A h \in Handles : /\ ns[h].refs = hs[h].refs
                            /\ ns[h].prepared = hs[h].prepared
                            /\ ns[h].cursor = hs[h].cursor
  BY SpoilFacts DEF Sound
<1> HIDE DEF ns
<1>2. Counted(ss, ns, sm)
  BY <1>1 DEF Sound, Counted
<1>3. \A t \in Streams : sm[t].open \/ sm[t].kind = "bound" => sm[t].handle \in Handles
  BY DEF Sound, StreamType, Apart
<1>4. Kept(ns, sm)
  BY <1>1, <1>3 DEF Sound, Kept
<1> QED BY <1>1, <1>2, <1>4 DEF ns

(* The automatic transaction of a failed ingest is rolled back.            *)
LEMMA AutoRollback ==
  ASSUME NEW ss, NEW hs, NEW sm, Sound(ss, hs, sm)
  PROVE  Sound(ss, Spoil(hs, "autotxn"), sm)
<1> DEFINE ns == Spoil(hs, "autotxn")
<1>1. ns \in [Handles -> HandleType] /\ Counted(ss, ns, sm) /\ Kept(ns, sm)
  BY SpoilKeeps
<1>2. \A h \in Handles : /\ ns[h].prepared = hs[h].prepared
                         /\ ns[h].dead = "rollback" => hs[h].dead = "rollback"
  BY SpoilFacts DEF Sound
<1> HIDE DEF ns
<1>3. \A s \in Statements : ss[s].ref \in Handles \cup {0}
  BY DEF Sound, StatementType
<1>4. Known(ss, ns)
  BY <1>2, <1>3 DEF Sound, Known
<1> QED BY <1>1, <1>4 DEF Sound, ns

(* ExecuteRows, however the rows go.                                       *)
LEMMA RunRowsStep ==
  ASSUME HandlesInv, NEW s \in Statements, NEW c, Good(s, c), RunRows(s, c), touched' = 0,
         UNCHANGED <<epoch, autocommit>>
  PROVE  HandlesInv'
<1>1. c.st \in StatementType /\ c.st.live
  BY DEF Good, CallType
<1> DEFINE r == [c.st EXCEPT !.bind = FALSE]
<1>2. /\ r \in StatementType /\ r.live /\ r.ref = c.st.ref /\ r.epoch = c.st.epoch
      /\ r.prepared = c.st.prepared /\ r.query = c.st.query
  BY <1>1 DEF StatementType
<1>3. PICK v \in {c.st, r} : /\ stmt' = [stmt EXCEPT ![s] = v] /\ stream' = stream
                             /\ handle' = c.hs \/ handle' = Spoil(c.hs, "autotxn")
  BY DEF RunRows
<1>4. /\ v \in StatementType /\ v.live /\ v.ref = c.st.ref /\ v.epoch = c.st.epoch
      /\ v.prepared = c.st.prepared /\ v.query = c.st.query
  BY <1>1, <1>2
<1> HIDE DEF r
<1>5. Sound(stmt', c.hs, stream')
  BY <1>3, <1>4, EndCall
<1>6. Sound(stmt', handle', stream')
  BY <1>3, <1>5, AutoRollback
<1> QED BY <1>6, SoundNext


(* The calls of a statement that only run a call to its end.               *)
LEMMA CallStep ==
  ASSUME HandlesInv, NEW s \in Statements, NEW c, Good(s, c), NEW r \in StatementType,
         r.live, r.ref = c.st.ref, r.epoch = c.st.epoch,
         r.prepared => c.st.prepared /\ r.query = c.st.query,
         stmt' = [stmt EXCEPT ![s] = r], handle' = c.hs, stream' = stream,
         touched' \in Handles \cup {0}, UNCHANGED <<epoch, autocommit>>
  PROVE  HandlesInv'
<1>1. Sound(stmt', handle', stream')
  BY EndCall
<1> QED BY <1>1, SoundNext

(* A handle with a reader's references and its open cursor.                *)
LEMMA CursorOpened ==
  ASSUME NEW c, NEW h \in Handles, h = c.st.ref, c.hs \in [Handles -> HandleType],
         c.hs[h].refs = 1, NEW t \in Streams, NEW kind, NEW n \in Nat,
         OpenStream(c, t, kind, n)
  PROVE  /\ handle' \in [Handles -> HandleType] /\ \A k \in Handles \ {h} : handle'[k] = c.hs[k]
         /\ handle'[h].refs = 1 + n /\ handle'[h].cursor = t
         /\ handle'[h].prepared = c.hs[h].prepared /\ handle'[h].dead = c.hs[h].dead
<1> DEFINE g == [c.hs[h] EXCEPT !.refs = 1 + n, !.cursor = t]
<1>1. handle' = [c.hs EXCEPT ![h] = g]
  BY DEF OpenStream
<1>2. c.hs[h] \in HandleType /\ 1 + n \in Nat
  OBVIOUS
<1>3. /\ g \in HandleType /\ g.refs = 1 + n /\ g.cursor = t
      /\ g.prepared = c.hs[h].prepared /\ g.dead = c.hs[h].dead
  BY <1>2 DEF HandleType
<1> HIDE DEF g
<1> QED BY <1>1, <1>3

(* A result set: the stream takes the references it owns.                  *)
LEMMA OpenStreamStep ==
  ASSUME HandlesInv, NEW s \in Statements, NEW c, Good(s, c), Ready(c), NEW r \in StatementType,
         r.live, r.ref = c.st.ref, r.epoch = c.st.epoch,
         r.prepared => c.st.prepared /\ r.query = c.st.query,
         NEW t \in Streams, stream[t].kind = "none", NEW kind \in {"reader", "bound"},
         kind = "bound" => c.st.prepared, Runs(c),
         NEW n, n = (IF kind = "bound" THEN 2 ELSE 1), OpenStream(c, t, kind, n),
         stmt' = [stmt EXCEPT ![s] = r], touched' = 0, UNCHANGED <<epoch, autocommit>>
  PROVE  HandlesInv'
<1> DEFINE h == c.st.ref
           v == [kind |-> kind, handle |-> h, query |-> IF kind = "bound" THEN c.st.query ELSE 0,
                 open |-> TRUE, fetch |-> "not", done |-> FALSE]
<1>1. c.st \in StatementType /\ c.hs \in [Handles -> HandleType] /\ h \in Handles /\ h # 0
  BY DEF Good, CallType, StatementType, Ready
<1>2. Sound(stmt', c.hs, stream)
  BY EndCall
<1>3. stmt'[s] = r /\ stmt'[s].ref = h /\ c.hs[h] \in HandleType /\ c.hs[h].refs = 1
  BY <1>1 DEF HandlesInv, TypeOK, Ready
<1>4. \A u \in Streams : stream[u].handle # h
  <2> DEFINE ss == stmt'
  <2>1. ss[s].ref # 0 /\ c.hs[ss[s].ref].refs = 1 /\ ss[s].ref = h /\ Sound(ss, c.hs, stream)
    BY <1>1, <1>2, <1>3
  <2> HIDE DEF ss
  <2>2. \A u \in Streams : stream[u].handle # ss[s].ref
    BY <2>1, OwnHandle
  <2> QED BY <2>1, <2>2
<1>5. stream[t].handle = 0 /\ OwnsOf(stream[t]) = 0
  BY DEF HandlesInv, Sound, Apart, OwnsOf
<1>6. /\ v \in StreamType /\ v.handle = h /\ v.kind = kind /\ v.open
      /\ kind = "bound" => v.query = c.st.query
      /\ OwnsOf(v) = n
  BY <1>1 DEF StreamType, StatementType, AnyQuery, OwnsOf
<1>7. stream' = [stream EXCEPT ![t] = v]
  BY DEF OpenStream
<1>8. /\ handle' \in [Handles -> HandleType] /\ \A k \in Handles \ {h} : handle'[k] = c.hs[k]
      /\ handle'[h].refs = 1 + n /\ handle'[h].cursor = t
      /\ handle'[h].prepared = c.hs[h].prepared /\ handle'[h].dead = c.hs[h].dead
  <2>1. n \in Nat
    OBVIOUS
  <2> HIDE DEF h, v
  <2>2. h = c.st.ref
    BY DEF h
  <2> QED BY <1>1, <1>3, <2>1, <2>2, CursorOpened
<1>9. kind = "bound" => c.hs[h].prepared = c.st.query
  <2>1. c.st.prepared => c.hs[h].prepared \in {c.st.query, 0}
    BY <1>1 DEF Good, Sound, Known, HandlesInv, TypeOK
  <2> QED BY <2>1 DEF Runs
<1> HIDE DEF v
<1>10. n \in Nat
  OBVIOUS
<1>11. handle'[h].refs = (c.hs[h].refs - OwnsOf(stream[t])) + OwnsOf(v)
  BY <1>3, <1>5, <1>6, <1>8, <1>10
<1>12. Sound(stmt', handle', [stream EXCEPT ![t] = v])
  <2>1. v.kind # "none" /\ (v.kind = "reader" => v.open)
    BY <1>6
  <2> QED BY <1>1, <1>2, <1>4, <1>5, <1>6, <1>8, <1>9, <1>11, <2>1, EditStream
<1> QED BY <1>7, <1>12, SoundNext


(* SQLExecDirect forgets what was prepared on the handle.                  *)
LEMMA ExecutedIsGood ==
  ASSUME HandlesInv, NEW s \in Statements, NEW c, Good(s, c), Ready(c), NEW e,
         e = [c EXCEPT !.st.executed = TRUE,
                       !.hs[c.st.ref].prepared = IF c.st.prepared THEN @ ELSE 0]
  PROVE  Good(s, e) /\ Ready(e)
<1> DEFINE ss == [stmt EXCEPT ![s] = c.st]
           h  == c.st.ref
           q  == IF c.st.prepared THEN c.hs[h].prepared ELSE 0
           g  == [c.hs[h] EXCEPT !.prepared = q]
<1>1. /\ c \in CallType /\ c.st \in StatementType /\ c.ok \in BOOLEAN /\ ss[s] = c.st
      /\ c.hs \in [Handles -> HandleType] /\ h \in Handles /\ h # 0 /\ c.st.live
      /\ Sound(ss, c.hs, stream) /\ c.hs[h] \in HandleType /\ c.hs[h].refs = 1
  BY DEF Good, Ready, CallType, HandlesInv, TypeOK, StatementType
<1>2. q \in AnyQuery /\ (c.st.prepared => q \in {c.st.query, 0})
  BY <1>1 DEF Sound, Known, HandleType, AnyQuery
<1>3. e.hs = [c.hs EXCEPT ![h] = g]
  BY <1>1 DEF CallType, HandleType
<1>4. /\ e.st \in StatementType /\ e.st.live /\ e.st.ref = h /\ e.st.epoch = c.st.epoch
      /\ e.st.prepared = c.st.prepared /\ e.st.query = c.st.query
  BY <1>1 DEF CallType, StatementType
<1> HIDE DEF q
<1>5. g \in HandleType /\ g.refs = 1 /\ g.dead = c.hs[h].dead /\ g.prepared = q
  BY <1>1, <1>2 DEF HandleType
<1>6. e.hs \in [Handles -> HandleType] /\ e.hs[h] = g
  BY <1>1, <1>3, <1>5
<1> HIDE DEF g, h
<1>7. e \in CallType
  <2>1. e.ok = c.ok /\ e = [st |-> e.st, hs |-> e.hs, ok |-> e.ok]
    BY <1>1 DEF CallType
  <2> DEFINE st == e.st  hs == e.hs  ok == e.ok
  <2>2. st \in StatementType /\ hs \in [Handles -> HandleType] /\ ok \in BOOLEAN
    BY <1>1, <1>4, <1>6, <2>1
  <2> HIDE DEF st, hs, ok
  <2>3. [st |-> st, hs |-> hs, ok |-> ok] \in CallType
    BY <2>2 DEF CallType
  <2> QED BY <2>1, <2>3, Zenon DEF st, hs, ok
<1> USE DEF h
<1>8. Sound([ss EXCEPT ![s] = e.st], [c.hs EXCEPT ![ss[s].ref] = g], stream)
  <2>1. /\ ss[s].ref # 0 /\ c.hs[ss[s].ref].refs = 1 /\ g.dead = c.hs[ss[s].ref].dead
        /\ e.st.ref = ss[s].ref /\ e.st.epoch = ss[s].epoch
        /\ (e.st.prepared => g.prepared \in {e.st.query, 0})
    BY <1>1, <1>2, <1>4, <1>5
  <2> HIDE DEF ss
  <2> QED BY <1>1, <1>4, <1>5, <2>1, EditHandle
<1>9. Sound([[stmt EXCEPT ![s] = c.st] EXCEPT ![s] = e.st], e.hs, stream)
  BY <1>1, <1>3, <1>8
<1>10. Good(s, e)
  BY <1>1, <1>4, <1>7, <1>9, ReplaceCall DEF HandlesInv
<1> QED BY <1>1, <1>4, <1>5, <1>6, <1>10 DEF Ready

(* ExecuteQuery.                                                           *)
LEMMA ExecuteQueryStep ==
  ASSUME HandlesInv, NEW s \in Statements, ExecuteQuery(s)
  PROVE  HandlesInv'
<1>1. Good(s, Call(s)) /\ TypeOK
  BY CallIsGood DEF ExecuteQuery, HandlesInv
<1>2. PICK d \in (IF stmt[s].requested /\ stmt[s].executed THEN DoPrepare(Call(s)) ELSE {Call(s)}) :
      \E c \in EnsureHandle(d) :
        IF ~c.ok
        THEN stmt' = [stmt EXCEPT ![s] = c.st] /\ handle' = c.hs /\ UNCHANGED stream
        ELSE LET e == [c EXCEPT !.st.executed = TRUE,
                                !.hs[c.st.ref].prepared = IF c.st.prepared THEN @ ELSE 0]
             IN  /\ stmt' = [stmt EXCEPT ![s] = e.st]
                 /\ \/ handle' = e.hs /\ UNCHANGED stream
                    \/ \E t \in Streams :
                         /\ Runs(e) /\ stream[t].kind = "none"
                         /\ OpenStream(e, t, "reader", 1)
  BY Zenon DEF ExecuteQuery
<1>3. Good(s, d)
  BY <1>1, <1>2, DoPrepareIsGood
<1>4. PICK c \in EnsureHandle(d) :
        IF ~c.ok
        THEN stmt' = [stmt EXCEPT ![s] = c.st] /\ handle' = c.hs /\ UNCHANGED stream
        ELSE LET e == [c EXCEPT !.st.executed = TRUE,
                                !.hs[c.st.ref].prepared = IF c.st.prepared THEN @ ELSE 0]
             IN  /\ stmt' = [stmt EXCEPT ![s] = e.st]
                 /\ \/ handle' = e.hs /\ UNCHANGED stream
                    \/ \E t \in Streams :
                         /\ Runs(e) /\ stream[t].kind = "none"
                         /\ OpenStream(e, t, "reader", 1)
  BY <1>2, Zenon
<1>5. Good(s, c) /\ (c.ok => Ready(c)) /\ c.st \in StatementType /\ c.st.live
  <2>1. Good(s, c) /\ (c.ok => Ready(c))
    BY <1>1, <1>3, EnsureIsGood, Zenon
  <2> QED BY <2>1 DEF Good, CallType
<1>6. touched' = 0 /\ UNCHANGED <<epoch, autocommit>>
  BY DEF ExecuteQuery, Rest
<1>7. CASE ~c.ok
  BY <1>4, <1>5, <1>6, <1>7, CallStep
<1>8. CASE c.ok
  <2> DEFINE e == [c EXCEPT !.st.executed = TRUE,
                            !.hs[c.st.ref].prepared = IF c.st.prepared THEN @ ELSE 0]
  <2>1. Good(s, e) /\ Ready(e)
    BY <1>5, <1>8, ExecutedIsGood
  <2>2. /\ stmt' = [stmt EXCEPT ![s] = e.st]
        /\ \/ handle' = e.hs /\ stream' = stream
           \/ \E t \in Streams : /\ Runs(e) /\ stream[t].kind = "none"
                                 /\ OpenStream(e, t, "reader", 1)
    BY <1>4, <1>8, Zenon
  <2> HIDE DEF e
  <2>3. e.st \in StatementType /\ e.st.live
    BY <2>1 DEF Good, CallType
  <2>4. CASE handle' = e.hs /\ stream' = stream
    BY <1>6, <2>1, <2>2, <2>3, <2>4, CallStep
  <2>5. CASE \E t \in Streams : /\ Runs(e) /\ stream[t].kind = "none"
                                /\ OpenStream(e, t, "reader", 1)
    <3>1. PICK t \in Streams : /\ Runs(e) /\ stream[t].kind = "none"
                               /\ OpenStream(e, t, "reader", 1)
      BY <2>5
    <3> QED BY <1>6, <2>1, <2>2, <2>3, <3>1, OpenStreamStep
  <2> QED BY <2>2, <2>4, <2>5
<1> QED BY <1>5, <1>7, <1>8 DEF Good, CallType


(* The calls that only edit the statement, and its release.                *)
LEMMA StatementEditStep ==
  ASSUME HandlesInv, NEW s \in Statements,
         \/ StatementNew(s) \/ StatementRelease(s) \/ (\E q \in Queries : SetSqlQuery(s, q))
         \/ SetIngestTable(s) \/ BindStream(s)
  PROVE  HandlesInv'
<1>1. /\ touched' = 0 /\ UNCHANGED <<epoch, autocommit>> /\ stream' = stream
      /\ touched' \in Handles \cup {0}
  BY DEF StatementNew, StatementRelease, SetSqlQuery, SetIngestTable, BindStream, Rest
<1>2. stmt[s] \in StatementType /\ epoch \in 0..MaxEpoch /\ Sound(stmt, handle, stream)
  BY DEF HandlesInv, TypeOK
<1>3. /\ NewStatement \in StatementType /\ NewStatement.ref = 0 /\ ~NewStatement.prepared
      /\ NewStatement.epoch = 0
  BY HandlesAssumption DEF NewStatement, StatementType, AnyQuery
<1>4. CASE StatementNew(s)
  <2>1. stmt' = [stmt EXCEPT ![s] = NewStatement] /\ handle' = handle /\ stmt[s].ref = 0
    BY <1>2, <1>4 DEF StatementNew, Sound, Known
  <2>2. Sound([stmt EXCEPT ![s] = NewStatement], Unref(handle, stmt[s].ref, 1), stream)
    BY <1>2, <1>3, DropHandle
  <2>3. Unref(handle, stmt[s].ref, 1) = handle
    BY <2>1 DEF Unref
  <2> QED BY <1>1, <2>1, <2>2, <2>3, SoundNext
<1>5. CASE StatementRelease(s)
  <2> DEFINE r == [NewStatement EXCEPT !.live = FALSE]
  <2>1. r \in StatementType /\ r.ref = 0 /\ ~r.prepared /\ r.epoch = 0
    BY <1>3 DEF StatementType
  <2>2. stmt' = [stmt EXCEPT ![s] = r] /\ handle' = Unref(handle, stmt[s].ref, 1)
    BY <1>5 DEF StatementRelease
  <2> HIDE DEF r
  <2>3. Sound([stmt EXCEPT ![s] = r], Unref(handle, stmt[s].ref, 1), stream)
    BY <1>2, <2>1, DropHandle
  <2> QED BY <1>1, <2>2, <2>3, SoundNext
<1>6. ASSUME NEW r \in StatementType, r.live, r.ref = stmt[s].ref, r.epoch = stmt[s].epoch,
             r.prepared => stmt[s].prepared /\ r.query = stmt[s].query,
             stmt' = [stmt EXCEPT ![s] = r], handle' = handle
      PROVE  HandlesInv'
  <2>1. Sound([stmt EXCEPT ![s] = r], handle, stream)
    BY <1>2, <1>6, EditStatement
  <2> QED BY <1>1, <1>6, <2>1, SoundNext
<1>7. ASSUME NEW q \in Queries, SetSqlQuery(s, q) PROVE HandlesInv'
  <2> DEFINE r == [stmt[s] EXCEPT !.query = q, !.prepared = FALSE, !.requested = FALSE,
                                  !.executed = FALSE, !.ingest = FALSE]
  <2>1. stmt' = [stmt EXCEPT ![s] = r] /\ handle' = handle /\ stmt[s].live
    BY <1>7 DEF SetSqlQuery
  <2>2. /\ r \in StatementType /\ r.live = stmt[s].live /\ r.ref = stmt[s].ref
        /\ r.epoch = stmt[s].epoch /\ r.prepared = FALSE
    BY <1>2 DEF StatementType, AnyQuery
  <2> HIDE DEF r
  <2> QED BY <1>6, <2>1, <2>2
<1>8. CASE SetIngestTable(s)
  <2> DEFINE r == [stmt[s] EXCEPT !.ingest = TRUE]
  <2>1. stmt' = [stmt EXCEPT ![s] = r] /\ handle' = handle /\ stmt[s].live
    BY <1>8 DEF SetIngestTable
  <2>2. /\ r \in StatementType /\ r.live = stmt[s].live /\ r.ref = stmt[s].ref
        /\ r.epoch = stmt[s].epoch /\ r.prepared = stmt[s].prepared /\ r.query = stmt[s].query
    BY <1>2 DEF StatementType
  <2> HIDE DEF r
  <2> QED BY <1>6, <2>1, <2>2
<1>9. CASE BindStream(s)
  <2> DEFINE r == [stmt[s] EXCEPT !.bind = TRUE]
  <2>1. stmt' = [stmt EXCEPT ![s] = r] /\ handle' = handle /\ stmt[s].live
    BY <1>9 DEF BindStream
  <2>2. /\ r \in StatementType /\ r.live = stmt[s].live /\ r.ref = stmt[s].ref
        /\ r.epoch = stmt[s].epoch /\ r.prepared = stmt[s].prepared /\ r.query = stmt[s].query
    BY <1>2 DEF StatementType
  <2> HIDE DEF r
  <2> QED BY <1>6, <2>1, <2>2
<1> QED BY <1>4, <1>5, <1>7, <1>8, <1>9

(* Prepare, DescribeSchema and ExecutePartitions.                          *)
LEMMA PrepareStep ==
  ASSUME HandlesInv, NEW s \in Statements, Prepare(s) \/ DescribeSchema(s) \/ ExecutePartitions(s)
  PROVE  HandlesInv'
<1>1. Good(s, Call(s)) /\ TypeOK
  BY CallIsGood DEF Prepare, DescribeSchema, ExecutePartitions, HandlesInv
<1>2. UNCHANGED <<epoch, autocommit>> /\ stream' = stream
  BY DEF Prepare, DescribeSchema, ExecutePartitions, Rest
<1>3. ASSUME NEW c, Good(s, c), stmt' = [stmt EXCEPT ![s] = c.st], handle' = c.hs,
             touched' \in {0, Described(c)}
      PROVE  HandlesInv'
  <2>1. c.st \in StatementType /\ c.st.live
    BY <1>3 DEF Good, CallType
  <2>2. touched' \in Handles \cup {0}
    BY <1>3, <2>1 DEF Described, StatementType
  <2> QED BY <1>2, <1>3, <2>1, <2>2, CallStep
<1>4. CASE Prepare(s)
  <2>1. PICK c \in EnsureHandle(Call(s)) :
          /\ stmt' = [stmt EXCEPT ![s] = IF c.ok THEN [c.st EXCEPT !.requested = TRUE] ELSE c.st]
          /\ handle' = c.hs
    BY <1>4 DEF Prepare
  <2> DEFINE r == IF c.ok THEN [c.st EXCEPT !.requested = TRUE] ELSE c.st
  <2>2. Good(s, c)
    BY <1>1, EnsureIsGood
  <2>3. c.st \in StatementType /\ c.st.live
    BY <2>2 DEF Good, CallType
  <2>4. /\ r \in StatementType /\ r.live = c.st.live /\ r.ref = c.st.ref
        /\ r.epoch = c.st.epoch /\ r.prepared = c.st.prepared /\ r.query = c.st.query
    BY <2>3 DEF StatementType
  <2>5. stmt' = [stmt EXCEPT ![s] = r] /\ touched' \in Handles \cup {0}
    BY <1>4, <2>1 DEF Prepare
  <2> HIDE DEF r
  <2> QED BY <1>2, <2>1, <2>2, <2>3, <2>4, <2>5, CallStep
<1>5. CASE DescribeSchema(s)
  <2>1. PICK c \in DoPrepare(Call(s)) : /\ stmt' = [stmt EXCEPT ![s] = c.st]
                                        /\ handle' = c.hs /\ touched' = Described(c)
    BY <1>5 DEF DescribeSchema
  <2>2. Good(s, c)
    BY <1>1, DoPrepareIsGood
  <2> QED BY <1>3, <2>1, <2>2
<1>6. CASE ExecutePartitions(s)
  <2>1. PICK d \in EnsureHandle(Call(s)) :
          \E c \in SQLPrepare(d) : /\ stmt' = [stmt EXCEPT ![s] = c.st]
                                   /\ handle' = c.hs /\ touched' = Described(c)
    BY <1>6 DEF ExecutePartitions
  <2>2. PICK c \in SQLPrepare(d) : /\ stmt' = [stmt EXCEPT ![s] = c.st]
                                   /\ handle' = c.hs /\ touched' = Described(c)
    BY <2>1
  <2>3. Good(s, d) /\ (d.ok => Ready(d))
    BY <1>1, EnsureIsGood
  <2>4. Good(s, c)
    BY <1>1, <2>3, PrepareIsGood
  <2> QED BY <1>3, <2>2, <2>4
<1> QED BY <1>4, <1>5, <1>6

(* ExecuteRows and ExecuteBoundQuery.                                      *)
LEMMA BoundStep ==
  ASSUME HandlesInv, NEW s \in Statements, ExecuteRows(s) \/ ExecuteBoundQuery(s)
  PROVE  HandlesInv'
<1>1. Good(s, Call(s)) /\ TypeOK
  BY CallIsGood DEF ExecuteRows, ExecuteBoundQuery, HandlesInv
<1>2. touched' = 0 /\ UNCHANGED <<epoch, autocommit>>
  BY DEF ExecuteRows, ExecuteBoundQuery, Rest
<1>3. CASE ExecuteRows(s)
  <2>1. PICK c \in BoundCall(Call(s)) : RunRows(s, c)
    BY <1>3 DEF ExecuteRows
  <2>2. Good(s, c)
    BY <1>1, BoundCallIsGood
  <2> QED BY <1>2, <2>1, <2>2, RunRowsStep
<1>4. CASE ExecuteBoundQuery(s)
  <2>1. PICK c \in BoundCall(Call(s)) :
          /\ stmt' = [stmt EXCEPT ![s] = IF c.ok THEN [c.st EXCEPT !.bind = FALSE] ELSE c.st]
          /\ \/ handle' = c.hs /\ UNCHANGED stream
             \/ \E t \in Streams : /\ c.ok /\ Runs(c) /\ stream[t].kind = "none"
                                   /\ OpenStream(c, t, "bound", 2)
    BY <1>4 DEF ExecuteBoundQuery
  <2> DEFINE r == IF c.ok THEN [c.st EXCEPT !.bind = FALSE] ELSE c.st
  <2>2. Good(s, c) /\ (c.ok => Ready(c) /\ c.st.prepared)
    BY <1>1, BoundCallIsGood
  <2>3. c.st \in StatementType /\ c.st.live
    BY <2>2 DEF Good, CallType
  <2>4. /\ r \in StatementType /\ r.live = c.st.live /\ r.ref = c.st.ref
        /\ r.epoch = c.st.epoch /\ r.prepared = c.st.prepared /\ r.query = c.st.query
    BY <2>3 DEF StatementType
  <2>5. stmt' = [stmt EXCEPT ![s] = r] /\ touched' \in Handles \cup {0}
    BY <1>2, <2>1
  <2> HIDE DEF r
  <2>6. CASE handle' = c.hs /\ UNCHANGED stream
    BY <1>2, <2>2, <2>3, <2>4, <2>5, <2>6, CallStep
  <2>7. ASSUME NEW t \in Streams, c.ok, Runs(c), stream[t].kind = "none",
               OpenStream(c, t, "bound", 2)
        PROVE  HandlesInv'
    BY <1>2, <2>2, <2>3, <2>4, <2>5, <2>7, OpenStreamStep
  <2> QED BY <2>1, <2>6, <2>7
<1> QED BY <1>3, <1>4


(* Ingest, after the table was created or not.                             *)
LEMMA IngestStep ==
  ASSUME HandlesInv, NEW s \in Statements, Ingest(s)
  PROVE  HandlesInv'
<1>1. Good(s, Call(s)) /\ TypeOK
  BY CallIsGood DEF Ingest, HandlesInv
<1>2. touched' = 0 /\ UNCHANGED <<epoch, autocommit>> /\ touched' \in Handles \cup {0}
  BY DEF Ingest, Rest
<1>3. PICK c \in CreateTable(Detach(Call(s))) \cup {Call(s)} :
        LET d == [c EXCEPT !.st.query = InsertQuery, !.st.prepared = FALSE]
        IN  \/ /\ ~c.ok
               /\ stmt' = [stmt EXCEPT ![s] = c.st] /\ handle' = c.hs /\ UNCHANGED stream
            \/ /\ c.ok /\ autocommit
               /\ \E left \in BOOLEAN : stmt' = [stmt EXCEPT ![s] = [d.st EXCEPT !.bind = left]]
               /\ handle' = d.hs /\ UNCHANGED stream
            \/ c.ok /\ \E e \in BoundCall(d) : RunRows(s, e)
  BY Zenon DEF Ingest
<1>4. Good(s, c)
  <2>1. Good(s, Detach(Call(s)))
    BY <1>1, DetachIsGood
  <2>2. ASSUME NEW b, Good(s, b) PROVE Good(s, [b EXCEPT !.ok = FALSE])
    BY <2>2 DEF Good, CallType
  <2> QED BY <1>1, <1>3, <2>1, <2>2 DEF CreateTable
<1>5. c \in CallType /\ c.st \in StatementType /\ c.st.live /\ InsertQuery \in AnyQuery
  BY <1>4 DEF Good, CallType, AnyQuery
<1> DEFINE d == [c EXCEPT !.st.query = InsertQuery, !.st.prepared = FALSE]
<1>6. /\ \/ /\ ~c.ok
            /\ stmt' = [stmt EXCEPT ![s] = c.st] /\ handle' = c.hs /\ UNCHANGED stream
         \/ /\ c.ok /\ autocommit
            /\ \E left \in BOOLEAN : stmt' = [stmt EXCEPT ![s] = [d.st EXCEPT !.bind = left]]
            /\ handle' = d.hs /\ UNCHANGED stream
         \/ c.ok /\ \E e \in BoundCall(d) : RunRows(s, e)
  BY <1>3, Zenon
<1>7. /\ d \in CallType /\ d.hs = c.hs /\ d.st \in StatementType /\ d.st.live
      /\ d.st.ref = c.st.ref /\ d.st.epoch = c.st.epoch /\ ~d.st.prepared
  BY <1>5 DEF CallType, StatementType
<1> HIDE DEF d
<1>8. Good(s, d)
  <2>1. Sound([stmt EXCEPT ![s] = d.st], c.hs, stream)
    BY <1>4, <1>7, EndCall
  <2> QED BY <1>7, <2>1 DEF Good
<1>9. CASE /\ stmt' = [stmt EXCEPT ![s] = c.st] /\ handle' = c.hs /\ UNCHANGED stream
  BY <1>2, <1>4, <1>5, <1>9, CallStep
<1>10. ASSUME NEW left \in BOOLEAN, stmt' = [stmt EXCEPT ![s] = [d.st EXCEPT !.bind = left]],
              handle' = d.hs, UNCHANGED stream
       PROVE  HandlesInv'
  <2> DEFINE r == [d.st EXCEPT !.bind = left]
  <2>1. /\ r \in StatementType /\ r.live = d.st.live /\ r.ref = d.st.ref
        /\ r.epoch = d.st.epoch /\ r.prepared = d.st.prepared /\ r.query = d.st.query
    BY <1>7 DEF StatementType
  <2>2. stmt' = [stmt EXCEPT ![s] = r]
    BY <1>10
  <2> HIDE DEF r
  <2> QED BY <1>2, <1>7, <1>8, <1>10, <2>1, <2>2, CallStep
<1>11. ASSUME NEW e \in BoundCall(d), RunRows(s, e) PROVE HandlesInv'
  <2>1. Good(s, e)
    BY <1>1, <1>8, <1>11, BoundCallIsGood
  <2> QED BY <1>2, <1>11, <2>1, RunRowsStep
<1> QED BY <1>6, <1>9, <1>10, <1>11

(* A stream that only moves on.                                            *)
LEMMA StreamMoves ==
  ASSUME HandlesInv, NEW t \in Streams, StartFetch(t) \/ FetchEnds(t)
  PROVE  HandlesInv'
<1>1. /\ touched' = 0 /\ UNCHANGED <<epoch, autocommit>> /\ stmt' = stmt /\ handle' = handle
      /\ touched' \in Handles \cup {0}
  BY DEF StartFetch, FetchEnds, Rest
<1>2. stream \in [Streams -> StreamType] /\ Sound(stmt, handle, stream)
  BY DEF HandlesInv, TypeOK
<1>3. /\ stream' \in [Streams -> StreamType]
      /\ \A u \in Streams : /\ stream'[u].kind = stream[u].kind /\ stream'[u].open = stream[u].open
                            /\ stream'[u].handle = stream[u].handle
                            /\ stream'[u].query = stream[u].query
  <2>1. stream[t] \in StreamType
    BY <1>2
  <2>2. CASE StartFetch(t)
    BY <1>2, <2>1, <2>2 DEF StartFetch, StreamType
  <2>3. CASE FetchEnds(t)
    BY <1>2, <2>1, <2>3 DEF FetchEnds, StreamType
  <2> QED BY <2>2, <2>3
<1> DEFINE new == stream'
<1> HIDE DEF new
<1>4. Apart(stmt, new) /\ Kept(handle, new)
  BY <1>2, <1>3 DEF Sound, Apart, Kept, new
<1>5. Counted(stmt, handle, new)
  <2>1. \A h \in Handles : /\ HasReader(new, h) <=> HasReader(stream, h)
                           /\ HasBound(new, h) <=> HasBound(stream, h)
    BY <1>3 DEF HasReader, HasBound, new
  <2> QED BY <1>2, <2>1 DEF Sound, Counted, Uses
<1>6. Sound(stmt, handle, new)
  BY <1>2, <1>3, <1>4, <1>5 DEF Sound, new
<1> QED BY <1>1, <1>6, SoundNext DEF new

(* A stream over one partition, on a handle of its own.                    *)
LEMMA ReadPartitionStep ==
  ASSUME HandlesInv, NEW t \in Streams, ReadPartition(t)
  PROVE  HandlesInv'
<1>1. /\ touched' = 0 /\ UNCHANGED <<epoch, autocommit>> /\ stmt' = stmt
      /\ touched' \in Handles \cup {0} /\ stream[t].kind = "none"
  BY DEF ReadPartition, Rest
<1>2. Sound(stmt, handle, stream) /\ handle \in [Handles -> HandleType]
  BY DEF HandlesInv, TypeOK
<1>3. PICK h \in Handles :
        /\ handle[h].refs = 0
        /\ handle' = [handle EXCEPT ![h] = [NewHandle EXCEPT !.cursor = t]]
        /\ stream' = [stream EXCEPT ![t] = [NoStream EXCEPT !.kind = "reader", !.handle = h,
                                                            !.open = TRUE]]
  BY DEF ReadPartition
<1> DEFINE v == [NoStream EXCEPT !.kind = "reader", !.handle = h, !.open = TRUE]
           g == [NewHandle EXCEPT !.cursor = t]
<1>4. v \in StreamType /\ v.kind = "reader" /\ v.handle = h /\ v.open /\ OwnsOf(v) = 1
  <2>1. v \in StreamType /\ v.kind = "reader" /\ v.handle = h /\ v.open
    BY DEF NoStream, StreamType, AnyQuery
  <2> HIDE DEF v
  <2> QED BY <2>1 DEF OwnsOf
<1>5. g \in HandleType /\ g.refs = 1 /\ g.cursor = t
  BY DEF NewHandle, NoHandle, HandleType, AnyQuery
<1>6. /\ \A s \in Statements : stmt[s].ref # h
      /\ \A u \in Streams : stream[u].handle # h
  BY <1>2, <1>3, FreeHandle
<1>7. ~HasStatement(stmt, h)
  BY <1>6 DEF HasStatement
<1>8. stream[t].handle = 0 /\ OwnsOf(stream[t]) = 0
  BY <1>1, <1>2 DEF Sound, Apart, OwnsOf
<1>9. stream' = [stream EXCEPT ![t] = v] /\ handle' = [handle EXCEPT ![h] = g]
  BY <1>3
<1> HIDE DEF v, g
<1>10. /\ handle' \in [Handles -> HandleType] /\ handle'[h] = g
       /\ \A k \in Handles \ {h} : handle'[k] = handle[k]
  BY <1>2, <1>5, <1>9
<1>11. handle'[h].refs = (handle[h].refs - OwnsOf(stream[t])) + OwnsOf(v)
  <2>1. handle[h].refs = 0 /\ handle'[h].refs = 1
    BY <1>3, <1>5, <1>10
  <2> QED BY <1>4, <1>8, <2>1
<1>12. Sound(stmt, handle', [stream EXCEPT ![t] = v])
  <2> DEFINE ns == handle'
  <2>1. /\ ns \in [Handles -> HandleType] /\ \A k \in Handles \ {h} : ns[k] = handle[k]
        /\ ns[h].refs = (handle[h].refs - OwnsOf(stream[t])) + OwnsOf(v) /\ ns[h].cursor = t
    BY <1>5, <1>10, <1>11
  <2>2. v.kind # "none" /\ (v.kind = "reader" => v.open) /\ v.kind # "bound"
    BY <1>4
  <2> HIDE DEF ns
  <2>3. Sound(stmt, ns, [stream EXCEPT ![t] = v])
    BY <1>2, <1>4, <1>6, <1>7, <1>8, <2>1, <2>2, EditStream
  <2> QED BY <2>3 DEF ns
<1> QED BY <1>1, <1>9, <1>12, SoundNext


(* The handle of a stream that exists: the stream's references are among   *)
(* those counted, and if they are all of them no statement has the handle. *)
LEMMA StreamOwns ==
  ASSUME NEW ss, NEW hs, NEW sm, Sound(ss, hs, sm), NEW t \in Streams, sm[t].kind # "none"
  PROVE  /\ sm[t].handle \in Handles /\ OwnsOf(sm[t]) \in Nat /\ OwnsOf(sm[t]) >= 1
         /\ hs[sm[t].handle].refs \in Nat /\ hs[sm[t].handle].refs >= OwnsOf(sm[t])
         /\ hs[sm[t].handle].refs = OwnsOf(sm[t]) => ~HasStatement(ss, sm[t].handle)
<1> DEFINE h == sm[t].handle
<1>1. /\ h \in Handles /\ sm[t].open \in BOOLEAN /\ sm[t].kind \in {"reader", "bound"}
      /\ sm[t].kind = "reader" => sm[t].open
  BY DEF Sound, Apart, StreamType
<1>2. OwnsOf(sm[t]) \in Nat /\ OwnsOf(sm[t]) >= 1
  BY <1>1 DEF OwnsOf
<1>3. \A u \in Streams : sm[u].handle = h => u = t
  BY <1>1, HandlesAssumption DEF Sound, Apart
<1>4. /\ HasReader(sm, h) <=> sm[t].open
      /\ HasBound(sm, h) <=> sm[t].kind = "bound"
  BY <1>3 DEF HasReader, HasBound
<1>5. hs[h].refs = Uses(ss, sm, h)
  BY <1>1 DEF Sound, Counted
<1>6. Uses(ss, sm, h) = (IF HasStatement(ss, h) THEN 1 ELSE 0) + OwnsOf(sm[t])
  BY <1>4 DEF Uses, OwnsOf
<1> QED BY <1>1, <1>2, <1>5, <1>6

(* ReaderRelease, BoundReaderFree.                                         *)
LEMMA StreamReleaseStep ==
  ASSUME HandlesInv, NEW t \in Streams, StreamRelease(t)
  PROVE  HandlesInv'
<1> DEFINE h  == stream[t].handle
           n  == OwnsOf(stream[t])
           cs == [handle EXCEPT ![h].cursor = 0]
           ns == Unref(cs, h, n)
<1>1. /\ touched' = 0 /\ UNCHANGED <<epoch, autocommit>> /\ stmt' = stmt
      /\ touched' \in Handles \cup {0} /\ stream[t].kind # "none"
  BY DEF StreamRelease, Rest
<1>2. Sound(stmt, handle, stream) /\ handle \in [Handles -> HandleType]
  BY DEF HandlesInv, TypeOK
<1>3. /\ h \in Handles /\ n \in Nat /\ n >= 1 /\ handle[h].refs \in Nat /\ handle[h].refs >= n
      /\ handle[h].refs = n => ~HasStatement(stmt, h)
  BY <1>1, <1>2, StreamOwns
<1>4. handle' = ns /\ stream' = [stream EXCEPT ![t] = NoStream]
  BY DEF StreamRelease, Owns, OwnsOf
<1>5. /\ cs \in [Handles -> HandleType] /\ cs[h].refs = handle[h].refs
      /\ cs[h].prepared = handle[h].prepared /\ cs[h].dead = handle[h].dead
      /\ \A k \in Handles \ {h} : cs[k] = handle[k]
  BY <1>2, <1>3 DEF HandleType
<1> HIDE DEF cs, n
<1>6. /\ ns \in [Handles -> HandleType] /\ ns[h].refs = handle[h].refs - n
      /\ \A k \in Handles \ {h} : ns[k] = handle[k]
      /\ handle[h].refs # n => ns[h].prepared = handle[h].prepared /\ ns[h].dead = handle[h].dead
  BY <1>3, <1>5, UnrefFacts
<1>7. /\ NoStream \in StreamType /\ OwnsOf(NoStream) = 0 /\ ~NoStream.open
      /\ NoStream.kind # "bound"
  BY DEF NoStream, StreamType, AnyQuery, OwnsOf
<1> HIDE DEF ns
<1>8. ns[h].refs = (handle[h].refs - OwnsOf(stream[t])) + OwnsOf(NoStream)
  BY <1>3, <1>6, <1>7 DEF n
<1>9. HasStatement(stmt, h) => ns[h].prepared = handle[h].prepared /\ ns[h].dead = handle[h].dead
  BY <1>3, <1>6
<1>10. Sound(stmt, ns, [stream EXCEPT ![t] = NoStream])
  BY <1>2, <1>3, <1>6, <1>7, <1>8, <1>9, EditStream
<1> QED BY <1>1, <1>4, <1>10, SoundNext

(* The next row with a result set, or none: the reader's reference goes.   *)
LEMMA NextParameterRowStep ==
  ASSUME HandlesInv, NEW t \in Streams, NextParameterRow(t)
  PROVE  HandlesInv'
<1> DEFINE h  == stream[t].handle
<1>1. /\ touched' = 0 /\ UNCHANGED <<epoch, autocommit>> /\ stmt' = stmt
      /\ touched' \in Handles \cup {0} /\ stream[t].kind = "bound" /\ stream[t].open
  BY DEF NextParameterRow, Rest
<1>2. /\ Sound(stmt, handle, stream) /\ handle \in [Handles -> HandleType]
      /\ stream[t] \in StreamType
  BY DEF HandlesInv, TypeOK
<1>3. h \in Handles /\ handle[h].refs \in Nat /\ OwnsOf(stream[t]) = 2 /\ handle[h].refs >= 2
  BY <1>1, <1>2, StreamOwns DEF OwnsOf
<1>4. handle[h].cursor = t /\ handle[h].prepared = stream[t].query
  BY <1>1, <1>2 DEF Sound, Kept
<1>5. ASSUME NEW v \in StreamType, v.handle = h, v.kind = "bound", v.query = stream[t].query,
             v.open, stream' = [stream EXCEPT ![t] = v], handle' = handle
      PROVE  HandlesInv'
  <2>1. OwnsOf(v) = 2
    BY <1>5 DEF OwnsOf
  <2>2. handle[h].refs = (handle[h].refs - OwnsOf(stream[t])) + OwnsOf(v)
    BY <1>3, <2>1
  <2>3. v.handle = h /\ v.kind # "none" /\ (v.kind = "reader" => v.open)
    BY <1>5
  <2>4. Sound(stmt, handle, [stream EXCEPT ![t] = v])
    BY <1>2, <1>3, <1>4, <1>5, <2>2, <2>3, EditStream
  <2> QED BY <1>1, <1>5, <2>4, SoundNext
<1>6. CASE /\ stream' = [stream EXCEPT ![t].fetch = "not"]
           /\ handle' = [handle EXCEPT ![h].cursor = t]
  <2> DEFINE v == [stream[t] EXCEPT !.fetch = "not"]
  <2>1. handle' = handle
    BY <1>2, <1>3, <1>4, <1>6 DEF HandleType
  <2>2. v \in StreamType /\ v.handle = h /\ v.kind = "bound" /\ v.query = stream[t].query /\ v.open
    BY <1>1, <1>2 DEF StreamType
  <2>3. stream' = [stream EXCEPT ![t] = v]
    BY <1>6
  <2> HIDE DEF v
  <2> QED BY <1>5, <2>1, <2>2, <2>3
<1>7. CASE stream' = [stream EXCEPT ![t].done = TRUE] /\ UNCHANGED handle
  <2> DEFINE v == [stream[t] EXCEPT !.done = TRUE]
  <2>1. v \in StreamType /\ v.handle = h /\ v.kind = "bound" /\ v.query = stream[t].query /\ v.open
    BY <1>1, <1>2 DEF StreamType
  <2>2. stream' = [stream EXCEPT ![t] = v]
    BY <1>7
  <2> HIDE DEF v
  <2> QED BY <1>5, <1>7, <2>1, <2>2
<1>8. CASE /\ stream' = [stream EXCEPT ![t].open = FALSE, ![t].done = TRUE]
           /\ handle' = [Unref(handle, h, 1) EXCEPT ![h].cursor = 0]
  <2> DEFINE v  == [stream[t] EXCEPT !.open = FALSE, !.done = TRUE]
             us == Unref(handle, h, 1)
             ns == [us EXCEPT ![h].cursor = 0]
  <2>1. v \in StreamType /\ v.handle = h /\ v.kind = "bound" /\ v.query = stream[t].query /\ ~v.open
    BY <1>1, <1>2 DEF StreamType
  <2>2. stream' = [stream EXCEPT ![t] = v]
    BY <1>2, <1>8
  <2>3. /\ us \in [Handles -> HandleType] /\ us[h].refs = handle[h].refs - 1
        /\ \A k \in Handles \ {h} : us[k] = handle[k]
        /\ us[h].prepared = handle[h].prepared /\ us[h].dead = handle[h].dead
    BY <1>2, <1>3, UnrefFacts
  <2> HIDE DEF us
  <2>4. /\ ns \in [Handles -> HandleType] /\ ns[h].refs = handle[h].refs - 1
        /\ \A k \in Handles \ {h} : ns[k] = handle[k]
        /\ ns[h].prepared = handle[h].prepared /\ ns[h].dead = handle[h].dead
    BY <1>3, <2>3 DEF HandleType
  <2>5. handle' = ns
    BY <1>8 DEF us
  <2> HIDE DEF v, ns
  <2>6. OwnsOf(v) = 1
    BY <2>1 DEF OwnsOf
  <2>7. ns[h].refs = (handle[h].refs - OwnsOf(stream[t])) + OwnsOf(v)
    BY <1>3, <2>4, <2>6
  <2>8. v.handle = h /\ v.kind # "none" /\ (v.kind = "reader" => v.open) /\ ns[h].prepared = v.query
    BY <1>4, <2>1, <2>4
  <2>9. Sound(stmt, ns, [stream EXCEPT ![t] = v])
    <3>1. /\ stream[t].handle = h /\ (v.open => ns[h].cursor = t)
          /\ (v.kind = "bound" => ns[h].prepared = v.query)
          /\ (HasStatement(stmt, h) => ns[h].prepared = handle[h].prepared
                                         /\ ns[h].dead = handle[h].dead)
          /\ v.handle = h /\ v.kind # "none" /\ (v.kind = "reader" => v.open)
      BY <2>1, <2>4, <2>8
    <3> HIDE DEF h
    <3> QED BY <1>2, <1>3, <2>1, <2>4, <2>7, <3>1, EditStream
  <2> QED BY <1>1, <2>2, <2>5, <2>9, SoundNext
<1> QED BY <1>6, <1>7, <1>8 DEF NextParameterRow


(* Rollback: what a statement last used before it is now in an old epoch.  *)
LEMMA RollbackStep == HandlesInv /\ Rollback => HandlesInv'
<1> SUFFICES ASSUME HandlesInv, Rollback PROVE HandlesInv'
  OBVIOUS
<1> DEFINE ns == Spoil(handle, "rollback")
<1>1. /\ handle' = ns /\ epoch' = epoch + 1 /\ touched' = 0 /\ epoch' \in 0..MaxEpoch
      /\ UNCHANGED <<stmt, stream, autocommit>> /\ epoch \in Nat
  BY HandlesAssumption DEF Rollback, HandlesInv, TypeOK
<1>2. Sound(stmt, handle, stream)
  BY DEF HandlesInv
<1>3. ns \in [Handles -> HandleType] /\ Counted(stmt, ns, stream) /\ Kept(ns, stream)
  BY <1>2, SpoilKeeps
<1>4. \A h \in Handles : ns[h].prepared = handle[h].prepared
  BY <1>2, SpoilFacts DEF Sound
<1> HIDE DEF ns
<1>5. TypeOK'
  BY <1>1, <1>3 DEF HandlesInv, TypeOK
<1>6. Known(stmt, handle)'
  <2>1. \A s \in Statements : stmt[s].ref \in Handles \cup {0} /\ stmt[s].epoch \in Nat
    BY HandlesAssumption DEF HandlesInv, TypeOK, StatementType
  <2> QED BY <1>1, <1>2, <1>4, <2>1 DEF Sound, Known
<1>7. Sound(stmt, handle, stream)'
  BY <1>1, <1>2, <1>3, <1>5, <1>6 DEF Sound, TypeOK, Apart, Counted, Kept, Uses, HasStatement,
     HasReader, HasBound
<1> QED BY <1>5, <1>7 DEF HandlesInv

(* Every step preserves the invariant.                                     *)
LEMMA HandlesStep == HandlesInv /\ [Next]_vars => HandlesInv'
<1> SUFFICES ASSUME HandlesInv, [Next]_vars PROVE HandlesInv'
  OBVIOUS
<1>1. CASE UNCHANGED vars
  BY <1>1 DEF vars, HandlesInv, TypeOK, Sound, Apart, Counted, Known, Kept, Uses, HasStatement,
     HasReader, HasBound
<1>2. ASSUME NEW s \in Statements, StatementCall(s) PROVE HandlesInv'
  BY <1>2, StatementEditStep, PrepareStep, ExecuteQueryStep, BoundStep, IngestStep
     DEF StatementCall
<1>3. ASSUME NEW t \in Streams, StreamCall(t) PROVE HandlesInv'
  BY <1>3, ReadPartitionStep, StreamMoves, NextParameterRowStep, StreamReleaseStep DEF StreamCall
<1>4. ASSUME NEW on \in BOOLEAN, SetAutocommit(on) PROVE HandlesInv'
  BY <1>4 DEF SetAutocommit, HandlesInv, TypeOK, Sound, Apart, Counted, Known, Kept, Uses,
     HasStatement, HasReader, HasBound
<1>5. CASE Rollback
  BY <1>5, RollbackStep
<1> QED BY <1>1, <1>2, <1>3, <1>4, <1>5 DEF Next

(* No statement has a handle at first.                                     *)
LEMMA HandlesInit == Init => HandlesInv
<1> SUFFICES ASSUME Init PROVE HandlesInv
  OBVIOUS
<1>1. /\ NewStatement \in StatementType /\ NewStatement.ref = 0 /\ ~NewStatement.prepared
      /\ NewStatement.epoch = 0
  BY HandlesAssumption DEF NewStatement, StatementType, AnyQuery
<1>2. NoHandle \in HandleType /\ NoHandle.refs = 0
  BY DEF NoHandle, HandleType, AnyQuery
<1>3. /\ NoStream \in StreamType /\ NoStream.kind = "none" /\ NoStream.handle = 0
      /\ NoStream.open = FALSE
  BY DEF NoStream, StreamType, AnyQuery
<1>4. TypeOK
  BY <1>1, <1>2, <1>3, HandlesAssumption DEF Init, TypeOK
<1>5. /\ \A s \in Statements : stmt[s] = NewStatement
      /\ \A t \in Streams : stream[t] = NoStream
      /\ \A h \in Handles : handle[h] = NoHandle
      /\ epoch = 0
  BY DEF Init
<1>6. Apart(stmt, stream) /\ Known(stmt, handle) /\ Kept(handle, stream)
  BY <1>1, <1>3, <1>5 DEF Apart, Known, Kept
<1>7. Counted(stmt, handle, stream)
  <2>1. \A h \in Handles : /\ ~HasStatement(stmt, h) /\ ~HasReader(stream, h)
                           /\ ~HasBound(stream, h)
    BY <1>1, <1>3, <1>5, HandlesAssumption DEF HasStatement, HasReader, HasBound
  <2> QED BY <1>2, <1>5, <2>1 DEF Counted, Uses
<1> QED BY <1>4, <1>6, <1>7 DEF HandlesInv, Sound, TypeOK

-----------------------------------------------------------------------------
(* Statements, handles and streams stay sound: in particular of their      *)
(* types, and no handle has two statements or two streams.                 *)
THEOREM HandlesAlways == Spec => []HandlesInv
BY HandlesInit, HandlesStep, PTL DEF Spec

(* A handle that no owner of a sort has twice is counted once for each.    *)
LEMMA AtMostOne ==
  ASSUME NEW S, IsFiniteSet(S), \A x, y \in S : x = y
  PROVE  Cardinality(S) = IF S = {} THEN 0 ELSE 1
<1>1. CASE S = {}
  BY <1>1, FS_EmptySet
<1>2. CASE S # {}
  <2>1. PICK x \in S : TRUE
    BY <1>2
  <2>2. S = {x}
    BY <2>1
  <2> QED BY <1>2, <2>2, FS_Singleton
<1> QED BY <1>1, <1>2

(* A handle's count is the number of its owners: the last one to let go    *)
(* frees it, and nobody before.                                            *)
THEOREM RefsAreOwnersAlways == Spec => []RefsAreOwners
<1>1. HandlesInv => RefsAreOwners
  <2> SUFFICES ASSUME HandlesInv, NEW h \in Handles PROVE handle[h].refs = Owners(h)
    BY DEF RefsAreOwners
  <2> DEFINE A == {s \in Statements : stmt[s].ref = h}
             B == {t \in Streams : stream[t].handle = h /\ stream[t].open}
             C == {t \in Streams : stream[t].handle = h /\ stream[t].kind = "bound"}
  <2>1. IsFiniteSet(A) /\ IsFiniteSet(B) /\ IsFiniteSet(C)
    BY HandlesAssumption, FS_Subset
  <2>2. Apart(stmt, stream) /\ h # 0
    BY HandlesAssumption DEF HandlesInv, Sound
  <2>3. /\ \A x, y \in A : x = y
        /\ \A x, y \in B : x = y
        /\ \A x, y \in C : x = y
    BY <2>2 DEF Apart
  <2>4. /\ A # {} <=> HasStatement(stmt, h)
        /\ B # {} <=> HasReader(stream, h)
        /\ C # {} <=> HasBound(stream, h)
    BY DEF HasStatement, HasReader, HasBound
  <2>5. handle[h].refs = Uses(stmt, stream, h)
    BY DEF HandlesInv, Sound, Counted
  <2>6. Owners(h) = Cardinality(A) + Cardinality(B) + Cardinality(C)
    BY DEF Owners
  <2> HIDE DEF A, B, C
  <2>7. /\ Cardinality(A) = (IF A = {} THEN 0 ELSE 1)
        /\ Cardinality(B) = (IF B = {} THEN 0 ELSE 1)
        /\ Cardinality(C) = (IF C = {} THEN 0 ELSE 1)
    BY <2>1, <2>3, AtMostOne
  <2> QED BY <2>4, <2>5, <2>6, <2>7 DEF Uses
<1> QED BY <1>1, HandlesAlways, PTL

(* SQLExecute never runs another query than the statement's.               *)
THEOREM PreparedIsCurrentAlways == Spec => []PreparedIsCurrent
<1>1. HandlesInv => PreparedIsCurrent
  BY DEF HandlesInv, Sound, Known, PreparedIsCurrent
<1> QED BY <1>1, HandlesAlways, PTL

(* A result stream keeps its cursor, and a bound one its query, whatever   *)
(* the statement and its connection are used for meanwhile.                *)
THEOREM StreamsKeepTheirResultAlways == Spec => []StreamsKeepTheirResult
<1>1. HandlesInv => StreamsKeepTheirResult
  BY DEF HandlesInv, Sound, Kept, StreamsKeepTheirResult
<1> QED BY <1>1, HandlesAlways, PTL

(* A handle spoiled by a rollback is of an older epoch than its            *)
(* connection's: EnsureHandle will not take it for a ready one.            *)
THEOREM RollbackIsNoticedAlways == Spec => []RollbackIsNoticed
<1>1. HandlesInv => RollbackIsNoticed
  <2> SUFFICES ASSUME HandlesInv, NEW s \in Statements, stmt[s].ref # 0,
                      handle[stmt[s].ref].dead = "rollback"
               PROVE  stmt[s].epoch # epoch
    BY DEF RollbackIsNoticed
  <2>1. stmt[s].epoch < epoch /\ stmt[s].epoch \in Nat /\ epoch \in Nat
    BY HandlesAssumption DEF HandlesInv, TypeOK, Sound, Known, StatementType
  <2> QED BY <2>1
<1> QED BY <1>1, HandlesAlways, PTL
=============================================================================
