------------------------ MODULE NodeRegistry_proofs ------------------------
(***************************************************************************)
(* Theorems about the registry of nodes, for any batches, heartbeats and   *)
(* numbers of restarts, ticks and losses.                                  *)
(***************************************************************************)
EXTENDS NodeRegistry, TLAPS

-----------------------------------------------------------------------------
(* Types; what the jobs are.                                               *)
RegisterJob == [kind : {"register"}, request : Request, isNew : BOOLEAN, record : Row]
HeartbeatJob == [kind : {"heartbeat"}, request : Request]
BatchJob == [kind : {"batch"}, request : {NoCall}, batch : Batch, at : Time]

Typed ==
  /\ edge \in [registered : BOOLEAN, state : State, seq : 0 .. MaxBeats,
               incarnation : 0 .. MaxEdgeRestarts, stopping : BOOLEAN]
  /\ call \in Request \cup {NoCall} /\ answer \in {"none", "ok", "missing"}
  /\ requests \subseteq Request
  /\ db \in Row /\ mem \in Row
  /\ now \in Time

(* A row of the database by itself.                                        *)
Proper(r) ==
  /\ r.statusAt <= r.lastSeen /\ r.metaAt <= r.lastSeen
  /\ ~r.known => r = NoRow

RowInv == Proper(db)

(* A record tells nothing that another one does not tell yet.              *)
Behind(r, s) ==
  /\ r.lastSeen <= s.lastSeen /\ r.seq <= s.seq /\ r.hbSeq <= s.hbSeq
  /\ r.metaAt <= s.metaAt /\ r.incarnation <= s.incarnation

(* The job under way brings the record forward, to the row if no batch was *)
(* replayed.                                                               *)
JobInv(job) ==
  /\ job \in RegisterJob \cup HeartbeatJob \cup BatchJob
  /\ Reconciled(job) \in Row
  /\ Behind(mem, Reconciled(job)) /\ Behind(Reconciled(job), db)
  /\ Reconciled(job).known = db.known
  /\ ~replayed => Reconciled(job) = db
  /\ job.kind = "heartbeat" => mem.known

MirrorInv ==
  /\ Behind(mem, db)
  /\ mem.known => db.known
  /\ jobs = {} => mem.known = db.known
  /\ jobs = {} /\ ~replayed => mem = db
  /\ jobs = {} \/ \E job : jobs = {job}
  /\ \A job \in jobs : JobInv(job)

(* When which incarnation was heard of: a later time is never the time of  *)
(* an earlier incarnation.                                                 *)
Stamp(t, i) == [at |-> t, incarnation |-> i]
Stamps ==
  {Stamp(r.at, r.incarnation) : r \in requests}
  \cup {Stamp(db.metaAt, db.incarnation), Stamp(0, 0), Stamp(now, edge.incarnation)}

StampInv ==
  \A s, t \in Stamps : /\ s.at >= t.at => s.incarnation >= t.incarnation
                       /\ s.at <= now

RegistryInv == Typed /\ RowInv /\ MirrorInv /\ StampInv

-----------------------------------------------------------------------------
(* Fields of a row that change, one or a few at a time.                    *)
LEMMA Larger ==
  ASSUME NEW a \in Int, NEW b \in Int
  PROVE  Later(a, b) \in {a, b} /\ Later(a, b) >= a /\ Later(a, b) >= b
BY DEF Later

LEMMA RowForm ==
  ASSUME NEW r \in Row
  PROVE  r = [known |-> r.known, lastSeen |-> r.lastSeen, status |-> r.status,
              statusAt |-> r.statusAt, seq |-> r.seq, hbSeq |-> r.hbSeq,
              incarnation |-> r.incarnation, metaAt |-> r.metaAt]
BY DEF Row

LEMMA SameRow ==
  ASSUME NEW r \in Row, NEW s \in Row,
         r.known = s.known, r.lastSeen = s.lastSeen, r.status = s.status,
         r.statusAt = s.statusAt, r.seq = s.seq, r.hbSeq = s.hbSeq,
         r.incarnation = s.incarnation, r.metaAt = s.metaAt
  PROVE  r = s
BY RowForm

LEMMA NoRowFacts == NoRow \in Row /\ ~NoRow.known
BY RegistryAssumption DEF NoRow, Row, Time

LEMMA EnrolledForm ==
  ASSUME NEW q \in Request
  PROVE  /\ Enrolled(q) \in Row
         /\ Enrolled(q) = [known |-> TRUE, lastSeen |-> q.at, status |-> "healthy",
              statusAt |-> 0, seq |-> 0, hbSeq |-> 0,
              incarnation |-> q.incarnation, metaAt |-> q.at]
<1> DEFINE r1 == [NoRow EXCEPT !.known = TRUE, !.lastSeen = q.at]
           r2 == [r1 EXCEPT !.metaAt = q.at, !.incarnation = q.incarnation]
<1>1. /\ q.at \in Time /\ q.incarnation \in 0 .. MaxEdgeRestarts
      /\ NoRow.status = "healthy" /\ NoRow.statusAt = 0 /\ NoRow.seq = 0 /\ NoRow.hbSeq = 0
  BY DEF Request, NoRow
<1>2. /\ r1 \in Row /\ r1.known = TRUE /\ r1.lastSeen = q.at /\ r1.status = NoRow.status
      /\ r1.statusAt = NoRow.statusAt /\ r1.seq = NoRow.seq /\ r1.hbSeq = NoRow.hbSeq
  BY <1>1, NoRowFacts DEF Row
<1>3. Enrolled(q) = r2
  BY NoRowFacts DEF Enrolled, Row
<1> HIDE DEF r1
<1>4. /\ r2 \in Row /\ r2.known = r1.known /\ r2.lastSeen = r1.lastSeen
      /\ r2.status = r1.status /\ r2.statusAt = r1.statusAt /\ r2.seq = r1.seq
      /\ r2.hbSeq = r1.hbSeq /\ r2.metaAt = q.at /\ r2.incarnation = q.incarnation
  BY <1>1, <1>2 DEF Row
<1> HIDE DEF r2
<1>5. r2 = [known |-> r2.known, lastSeen |-> r2.lastSeen, status |-> r2.status,
            statusAt |-> r2.statusAt, seq |-> r2.seq, hbSeq |-> r2.hbSeq,
            incarnation |-> r2.incarnation, metaAt |-> r2.metaAt]
  BY <1>4, RowForm
<1> QED  BY <1>1, <1>2, <1>3, <1>4, <1>5

LEMMA MergedForm ==
  ASSUME NEW r \in Row, NEW q \in Row
  PROVE  /\ Merged(r, q) \in Row
         /\ Merged(r, q).known = r.known
         /\ Merged(r, q).lastSeen = Later(r.lastSeen, q.lastSeen)
         /\ Merged(r, q).status = r.status
         /\ Merged(r, q).statusAt = r.statusAt
         /\ Merged(r, q).seq = Later(r.seq, q.seq)
         /\ Merged(r, q).hbSeq = Later(r.hbSeq, q.hbSeq)
         /\ Merged(r, q).incarnation = (IF Advances(r, q) THEN q.incarnation ELSE r.incarnation)
         /\ Merged(r, q).metaAt = (IF Advances(r, q) THEN q.metaAt ELSE r.metaAt)
BY DEF Merged, Row, Later

LEMMA BeatenForm ==
  ASSUME NEW r \in Row, NEW q \in Request
  PROVE  /\ Beaten(r, q) \in Row
         /\ Beaten(r, q).known = r.known
         /\ Beaten(r, q).lastSeen = (IF Newer(r, q) THEN q.at ELSE r.lastSeen)
         /\ Beaten(r, q).status = (IF Newer(r, q) THEN q.status ELSE r.status)
         /\ Beaten(r, q).statusAt = (IF Newer(r, q) THEN q.at ELSE r.statusAt)
         /\ Beaten(r, q).seq = r.seq
         /\ Beaten(r, q).hbSeq = Later(r.hbSeq, q.seq)
         /\ Beaten(r, q).incarnation = r.incarnation
         /\ Beaten(r, q).metaAt = r.metaAt
BY DEF Beaten, Row, Request, Later

LEMMA ActiveForm ==
  ASSUME NEW r \in Row, r.known, NEW batch \in Batch, NEW at \in Time
  PROVE  /\ Active(r, batch, at) \in Row
         /\ Active(r, batch, at).known = r.known
         /\ Active(r, batch, at).lastSeen = Later(r.lastSeen, at)
         /\ Active(r, batch, at).status = r.status
         /\ Active(r, batch, at).statusAt = r.statusAt
         /\ Active(r, batch, at).seq = Later(r.seq, batch)
         /\ Active(r, batch, at).hbSeq = r.hbSeq
         /\ Active(r, batch, at).incarnation = r.incarnation
         /\ Active(r, batch, at).metaAt = r.metaAt
BY DEF Active, Row, Later

-----------------------------------------------------------------------------
(* What the three ways to write a row do to a row of the database, and to  *)
(* a record of the map that is behind it.                                  *)
LEMMA RowTypes ==
  ASSUME NEW r \in Row
  PROVE  /\ r.lastSeen \in Int /\ r.statusAt \in Int /\ r.metaAt \in Int
         /\ r.seq \in Int /\ r.hbSeq \in Int /\ r.incarnation \in Int
<1>1. Time \subseteq Int /\ Batch \cup {0} \subseteq Int
      /\ 0 .. MaxBeats \subseteq Int /\ 0 .. MaxEdgeRestarts \subseteq Int
  BY RegistryAssumption DEF Time
<1> QED  BY <1>1 DEF Row

LEMMA RequestTypes ==
  ASSUME NEW q \in Request
  PROVE  q.at \in Int /\ q.at >= 0 /\ q.seq \in Int /\ q.incarnation \in Int
         /\ q.incarnation >= 0 /\ q.at \in Time /\ q.seq \in 0 .. MaxBeats
BY RegistryAssumption DEF Request, Time

(* A row after one of the ways is proper, ahead of the row before, and no  *)
(* older status or other process is shown.                                 *)
Follows(d, r) ==
  d \in Row /\ Proper(d) /\ Behind(r, d) /\ r.statusAt <= d.statusAt

LEMMA NothingBefore ==
  ASSUME NEW d \in Row
  PROVE  Behind(NoRow, d) /\ NoRow.statusAt <= d.statusAt
<1>1. \A t \in Time \cup Batch \cup {0} : t \in Nat
  BY RegistryAssumption DEF Time
<1>2. /\ d.lastSeen \in Nat /\ d.statusAt \in Nat /\ d.metaAt \in Nat /\ d.seq \in Nat
      /\ d.hbSeq \in Nat /\ d.incarnation \in Nat
  BY <1>1, RegistryAssumption DEF Row
<1>3. /\ NoRow.lastSeen = 0 /\ NoRow.statusAt = 0 /\ NoRow.metaAt = 0 /\ NoRow.seq = 0
      /\ NoRow.hbSeq = 0 /\ NoRow.incarnation = 0
  BY DEF NoRow
<1> QED  BY <1>2, <1>3 DEF Behind

LEMMA MergeCatchesUp ==
  ASSUME NEW m \in Row, NEW d \in Row, Behind(m, d)
  PROVE  /\ Merged(m, d) \in Row /\ Merged(m, d).known = m.known
         /\ Behind(m, Merged(m, d)) /\ Behind(Merged(m, d), d)
<1>1. Advances(m, d)
  BY RowTypes DEF Advances, Behind
<1>2. /\ Later(m.lastSeen, d.lastSeen) = d.lastSeen
      /\ Later(m.seq, d.seq) = d.seq /\ Later(m.hbSeq, d.hbSeq) = d.hbSeq
  BY RowTypes DEF Behind, Later
<1> DEFINE x == Merged(m, d)
<1>3. /\ x \in Row /\ x.known = m.known /\ x.lastSeen = d.lastSeen /\ x.seq = d.seq
      /\ x.hbSeq = d.hbSeq /\ x.metaAt = d.metaAt /\ x.incarnation = d.incarnation
  BY <1>1, <1>2, MergedForm
<1> HIDE DEF x
<1>4. Behind(m, x) /\ Behind(x, d)
  BY <1>3, RowTypes DEF Behind
<1> QED  BY <1>3, <1>4 DEF x

LEMMA RegisteredFollows ==
  ASSUME NEW r \in Row, Proper(r), NEW q \in Request,
         q.at >= r.metaAt => q.incarnation >= r.incarnation
  PROVE  /\ Follows(Registered(r, q), r) /\ Registered(r, q).known
         /\ Stamp(Registered(r, q).metaAt, Registered(r, q).incarnation) \in
              {Stamp(q.at, q.incarnation), Stamp(r.metaAt, r.incarnation)}
         /\ r.known => Merged(r, Registered(r, q)) = Registered(r, q)
<1> DEFINE e == Enrolled(q)
<1>1. /\ e \in Row /\ e.known = TRUE /\ e.lastSeen = q.at /\ e.statusAt = 0 /\ e.seq = 0
      /\ e.hbSeq = 0 /\ e.incarnation = q.incarnation /\ e.metaAt = q.at
  BY EnrolledForm
<1>2. q.at \in Int /\ q.at >= 0
  BY RequestTypes
<1> HIDE DEF e
<1>3. CASE ~r.known
  <2>1. r = NoRow /\ Registered(r, q) = e
    BY <1>3 DEF Proper, Registered, e
  <2>2. Proper(e)
    BY <1>1, <1>2 DEF Proper
  <2> QED  BY <1>1, <1>3, <2>1, <2>2, NothingBefore DEF Follows
<1>4. CASE r.known
  <2> DEFINE d == Merged(r, e)
  <2>1. Registered(r, q) = d
    BY <1>4 DEF Registered, e
  <2>2. /\ d \in Row /\ d.known = r.known /\ d.lastSeen = Later(r.lastSeen, q.at)
        /\ d.status = r.status /\ d.statusAt = r.statusAt
        /\ d.seq = Later(r.seq, 0) /\ d.hbSeq = Later(r.hbSeq, 0)
        /\ d.incarnation = (IF Advances(r, e) THEN q.incarnation ELSE r.incarnation)
        /\ d.metaAt = (IF Advances(r, e) THEN q.at ELSE r.metaAt)
    BY <1>1, MergedForm
  <2> HIDE DEF d
  <2>3. Advances(r, e) <=> q.at >= r.metaAt
    BY <1>1 DEF Advances
  <2>4. /\ r.statusAt <= r.lastSeen /\ r.metaAt <= r.lastSeen
        /\ Later(r.lastSeen, q.at) >= r.lastSeen /\ Later(r.lastSeen, q.at) >= q.at
        /\ Later(r.seq, 0) >= r.seq /\ Later(r.hbSeq, 0) >= r.hbSeq
    BY <1>2, RowTypes, Larger DEF Proper
  <2>5. Proper(d) /\ Behind(r, d)
    BY <1>2, <1>4, <2>2, <2>3, <2>4, RowTypes, RequestTypes DEF Proper, Behind
  <2>6. r.statusAt <= d.statusAt
    BY <2>2, RowTypes
  <2>7. Stamp(d.metaAt, d.incarnation) \in
          {Stamp(q.at, q.incarnation), Stamp(r.metaAt, r.incarnation)}
    BY <2>2
  <2>8. Merged(r, d) = d
    <3>1. /\ Later(r.lastSeen, d.lastSeen) = d.lastSeen
          /\ Later(r.seq, d.seq) = d.seq /\ Later(r.hbSeq, d.hbSeq) = d.hbSeq
          /\ Advances(r, d)
      BY <2>2, <2>5, RowTypes DEF Behind, Later, Advances
    <3>2. /\ Merged(r, d) \in Row /\ Merged(r, d).known = d.known
          /\ Merged(r, d).lastSeen = d.lastSeen /\ Merged(r, d).status = d.status
          /\ Merged(r, d).statusAt = d.statusAt /\ Merged(r, d).seq = d.seq
          /\ Merged(r, d).hbSeq = d.hbSeq /\ Merged(r, d).incarnation = d.incarnation
          /\ Merged(r, d).metaAt = d.metaAt
      BY <2>2, <3>1, MergedForm
    <3> QED  BY <2>2, <3>2, SameRow
  <2> QED  BY <1>4, <2>1, <2>2, <2>5, <2>6, <2>7, <2>8 DEF Follows
<1> QED  BY <1>3, <1>4

LEMMA BeatenFollows ==
  ASSUME NEW r \in Row, Proper(r), r.known, NEW q \in Request
  PROVE  /\ Follows(Beaten(r, q), r) /\ Beaten(r, q).known
         /\ Beaten(r, q).metaAt = r.metaAt /\ Beaten(r, q).incarnation = r.incarnation
<1> DEFINE d == Beaten(r, q)
<1>1. /\ d \in Row /\ d.known = r.known /\ d.seq = r.seq /\ d.hbSeq = Later(r.hbSeq, q.seq)
      /\ d.lastSeen = (IF Newer(r, q) THEN q.at ELSE r.lastSeen)
      /\ d.statusAt = (IF Newer(r, q) THEN q.at ELSE r.statusAt)
      /\ d.incarnation = r.incarnation /\ d.metaAt = r.metaAt
  BY BeatenForm
<1> HIDE DEF d
<1>2. /\ r.statusAt <= r.lastSeen /\ r.metaAt <= r.lastSeen
      /\ Later(r.hbSeq, q.seq) >= r.hbSeq /\ (Newer(r, q) => q.at >= r.lastSeen)
  BY RowTypes, RequestTypes, Larger DEF Proper, Newer
<1>3. Proper(d) /\ Behind(r, d) /\ r.statusAt <= d.statusAt
  BY <1>1, <1>2, RowTypes, RequestTypes DEF Proper, Behind
<1> QED  BY <1>1, <1>3 DEF Follows, d

LEMMA BeatenCatchesUp ==
  ASSUME NEW m \in Row, NEW d \in Row, Behind(m, d), NEW q \in Request
  PROVE  /\ Beaten(m, q) \in Row /\ Beaten(m, q).known = m.known
         /\ Behind(m, Beaten(m, q)) /\ Behind(Beaten(m, q), Beaten(d, q))
<1> DEFINE x == Beaten(m, q)
           y == Beaten(d, q)
<1>1. /\ x \in Row /\ x.known = m.known /\ x.seq = m.seq /\ x.hbSeq = Later(m.hbSeq, q.seq)
      /\ x.lastSeen = (IF Newer(m, q) THEN q.at ELSE m.lastSeen)
      /\ x.incarnation = m.incarnation /\ x.metaAt = m.metaAt
  BY BeatenForm
<1>2. /\ y \in Row /\ y.seq = d.seq /\ y.hbSeq = Later(d.hbSeq, q.seq)
      /\ y.lastSeen = (IF Newer(d, q) THEN q.at ELSE d.lastSeen)
      /\ y.incarnation = d.incarnation /\ y.metaAt = d.metaAt
  BY BeatenForm
<1> HIDE DEF x, y
<1>3. Later(m.hbSeq, q.seq) >= m.hbSeq /\ Later(m.hbSeq, q.seq) <= Later(d.hbSeq, q.seq)
  BY RowTypes, RequestTypes DEF Later, Behind
<1>4. /\ (IF Newer(m, q) THEN q.at ELSE m.lastSeen) >= m.lastSeen
      /\ (IF Newer(m, q) THEN q.at ELSE m.lastSeen) <= (IF Newer(d, q) THEN q.at ELSE d.lastSeen)
  BY RowTypes, RequestTypes DEF Newer, Behind
<1>5. Behind(m, x) /\ Behind(x, y)
  BY <1>1, <1>2, <1>3, <1>4, RowTypes DEF Behind
<1> QED  BY <1>1, <1>5 DEF x, y

LEMMA ActiveFollows ==
  ASSUME NEW r \in Row, Proper(r), NEW batch \in Batch, NEW at \in Time
  PROVE  /\ Follows(Active(r, batch, at), r) /\ Active(r, batch, at).known = r.known
         /\ Active(r, batch, at).metaAt = r.metaAt
         /\ Active(r, batch, at).incarnation = r.incarnation
<1> DEFINE d == Active(r, batch, at)
<1>1. batch \in Int /\ at \in Int
  BY RegistryAssumption DEF Time
<1>2. CASE r.known
  <2>1. /\ d \in Row /\ d.known = r.known /\ d.seq = Later(r.seq, batch) /\ d.hbSeq = r.hbSeq
        /\ d.lastSeen = Later(r.lastSeen, at) /\ d.statusAt = r.statusAt
        /\ d.incarnation = r.incarnation /\ d.metaAt = r.metaAt
    BY <1>2, ActiveForm
  <2> HIDE DEF d
  <2>2. /\ r.statusAt <= r.lastSeen /\ r.metaAt <= r.lastSeen
        /\ Later(r.seq, batch) >= r.seq /\ Later(r.lastSeen, at) >= r.lastSeen
    BY <1>1, RowTypes, Larger DEF Proper
  <2>3. Proper(d) /\ Behind(r, d) /\ r.statusAt <= d.statusAt
    BY <1>2, <2>1, <2>2, RowTypes DEF Proper, Behind
  <2> QED  BY <2>1, <2>3 DEF Follows, d
<1>3. CASE ~r.known
  <2>1. d = r /\ Behind(r, r) /\ r.statusAt <= r.statusAt
    BY <1>3, RowTypes DEF Active, Behind
  <2> QED  BY <2>1 DEF Follows
<1> QED  BY <1>2, <1>3

LEMMA ActiveCatchesUp ==
  ASSUME NEW m \in Row, NEW d \in Row, Behind(m, d), m.known = d.known,
         NEW batch \in Batch, NEW at \in Time
  PROVE  /\ Active(m, batch, at) \in Row /\ Active(m, batch, at).known = m.known
         /\ Behind(m, Active(m, batch, at)) /\ Behind(Active(m, batch, at), Active(d, batch, at))
<1> DEFINE x == Active(m, batch, at)
           y == Active(d, batch, at)
<1>1. batch \in Int /\ at \in Int
  BY RegistryAssumption DEF Time
<1>2. CASE m.known
  <2>1. /\ x \in Row /\ x.known = m.known /\ x.seq = Later(m.seq, batch) /\ x.hbSeq = m.hbSeq
        /\ x.lastSeen = Later(m.lastSeen, at) /\ x.incarnation = m.incarnation
        /\ x.metaAt = m.metaAt
    BY <1>2, ActiveForm
  <2>2. /\ y \in Row /\ y.seq = Later(d.seq, batch) /\ y.hbSeq = d.hbSeq
        /\ y.lastSeen = Later(d.lastSeen, at) /\ y.incarnation = d.incarnation
        /\ y.metaAt = d.metaAt
    BY <1>2, ActiveForm
  <2> HIDE DEF x, y
  <2>3. /\ Later(m.seq, batch) >= m.seq /\ Later(m.seq, batch) <= Later(d.seq, batch)
        /\ Later(m.lastSeen, at) >= m.lastSeen /\ Later(m.lastSeen, at) <= Later(d.lastSeen, at)
    BY <1>1, RowTypes DEF Later, Behind
  <2>4. Behind(m, x) /\ Behind(x, y)
    BY <2>1, <2>2, <2>3, RowTypes DEF Behind
  <2> QED  BY <2>1, <2>4 DEF x, y
<1>3. CASE ~m.known
  BY <1>3, RowTypes DEF Active, Behind
<1> QED  BY <1>2, <1>3

-----------------------------------------------------------------------------
LEMMA StampTypes ==
  ASSUME Typed
  PROVE  \A s \in Stamps : /\ s.at \in Int /\ s.at >= 0
                           /\ s.incarnation \in Int /\ s.incarnation >= 0
<1>1. \A q \in requests : q.at \in Nat /\ q.incarnation \in Nat
  BY RegistryAssumption DEF Typed, Request, Time
<1>2. /\ db.metaAt \in Nat /\ db.incarnation \in Nat /\ now \in Nat /\ edge.incarnation \in Nat
  BY RegistryAssumption DEF Typed, Row, Time
<1> QED  BY <1>1, <1>2 DEF Stamps, Stamp

(* The clock goes on, and the processes of the edge follow one another, at *)
(* different times; what is sent, and what is written, has a stamp of now  *)
(* or one that was there.                                                  *)
LEMMA StampsStay ==
  ASSUME Typed, Typed', StampInv,
         \/ now' = now /\ edge'.incarnation = edge.incarnation
         \/ now' > now /\ edge'.incarnation >= edge.incarnation,
         \A q \in requests' \ requests : q.at = now' /\ q.incarnation = edge'.incarnation,
         Stamp(db'.metaAt, db'.incarnation) \in Stamps
  PROVE  StampInv'
<1> DEFINE latest == Stamp(now', edge'.incarnation)
<1>1. latest.at = now' /\ latest.incarnation = edge'.incarnation
      /\ now \in Int /\ edge.incarnation \in Int /\ now' \in Int /\ edge'.incarnation \in Int
  BY RegistryAssumption DEF Stamp, Typed, Time
<1>2. Stamps' \subseteq Stamps \cup {latest}
  <2>1. \A q \in requests' : Stamp(q.at, q.incarnation) \in Stamps \cup {latest}
    BY DEF Stamps
  <2>2. Stamp(0, 0) \in Stamps
    BY DEF Stamps
  <2> QED  BY <2>1, <2>2 DEF Stamps
<1>3. \A s \in Stamps : s.at <= now /\ s.incarnation <= edge.incarnation
  <2>1. /\ Stamp(now, edge.incarnation) \in Stamps /\ Stamp(now, edge.incarnation).at = now
        /\ Stamp(now, edge.incarnation).incarnation = edge.incarnation
    BY DEF Stamps, Stamp
  <2> QED  BY <1>1, <2>1, StampTypes DEF StampInv
<1> HIDE DEF latest
<1>4. ASSUME NEW s \in Stamps', NEW t \in Stamps'
      PROVE  (s.at >= t.at => s.incarnation >= t.incarnation) /\ s.at <= now'
  <2>1. (s \in Stamps \/ s = latest) /\ (t \in Stamps \/ t = latest)
    BY <1>2
  <2>2. CASE s = latest
    BY <1>1, <1>3, <2>1, <2>2, StampTypes
  <2>3. CASE s \in Stamps /\ t \in Stamps
    BY <1>1, <1>3, <2>3, StampTypes DEF StampInv
  <2>4. CASE s \in Stamps /\ t = latest
    <3>1. CASE now' = now /\ edge'.incarnation = edge.incarnation
      <4>1. t \in Stamps
        BY <2>4, <3>1 DEF Stamps, latest
      <4> QED  BY <2>3, <2>4, <4>1
    <3>2. CASE now' > now
      BY <1>1, <1>3, <2>4, <3>2, StampTypes
    <3> QED  BY <3>1, <3>2
  <2> QED  BY <2>1, <2>2, <2>3, <2>4
<1> QED  BY <1>4 DEF StampInv

(* What is known of the order, of a request that is handled.               *)
LEMMA StampOrder ==
  ASSUME Typed, StampInv, NEW q \in requests
  PROVE  /\ q.at >= db.metaAt => q.incarnation >= db.incarnation
         /\ Stamp(q.at, q.incarnation) \in Stamps
         /\ Stamp(db.metaAt, db.incarnation) \in Stamps /\ Stamp(0, 0) \in Stamps
<1>1. /\ Stamp(q.at, q.incarnation) \in Stamps /\ Stamp(db.metaAt, db.incarnation) \in Stamps
      /\ Stamp(0, 0) \in Stamps
  BY DEF Stamps
<1>2. /\ Stamp(q.at, q.incarnation).at = q.at
      /\ Stamp(q.at, q.incarnation).incarnation = q.incarnation
      /\ Stamp(db.metaAt, db.incarnation).at = db.metaAt
      /\ Stamp(db.metaAt, db.incarnation).incarnation = db.incarnation
  BY DEF Stamp
<1> QED  BY <1>1, <1>2 DEF StampInv

LEMMA NInit == Init => RegistryInv
<1> SUFFICES ASSUME Init PROVE RegistryInv
  OBVIOUS
<1>1. Typed
  BY RegistryAssumption, NoRowFacts DEF Init, Typed, Started, State, Time
<1>2. RowInv
  BY RegistryAssumption DEF Init, RowInv, Proper, NoRow
<1>3. MirrorInv
  BY NoRowFacts, NothingBefore DEF Init, MirrorInv
<1>4. Stamps = {Stamp(0, 0)}
  BY DEF Init, Stamps, NoRow, Started
<1>5. StampInv
  BY <1>4 DEF Init, StampInv, Stamp
<1> QED  BY <1>1, <1>2, <1>3, <1>5 DEF RegistryInv

-----------------------------------------------------------------------------
(* The coordinator, the clock and losses leave row and record alone.       *)
LEMMA BesideKeeps ==
  ASSUME RegistryInv, UNCHANGED <<jobs, db, mem, replayed>>, Typed',
         \/ now' = now /\ edge'.incarnation = edge.incarnation
         \/ now' > now /\ edge'.incarnation >= edge.incarnation,
         \A q \in requests' \ requests : q.at = now' /\ q.incarnation = edge'.incarnation
  PROVE  RegistryInv'
<1>1. Typed /\ StampInv /\ Stamp(db'.metaAt, db'.incarnation) \in Stamps
  BY DEF RegistryInv, Stamps
<1>2. StampInv'
  BY <1>1, StampsStay
<1>3. RowInv'
  BY DEF RegistryInv, RowInv, Proper
<1>4. \A job : Reconciled(job)' = Reconciled(job)
  BY DEF Reconciled
<1>5. MirrorInv'
  BY <1>4 DEF RegistryInv, MirrorInv, JobInv
<1> QED  BY <1>2, <1>3, <1>5 DEF RegistryInv

LEMMA RegistrationFacts ==
  ASSUME Typed
  PROVE  Registration \in Request /\ Registration.at = now
         /\ Registration.incarnation = edge.incarnation
BY RegistryAssumption DEF Typed, Registration, Request

LEMMA SendKeeps ==
  ASSUME RegistryInv, AttemptRegistration \/ SendHeartbeat
  PROVE  RegistryInv'
<1>1. Typed
  BY DEF RegistryInv
<1>2. CASE AttemptRegistration
  <2>1. /\ edge' = [edge EXCEPT !.state = "CONNECTING"]
        /\ call' = Registration /\ answer' = "none" /\ requests' = requests \cup {Registration}
        /\ UNCHANGED <<jobs, db, mem, replayed, now>>
    BY <1>2 DEF AttemptRegistration, Send, counts
  <2>2. Typed' /\ edge'.incarnation = edge.incarnation
    BY <1>1, <2>1, RegistrationFacts DEF Typed, State
  <2> QED  BY <1>1, <2>1, <2>2, RegistrationFacts, BesideKeeps
<1>3. CASE SendHeartbeat
  <2> DEFINE seq == IF edge.seq < MaxBeats THEN edge.seq + 1 ELSE edge.seq
  <2>1. PICK status \in Health :
          Send([kind |-> "heartbeat", at |-> now, seq |-> seq, status |-> status,
                incarnation |-> edge.incarnation])
    BY <1>3 DEF SendHeartbeat
  <2> DEFINE beat == [kind |-> "heartbeat", at |-> now, seq |-> seq, status |-> status,
                      incarnation |-> edge.incarnation]
  <2>2. seq \in 0 .. MaxBeats
    BY <1>1, RegistryAssumption DEF Typed
  <2>3. /\ edge' = [edge EXCEPT !.seq = seq]
        /\ call' = beat /\ answer' = "none" /\ requests' = requests \cup {beat}
        /\ UNCHANGED <<jobs, db, mem, replayed, now>>
    BY <1>3, <2>1 DEF SendHeartbeat, Send, counts
  <2> HIDE DEF seq
  <2>4. beat \in Request /\ beat.at = now /\ beat.incarnation = edge.incarnation
    BY <1>1, <2>2 DEF Typed, Request
  <2> HIDE DEF beat
  <2>5. Typed' /\ edge'.incarnation = edge.incarnation
    BY <1>1, <2>2, <2>3, <2>4 DEF Typed
  <2> QED  BY <2>3, <2>4, <2>5, BesideKeeps
<1> QED  BY <1>2, <1>3

LEMMA AnswerKeeps ==
  ASSUME RegistryInv, Succeeds \/ NotFound \/ Fails
  PROVE  RegistryInv'
<1>1. Typed
  BY DEF RegistryInv
<1>2. UNCHANGED <<jobs, db, mem, replayed, now>>
  BY DEF Succeeds, NotFound, Fails, counts
<1>3. Typed' /\ edge'.incarnation = edge.incarnation
  <2>1. CASE Succeeds
    BY <1>1, <2>1 DEF Typed, Succeeds, State, counts
  <2>2. CASE NotFound
    BY <1>1, <2>2, RegistrationFacts DEF Typed, NotFound, Send, State, counts
  <2>3. CASE Fails
    BY <1>1, <2>3 DEF Typed, Fails, State
  <2> QED  BY <2>1, <2>2, <2>3
<1>4. \A q \in requests' \ requests : q.at = now' /\ q.incarnation = edge'.incarnation
  BY <1>1, <1>2, <1>3, RegistrationFacts DEF Succeeds, NotFound, Fails, Send
<1> QED  BY <1>2, <1>3, <1>4, BesideKeeps

LEMMA OthersKeep ==
  ASSUME RegistryInv, Stop \/ EdgeRestart \/ Lose \/ Tick
  PROVE  RegistryInv'
<1>1. Typed /\ now \in Int
  BY RegistryAssumption DEF RegistryInv, Typed, Time
<1>2. UNCHANGED <<jobs, db, mem, replayed>> /\ requests' \subseteq requests
  BY DEF Stop, EdgeRestart, Lose, Tick, counts, edgeVars
<1>3. /\ Typed'
      /\ \/ now' = now /\ edge'.incarnation = edge.incarnation
         \/ now' > now /\ edge'.incarnation >= edge.incarnation
  <2>1. CASE Stop
    BY <1>1, <2>1 DEF Typed, Stop, State, counts
  <2>2. CASE EdgeRestart
    <3>1. /\ edge' = Started(edge.incarnation + 1) /\ now' = now + 1
          /\ edge.incarnation + 1 \in 0 .. MaxEdgeRestarts /\ now + 1 \in Time
      BY <1>1, <2>2, RegistryAssumption DEF EdgeRestart, Typed, Time
    <3>2. edge'.incarnation = edge.incarnation + 1
      BY <3>1 DEF Started
    <3>3. 0 \in 0 .. MaxBeats
      BY RegistryAssumption
    <3> QED  BY <1>1, <1>2, <2>2, <3>1, <3>2, <3>3, RegistryAssumption
             DEF Typed, EdgeRestart, Started, State
  <2>3. CASE Lose
    BY <1>1, <1>2, <2>3 DEF Typed, Lose
  <2>4. CASE Tick
    BY <1>1, <2>4, RegistryAssumption DEF Typed, Tick, Time, edgeVars
  <2> QED  BY <2>1, <2>2, <2>3, <2>4
<1> QED  BY <1>2, <1>3, BesideKeeps

-----------------------------------------------------------------------------
LEMMA BehindOrder ==
  ASSUME NEW a \in Row, NEW b \in Row, NEW c \in Row
  PROVE  Behind(a, a) /\ (Behind(a, b) /\ Behind(b, c) => Behind(a, c))
BY RowTypes DEF Behind

(* A handler begins its second half.                                       *)
LEMMA JobStarts ==
  ASSUME RegistryInv, LockFree, NEW j \in RegisterJob \cup HeartbeatJob \cup BatchJob,
         jobs' = {j}, UNCHANGED <<mem, replayed>>,
         Follows(db', db), db.known => db'.known,
         Reconciled(j) \in Row, Behind(mem, Reconciled(j)), Behind(Reconciled(j), db'),
         Reconciled(j).known = db'.known, ~replayed => Reconciled(j) = db',
         j.kind = "heartbeat" => mem.known
  PROVE  MirrorInv' /\ RowInv'
<1>1. MirrorInv /\ Typed
  BY DEF RegistryInv
<1>2. Reconciled(j)' = Reconciled(j)
  BY DEF Reconciled
<1>3. JobInv(j)'
  BY <1>2 DEF JobInv
<1>4. Behind(mem', db')
  BY <1>1, BehindOrder DEF Follows, MirrorInv, Typed
<1>5. mem'.known => db'.known
  BY <1>1 DEF MirrorInv
<1> QED  BY <1>3, <1>4, <1>5 DEF MirrorInv, RowInv, Follows

LEMMA HandleRegisterKeeps ==
  ASSUME RegistryInv, NEW q \in requests, HandleRegister(q)
  PROVE  RegistryInv' /\ Follows(db', db)
<1>1. /\ Typed /\ Proper(db) /\ MirrorInv /\ StampInv /\ q \in Request
      /\ jobs = {} /\ LockFree /\ db' = Registered(db, q)
      /\ requests' = requests \ {q}
      /\ UNCHANGED <<edge, call, answer, mem, replayed, now>>
  BY DEF RegistryInv, RowInv, HandleRegister, LockFree, Typed, edgeVars, counts
<1> SUFFICES ASSUME NEW j, j = [kind |-> "register", request |-> q, isNew |-> ~db.known,
                                record |-> db']
             PROVE  RegistryInv' /\ Follows(db', db)
  OBVIOUS
<1>2. jobs' = {j}
  BY <1>1 DEF HandleRegister
<1>3. /\ Follows(db', db) /\ db'.known /\ db' \in Row /\ Behind(db, db')
      /\ Stamp(db'.metaAt, db'.incarnation) \in Stamps
      /\ db.known => Merged(db, db') = db'
  BY <1>1, StampOrder, RegisteredFollows DEF Follows, Typed
<1>4. Behind(mem, db')
  BY <1>1, <1>3, BehindOrder DEF Typed, MirrorInv
<1>5. /\ j \in RegisterJob /\ j.kind = "register" /\ j.isNew = ~db.known /\ j.record = db'
  BY <1>1, <1>3 DEF RegisterJob, Typed, Row
<1>6. Reconciled(j) = IF ~db.known \/ ~mem.known THEN db' ELSE Merged(mem, db')
  BY <1>5 DEF Reconciled
<1>7. /\ Reconciled(j) \in Row /\ Behind(mem, Reconciled(j)) /\ Behind(Reconciled(j), db')
      /\ Reconciled(j).known = db'.known /\ (~replayed => Reconciled(j) = db')
  <2>1. mem.known = db.known /\ (~replayed => mem = db)
    BY <1>1 DEF MirrorInv
  <2>2. CASE ~db.known
    BY <1>3, <1>4, <1>6, <2>2, BehindOrder
  <2>3. CASE db.known
    <3>1. Reconciled(j) = Merged(mem, db') /\ mem \in Row
      BY <1>1, <1>6, <2>1, <2>3 DEF Typed
    <3>2. /\ Merged(mem, db') \in Row /\ Merged(mem, db').known = mem.known
          /\ Behind(mem, Merged(mem, db')) /\ Behind(Merged(mem, db'), db')
      BY <1>3, <1>4, <3>1, MergeCatchesUp
    <3> QED  BY <1>1, <1>3, <2>1, <2>3, <3>1, <3>2 DEF Typed, Row
  <2> QED  BY <2>2, <2>3
<1>8. MirrorInv' /\ RowInv'
  BY <1>1, <1>2, <1>3, <1>5, <1>7, JobStarts
<1>9. Typed'
  BY <1>1, <1>3 DEF Typed
<1>10. StampInv'
  BY <1>1, <1>3, <1>9, StampsStay
<1> QED  BY <1>3, <1>8, <1>9, <1>10 DEF RegistryInv

LEMMA HandleHeartbeatKeeps ==
  ASSUME RegistryInv, NEW q \in requests, HandleHeartbeat(q)
  PROVE  RegistryInv' /\ (db' = db \/ Follows(db', db))
<1>1. /\ Typed /\ Proper(db) /\ MirrorInv /\ StampInv /\ q \in Request
      /\ jobs = {} /\ LockFree /\ requests' = requests \ {q}
      /\ UNCHANGED <<edge, call, mem, replayed, now>>
      /\ answer' \in {"none", "ok", "missing"}
  BY DEF RegistryInv, RowInv, HandleHeartbeat, LockFree, Typed, counts
<1>2. CASE ~db.known
  <2>1. UNCHANGED <<db, jobs>>
    BY <1>2 DEF HandleHeartbeat
  <2>2. Typed'
    BY <1>1, <2>1 DEF Typed
  <2> QED  BY <1>1, <2>1, <2>2, BesideKeeps
<1>3. CASE db.known
  <2>1. PICK j : j = [kind |-> "heartbeat", request |-> q]
    OBVIOUS
  <2>2. db' = Beaten(db, q) /\ jobs' = {j}
    BY <1>1, <1>3, <2>1 DEF HandleHeartbeat
  <2>3. /\ Follows(db', db) /\ db'.known /\ db' \in Row
        /\ db'.metaAt = db.metaAt /\ db'.incarnation = db.incarnation
    BY <1>1, <1>3, <2>2, BeatenFollows DEF Follows, Typed
  <2>4. mem.known /\ Reconciled(j) = Beaten(mem, q) /\ (~replayed => mem = db)
    BY <1>1, <1>3, <2>1 DEF MirrorInv, Reconciled
  <2>5. /\ Reconciled(j) \in Row /\ Behind(mem, Reconciled(j)) /\ Behind(Reconciled(j), db')
        /\ Reconciled(j).known = mem.known
    BY <1>1, <2>2, <2>4, BeatenCatchesUp DEF Typed, MirrorInv
  <2>6. j \in HeartbeatJob
    BY <1>1, <2>1 DEF HeartbeatJob
  <2>7. mem.known \in BOOLEAN /\ db'.known \in BOOLEAN
    BY <1>1, <2>3 DEF Typed, Row
  <2>8. MirrorInv' /\ RowInv'
    BY <1>1, <2>2, <2>3, <2>4, <2>5, <2>6, <2>7, JobStarts
  <2>9. Typed'
    BY <1>1, <2>3 DEF Typed
  <2>10. StampInv'
    BY <1>1, <2>3, <2>9, StampOrder, StampsStay
  <2> QED  BY <2>3, <2>8, <2>9, <2>10 DEF RegistryInv
<1> QED  BY <1>2, <1>3

LEMMA IngestKeeps ==
  ASSUME RegistryInv, NEW batch \in Batch, Ingest(batch)
  PROVE  RegistryInv' /\ Follows(db', db)
<1>1. /\ Typed /\ Proper(db) /\ MirrorInv /\ StampInv
      /\ jobs = {} /\ LockFree /\ db' = Active(db, batch, now)
      /\ UNCHANGED <<edge, call, answer, requests, mem, replayed, now>>
  BY DEF RegistryInv, RowInv, Ingest, LockFree, edgeVars, counts
<1>2. PICK j : j = [kind |-> "batch", request |-> NoCall, batch |-> batch, at |-> now]
  OBVIOUS
<1>3. jobs' = {j}
  BY <1>1, <1>2 DEF Ingest
<1>4. /\ Follows(db', db) /\ db'.known = db.known /\ db' \in Row
      /\ db'.metaAt = db.metaAt /\ db'.incarnation = db.incarnation
  BY <1>1, ActiveFollows DEF Follows, Typed
<1>5. /\ j.kind = "batch" /\ j.batch = batch /\ j.at = now
      /\ j \in BatchJob
  BY <1>1, <1>2 DEF BatchJob, Typed
<1>6. Reconciled(j) = Active(mem, batch, now) /\ mem.known = db.known /\ (~replayed => mem = db)
  BY <1>1, <1>5 DEF MirrorInv, Reconciled
<1>7. /\ Reconciled(j) \in Row /\ Behind(mem, Reconciled(j)) /\ Behind(Reconciled(j), db')
      /\ Reconciled(j).known = mem.known
  BY <1>1, <1>6, ActiveCatchesUp DEF Typed, MirrorInv
<1>8. MirrorInv' /\ RowInv'
  BY <1>1, <1>3, <1>4, <1>5, <1>6, <1>7, JobStarts
<1>9. Typed'
  BY <1>1, <1>4 DEF Typed
<1>10. StampInv'
  <2>1. Stamp(db.metaAt, db.incarnation) \in Stamps
    BY DEF Stamps
  <2> QED  BY <1>1, <1>4, <1>9, <2>1, StampsStay
<1> QED  BY <1>4, <1>8, <1>9, <1>10 DEF RegistryInv

(* A replay only leaves the record behind.                                 *)
LEMMA ReplayKeeps ==
  ASSUME RegistryInv, NEW batch \in Batch, Replay(batch)
  PROVE  RegistryInv' /\ Follows(db', db)
<1>1. /\ Typed /\ Proper(db) /\ MirrorInv /\ StampInv
      /\ jobs = {} /\ db' = Active(db, batch, now) /\ replayed' = TRUE
      /\ UNCHANGED <<edge, call, answer, requests, jobs, mem, now>>
  BY DEF RegistryInv, RowInv, Replay, LockFree, edgeVars, counts
<1>2. /\ Follows(db', db) /\ db'.known = db.known /\ db' \in Row
      /\ db'.metaAt = db.metaAt /\ db'.incarnation = db.incarnation
  BY <1>1, ActiveFollows DEF Follows, Typed
<1>3. Behind(mem', db')
  BY <1>1, <1>2, BehindOrder DEF MirrorInv, Follows, Typed
<1>4. MirrorInv' /\ RowInv'
  BY <1>1, <1>2, <1>3 DEF MirrorInv, RowInv, Follows
<1>5. Typed'
  BY <1>1, <1>2 DEF Typed
<1>6. StampInv'
  <2>1. Stamp(db.metaAt, db.incarnation) \in Stamps
    BY DEF Stamps
  <2> QED  BY <1>1, <1>2, <1>5, <2>1, StampsStay
<1> QED  BY <1>2, <1>4, <1>5, <1>6 DEF RegistryInv

LEMMA ReconcileKeeps ==
  ASSUME RegistryInv, NEW job \in jobs, Reconcile(job)
  PROVE  RegistryInv' /\ Behind(mem, mem') /\ db' = db
<1>1. /\ Typed /\ RowInv /\ MirrorInv /\ StampInv /\ JobInv(job)
      /\ mem' = Reconciled(job) /\ jobs' = {}
      /\ UNCHANGED <<edge, call, requests, db, replayed, now>>
      /\ answer' \in {"none", "ok", "missing"}
  BY DEF RegistryInv, MirrorInv, Reconcile, Typed, counts
<1>2. /\ mem' \in Row /\ Behind(mem, mem') /\ Behind(mem', db) /\ mem'.known = db.known
      /\ (~replayed => mem' = db)
  BY <1>1 DEF JobInv
<1>3. MirrorInv' /\ RowInv'
  BY <1>1, <1>2 DEF MirrorInv, RowInv
<1>4. Typed'
  BY <1>1, <1>2 DEF Typed
<1>5. StampInv'
  <2>1. Stamp(db.metaAt, db.incarnation) \in Stamps
    BY DEF Stamps
  <2> QED  BY <1>1, <1>4, <2>1, StampsStay
<1> QED  BY <1>1, <1>2, <1>3, <1>4, <1>5 DEF RegistryInv

LEMMA ServerRestartKeeps ==
  ASSUME RegistryInv, ServerRestart
  PROVE  RegistryInv' /\ mem' = db' /\ (db' = db \/ ~db'.known)
<1>1. /\ Typed /\ Proper(db) /\ MirrorInv /\ StampInv
      /\ jobs' = {} /\ replayed' = FALSE /\ mem' = db' /\ (db' = db \/ db' = NoRow)
      /\ UNCHANGED <<edge, call, answer, requests, now>>
  BY DEF RegistryInv, RowInv, ServerRestart, edgeVars
<1>2. db' \in Row /\ ~NoRow.known
  BY <1>1, NoRowFacts DEF Typed
<1>3. Proper(db')
  BY <1>1, RegistryAssumption DEF Proper, NoRow
<1>4. MirrorInv' /\ RowInv'
  BY <1>1, <1>2, <1>3, BehindOrder DEF MirrorInv, RowInv
<1>5. Typed'
  BY <1>1, <1>2 DEF Typed
<1>6. StampInv'
  <2>1. Stamp(db'.metaAt, db'.incarnation) \in Stamps
    BY <1>1 DEF Stamps, NoRow
  <2> QED  BY <1>1, <1>5, <2>1, StampsStay
<1> QED  BY <1>1, <1>2, <1>4, <1>5, <1>6 DEF RegistryInv

LEMMA NStep == RegistryInv /\ [Next]_vars => RegistryInv'
<1> SUFFICES ASSUME RegistryInv, [Next]_vars PROVE RegistryInv'
  OBVIOUS
<1>1. CASE UNCHANGED vars
  <2>1. UNCHANGED <<edge, call, answer, requests, jobs, db, mem, replayed, now>>
    BY <1>1 DEF vars, edgeVars, counts
  <2>2. Typed'
    BY <2>1 DEF RegistryInv, Typed
  <2> QED  BY <2>1, <2>2, BesideKeeps
<1>2. CASE Next
  BY <1>2, SendKeeps, AnswerKeeps, OthersKeep, HandleRegisterKeeps, HandleHeartbeatKeeps,
     IngestKeeps, ReplayKeeps, ReconcileKeeps, ServerRestartKeeps
     DEF Next, Coordinate, Serve
<1> QED  BY <1>1, <1>2

LEMMA NInvariant == Spec => []RegistryInv
BY NInit, NStep, PTL DEF Spec

-----------------------------------------------------------------------------
(* The types of the registry, for any bounds; and the map knows only nodes *)
(* that the database knows, so that a heartbeat's second half always finds *)
(* the record it moves: handleNodeHeartbeat never makes one up.            *)
THEOREM RegistryTypeTheorem == Spec => []RegistryTypeOK
<1>1. RegistryInv => RegistryTypeOK
  BY DEF RegistryInv, Typed, RowInv, Proper, MirrorInv, JobInv, RegistryTypeOK
<1> QED  BY <1>1, NInvariant, PTL

(* The map follows the database, though it is changed after the commit and *)
(* by rules of its own: merging into the map the record that the           *)
(* transaction left, or repeating the heartbeat on it, gives the row.      *)
THEOREM MirrorTheorem == Spec => []RegistryMirrorsDatabase
<1>1. RegistryInv => RegistryMirrorsDatabase
  BY DEF RegistryInv, MirrorInv, RegistryMirrorsDatabase
<1> QED  BY <1>1, NInvariant, PTL

(* Nothing told of a known node goes back, whichever requests come late:   *)
(* lastSeen and the counters only by comparison, the status only by a      *)
(* heartbeat not before lastSeen, the attributes only by a registration    *)
(* not before the last one, which no earlier process can have sent.        *)
THEOREM ForwardTheorem == Spec => NothingRegresses
<1> DEFINE Forward ==
      /\ db.known /\ db'.known =>
           /\ db'.lastSeen >= db.lastSeen /\ db'.statusAt >= db.statusAt
           /\ db'.seq >= db.seq /\ db'.hbSeq >= db.hbSeq
           /\ db'.incarnation >= db.incarnation
      /\ mem.known /\ db'.known =>
           /\ mem'.lastSeen >= mem.lastSeen /\ mem'.seq >= mem.seq
           /\ mem'.hbSeq >= mem.hbSeq /\ mem'.incarnation >= mem.incarnation
<1>1. ASSUME RegistryInv, Next PROVE Forward
  <2>1. /\ db \in Row /\ mem \in Row /\ db' \in Row /\ mem' \in Row /\ Behind(mem, db)
    BY <1>1, NStep DEF RegistryInv, Typed, MirrorInv
  <2>2. /\ Coordinate \/ Stop \/ EdgeRestart \/ Lose \/ Tick => UNCHANGED <<db, mem>>
        /\ \A q \in requests : HandleRegister(q) \/ HandleHeartbeat(q) => UNCHANGED mem
        /\ \A batch \in Batch : Ingest(batch) \/ Replay(batch) => UNCHANGED mem
    BY DEF Coordinate, AttemptRegistration, SendHeartbeat, Succeeds, NotFound, Fails, Stop,
           EdgeRestart, Lose, Tick, HandleRegister, HandleHeartbeat, Ingest, Replay
  <2>3. db' = db \/ Follows(db', db) \/ ~db'.known
    BY <1>1, <2>2, HandleRegisterKeeps, HandleHeartbeatKeeps, IngestKeeps, ReplayKeeps,
       ReconcileKeeps, ServerRestartKeeps DEF Next, Serve
  <2>4. mem' = mem \/ Behind(mem, mem') \/ ~db'.known
    BY <1>1, <2>1, <2>2, ReconcileKeeps, ServerRestartKeeps DEF Next, Serve
  <2> QED  BY <2>1, <2>3, <2>4, RowTypes DEF Follows, Behind
<1>2. RegistryInv /\ [Next]_vars => [Forward]_vars
  BY <1>1
<1>3. RegistryInv /\ [Next]_vars =>
        [/\ db.known /\ db'.known =>
              /\ db'.lastSeen >= db.lastSeen /\ db'.statusAt >= db.statusAt
              /\ db'.seq >= db.seq /\ db'.hbSeq >= db.hbSeq
              /\ db'.incarnation >= db.incarnation
         /\ mem.known /\ db'.known =>
              /\ mem'.lastSeen >= mem.lastSeen /\ mem'.seq >= mem.seq
              /\ mem'.hbSeq >= mem.hbSeq /\ mem'.incarnation >= mem.incarnation]_vars
  BY <1>2
<1> QED  BY <1>3, NInvariant, PTL DEF Spec, NothingRegresses

=============================================================================
