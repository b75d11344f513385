------------------------ MODULE Verification_proofs ------------------------
(***************************************************************************)
(* Theorems about the verification engine, for any samples, condition and  *)
(* number of observations required, and any numbers of verifications,      *)
(* restarts and lost updates.                                              *)
(***************************************************************************)
EXTENDS Verification, FiniteSetTheorems, TLAPS

-----------------------------------------------------------------------------
Typed ==
  /\ request \in [Verifications -> [incident : Nat, at : Int]]
  /\ byID \in [Verifications -> State]
  /\ rows \in [Verifications -> State]
  /\ active \in Verifications \cup {0}
  /\ active # 0 => byID[active].status = "PENDING"
  /\ incident \in [id : Nat, status : {"ANOMALY_DETECTED", "MITIGATING", "RECOVERED",
                                       "ESCALATED"}]
  /\ now \in Nat /\ restarts \in Nat /\ lost \in Nat
  /\ heard \in [Verifications -> Seq(Sample)]
  /\ resolved \subseteq Verifications \X Nat

HeardHealthy(v) == \E k \in DOMAIN heard[v] : heard[v][k] \in Healthy

(* What is true of a state of verification v in memory or in the table,    *)
(* also of one that a lost update brought back.                            *)
Grounded(v, s) ==
  /\ v \notin Started => s = None
  /\ s.status = "RECOVERED" => HeardHealthy(v)

HistoryInv ==
  \A v \in Verifications :
    /\ v \notin Started => heard[v] = <<>>
    /\ \A k \in DOMAIN heard[v] :
         request[v].at <= SampleAt[heard[v][k]] /\ SampleAt[heard[v][k]] < ExpiresAt(v)
    /\ Grounded(v, byID[v]) /\ Grounded(v, rows[v])
    /\ \A i \in Nat : <<v, i>> \in resolved =>
         v \in Started /\ request[v].incident = i /\ HeardHealthy(v)

(* A row's state says what was heard: which samples, each of them once,    *)
(* and that as many of the last ones as its streak counts were healthy.    *)
Faithful(s, h) ==
  /\ s.seen = {h[k] : k \in 1 .. Len(h)}
  /\ \A j, k \in 1 .. Len(h) : h[j] = h[k] => j = k
  /\ s.streak <= Len(h)
  /\ \A k \in 1 .. Len(h) : k > Len(h) - s.streak => h[k] \in Healthy
  /\ s.status = "RECOVERED" => s.streak >= Required

RowsFaithful == lost = 0 => \A v \in Verifications : Faithful(rows[v], heard[v])

VerificationInv == Typed /\ HistoryInv /\ VerdictsAgree /\ RowsFaithful

-----------------------------------------------------------------------------
(* States of a verification.                                               *)
LEMMA StateFacts ==
  /\ None \in State /\ None.status = "none" /\ None.streak = 0 /\ None.seen = {}
  /\ [None EXCEPT !.status = "PENDING"] = [status |-> "PENDING", streak |-> 0, seen |-> {}]
  /\ [None EXCEPT !.status = "PENDING"] \in State
  /\ "RECOVERED" \in Terminal /\ "PENDING" \notin Terminal /\ "none" \notin Terminal
  /\ Terminal \subseteq VStatus /\ "PENDING" \in VStatus
BY DEF None, State, VStatus, Terminal

LEMMA StatusChange ==
  ASSUME NEW r \in State, NEW status \in VStatus
  PROVE  /\ [r EXCEPT !.status = status] \in State
         /\ [r EXCEPT !.status = status].status = status
         /\ [r EXCEPT !.status = status].streak = r.streak
         /\ [r EXCEPT !.status = status].seen = r.seen
BY DEF State

LEMMA WrittenFacts ==
  ASSUME rows \in [Verifications -> State], NEW v \in Verifications, NEW s \in State
  PROVE  /\ Written(v, s) \in [Verifications -> State]
         /\ \A w \in Verifications \ {v} : Written(v, s)[w] = rows[w]
         /\ Written(v, s)[v] \in {s, rows[v]}
         /\ rows[v].status \notin Terminal => Written(v, s)[v] = s
         /\ rows[v].status \in Terminal => Written(v, s)[v].status = rows[v].status
BY DEF Written

LEMMA ExpireFacts ==
  ASSUME NEW table \in [Verifications -> State]
  PROVE  /\ Expire(table) \in [Verifications -> State]
         /\ \A v \in Verifications :
              /\ Expire(table)[v].seen = table[v].seen
              /\ Expire(table)[v].streak = table[v].streak
              /\ Expired(v, table) => Expire(table)[v] = [table[v] EXCEPT !.status = "TIMED_OUT"]
              /\ Expired(v, table) => Expire(table)[v].status = "TIMED_OUT"
              /\ ~Expired(v, table) => Expire(table)[v] = table[v]
<1>1. "TIMED_OUT" \in VStatus
  BY DEF VStatus, Terminal
<1>2. \A v \in Verifications : table[v] \in State
  OBVIOUS
<1>3. \A v \in Verifications :
        /\ Expired(v, table) => Expire(table)[v] = [table[v] EXCEPT !.status = "TIMED_OUT"]
        /\ ~Expired(v, table) => Expire(table)[v] = table[v]
  BY DEF Expire
<1>4. \A v \in Verifications :
        /\ [table[v] EXCEPT !.status = "TIMED_OUT"] \in State
        /\ [table[v] EXCEPT !.status = "TIMED_OUT"].status = "TIMED_OUT"
        /\ [table[v] EXCEPT !.status = "TIMED_OUT"].streak = table[v].streak
        /\ [table[v] EXCEPT !.status = "TIMED_OUT"].seen = table[v].seen
  BY <1>1, <1>2, StatusChange
<1>5. Expire(table) \in [Verifications -> State]
  BY <1>2, <1>4 DEF Expire
<1> QED  BY <1>3, <1>4, <1>5

LEMMA VInit == Init => VerificationInv
<1> SUFFICES ASSUME Init PROVE VerificationInv
  OBVIOUS
<1>1. /\ request = [v \in Verifications |-> [incident |-> 0, at |-> -1]]
      /\ byID = [v \in Verifications |-> None] /\ rows = byID
      /\ active = 0 /\ now = 0 /\ restarts = 0 /\ lost = 0 /\ resolved = {}
      /\ incident = [id |-> 1, status |-> "ANOMALY_DETECTED"]
      /\ heard = [v \in Verifications |-> <<>>]
  BY DEF Init
<1>2. 0 \notin Verifications /\ \A v \in Verifications : heard[v] = <<>>
  BY <1>1, VerificationAssumption DEF Verifications
<1>3. Typed
  BY <1>1, StateFacts DEF Typed
<1>4. Started = {}
  BY <1>1 DEF Started
<1>5. HistoryInv
  BY <1>1, <1>2, <1>4, StateFacts DEF HistoryInv, Grounded
<1>6. VerdictsAgree
  BY <1>1, StateFacts DEF VerdictsAgree
<1>7. RowsFaithful
  BY <1>1, <1>2, StateFacts DEF RowsFaithful, Faithful
<1> QED  BY <1>3, <1>5, <1>6, <1>7 DEF VerificationInv

(* A step after which memory and table say of every verification what one  *)
(* of them said before, but for verdicts other than RECOVERED.             *)
LEMMA HistoryStays ==
  ASSUME VerificationInv, UNCHANGED <<request, histories>>, Typed', VerdictsAgree',
         \A v \in Verifications \ Started : byID'[v] = None /\ rows'[v] = None,
         \A v \in Verifications :
           "RECOVERED" \in {byID'[v].status, rows'[v].status} =>
             "RECOVERED" \in {byID[v].status, rows[v].status},
         lost' = 0 => lost = 0,
         lost' = 0 => \A v \in Verifications :
           /\ rows'[v].seen = rows[v].seen /\ rows'[v].streak = rows[v].streak
           /\ rows'[v].status = "RECOVERED" => rows[v].status = "RECOVERED"
  PROVE  VerificationInv'
<1>1. UNCHANGED <<request, heard, resolved>> /\ Started' = Started
  BY DEF histories, Started
<1>2. HistoryInv /\ RowsFaithful
  BY DEF VerificationInv
<1>3. HistoryInv'
  BY <1>1, <1>2 DEF HistoryInv, Grounded, HeardHealthy, ExpiresAt
<1>4. RowsFaithful'
  BY <1>1, <1>2 DEF RowsFaithful, Faithful
<1> QED  BY <1>3, <1>4 DEF VerificationInv

(* Steps that leave the verifications alone.                               *)
LEMMA BesideKeeps ==
  ASSUME VerificationInv, UNCHANGED <<request, memory, rows, lost, histories>>, Typed'
  PROVE  VerificationInv'
<1>1. VerdictsAgree'
  BY DEF VerificationInv, VerdictsAgree, memory
<1>2. \A v \in Verifications \ Started : byID'[v] = None /\ rows'[v] = None
  BY DEF VerificationInv, HistoryInv, Grounded, memory
<1> QED  BY <1>1, <1>2, HistoryStays DEF memory

(* A fresh verification has no history.                                    *)
LEMMA StartKeeps ==
  ASSUME VerificationInv, NEW v \in Verifications, NEW delay \in 0 .. MaxDelay,
         StartVerification(v, delay)
  PROVE  VerificationInv'
<1>1. /\ Typed /\ HistoryInv /\ VerdictsAgree /\ RowsFaithful
      /\ active = 0 /\ v \notin Started /\ delay <= now
      /\ request' = [request EXCEPT ![v] = [incident |-> incident.id, at |-> now - delay]]
      /\ byID' = [byID EXCEPT ![v].status = "PENDING"]
      /\ rows' = [rows EXCEPT ![v].status = "PENDING"]
      /\ active' = v
      /\ UNCHANGED <<incident, now, restarts, lost, heard, resolved>>
  BY DEF VerificationInv, StartVerification, histories
<1>2. byID[v] = None /\ rows[v] = None /\ heard[v] = <<>>
  BY <1>1 DEF HistoryInv, Grounded
<1> DEFINE fresh == [None EXCEPT !.status = "PENDING"]
<1>3. /\ fresh \in State /\ fresh.status = "PENDING" /\ fresh.streak = 0 /\ fresh.seen = {}
  BY StateFacts
<1>4. byID' = [byID EXCEPT ![v] = fresh] /\ rows' = [rows EXCEPT ![v] = fresh]
  BY <1>1, <1>2
<1> HIDE DEF fresh
<1>5. now - delay \in Nat /\ now - delay \in Int /\ incident.id \in Nat
  BY <1>1, VerificationAssumption DEF Typed
<1> DEFINE asked == [incident |-> incident.id, at |-> now - delay]
<1>6. asked \in [incident : Nat, at : Int] /\ asked.at >= 0 /\ request' = [request EXCEPT ![v] = asked]
  BY <1>1, <1>5
<1> HIDE DEF asked
<1>7. /\ byID' \in [Verifications -> State] /\ rows' \in [Verifications -> State]
      /\ request' \in [Verifications -> [incident : Nat, at : Int]]
      /\ byID'[v] = fresh /\ rows'[v] = fresh /\ request'[v] = asked
      /\ \A w \in Verifications \ {v} :
           byID'[w] = byID[w] /\ rows'[w] = rows[w] /\ request'[w] = request[w]
  <2>0. /\ byID \in [Verifications -> State] /\ rows \in [Verifications -> State]
        /\ request \in [Verifications -> [incident : Nat, at : Int]]
    BY <1>1 DEF Typed
  <2>1. /\ byID' \in [Verifications -> State] /\ byID'[v] = fresh
        /\ \A w \in Verifications \ {v} : byID'[w] = byID[w]
    BY <1>3, <1>4, <2>0
  <2>2. /\ rows' \in [Verifications -> State] /\ rows'[v] = fresh
        /\ \A w \in Verifications \ {v} : rows'[w] = rows[w]
    BY <1>3, <1>4, <2>0
  <2>3. /\ request' \in [Verifications -> [incident : Nat, at : Int]] /\ request'[v] = asked
        /\ \A w \in Verifications \ {v} : request'[w] = request[w]
    BY <1>6, <2>0
  <2> QED  BY <2>1, <2>2, <2>3
<1>8. Typed'
  BY <1>1, <1>3, <1>7 DEF Typed
<1>9. Started' = Started \cup {v}
  BY <1>6, <1>7 DEF Started
<1>10. HistoryInv'
  <2> SUFFICES ASSUME NEW w \in Verifications
               PROVE  /\ w \notin Started' => heard'[w] = <<>>
                      /\ \A k \in DOMAIN heard'[w] :
                           /\ request'[w].at <= SampleAt[heard'[w][k]]
                           /\ SampleAt[heard'[w][k]] < ExpiresAt(w)'
                      /\ Grounded(w, byID[w])' /\ Grounded(w, rows[w])'
                      /\ \A i \in Nat : <<w, i>> \in resolved' =>
                           w \in Started' /\ request'[w].incident = i /\ HeardHealthy(w)'
    BY DEF HistoryInv
  <2>1. CASE w = v
    <3>1. heard'[w] = <<>> /\ DOMAIN heard'[w] = {} /\ w \in Started'
      BY <1>1, <1>2, <1>9, <2>1
    <3>2. \A i \in Nat : <<w, i>> \notin resolved'
      BY <1>1, <2>1 DEF HistoryInv
    <3>3. byID'[w].status = "PENDING" /\ rows'[w].status = "PENDING"
      BY <1>3, <1>7, <2>1
    <3> QED  BY <3>1, <3>2, <3>3 DEF Grounded
  <2>2. CASE w # v
    <3>1. /\ request'[w] = request[w] /\ byID'[w] = byID[w] /\ rows'[w] = rows[w]
          /\ heard'[w] = heard[w] /\ resolved' = resolved /\ (w \in Started' <=> w \in Started)
      BY <1>1, <1>7, <1>9, <2>2
    <3>2. ExpiresAt(w)' = ExpiresAt(w) /\ HeardHealthy(w)' = HeardHealthy(w)
      BY <3>1 DEF ExpiresAt, HeardHealthy
    <3>3. Grounded(w, byID[w])' /\ Grounded(w, rows[w])'
      BY <1>1, <3>1, <3>2 DEF HistoryInv, Grounded
    <3> QED  BY <1>1, <3>1, <3>2, <3>3 DEF HistoryInv
  <2> QED  BY <2>1, <2>2
<1>11. VerdictsAgree'
  <2> SUFFICES ASSUME lost' = 0, NEW w \in Verifications
               PROVE  /\ byID'[w].status # "none" => byID'[w] = rows'[w]
                      /\ rows'[w].status = "PENDING" => active' = w
    BY DEF VerdictsAgree
  <2>1. rows[w].status # "PENDING" /\ (byID[w].status # "none" => byID[w] = rows[w])
    BY <1>1, VerificationAssumption DEF VerdictsAgree, Verifications
  <2> QED  BY <1>1, <1>7, <2>1
<1>12. RowsFaithful'
  <2>1. Faithful(fresh, heard[v])
    BY <1>2, <1>3 DEF Faithful
  <2> QED  BY <1>1, <1>7, <2>1 DEF RowsFaithful
<1> QED  BY <1>8, <1>10, <1>11, <1>12 DEF VerificationInv

(* A verdict other than RECOVERED.  Unless an update was lost, the row     *)
(* says what memory says, and no other verification is pending.            *)
LEMMA ConcludeKeeps ==
  ASSUME VerificationInv, NEW v \in Verifications, byID[v].status = "PENDING",
         NEW status \in {"NOT_RECOVERED", "TIMED_OUT", "CANCELLED"}, Conclude(v, status),
         UNCHANGED <<request, incident, now, restarts, histories>>
  PROVE  VerificationInv'
<1> DEFINE s == [byID[v] EXCEPT !.status = status]
<1>1. /\ Typed /\ HistoryInv /\ VerdictsAgree /\ RowsFaithful
      /\ byID' = [byID EXCEPT ![v] = s]
      /\ active' = 0 /\ Save(v, s)
      /\ UNCHANGED <<request, incident, now, restarts, heard, resolved>>
  BY DEF VerificationInv, Conclude, histories
<1>2. /\ s \in State /\ s.status = status /\ s.streak = byID[v].streak /\ s.seen = byID[v].seen
      /\ status \notin {"RECOVERED", "PENDING", "none"}
  <2>1. byID[v] \in State /\ status \in VStatus
    BY <1>1 DEF Typed, VStatus, Terminal
  <2> QED  BY <2>1, StatusChange
<1> HIDE DEF s
<1>3. /\ byID' \in [Verifications -> State] /\ byID'[v] = s
      /\ \A w \in Verifications \ {v} : byID'[w] = byID[w]
  BY <1>1, <1>2 DEF Typed
<1>4. /\ rows' \in [Verifications -> State] /\ rows'[v] \in {s, rows[v]}
      /\ \A w \in Verifications \ {v} : rows'[w] = rows[w]
      /\ lost' \in Nat /\ (lost' = 0 => lost = 0 /\ rows' = Written(v, s))
  BY <1>1, <1>2, WrittenFacts DEF Save, Typed
<1>5. Typed'
  BY <1>1, <1>3, <1>4 DEF Typed
<1>6. v \in Started /\ \A w \in Verifications \ Started : byID[w] = None /\ rows[w] = None
  BY <1>1, StateFacts DEF HistoryInv, Grounded
<1>7. ASSUME lost' = 0
      PROVE  /\ lost = 0 /\ rows'[v] = s /\ byID[v] = rows[v]
             /\ \A w \in Verifications \ {v} : rows[w].status # "PENDING"
  <2>1. lost = 0 /\ byID[v] = rows[v] /\ rows[v].status = "PENDING"
    BY <1>1, <1>4, <1>7 DEF VerdictsAgree
  <2>2. \A w \in Verifications \ {v} : rows[w].status # "PENDING"
    BY <1>1, <2>1 DEF VerdictsAgree
  <2>3. rows' = Written(v, s) /\ rows[v].status \notin Terminal
    BY <1>4, <1>7, <2>1, StateFacts
  <2>4. rows'[v] = s
    BY <1>1, <1>2, <2>3, WrittenFacts DEF Typed
  <2> QED  BY <2>1, <2>2, <2>4
<1>8. VerdictsAgree'
  BY <1>1, <1>2, <1>3, <1>4, <1>7 DEF VerdictsAgree
<1>9. \A w \in Verifications :
        "RECOVERED" \in {byID'[w].status, rows'[w].status} =>
          "RECOVERED" \in {byID[w].status, rows[w].status}
  BY <1>2, <1>3, <1>4
<1>10. lost' = 0 => \A w \in Verifications :
         /\ rows'[w].seen = rows[w].seen /\ rows'[w].streak = rows[w].streak
         /\ rows'[w].status = "RECOVERED" => rows[w].status = "RECOVERED"
  BY <1>2, <1>4, <1>7
<1>11. \A w \in Verifications \ Started : byID'[w] = None /\ rows'[w] = None
  BY <1>3, <1>4, <1>6
<1>12. lost' = 0 => lost = 0
  BY <1>4
<1> QED  BY <1>1, <1>5, <1>8, <1>9, <1>10, <1>11, <1>12, HistoryStays DEF histories

LEMMA TimesOutKeeps ==
  ASSUME VerificationInv, NEW s \in Sample, SampleTimesOut(s)
  PROVE  VerificationInv'
BY ConcludeKeeps DEF SampleTimesOut, VerificationInv, Typed

LEMMA WithdrawKeeps ==
  ASSUME VerificationInv, NEW v \in Verifications, CancelVerification(v) \/ FailVerification(v)
  PROVE  VerificationInv'
BY ConcludeKeeps DEF CancelVerification, FailVerification, Withdraw

(* The sweep: if memory's active verification has not expired, no pending  *)
(* row has, unless an update was lost.                                     *)
LEMMA ReconcileKeeps ==
  ASSUME VerificationInv, ReconcileTimeouts
  PROVE  VerificationInv'
<1>1. /\ Typed /\ HistoryInv /\ VerdictsAgree /\ RowsFaithful
      /\ IF active # 0 /\ Expired(active, byID)
         THEN /\ byID' = [byID EXCEPT ![active].status = "TIMED_OUT"]
              /\ active' = 0
         ELSE byID' = byID /\ active' = active
      /\ rows' = Expire(rows)
      /\ UNCHANGED <<lost, request, incident, now, restarts, heard, resolved>>
  BY DEF VerificationInv, ReconcileTimeouts, histories, memory
<1>2. /\ rows' \in [Verifications -> State]
      /\ \A v \in Verifications :
           /\ rows'[v].seen = rows[v].seen /\ rows'[v].streak = rows[v].streak
           /\ Expired(v, rows) => rows'[v] = [rows[v] EXCEPT !.status = "TIMED_OUT"]
           /\ Expired(v, rows) => rows'[v].status = "TIMED_OUT"
           /\ ~Expired(v, rows) => rows'[v] = rows[v]
  BY <1>1, ExpireFacts DEF Typed
<1>3. /\ byID' \in [Verifications -> State]
      /\ active' # 0 => active' = active /\ byID' = byID
      /\ \A v \in Verifications :
           \/ byID'[v] = byID[v] /\ (v = active => ~Expired(v, byID))
           \/ /\ v = active /\ Expired(v, byID) /\ active' = 0
              /\ byID'[v] = [byID[v] EXCEPT !.status = "TIMED_OUT"]
              /\ byID'[v].status = "TIMED_OUT"
  <2>1. CASE active # 0 /\ Expired(active, byID)
    <3>1. active \in Verifications /\ byID[active] \in State /\ "TIMED_OUT" \in VStatus
      BY <1>1, <2>1 DEF Typed, VStatus, Terminal
    <3> DEFINE s == [byID[active] EXCEPT !.status = "TIMED_OUT"]
    <3>2. s \in State /\ s.status = "TIMED_OUT"
      BY <3>1, StatusChange
    <3>3. byID' = [byID EXCEPT ![active] = s] /\ active' = 0
      BY <1>1, <2>1
    <3>4. byID'[active] = s /\ \A v \in Verifications \ {active} : byID'[v] = byID[v]
      BY <1>1, <3>1, <3>3 DEF Typed
    <3> HIDE DEF s
    <3>5. byID' \in [Verifications -> State]
      BY <1>1, <3>1, <3>2, <3>3 DEF Typed
    <3> QED  BY <2>1, <3>2, <3>3, <3>4, <3>5 DEF s
  <2>2. CASE ~(active # 0 /\ Expired(active, byID))
    BY <1>1, <2>2, VerificationAssumption DEF Typed, Verifications
  <2> QED  BY <2>1, <2>2
<1>4. Typed'
  BY <1>1, <1>2, <1>3 DEF Typed
<1>5. VerdictsAgree'
  <2> SUFFICES ASSUME lost = 0, NEW v \in Verifications
               PROVE  /\ byID'[v].status # "none" => byID'[v] = rows'[v]
                      /\ rows'[v].status = "PENDING" => active' = v
    BY <1>1 DEF VerdictsAgree
  <2>1. /\ byID[v].status # "none" => byID[v] = rows[v]
        /\ rows[v].status = "PENDING" => active = v
    BY <1>1 DEF VerdictsAgree
  <2>2. active = v => byID[v].status = "PENDING" /\ byID[v] = rows[v]
    BY <1>1, <2>1, VerificationAssumption DEF Typed, Verifications
  <2>3. active # v => ~Expired(v, rows)
    BY <2>1 DEF Expired
  <2>4. active = v => (Expired(v, rows) <=> Expired(v, byID))
    BY <2>2 DEF Expired
  <2>5. active = v /\ ~Expired(v, byID) => active' = v
    BY <1>1
  <2> QED  BY <1>2, <1>3, <2>1, <2>2, <2>3, <2>4, <2>5
<1>6. \A v \in Verifications \ Started : byID'[v] = None /\ rows'[v] = None
  BY <1>1, <1>2, <1>3, StateFacts DEF HistoryInv, Grounded, Expired
<1>7. \A v \in Verifications :
        /\ byID'[v].status = "RECOVERED" => byID[v].status = "RECOVERED"
        /\ rows'[v].status = "RECOVERED" => rows[v].status = "RECOVERED"
  BY <1>2, <1>3
<1> QED  BY <1>1, <1>2, <1>4, <1>5, <1>6, <1>7, HistoryStays DEF histories

(* After a restart memory holds the rows that are pending and have time    *)
(* left: unless an update was lost, that is the one that memory held.      *)
LEMMA RestartKeeps ==
  ASSUME VerificationInv, Restart
  PROVE  VerificationInv'
<1> DEFINE pending == {v \in Verifications : rows[v].status = "PENDING" /\ ExpiresAt(v) > now}
<1>1. /\ Typed /\ HistoryInv /\ VerdictsAgree /\ RowsFaithful
      /\ restarts' = restarts + 1
      /\ rows' = Expire(rows)
      /\ byID' = [v \in Verifications |-> IF v \in pending THEN rows[v] ELSE None]
      /\ \/ pending = {} /\ active' = 0
         \/ active' \in pending
      /\ UNCHANGED <<request, incident, now, lost, heard, resolved>>
  BY DEF VerificationInv, Restart, Loaded, histories
<1>2. /\ rows' \in [Verifications -> State]
      /\ \A v \in Verifications :
           /\ rows'[v].seen = rows[v].seen /\ rows'[v].streak = rows[v].streak
           /\ Expired(v, rows) => rows'[v].status = "TIMED_OUT"
           /\ ~Expired(v, rows) => rows'[v] = rows[v]
  BY <1>1, ExpireFacts DEF Typed
<1>3. /\ \A v \in pending : /\ v \in Verifications /\ rows[v].status = "PENDING"
                            /\ byID'[v] = rows[v] /\ ~Expired(v, rows)
      /\ \A v \in Verifications \ pending : byID'[v] = None
      /\ \A v \in Verifications \ pending :
           rows[v].status = "PENDING" => Expired(v, rows)
  <2>1. \A v \in Verifications : ExpiresAt(v) \in Int /\ now \in Int
    BY <1>1, VerificationAssumption DEF Typed, ExpiresAt
  <2> QED  BY <1>1, <2>1 DEF Expired
<1>4. byID' \in [Verifications -> State]
  BY <1>1, StateFacts DEF Typed
<1> HIDE DEF pending
<1>5. Typed'
  <2>1. /\ active' \in Verifications \cup {0}
        /\ active' # 0 => byID'[active'].status = "PENDING"
    BY <1>1, <1>3
  <2> QED  BY <1>1, <1>2, <1>4, <2>1 DEF Typed
<1>6. VerdictsAgree'
  <2> SUFFICES ASSUME lost = 0, NEW v \in Verifications
               PROVE  /\ byID'[v].status # "none" => byID'[v] = rows'[v]
                      /\ rows'[v].status = "PENDING" => active' = v
    BY <1>1 DEF VerdictsAgree
  <2>1. byID'[v].status # "none" => byID'[v] = rows'[v]
    BY <1>2, <1>3, StateFacts
  <2>2. ASSUME rows'[v].status = "PENDING" PROVE active' = v
    <3>1. v \in pending
      BY <1>2, <1>3, <2>2
    <3>2. active' \in pending
      BY <1>1, <3>1
    <3>3. active = v /\ active = active'
      BY <1>1, <1>3, <3>1, <3>2 DEF VerdictsAgree
    <3> QED  BY <3>3
  <2> QED  BY <2>1, <2>2
<1>7. \A v \in Verifications :
        /\ byID'[v].status # "RECOVERED"
        /\ rows'[v].status = "RECOVERED" => rows[v].status = "RECOVERED"
  BY <1>2, <1>3, StateFacts
<1>8. \A v \in Verifications \ Started : byID'[v] = None /\ rows'[v] = None
  <2>1. \A v \in Verifications \ Started : rows[v] = None
    BY <1>1 DEF HistoryInv, Grounded
  <2>2. \A v \in Verifications \ Started : v \notin pending /\ ~Expired(v, rows)
    BY <1>3, <2>1, StateFacts DEF Expired
  <2> QED  BY <1>2, <1>3, <2>1, <2>2
<1> QED  BY <1>1, <1>2, <1>5, <1>6, <1>7, <1>8, HistoryStays DEF histories

(* A sample that is heard: it is a new one, in the window.                 *)
LEMMA HeardSample ==
  ASSUME NEW h \in Seq(Sample), NEW s \in Sample, NEW r \in State, NEW new \in State,
         Faithful(r, h), s \notin r.seen, new.seen = r.seen \cup {s},
         new.streak = IF s \in Healthy THEN r.streak + 1 ELSE 0,
         new.status = "RECOVERED" => new.streak >= Required
  PROVE  Faithful(new, Append(h, s))
<1> DEFINE g == Append(h, s)
<1>1. /\ Len(h) \in Nat /\ Len(g) = Len(h) + 1 /\ g[Len(h) + 1] = s
      /\ \A k \in 1 .. Len(h) : g[k] = h[k]
  OBVIOUS
<1> HIDE DEF g
<1>2. \A k \in 1 .. Len(g) : k = Len(h) + 1 \/ (k \in 1 .. Len(h) /\ g[k] = h[k])
  BY <1>1
<1>3. /\ r.streak \in Nat /\ r.seen = {h[k] : k \in 1 .. Len(h)} /\ r.streak <= Len(h)
      /\ \A j, k \in 1 .. Len(h) : h[j] = h[k] => j = k
      /\ \A k \in 1 .. Len(h) : k > Len(h) - r.streak => h[k] \in Healthy
      /\ \A k \in 1 .. Len(h) : h[k] # s
  BY DEF Faithful, State
<1>4. new.seen = {g[k] : k \in 1 .. Len(g)}
  <2>1. \A x : x \in {g[k] : k \in 1 .. Len(g)} => x = s \/ x \in {h[k] : k \in 1 .. Len(h)}
    BY <1>1, <1>2
  <2>2. s \in {g[k] : k \in 1 .. Len(g)}
    <3>1. Len(h) + 1 \in 1 .. Len(g)
      BY <1>1
    <3> QED  BY <1>1, <3>1
  <2>3. \A x : x \in {h[k] : k \in 1 .. Len(h)} => x \in {g[k] : k \in 1 .. Len(g)}
    <3> SUFFICES ASSUME NEW k \in 1 .. Len(h) PROVE h[k] \in {g[j] : j \in 1 .. Len(g)}
      OBVIOUS
    <3>1. k \in 1 .. Len(g) /\ g[k] = h[k]
      BY <1>1
    <3> QED  BY <3>1
  <2> QED  BY <1>3, <2>1, <2>2, <2>3
<1>5. \A j, k \in 1 .. Len(g) : g[j] = g[k] => j = k
  BY <1>1, <1>2, <1>3
<1>6. new.streak <= Len(g)
  BY <1>1, <1>3
<1>7. \A k \in 1 .. Len(g) : k > Len(g) - new.streak => g[k] \in Healthy
  <2>1. CASE s \in Healthy
    <3>1. new.streak = r.streak + 1
      BY <2>1
    <3>2. \A k \in 1 .. Len(h) : k > Len(g) - new.streak => k > Len(h) - r.streak
      BY <1>1, <1>3, <3>1
    <3> QED  BY <1>1, <1>2, <1>3, <2>1, <3>2
  <2>2. CASE s \notin Healthy
    BY <1>1, <2>2
  <2> QED  BY <2>1, <2>2
<1>8. Faithful(new, g)
  BY <1>4, <1>5, <1>6, <1>7 DEF Faithful
<1> QED  BY <1>8 DEF g

LEMMA ProcessKeeps ==
  ASSUME VerificationInv, NEW s \in Sample, ProcessSample(s)
  PROVE  VerificationInv'
<1> SUFFICES ASSUME NEW v, v = active PROVE VerificationInv'
  OBVIOUS
<1> DEFINE new == Evaluated(s)
<1>1. /\ Typed /\ HistoryInv /\ VerdictsAgree /\ RowsFaithful
      /\ v # 0 /\ ~TooLate(s) /\ SampleAt[s] >= request[v].at /\ s \notin byID[v].seen
      /\ byID' = [byID EXCEPT ![v] = new]
      /\ active' = IF new.status = "RECOVERED" THEN 0 ELSE v
      /\ Save(v, new)
      /\ heard' = [heard EXCEPT ![v] = Append(heard[v], s)]
      /\ UNCHANGED <<request, incident, now, restarts, resolved>>
  BY DEF VerificationInv, ProcessSample, Counts
<1>2. /\ v \in Verifications /\ byID[v].status = "PENDING" /\ byID[v] \in State
      /\ heard[v] \in Seq(Sample)
  BY <1>1 DEF Typed
<1>3. /\ new \in State /\ new.status \in {"PENDING", "RECOVERED"}
      /\ new.streak = IF s \in Healthy THEN byID[v].streak + 1 ELSE 0
      /\ new.seen = byID[v].seen \cup {s}
      /\ new.status = "RECOVERED" => s \in Healthy /\ new.streak >= Required
  BY <1>2 DEF Evaluated, Streak, State, VStatus, Terminal
<1>4. SampleAt[s] < ExpiresAt(v) /\ request[v].at <= SampleAt[s]
  BY <1>1, <1>2, VerificationAssumption DEF TooLate, Typed, ExpiresAt
<1> HIDE DEF new
<1>5. /\ byID' \in [Verifications -> State] /\ byID'[v] = new
      /\ \A w \in Verifications \ {v} : byID'[w] = byID[w]
  BY <1>1, <1>2, <1>3 DEF Typed
<1>6. /\ rows' \in [Verifications -> State] /\ rows'[v] \in {new, rows[v]}
      /\ \A w \in Verifications \ {v} : rows'[w] = rows[w]
      /\ lost' \in Nat /\ (lost' = 0 => lost = 0 /\ rows' = Written(v, new))
  BY <1>1, <1>2, <1>3, WrittenFacts DEF Save, Typed
<1>7. /\ heard' \in [Verifications -> Seq(Sample)] /\ heard'[v] = Append(heard[v], s)
      /\ \A w \in Verifications \ {v} : heard'[w] = heard[w]
  <2>1. Append(heard[v], s) \in Seq(Sample) /\ heard \in [Verifications -> Seq(Sample)]
    BY <1>1, <1>2 DEF Typed
  <2> QED  BY <1>1, <1>2, <2>1
<1>8. Typed'
  BY <1>1, <1>3, <1>5, <1>6, <1>7 DEF Typed
<1>9. Started' = Started /\ v \in Started
  BY <1>1, <1>2, StateFacts DEF Started, HistoryInv, Grounded
<1>10. HistoryInv'
  <2> SUFFICES ASSUME NEW w \in Verifications
               PROVE  /\ w \notin Started' => heard'[w] = <<>>
                      /\ \A k \in DOMAIN heard'[w] :
                           /\ request'[w].at <= SampleAt[heard'[w][k]]
                           /\ SampleAt[heard'[w][k]] < ExpiresAt(w)'
                      /\ Grounded(w, byID[w])' /\ Grounded(w, rows[w])'
                      /\ \A i \in Nat : <<w, i>> \in resolved' =>
                           w \in Started' /\ request'[w].incident = i /\ HeardHealthy(w)'
    BY DEF HistoryInv
  <2>1. ExpiresAt(w)' = ExpiresAt(w) /\ request'[w] = request[w]
    BY <1>1 DEF ExpiresAt
  <2>2. CASE w # v
    <3>1. HeardHealthy(w)' = HeardHealthy(w) /\ heard'[w] = heard[w]
      BY <1>7, <2>2 DEF HeardHealthy
    <3>2. Grounded(w, byID[w])' /\ Grounded(w, rows[w])'
      BY <1>1, <1>5, <1>6, <1>9, <2>2, <3>1 DEF HistoryInv, Grounded
    <3> QED  BY <1>1, <1>9, <2>1, <3>1, <3>2 DEF HistoryInv
  <2>3. CASE w = v
    <3>1. /\ Len(heard[v]) \in Nat /\ DOMAIN heard[v] = 1 .. Len(heard[v])
          /\ DOMAIN heard'[v] = 1 .. Len(heard[v]) + 1
          /\ heard'[v][Len(heard[v]) + 1] = s
          /\ \A k \in DOMAIN heard[v] : k \in DOMAIN heard'[v] /\ heard'[v][k] = heard[v][k]
      BY <1>2, <1>7
    <3>2. HeardHealthy(v) \/ s \in Healthy => HeardHealthy(v)'
      <4>1. CASE HeardHealthy(v)
        BY <3>1, <4>1 DEF HeardHealthy
      <4>2. CASE s \in Healthy
        <5>1. Len(heard[v]) + 1 \in DOMAIN heard'[v]
          BY <3>1
        <5> QED  BY <3>1, <4>2, <5>1 DEF HeardHealthy
      <4> QED  BY <4>1, <4>2
    <3>3. Grounded(v, byID[v])' /\ Grounded(v, rows[v])'
      <4>1. rows[v].status = "RECOVERED" => HeardHealthy(v)
        BY <1>1, <1>2 DEF HistoryInv, Grounded
      <4> QED  BY <1>3, <1>5, <1>6, <1>9, <3>2, <4>1 DEF Grounded
    <3>4. \A k \in DOMAIN heard'[v] : \/ k \in DOMAIN heard[v] /\ heard'[v][k] = heard[v][k]
                                      \/ heard'[v][k] = s
      BY <3>1
    <3>5. \A k \in DOMAIN heard'[v] : /\ request[v].at <= SampleAt[heard'[v][k]]
                                      /\ SampleAt[heard'[v][k]] < ExpiresAt(v)
      BY <1>1, <1>2, <1>4, <3>4 DEF HistoryInv
    <3>6. \A i \in Nat : <<v, i>> \in resolved =>
            v \in Started /\ request[v].incident = i /\ HeardHealthy(v)
      BY <1>1, <1>2 DEF HistoryInv
    <3> QED  BY <1>1, <1>9, <2>1, <2>3, <3>2, <3>3, <3>5, <3>6
  <2> QED  BY <2>2, <2>3
<1>11. ASSUME lost' = 0
       PROVE  /\ lost = 0 /\ rows'[v] = new /\ byID[v] = rows[v]
              /\ \A w \in Verifications \ {v} : rows[w].status # "PENDING"
  <2>1. lost = 0 /\ rows' = Written(v, new)
    BY <1>6, <1>11
  <2>2. byID[v] = rows[v] /\ \A w \in Verifications \ {v} : rows[w].status # "PENDING"
    BY <1>1, <1>2, <2>1 DEF VerdictsAgree
  <2>3. rows'[v] = new
    BY <1>1, <1>2, <1>3, <2>1, <2>2, StateFacts, WrittenFacts DEF Typed
  <2> QED  BY <2>1, <2>2, <2>3
<1>12. VerdictsAgree'
  BY <1>1, <1>3, <1>5, <1>6, <1>11 DEF VerdictsAgree
<1>13. RowsFaithful'
  <2> SUFFICES ASSUME lost' = 0, NEW w \in Verifications
               PROVE  Faithful(rows'[w], heard'[w])
    BY DEF RowsFaithful
  <2>1. Faithful(rows[w], heard[w])
    BY <1>1, <1>11 DEF RowsFaithful
  <2>2. CASE w # v
    BY <1>6, <1>7, <2>1, <2>2
  <2>3. CASE w = v
    <3>1. Faithful(new, Append(heard[v], s))
      BY <1>1, <1>2, <1>3, <1>11, <2>1, <2>3, HeardSample
    <3> QED  BY <1>7, <1>11, <2>3, <3>1
  <2> QED  BY <2>2, <2>3
<1> QED  BY <1>8, <1>10, <1>12, <1>13 DEF VerificationInv

-----------------------------------------------------------------------------
(* Only the incident that the verification was asked about is resolved.    *)
LEMMA HandoffKeeps ==
  ASSUME VerificationInv, NEW v \in Verifications, HandoffToIncidentEngine(v)
  PROVE  VerificationInv'
<1>1. /\ Typed /\ HistoryInv /\ VerdictsAgree /\ RowsFaithful
      /\ GetStatus(v) = "RECOVERED" /\ incident.id = request[v].incident
      /\ incident' = [incident EXCEPT !.status = "RECOVERED"]
      /\ resolved' = resolved \cup {<<v, incident.id>>}
      /\ UNCHANGED <<request, byID, active, rows, now, restarts, lost, heard>>
  BY DEF VerificationInv, HandoffToIncidentEngine, MayResolve, memory
<1>2. "RECOVERED" \in {byID[v].status, rows[v].status}
  BY <1>1 DEF GetStatus
<1>3. v \in Started /\ HeardHealthy(v)
  BY <1>1, <1>2, StateFacts DEF HistoryInv, Grounded
<1>4. Typed'
  <2>1. incident' \in [id : Nat, status : {"ANOMALY_DETECTED", "MITIGATING", "RECOVERED",
                                           "ESCALATED"}]
    BY <1>1 DEF Typed
  <2>2. <<v, incident.id>> \in Verifications \X Nat
    BY <1>1 DEF Typed
  <2> QED  BY <1>1, <2>1, <2>2 DEF Typed
<1>5. Started' = Started
  BY <1>1 DEF Started
<1>6. HistoryInv'
  BY <1>1, <1>3, <1>5 DEF HistoryInv, Grounded, HeardHealthy, ExpiresAt
<1>7. VerdictsAgree' /\ RowsFaithful'
  BY <1>1 DEF VerdictsAgree, RowsFaithful, Faithful
<1> QED  BY <1>4, <1>6, <1>7 DEF VerificationInv

LEMMA IncidentMovesKeeps ==
  ASSUME VerificationInv, IncidentMoves
  PROVE  VerificationInv'
<1>1. Typed /\ UNCHANGED <<request, memory, rows, now, restarts, lost, histories>>
  BY DEF VerificationInv, IncidentMoves
<1>2. incident' \in [id : Nat, status : {"ANOMALY_DETECTED", "MITIGATING", "RECOVERED",
                                         "ESCALATED"}]
  BY <1>1, VerificationAssumption DEF Typed, IncidentMoves
<1>3. Typed'
  BY <1>1, <1>2 DEF Typed, memory, histories
<1> QED  BY <1>1, <1>3, BesideKeeps

LEMMA TickKeeps ==
  ASSUME VerificationInv, Tick
  PROVE  VerificationInv'
<1>1. Typed /\ now' = now + 1 /\ UNCHANGED <<request, memory, rows, incident, restarts, lost,
                                             histories>>
  BY DEF VerificationInv, Tick
<1>2. Typed'
  BY <1>1 DEF Typed, memory, histories
<1> QED  BY <1>1, <1>2, BesideKeeps

LEMMA VStep == VerificationInv /\ [Next]_vars => VerificationInv'
<1> SUFFICES ASSUME VerificationInv, [Next]_vars PROVE VerificationInv'
  OBVIOUS
<1>1. CASE UNCHANGED vars
  <2>1. Typed'
    BY <1>1 DEF vars, memory, histories, VerificationInv, Typed
  <2> QED  BY <1>1, <2>1, BesideKeeps DEF vars
<1> QED  BY <1>1, StartKeeps, TimesOutKeeps, ProcessKeeps, WithdrawKeeps, HandoffKeeps,
            ReconcileKeeps, RestartKeeps, IncidentMovesKeeps, TickKeeps DEF Next

LEMMA VInvariant == Spec => []VerificationInv
BY VInit, VStep, PTL DEF Spec

-----------------------------------------------------------------------------
(* The types of the verification engine, for any bounds: activeStreams     *)
(* holds only verifications that byID says are pending, so no sample can   *)
(* move a verdict that memory has given.                                   *)
THEOREM VerificationTypeTheorem == Spec => []VerificationTypeOK
<1>1. VerificationInv => VerificationTypeOK
  BY DEF VerificationInv, Typed, VerificationTypeOK
<1> QED  BY <1>1, VInvariant, PTL

(* Memory and the table agree as long as no update was lost, after every   *)
(* call, sweep and restart, and at most one row is pending, the one that   *)
(* samples of the stream go to: RecoverFromStore, which keeps one row per  *)
(* stream, leaves none behind.                                             *)
THEOREM VerdictsAgreeTheorem == Spec => []VerdictsAgree
<1>1. VerificationInv => VerdictsAgree
  BY DEF VerificationInv
<1> QED  BY <1>1, VInvariant, PTL

(* As many samples as the streak counts, all different, are the last ones  *)
(* heard.                                                                  *)
LEMMA LastSamples ==
  ASSUME NEW v \in Verifications, heard[v] \in Seq(Sample),
         \A j, k \in 1 .. Len(heard[v]) : heard[v][j] = heard[v][k] => j = k,
         Required <= Len(heard[v])
  PROVE  Cardinality(LastHeard(v)) = Required
<1> DEFINE n == Len(heard[v])
           last == n - Required + 1 .. n
           f == [k \in last |-> heard[v][k]]
<1>1. n \in Nat /\ Required \in Nat /\ Required <= n
  BY VerificationAssumption
<1>2. last \subseteq 1 .. n
  BY <1>1
<1>3. IsFiniteSet(last) /\ Cardinality(last) = Required
  <2>1. n - Required + 1 \in Int /\ n \in Int
    BY <1>1
  <2>2. IsFiniteSet(last)
        /\ Cardinality(last) = IF n - Required + 1 > n THEN 0 ELSE n - (n - Required + 1) + 1
    BY <2>1, FS_Interval
  <2> QED  BY <1>1, <2>2, VerificationAssumption
<1>4. f \in Bijection(last, LastHeard(v))
  BY <1>2 DEF LastHeard, Bijection, Injection, Surjection, IsInjective
<1>5. ExistsBijection(last, LastHeard(v))
  BY <1>4 DEF ExistsBijection
<1> QED  BY <1>3, <1>5, FS_Bijection

(* RECOVERED rests on evidence, for any threshold and number of samples:   *)
(* a verification counts only samples it has not seen, and the seen ones   *)
(* are saved with the streak, so neither repetition nor a restart makes    *)
(* one sample count twice; and an incident is resolved only by its own     *)
(* verification, on a healthy sample from the window, whatever is lost.    *)
THEOREM EvidenceTheorem == Spec => []RecoveredOnEvidence
<1>1. ASSUME VerificationInv, lost = 0, NEW v \in Verifications, rows[v].status = "RECOVERED"
      PROVE  Evidence(v)
  <2>1. Faithful(rows[v], heard[v]) /\ heard[v] \in Seq(Sample) /\ rows[v] \in State
    BY <1>1 DEF VerificationInv, RowsFaithful, Typed
  <2>2. /\ Required \in Nat \ {0} /\ Len(heard[v]) \in Nat /\ rows[v].streak \in Nat
        /\ DOMAIN heard[v] = 1 .. Len(heard[v])
    BY <2>1, VerificationAssumption DEF State
  <2>3. Required <= rows[v].streak /\ rows[v].streak <= Len(heard[v])
    BY <1>1, <2>1 DEF Faithful
  <2>4. \A k \in Len(heard[v]) - Required + 1 .. Len(heard[v]) :
          k \in 1 .. Len(heard[v]) /\ k > Len(heard[v]) - rows[v].streak
    BY <2>2, <2>3
  <2>5. LastHeard(v) \subseteq Healthy
    BY <2>1, <2>4 DEF Faithful, LastHeard
  <2>6. Cardinality(LastHeard(v)) = Required
    BY <2>1, <2>2, <2>3, LastSamples DEF Faithful
  <2>7. \A s \in LastHeard(v) : request[v].at <= SampleAt[s] /\ SampleAt[s] < ExpiresAt(v)
    BY <1>1, <2>2, <2>4 DEF LastHeard, VerificationInv, HistoryInv
  <2> QED  BY <2>2, <2>3, <2>5, <2>6, <2>7 DEF Evidence
<1>2. ASSUME VerificationInv, lost = 0, NEW v \in Verifications,
             "RECOVERED" \in {byID[v].status, rows[v].status}
      PROVE  Evidence(v)
  <2>1. rows[v].status = "RECOVERED"
    BY <1>2 DEF VerificationInv, VerdictsAgree
  <2> QED  BY <1>1, <1>2, <2>1
<1>3. ASSUME VerificationInv, NEW v \in Verifications, NEW i \in 1 .. MaxIncidents,
             <<v, i>> \in resolved
      PROVE  /\ request[v].incident = i
             /\ \E k \in DOMAIN heard[v] :
                  /\ heard[v][k] \in Healthy
                  /\ request[v].at <= SampleAt[heard[v][k]]
                  /\ SampleAt[heard[v][k]] < ExpiresAt(v)
  <2>1. i \in Nat
    BY VerificationAssumption
  <2> QED  BY <1>3, <2>1 DEF VerificationInv, HistoryInv, HeardHealthy
<1>4. VerificationInv => RecoveredOnEvidence
  BY <1>2, <1>3 DEF RecoveredOnEvidence
<1> QED  BY <1>4, VInvariant, PTL

(* A verdict in the table stands: every call writes through an update that *)
(* leaves a terminal row its status (UpdateVerificationProgress), only a   *)
(* fresh verification is inserted, and sweeps take only pending rows.      *)
THEOREM VerdictTheorem == Spec => VerdictIsFinal
<1>1. ASSUME VerificationInv, Next, NEW v \in Verifications, rows[v].status \in Terminal
      PROVE  rows'[v].status = rows[v].status
  <2>1. Typed /\ HistoryInv /\ rows \in [Verifications -> State]
    BY <1>1 DEF VerificationInv, Typed
  <2>2. ASSUME NEW w \in Verifications, NEW s \in State, Save(w, s)
        PROVE  rows'[v].status = rows[v].status
    <3>1. CASE rows' = Written(w, s)
      BY <1>1, <2>1, <3>1, WrittenFacts
    <3> QED  BY <2>2, <3>1 DEF Save
  <2>3. ASSUME NEW w \in Verifications, NEW status \in VStatus, Conclude(w, status)
        PROVE  rows'[v].status = rows[v].status
    <3>1. byID[w] \in State
      BY <2>1 DEF Typed
    <3>2. [byID[w] EXCEPT !.status = status] \in State
      BY <3>1, StatusChange
    <3> QED  BY <2>2, <2>3, <3>2 DEF Conclude
  <2>4. {"TIMED_OUT", "CANCELLED", "NOT_RECOVERED"} \subseteq VStatus
    BY DEF VStatus, Terminal
  <2>5. ASSUME NEW w \in Verifications, NEW delay \in 0 .. MaxDelay, StartVerification(w, delay)
        PROVE  rows'[v].status = rows[v].status
    <3>1. rows[w] = None /\ rows' = [rows EXCEPT ![w].status = "PENDING"]
      BY <2>1, <2>5 DEF StartVerification, HistoryInv, Grounded
    <3>2. w # v
      BY <1>1, <3>1, StateFacts
    <3> QED  BY <2>1, <3>1, <3>2
  <2>6. ASSUME NEW s \in Sample, SampleTimesOut(s)
        PROVE  rows'[v].status = rows[v].status
    BY <2>1, <2>3, <2>4, <2>6 DEF SampleTimesOut, Typed
  <2>7. ASSUME NEW s \in Sample, ProcessSample(s)
        PROVE  rows'[v].status = rows[v].status
    <3>1. active \in Verifications /\ byID[active] \in State
      BY <2>1, <2>7 DEF ProcessSample, Counts, Typed
    <3>2. Evaluated(s) \in State
      BY <3>1 DEF Evaluated, Streak, State, VStatus, Terminal
    <3> QED  BY <2>2, <2>7, <3>1, <3>2 DEF ProcessSample
  <2>8. ASSUME NEW w \in Verifications, CancelVerification(w) \/ FailVerification(w)
        PROVE  rows'[v].status = rows[v].status
    BY <2>3, <2>4, <2>8 DEF CancelVerification, FailVerification, Withdraw
  <2>9. ASSUME rows' = Expire(rows) PROVE rows'[v].status = rows[v].status
    BY <1>1, <2>1, <2>9, ExpireFacts, StateFacts DEF Expired
  <2>10. ASSUME UNCHANGED rows PROVE rows'[v].status = rows[v].status
    BY <2>10
  <2> QED  BY <1>1, <2>5, <2>6, <2>7, <2>8, <2>9, <2>10
           DEF Next, HandoffToIncidentEngine, ReconcileTimeouts, Restart, IncidentMoves, Tick
<1>2. VerificationInv /\ [Next]_vars =>
        [\A v \in Verifications :
           rows[v].status \in Terminal => rows'[v].status = rows[v].status]_vars
  BY <1>1
<1> QED  BY <1>2, VInvariant, PTL DEF Spec, VerdictIsFinal

=============================================================================
