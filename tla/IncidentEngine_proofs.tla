------------------------ MODULE IncidentEngine_proofs ------------------------
(***************************************************************************)
(* Theorems about IncidentEngine, for every set of signals, every window   *)
(* policy and any number of restarts, cleanups and failed closures.        *)
(*                                                                         *)
(* The inductive invariant adds to the types that memory agrees with the   *)
(* row of its incident until a closure fails, that the table has no other  *)
(* active row until a stream is cleaned up, and that the observations in   *)
(* memory lie within Window of each other.                                 *)
(*                                                                         *)
(* EvidenceInv, proved on top of it, relates the observations in memory to *)
(* the stored ones and to the rows: it is what makes the count of evidence *)
(* exact and lets it survive a restart.                                    *)
(***************************************************************************)
EXTENDS IncidentEngine, FiniteSetTheorems, TLAPS

RowAgrees == faults = 0 /\ active # 0 => records[active].status = status

IncidentInv ==
  /\ IncidentTypeOK
  /\ RowAgrees
  /\ MemoryMirrorsStore
  /\ Together(observations)

(* Trimming only takes observations away.                                  *)
LEMMA TrimSubset == ASSUME NEW S PROVE Trim(S) \subseteq S
  BY DEF Trim

(* What is left lies in one window.                                        *)
LEMMA TrimTogether ==
  ASSUME NEW S, S \subseteq Anomaly
  PROVE  Together(Trim(S))
<1>1. \A b, c \in Trim(S) : DetectedAt[b] >= DetectedAt[c] - Window
  BY DEF Trim
<1>2. \A b \in Trim(S) : DetectedAt[b] \in Int
  BY TrimSubset, IncidentAssumption
<1>3. Window \in Int
  BY IncidentAssumption
<1> QED
  BY <1>1, <1>2, <1>3 DEF Together

(* What a restart loads is stored.                                         *)
LEMMA RecentSubset == ASSUME NEW t PROVE Recent(t) \subseteq stored
  BY DEF Recent, Since

(* The statuses from which each status can be reached.                     *)
LEMMA TransitionFacts ==
  ASSUME NEW from \in Status, NEW to, CanTransition(from, to)
  PROVE  /\ to \in Status
         /\ from # to
         /\ to = "RECOVERED" => from \in {"MITIGATING", "ESCALATED"}
  BY DEF CanTransition, Status

LEMMA NoClosure ==
  ASSUME NEW from \in Status \ {"NORMAL"}, ~CanTransition(from, "RECOVERED")
  PROVE  from \in {"ANOMALY_DETECTED", "RECOVERED"}
  BY DEF CanTransition, Status

LEMMA InitInv == Init => IncidentInv
<1> SUFFICES ASSUME Init PROVE IncidentInv
  OBVIOUS
<1>1. \A i \in Incident : records[i] = NoRecord
  BY DEF Init
<1>2. Opened = {} /\ Live = {}
  BY <1>1 DEF Opened, Live, NoRecord, ActiveStatus
<1>3. IncidentTypeOK
  BY <1>2, IncidentAssumption DEF Init, IncidentTypeOK, NoRecord
<1>4. RowAgrees /\ MemoryMirrorsStore /\ Together(observations)
  BY <1>2 DEF Init, RowAgrees, MemoryMirrorsStore, Together
<1> QED
  BY <1>3, <1>4 DEF IncidentInv

-----------------------------------------------------------------------------
(* Storing and remembering one more signal.                                *)
LEMMA RememberFacts ==
  ASSUME IncidentInv, NEW a \in Anomaly, Remember(a)
  PROVE  /\ stored' \subseteq Anomaly /\ seen' \subseteq stored'
         /\ observations' \subseteq seen'
         /\ now' \in 0 .. MaxTime
         /\ Together(observations')
<1>1. observations \cup {a} \subseteq Anomaly
  BY DEF IncidentInv, IncidentTypeOK
<1>2. observations' \subseteq observations \cup {a}
  BY TrimSubset DEF Remember
<1>3. Together(Trim(observations \cup {a}))
  BY <1>1, TrimTogether
<1>4. Together(observations')
  BY <1>3 DEF Remember, Together
<1>5. now' \in 0 .. MaxTime
  BY IncidentAssumption DEF Remember, IncidentInv, IncidentTypeOK
<1> QED
  BY <1>2, <1>4, <1>5 DEF Remember, IncidentInv, IncidentTypeOK

LEMMA RepeatInv ==
  ASSUME IncidentInv, NEW a \in Anomaly, Repeat(a)
  PROVE  IncidentInv'
<1>1. seen' \subseteq stored /\ observations \subseteq seen'
  BY DEF IncidentInv, IncidentTypeOK, Repeat, IsNew
<1> QED
  BY <1>1 DEF IncidentInv, IncidentTypeOK, RowAgrees, MemoryMirrorsStore, Canonical,
       Together, Opened, Live, Repeat, tables, countVars

LEMMA CorrelateInv ==
  ASSUME IncidentInv, NEW a \in Anomaly, Correlate(a)
  PROVE  IncidentInv' /\ Opened' = Opened
<1>1. active \in Incident /\ status \in ActiveStatus
  BY DEF IncidentInv, IncidentTypeOK, Correlate, HasActive, Opened
<1>2. \A i \in Incident : i # active => records'[i] = records[i]
  BY DEF Correlate, IncidentInv, IncidentTypeOK
<1>3. records'[active] = [records[active] EXCEPT !.status = status]
  BY <1>1 DEF Correlate, IncidentInv, IncidentTypeOK
<1>4. records'[active].status = status
  BY <1>1, <1>3 DEF IncidentInv, IncidentTypeOK
<1>5. active \in Opened
  BY <1>1 DEF IncidentInv, IncidentTypeOK, Correlate, HasActive
<1>6. Opened' = Opened
  BY <1>1, <1>2, <1>4, <1>5 DEF Opened, ActiveStatus
<1>7. records' \in [Incident -> [status : Status \cup {"none"}, at : Nat]]
  BY <1>1 DEF Correlate, IncidentInv, IncidentTypeOK, ActiveStatus, Status
<1>8. IncidentTypeOK'
  BY <1>6, <1>7, RememberFacts DEF Correlate, IncidentInv, IncidentTypeOK, countVars
<1>9. RowAgrees'
  BY <1>4 DEF RowAgrees, Correlate
<1>10. Live' \subseteq Live \cup {active}
  BY <1>2 DEF Live
<1>11. MemoryMirrorsStore'
  BY <1>4, <1>10 DEF MemoryMirrorsStore, Canonical, IncidentInv, Correlate, countVars
<1>12. Together(observations)'
  BY RememberFacts DEF Correlate, Together
<1> QED
  BY <1>6, <1>8, <1>9, <1>11, <1>12 DEF IncidentInv

LEMMA ObserveInv ==
  ASSUME IncidentInv, NEW a \in Anomaly, Observe(a)
  PROVE  IncidentInv'
<1>1. Opened' = Opened /\ Live' = Live
  BY DEF Observe, Opened, Live
<1>2. IncidentTypeOK'
  BY <1>1, RememberFacts DEF Observe, IncidentInv, IncidentTypeOK, countVars
<1>3. RowAgrees' /\ MemoryMirrorsStore'
  BY <1>1 DEF RowAgrees, MemoryMirrorsStore, Canonical, IncidentInv, Observe, countVars
<1>4. Together(observations)'
  BY RememberFacts DEF Observe, Together
<1> QED
  BY <1>2, <1>3, <1>4 DEF IncidentInv

LEMMA OpenInv ==
  ASSUME IncidentInv, NEW a \in Anomaly, NEW i \in Incident, Open(a, i)
  PROVE  IncidentInv' /\ Opened' = Opened \cup {i}
<1>1. records'[i] = [status |-> "ANOMALY_DETECTED", at |-> DetectedAt[a]]
  BY DEF Open, IncidentInv, IncidentTypeOK
<1>2. \A j \in Incident : j # i => records'[j] = records[j]
  BY DEF Open, IncidentInv, IncidentTypeOK
<1>3. Opened' = Opened \cup {i}
  BY <1>1, <1>2 DEF Opened
<1>4. records' \in [Incident -> [status : Status \cup {"none"}, at : Nat]]
  BY IncidentAssumption DEF Open, IncidentInv, IncidentTypeOK, Status
<1>5. i # 0
  BY DEF Incident
<1>6. IncidentTypeOK'
  BY <1>3, <1>4, <1>5, RememberFacts DEF Open, IncidentInv, IncidentTypeOK, Status, countVars
<1>7. RowAgrees'
  BY <1>1 DEF RowAgrees, Open
<1>8. Canonical => Live = {}
  <2> SUFFICES ASSUME Canonical, NEW j \in Live PROVE FALSE
    OBVIOUS
  <2>1. j = active /\ j \in Incident /\ records[j].status \in ActiveStatus
    BY DEF IncidentInv, MemoryMirrorsStore, Live
  <2>2. active # 0 /\ records[active].status = status
    BY <2>1 DEF IncidentInv, MemoryMirrorsStore, Incident
  <2> QED
    BY <2>1, <2>2 DEF Open, HasActive
<1>9. Live' \subseteq Live \cup {i}
  BY <1>2 DEF Live
<1>10. Canonical' => Canonical
  BY DEF Canonical, Open, countVars
<1>11. MemoryMirrorsStore'
  BY <1>1, <1>8, <1>9, <1>10 DEF MemoryMirrorsStore, Open
<1>12. Together(observations)'
  BY RememberFacts DEF Open, Together
<1> QED
  BY <1>3, <1>6, <1>7, <1>11, <1>12 DEF IncidentInv

-----------------------------------------------------------------------------
(* A call that gives the row of the active incident the status t.          *)
LEMMA RowUpdate ==
  ASSUME IncidentInv, active # 0, NEW t \in Status,
         records' = [records EXCEPT ![active].status = t]
  PROVE  /\ records' \in [Incident -> [status : Status \cup {"none"}, at : Nat]]
         /\ records'[active].status = t
         /\ \A i \in Incident : i # active => records'[i] = records[i]
         /\ Opened' = Opened
         /\ Live' \subseteq Live \cup {active}
         /\ t \notin ActiveStatus => active \notin Live'
<1>1. active \in Incident /\ active \in Opened
  BY DEF IncidentInv, IncidentTypeOK, Opened
<1>2. records'[active] = [records[active] EXCEPT !.status = t]
  BY <1>1 DEF IncidentInv, IncidentTypeOK
<1>3. records'[active].status = t
  BY <1>1, <1>2 DEF IncidentInv, IncidentTypeOK
<1>4. \A i \in Incident : i # active => records'[i] = records[i]
  BY DEF IncidentInv, IncidentTypeOK
<1>5. records' \in [Incident -> [status : Status \cup {"none"}, at : Nat]]
  BY <1>1 DEF IncidentInv, IncidentTypeOK
<1>6. Opened' = Opened
  BY <1>1, <1>3, <1>4 DEF Opened, Status
<1>7. Live' \subseteq Live \cup {active}
  BY <1>4 DEF Live
<1> QED
  BY <1>3, <1>4, <1>5, <1>6, <1>7 DEF Live

LEMMA TransitionInv ==
  ASSUME IncidentInv, NEW t \in Status, TransitionActiveIncident(t)
  PROVE  IncidentInv' /\ Opened' = Opened
<1>1. active # 0 /\ active \in Incident
  BY DEF TransitionActiveIncident, IncidentInv, IncidentTypeOK, Opened
<1>2. records' = [records EXCEPT ![active].status = t]
  BY DEF TransitionActiveIncident
<1>3. Opened' = Opened /\ active \in Opened
  BY <1>1, <1>2, RowUpdate DEF IncidentInv, IncidentTypeOK
<1>4. observations' \subseteq observations
  BY DEF TransitionActiveIncident
<1>5. IncidentTypeOK'
  <2>1. /\ active' \in Opened' \cup {0}
        /\ status' \in (Status \ {"NORMAL"}) \cup {"none"}
        /\ active' = 0 <=> status' = "none"
    BY <1>1, <1>3 DEF TransitionActiveIncident, Status
  <2> QED
    BY <1>1, <1>2, <1>4, <2>1, RowUpdate
    DEF TransitionActiveIncident, IncidentInv, IncidentTypeOK, countVars
<1>6. RowAgrees'
  BY <1>1, <1>2, RowUpdate DEF RowAgrees, TransitionActiveIncident
<1>7. MemoryMirrorsStore'
  <2> SUFFICES ASSUME Canonical'
               PROVE  /\ Live' \subseteq {active'}
                      /\ active' # 0 => records'[active'].status = status'
    BY DEF MemoryMirrorsStore
  <2>1. Live \subseteq {active}
    BY DEF Canonical, TransitionActiveIncident, countVars, IncidentInv, MemoryMirrorsStore
  <2>2. Live' \subseteq {active}
    BY <1>1, <1>2, <2>1, RowUpdate
  <2>3. CASE t = "NORMAL"
    <3>1. active \notin Live'
      BY <1>1, <1>2, <2>3, RowUpdate DEF ActiveStatus
    <3> QED
      BY <2>2, <2>3, <3>1 DEF TransitionActiveIncident
  <2>4. CASE t # "NORMAL"
    BY <1>1, <1>2, <2>2, <2>4, RowUpdate DEF TransitionActiveIncident
  <2> QED
    BY <2>3, <2>4
<1>8. Together(observations)'
  BY <1>4 DEF IncidentInv, Together
<1> QED
  BY <1>3, <1>5, <1>6, <1>7, <1>8 DEF IncidentInv

LEMMA CloseInv ==
  ASSUME IncidentInv, CloseActiveIncident
  PROVE  IncidentInv' /\ Opened' = Opened
<1>1. active # 0 /\ active \in Incident /\ status \in Status \ {"NORMAL"}
  BY DEF CloseActiveIncident, IncidentInv, IncidentTypeOK, Opened
<1>2. active' = 0 /\ status' = "none" /\ observations' = {}
  BY DEF CloseActiveIncident, Reset
<1>3. RowAgrees' /\ Together(observations)'
  BY <1>2 DEF RowAgrees, Together
<1>4. CASE CanTransition(status, "RECOVERED")
  <2>1. records' = [records EXCEPT ![active].status = "RECOVERED"] /\ UNCHANGED countVars
    BY <1>4 DEF CloseActiveIncident
  <2>2. "RECOVERED" \in Status /\ "RECOVERED" \notin ActiveStatus
    BY DEF Status, ActiveStatus
  <2>3. Opened' = Opened /\ Live' \subseteq Live \ {active}
    BY <1>1, <2>1, <2>2, RowUpdate
  <2>4. IncidentTypeOK'
    BY <1>1, <1>2, <2>1, <2>2, RowUpdate
    DEF CloseActiveIncident, IncidentInv, IncidentTypeOK, countVars
  <2>5. MemoryMirrorsStore'
    BY <1>2, <2>1, <2>3 DEF MemoryMirrorsStore, Canonical, IncidentInv, countVars
  <2> QED
    BY <1>3, <2>3, <2>4, <2>5 DEF IncidentInv
<1>5. CASE ~CanTransition(status, "RECOVERED")
  <2>1. UNCHANGED <<records, restarts, faults>>
    BY <1>5 DEF CloseActiveIncident
  <2>2. /\ status = "ANOMALY_DETECTED" => cleanups < MaxCleanups
        /\ cleanups' = IF status = "ANOMALY_DETECTED" THEN cleanups + 1 ELSE cleanups
    BY <1>5 DEF CloseActiveIncident
  <2>3. Opened' = Opened /\ Live' = Live
    BY <2>1 DEF Opened, Live
  <2>4. IncidentTypeOK'
    BY <1>2, <2>1, <2>2, <2>3, IncidentAssumption
    DEF CloseActiveIncident, IncidentInv, IncidentTypeOK
  <2>5. MemoryMirrorsStore'
    <3> SUFFICES ASSUME Canonical' PROVE Live' = {}
      BY <1>2 DEF MemoryMirrorsStore
    <3>1. status # "ANOMALY_DETECTED" /\ Canonical
      BY <2>1, <2>2 DEF Canonical, IncidentInv, IncidentTypeOK
    <3>2. status = "RECOVERED"
      BY <1>1, <1>5, <3>1, NoClosure
    <3> QED
      BY <1>1, <2>3, <3>1, <3>2 DEF IncidentInv, MemoryMirrorsStore, Live, ActiveStatus
  <2> QED
    BY <1>3, <2>3, <2>4, <2>5 DEF IncidentInv
<1> QED
  BY <1>4, <1>5

LEMMA CloseFailsInv ==
  ASSUME IncidentInv, CloseFails
  PROVE  IncidentInv' /\ Opened' = Opened
<1>1. Opened' = Opened
  BY DEF CloseFails, tables, Opened
<1>2. faults' # 0
  BY DEF CloseFails, IncidentInv, IncidentTypeOK
<1>3. IncidentTypeOK'
  BY <1>1, IncidentAssumption
  DEF CloseFails, IncidentInv, IncidentTypeOK, tables, Status
<1>4. RowAgrees' /\ MemoryMirrorsStore'
  BY <1>2 DEF RowAgrees, MemoryMirrorsStore, Canonical
<1>5. Together(observations)'
  BY DEF CloseFails, IncidentInv, Together
<1> QED
  BY <1>1, <1>3, <1>4, <1>5 DEF IncidentInv

LEMMA RestartInv ==
  ASSUME IncidentInv, NEW t \in now .. MaxTime, Restart(t)
  PROVE  IncidentInv' /\ Opened' = Opened
<1>1. Opened' = Opened /\ Live' = Live
  BY DEF Restart, tables, Opened, Live
<1>2. \/ active' \in Live /\ status' = records[active'].status
      \/ Live = {} /\ active' = 0 /\ status' = "none"
  BY DEF Restart, LastLive
<1>3. Live \subseteq Opened /\ 0 \notin Live
  BY DEF Live, Opened, ActiveStatus, Incident
<1>4. active' # 0 => status' \in ActiveStatus /\ status' = records'[active'].status
  BY <1>2 DEF Live, Restart, tables
<1>5. Recent(t) \subseteq Anomaly /\ Trim(Recent(t)) \subseteq Recent(t)
  BY RecentSubset, TrimSubset DEF IncidentInv, IncidentTypeOK
<1>6. IncidentTypeOK'
  <2>1. /\ active' \in Opened' \cup {0}
        /\ status' \in (Status \ {"NORMAL"}) \cup {"none"}
        /\ active' = 0 <=> status' = "none"
    BY <1>1, <1>2, <1>3, <1>4 DEF Status, ActiveStatus
  <2>2. seen' \subseteq stored' /\ observations' \subseteq seen'
    BY <1>5, RecentSubset DEF Restart, tables
  <2>3. now' \in 0 .. MaxTime /\ restarts' \in 0 .. MaxRestarts
    BY IncidentAssumption DEF Restart, IncidentInv, IncidentTypeOK
  <2> QED
    BY <2>1, <2>2, <2>3 DEF Restart, tables, IncidentInv, IncidentTypeOK
<1>7. RowAgrees'
  BY <1>4 DEF RowAgrees
<1>8. MemoryMirrorsStore'
  BY <1>1, <1>2, <1>4
  DEF MemoryMirrorsStore, Canonical, Restart, IncidentInv
<1>9. Together(observations)'
  BY <1>5, TrimTogether DEF Restart, Together
<1> QED
  BY <1>1, <1>6, <1>7, <1>8, <1>9 DEF IncidentInv

LEMMA NextInv == IncidentInv /\ [Next]_vars => IncidentInv'
<1> SUFFICES ASSUME IncidentInv, [Next]_vars PROVE IncidentInv'
  OBVIOUS
<1>1. CASE \E a \in Anomaly : Repeat(a) \/ Correlate(a) \/ Observe(a)
  BY <1>1, RepeatInv, CorrelateInv, ObserveInv
<1>2. CASE \E a \in Anomaly, i \in Incident : Open(a, i)
  BY <1>2, OpenInv
<1>3. CASE \E t \in Status : TransitionActiveIncident(t)
  BY <1>3, TransitionInv
<1>4. CASE CloseActiveIncident \/ CloseFails
  BY <1>4, CloseInv, CloseFailsInv
<1>5. CASE \E t \in now .. MaxTime : Restart(t)
  BY <1>5, RestartInv
<1>6. CASE UNCHANGED vars
  BY <1>6 DEF vars, tables, memory, countVars, IncidentInv, IncidentTypeOK, RowAgrees,
              MemoryMirrorsStore, Canonical, Together, Opened, Live
<1> QED
  BY <1>1, <1>2, <1>3, <1>4, <1>5, <1>6 DEF Next

(* Type correctness of the engine and its tables, also across restarts:    *)
(* nothing is in memory that is not stored.                                *)
THEOREM IncidentTypeTheorem == Spec => []IncidentTypeOK
<1>1. IncidentInv => IncidentTypeOK
  BY DEF IncidentInv
<1> QED
  BY InitInv, NextInv, <1>1, PTL DEF Spec

(* While every closure is canonical and stored, the table has at most one  *)
(* active incident and memory has the same one, whatever restarts occur.   *)
THEOREM MirrorTheorem == Spec => []MemoryMirrorsStore
<1>1. IncidentInv => MemoryMirrorsStore
  BY DEF IncidentInv
<1> QED
  BY InitInv, NextInv, <1>1, PTL DEF Spec

-----------------------------------------------------------------------------
(* Only Open adds a row; every other step changes at most the status of    *)
(* the active incident, from the status memory knows.                      *)
LEMMA StatusChanges ==
  ASSUME IncidentInv, [Next]_vars, faults = 0, NEW i \in Opened,
         records'[i].status # records[i].status
  PROVE  CanTransition(records[i].status, records'[i].status)
<1>1. i \in Incident
  BY DEF Opened
<1>2. CASE UNCHANGED records
  BY <1>2
<1>3. ASSUME active # 0, NEW t \in Status, i # active,
             records' = [records EXCEPT ![active].status = t]
      PROVE  FALSE
  BY <1>1, <1>3, RowUpdate
<1>4. ASSUME active # 0
      PROVE  records[active].status = status
  BY <1>4 DEF IncidentInv, RowAgrees
<1>5. CASE \E a \in Anomaly : Correlate(a)
  <2>1. active # 0 /\ status \in Status
    BY <1>5 DEF Correlate, HasActive, ActiveStatus, Status
  <2>2. records' = [records EXCEPT ![active].status = status]
    BY <1>5 DEF Correlate
  <2>3. i = active /\ records'[active].status = status
    BY <1>3, <2>1, <2>2, RowUpdate
  <2> QED
    BY <1>4, <2>1, <2>3
<1>6. CASE \E a \in Anomaly, j \in Incident : Open(a, j)
  <2>1. PICK j \in Incident : j \notin Opened /\ \E a \in Anomaly : Open(a, j)
    BY <1>6 DEF Open
  <2>2. records'[i] = records[i]
    BY <1>1, <2>1 DEF Open, IncidentInv, IncidentTypeOK
  <2> QED
    BY <2>2
<1>7. CASE \E t \in Status : TransitionActiveIncident(t)
  <2>1. PICK t \in Status : TransitionActiveIncident(t)
    BY <1>7
  <2>2. /\ active # 0 /\ CanTransition(status, t)
        /\ records' = [records EXCEPT ![active].status = t]
    BY <2>1 DEF TransitionActiveIncident
  <2>3. i = active /\ records'[active].status = t
    BY <1>3, <2>2, RowUpdate
  <2> QED
    BY <1>4, <2>2, <2>3
<1>8. CASE CloseActiveIncident /\ ~UNCHANGED records
  <2>1. /\ active # 0 /\ CanTransition(status, "RECOVERED")
        /\ records' = [records EXCEPT ![active].status = "RECOVERED"]
    BY <1>8 DEF CloseActiveIncident
  <2>2. "RECOVERED" \in Status
    BY DEF Status
  <2>3. i = active /\ records'[active].status = "RECOVERED"
    BY <1>3, <2>1, <2>2, RowUpdate
  <2> QED
    BY <1>4, <2>1, <2>3
<1>9. UNCHANGED records \/ <1>5!1 \/ <1>6!1 \/ <1>7!1 \/ <1>8!1
  BY DEF Next, vars, tables, Repeat, Observe, CloseFails, Restart
<1> QED
  BY <1>2, <1>5, <1>6, <1>7, <1>8, <1>9

(* No call takes a row through a transition that CanTransitionTo refuses,  *)
(* before a closure fails.                                                 *)
THEOREM FSMTheorem == Spec => RecordsFollowFSM
<1>1. IncidentInv /\ [Next]_vars =>
        [faults = 0 =>
           \A i \in Opened : records'[i].status # records[i].status =>
             CanTransition(records[i].status, records'[i].status)]_vars
  BY StatusChanges
<1> QED
  BY InitInv, NextInv, <1>1, PTL DEF Spec, RecordsFollowFSM

-----------------------------------------------------------------------------
(* The observations counted by an opening are the evidence it needs: they  *)
(* are stored, within Window of each other, and the signal is new.         *)
LEMMA OpeningEvidence ==
  ASSUME IncidentInv, NEW a \in Anomaly, NEW i \in Incident, Open(a, i)
  PROVE  \E S \in SUBSET stored' :
           /\ Cardinality(S) >= M /\ Together(S)
           /\ S \ stored # {}
<1> DEFINE S == Within(observations \cup {a}, a)
<1>1. observations \cup {a} \subseteq Anomaly
  BY DEF IncidentInv, IncidentTypeOK
<1>2. \A b \in Anomaly : DetectedAt[b] \in Int
  BY IncidentAssumption
<1>3. Window \in Nat
  BY IncidentAssumption
<1>4. S = {b \in observations \cup {a} : DetectedAt[b] >= DetectedAt[a] - Window}
  BY DEF Within, Since
<1>5. a \in S /\ a \notin stored
  <2>1. DetectedAt[a] \in Int /\ DetectedAt[a] >= DetectedAt[a] - Window
    BY <1>2, <1>3
  <2>2. a \in S
    BY <1>4, <2>1
  <2> QED
    BY <2>2 DEF Open, IsNew
<1>6. S \subseteq stored'
  BY <1>4 DEF Open, Remember, IncidentInv, IncidentTypeOK
<1>7. Cardinality(S) >= M
  BY DEF Open, Count
<1>8. \A b \in observations : ~(DetectedAt[a] < DetectedAt[b] - Window)
  BY DEF Open, Stale
<1>9. Together(S)
  <2> SUFFICES ASSUME NEW b \in S, NEW c \in S
               PROVE  DetectedAt[b] - DetectedAt[c] <= Window
    BY DEF Together
  <2>1. CASE b \in observations /\ c \in observations
    BY <2>1 DEF IncidentInv, Together
  <2>2. CASE b = a
    BY <1>1, <1>2, <1>3, <1>4, <2>2
  <2>3. CASE b \in observations /\ c = a
    BY <1>1, <1>2, <1>3, <1>8, <2>3
  <2> QED
    BY <1>4, <2>1, <2>2, <2>3
<1> QED
  BY <1>5, <1>6, <1>7, <1>9

(* Every incident is opened by a new signal that is one of M stored        *)
(* observations within Window of each other, whatever restarts and faults  *)
(* came before: the durable form of the M-of-N policy.                     *)
THEOREM EvidenceTheorem == Spec => OpensOnEvidence
<1>1. IncidentInv /\ [Next]_vars =>
        [Opened' # Opened =>
           \E S \in SUBSET stored' :
             /\ Cardinality(S) >= M /\ Together(S)
             /\ S \ stored # {}]_vars
  <2> SUFFICES ASSUME IncidentInv, [Next]_vars, Opened' # Opened
               PROVE  \E S \in SUBSET stored' :
                        /\ Cardinality(S) >= M /\ Together(S)
                        /\ S \ stored # {}
    OBVIOUS
  <2>1. CASE \E a \in Anomaly, i \in Incident : Open(a, i)
    BY <2>1, OpeningEvidence
  <2>2. CASE \E a \in Anomaly : Repeat(a) \/ Correlate(a) \/ Observe(a)
    BY <2>2, CorrelateInv DEF Repeat, Observe, tables, Opened
  <2>3. CASE \E t \in Status : TransitionActiveIncident(t)
    BY <2>3, TransitionInv
  <2>4. CASE \/ CloseActiveIncident \/ CloseFails
             \/ \E t \in now .. MaxTime : Restart(t)
    BY <2>4, CloseInv, CloseFailsInv, RestartInv
  <2>5. CASE UNCHANGED vars
    BY <2>5 DEF vars, tables, Opened
  <2> QED
    BY <2>1, <2>2, <2>3, <2>4, <2>5 DEF Next
<1> QED
  BY InitInv, NextInv, <1>1, PTL DEF Spec, OpensOnEvidence

-----------------------------------------------------------------------------
(* The evidence that no incident has used yet: the observations in memory, *)
(* unless they are those of the active incident.                           *)
Unused == IF HasActive THEN {} ELSE observations

(* The stored signals pay for the incidents, M for each.                   *)
EvidencePaid ==
  restarts = 0 /\ faults = 0 =>
    M * Cardinality(Opened) + Cardinality(Unused) <= Cardinality(stored)

(* A pair is enough, and none is stored: the latest signal is in memory,   *)
(* so that a signal near any stored one would have met it.                 *)
Apart(a, b) == DetectedAt[a] - DetectedAt[b] > Window
StoredApart ==
  M <= 2 /\ restarts = 0 /\ Opened = {} =>
    /\ M = 1 => stored = {}
    /\ \A a, b \in stored : a = b \/ Apart(a, b) \/ Apart(b, a)
    /\ \A a \in stored : \E c \in observations : DetectedAt[a] <= DetectedAt[c]

(* Before the first incident the signals still recent are all in memory,   *)
(* too few to open one, and so few that a restart loads them all.          *)
RecentRemembered ==
  Opened = {} /\ M <= RecoveryLimit + 1 =>
    /\ Since(stored, now - Window) \subseteq observations
    /\ Cardinality(Since(stored, now - Window)) < M

(* Nothing stored is from the future.                                      *)
StoredPast == \A a \in stored : DetectedAt[a] <= now

EvidenceInv == EvidencePaid /\ StoredApart /\ RecentRemembered

LEMMA Finite ==
  ASSUME IncidentInv
  PROVE  /\ IsFiniteSet(stored) /\ IsFiniteSet(observations) /\ IsFiniteSet(Opened)
         /\ stored \subseteq Anomaly /\ observations \subseteq stored
<1>1. stored \subseteq Anomaly /\ observations \subseteq stored
  BY DEF IncidentInv, IncidentTypeOK
<1>2. IsFiniteSet(stored) /\ IsFiniteSet(observations)
  BY <1>1, FS_Subset, IncidentAssumption
<1>3. IsFiniteSet(Incident)
  <2>1. 1 \in Int /\ MaxIncidents \in Int
    BY IncidentAssumption
  <2>2. IsFiniteSet(1 .. MaxIncidents)
    BY <2>1, FS_Interval
  <2> QED
    BY <2>2 DEF Incident
<1>4. Opened \in SUBSET Incident
  BY DEF Opened
<1>5. IsFiniteSet(Opened)
  BY <1>3, <1>4, FS_Subset
<1> QED
  BY <1>1, <1>2, <1>5

(* A new signal is one more stored signal, and not yet an observation.     *)
LEMMA RememberCounts ==
  ASSUME IncidentInv, NEW a \in Anomaly, IsNew(a), Remember(a)
  PROVE  /\ Cardinality(stored') = Cardinality(stored) + 1
         /\ Cardinality(observations \cup {a}) = Cardinality(observations) + 1
         /\ Cardinality(observations') <= Cardinality(observations) + 1
         /\ IsFiniteSet(observations \cup {a}) /\ IsFiniteSet(observations')
<1>1. a \notin stored /\ a \notin observations
  BY Finite DEF IsNew
<1>2. Cardinality(stored') = Cardinality(stored) + 1
  BY <1>1, Finite, FS_AddElement DEF Remember
<1>3. /\ Cardinality(observations \cup {a}) = Cardinality(observations) + 1
      /\ IsFiniteSet(observations \cup {a})
  BY <1>1, Finite, FS_AddElement
<1>4. observations' \in SUBSET (observations \cup {a})
  BY TrimSubset DEF Remember
<1>5. IsFiniteSet(observations') /\ Cardinality(observations') <= Cardinality(observations) + 1
  BY <1>3, <1>4, FS_Subset
<1> QED
  BY <1>2, <1>3, <1>5

(* The signals that Process counts for a new one.                          *)
LEMMA CountFacts ==
  ASSUME IncidentInv, NEW a \in Anomaly
  PROVE  /\ Within(observations \cup {a}, a) =
              {b \in observations \cup {a} : DetectedAt[b] >= DetectedAt[a] - Window}
         /\ a \in Within(observations \cup {a}, a)
         /\ IsFiniteSet(Within(observations \cup {a}, a))
         /\ Count(a) \in Nat /\ Count(a) >= 1
<1> DEFINE W == Within(observations \cup {a}, a)
<1>1. W = {b \in observations \cup {a} : DetectedAt[b] >= DetectedAt[a] - Window}
  BY DEF Within, Since
<1>2. a \in W
  BY <1>1, IncidentAssumption
<1>3. W \in SUBSET (observations \cup {a}) /\ IsFiniteSet(observations \cup {a})
  BY <1>1, Finite, FS_AddElement
<1>4. IsFiniteSet(W) /\ {a} \in SUBSET W
  BY <1>2, <1>3, FS_Subset
<1>5. Cardinality({a}) = 1 /\ Cardinality({a}) <= Cardinality(W)
  BY <1>4, FS_Subset, FS_Singleton
<1>6. Cardinality(W) \in Nat
  BY <1>4, FS_CardinalityType
<1> QED
  BY <1>1, <1>2, <1>4, <1>5, <1>6 DEF Count

-----------------------------------------------------------------------------
LEMMA InitEvidence == Init => EvidenceInv
<1> SUFFICES ASSUME Init PROVE EvidenceInv
  OBVIOUS
<1>1. Opened = {} /\ Unused = {} /\ stored = {} /\ observations = {}
  BY DEF Init, Opened, NoRecord, Unused
<1>2. Cardinality({}) = 0 /\ M \in Nat \ {0}
  BY FS_EmptySet, IncidentAssumption
<1>3. EvidencePaid
  BY <1>1, <1>2 DEF EvidencePaid
<1>4. StoredApart
  BY <1>1 DEF StoredApart
<1>5. Since(stored, now - Window) = {}
  BY <1>1 DEF Since
<1>6. RecentRemembered
  BY <1>1, <1>2, <1>5 DEF RecentRemembered
<1> QED
  BY <1>3, <1>4, <1>6 DEF EvidenceInv

(* Steps that store nothing, open nothing and use up or drop observations. *)
LEMMA PaidKept ==
  ASSUME IncidentInv, EvidencePaid,
         restarts' = 0 /\ faults' = 0 => restarts = 0 /\ faults = 0,
         Opened' = Opened, stored' = stored,
         Unused' \subseteq Unused
  PROVE  EvidencePaid'
<1>1. Unused' \in SUBSET Unused /\ IsFiniteSet(Unused)
  BY Finite, FS_EmptySet DEF Unused
<1>2. Cardinality(Unused') <= Cardinality(Unused)
  BY <1>1, FS_Subset
<1>3. /\ Cardinality(Opened) \in Nat /\ Cardinality(stored) \in Nat
      /\ Cardinality(Unused) \in Nat /\ Cardinality(Unused') \in Nat
  BY <1>1, Finite, FS_Subset, FS_CardinalityType
<1>4. M * Cardinality(Opened) \in Int
  BY <1>3, IncidentAssumption
<1> QED
  BY <1>2, <1>3, <1>4 DEF EvidencePaid

(* With no incident opened yet there is none in memory.                    *)
LEMMA NothingActive ==
  ASSUME IncidentInv, Opened = {}
  PROVE  active = 0 /\ status = "none" /\ Unused = observations
  BY DEF IncidentInv, IncidentTypeOK, Unused, HasActive

(* The calls that need an active incident keep EvidenceInv when they keep  *)
(* the tables' signals and the payment.                                    *)
LEMMA ActiveKept ==
  ASSUME IncidentInv, active # 0, Opened' = Opened, EvidencePaid'
  PROVE  EvidenceInv'
<1>1. Opened' # {}
  BY DEF IncidentInv, IncidentTypeOK
<1> QED
  BY <1>1 DEF EvidenceInv, StoredApart, RecentRemembered

-----------------------------------------------------------------------------
LEMMA RepeatEvidence ==
  ASSUME IncidentInv, EvidenceInv, NEW a \in Anomaly, Repeat(a)
  PROVE  EvidenceInv'
  BY DEF EvidenceInv, EvidencePaid, StoredApart, RecentRemembered, Repeat, Opened, Unused,
     HasActive, Apart, Since, tables, countVars

LEMMA CorrelateEvidence ==
  ASSUME IncidentInv, EvidenceInv, NEW a \in Anomaly, Correlate(a)
  PROVE  EvidenceInv'
<1>1. Opened' = Opened /\ active # 0 /\ Remember(a) /\ IsNew(a)
  BY CorrelateInv DEF Correlate, HasActive
<1>2. Unused = {} /\ Unused' = {}
  BY DEF Correlate, HasActive, Unused
<1>3. Cardinality(stored') = Cardinality(stored) + 1
  BY <1>1, RememberCounts
<1>4. /\ Cardinality(Opened) \in Nat /\ Cardinality(stored) \in Nat
      /\ Cardinality({}) = 0
  BY Finite, FS_CardinalityType, FS_EmptySet
<1>5. M * Cardinality(Opened) \in Int
  BY <1>4, IncidentAssumption
<1>6. EvidencePaid'
  BY <1>1, <1>2, <1>3, <1>4, <1>5 DEF EvidencePaid, EvidenceInv, Correlate, countVars
<1> QED
  BY <1>1, <1>6, ActiveKept

(* The incident takes the observations with it, M of them at least.        *)
LEMMA OpenEvidence ==
  ASSUME IncidentInv, EvidenceInv, NEW a \in Anomaly, NEW i \in Incident, Open(a, i)
  PROVE  EvidenceInv'
<1>1. Opened' = Opened \cup {i} /\ i \notin Opened
  BY OpenInv DEF Open
<1>2. Remember(a) /\ IsNew(a) /\ ~HasActive /\ Count(a) >= M
  BY DEF Open
<1>3. Unused = observations /\ Unused' = {}
  BY <1>2 DEF Unused, HasActive, Open, ActiveStatus, Incident
<1>4. Cardinality(Opened') = Cardinality(Opened) + 1
  BY <1>1, Finite, FS_AddElement
<1>5. Count(a) <= Cardinality(observations) + 1
  <2>1. Within(observations \cup {a}, a) \in SUBSET (observations \cup {a})
    BY CountFacts
  <2>2. Cardinality(Within(observations \cup {a}, a)) <= Cardinality(observations \cup {a})
    BY <1>2, <2>1, RememberCounts, FS_Subset
  <2> QED
    BY <1>2, <2>2, RememberCounts DEF Count
<1>6. /\ Cardinality(Opened) \in Nat /\ Cardinality(stored) \in Nat
      /\ Cardinality(observations) \in Nat /\ Cardinality({}) = 0
      /\ M \in Nat /\ Count(a) \in Nat
  BY Finite, FS_CardinalityType, FS_EmptySet, CountFacts, IncidentAssumption
<1>7. M <= Cardinality(observations) + 1
  BY <1>2, <1>5, <1>6
<1>8. M * (Cardinality(Opened) + 1) = M * Cardinality(Opened) + M
  BY <1>6
<1>9. M * Cardinality(Opened) \in Int
  BY <1>6
<1>10. Cardinality(stored') = Cardinality(stored) + 1
  BY <1>2, RememberCounts
<1>11. EvidencePaid'
  <2> SUFFICES ASSUME restarts' = 0, faults' = 0
               PROVE  M * Cardinality(Opened') + Cardinality(Unused') <= Cardinality(stored')
    BY DEF EvidencePaid
  <2>1. M * Cardinality(Opened) + Cardinality(observations) <= Cardinality(stored)
    BY <1>3 DEF EvidenceInv, EvidencePaid, Open, countVars
  <2>2. Cardinality(Unused') = 0 /\ M * Cardinality(Opened') = M * Cardinality(Opened) + M
    BY <1>3, <1>4, <1>6, <1>8
  <2> QED
    BY <1>6, <1>7, <1>9, <1>10, <2>1, <2>2
<1>12. Opened' # {}
  BY <1>1
<1> QED
  BY <1>11, <1>12 DEF EvidenceInv, StoredApart, RecentRemembered

-----------------------------------------------------------------------------
(* The latest of the observations stays.                                   *)
LEMMA TrimKeepsLatest ==
  ASSUME NEW S, S \subseteq Anomaly, NEW a \in S,
         \A b \in S : DetectedAt[b] <= DetectedAt[a]
  PROVE  a \in Trim(S)
<1> DEFINE valid == {b \in S : \A c \in S : DetectedAt[b] >= DetectedAt[c] - Window}
<1>1. \A b \in S : DetectedAt[b] \in Int
  BY IncidentAssumption
<1>2. Window \in Nat /\ N \in Nat \ {0}
  BY IncidentAssumption
<1>3. a \in valid
  BY <1>1, <1>2
<1>4. {c \in valid : DetectedAt[c] > DetectedAt[a]} = {}
  BY <1>1
<1>5. Cardinality({c \in valid : DetectedAt[c] > DetectedAt[a]}) < N
  BY <1>2, <1>4, FS_EmptySet
<1> QED
  BY <1>3, <1>5 DEF Trim

(* A signal that does not open the first incident although two are enough  *)
(* is later than all stored ones, by more than the window.                 *)
LEMMA AloneIsApart ==
  ASSUME IncidentInv, StoredApart, NEW a \in Anomaly, Observe(a),
         M <= 2, restarts = 0, Opened = {}
  PROVE  /\ M = 2
         /\ \A b \in stored : Apart(a, b)
<1>1. /\ IsNew(a) /\ ~Stale(a) /\ Count(a) < M
      /\ M \in Nat /\ Window \in Nat
  BY IncidentAssumption DEF Observe
<1>2. M = 2 /\ Count(a) = 1
  <2>1. Count(a) \in Nat /\ Count(a) >= 1
    BY CountFacts
  <2> QED
    BY <1>1, <2>1
<1>3. Within(observations \cup {a}, a) = {a}
  <2>1. IsFiniteSet(Within(observations \cup {a}, a)) /\ a \in Within(observations \cup {a}, a)
    BY CountFacts
  <2>2. \E x : Within(observations \cup {a}, a) = {x}
    BY <1>2, <2>1, FS_Singleton DEF Count
  <2> QED
    BY <2>1, <2>2
<1>4. observations \subseteq Anomaly /\ stored \subseteq Anomaly
  BY Finite
<1>5. \A b \in Anomaly : DetectedAt[b] \in Int
  BY IncidentAssumption
<1>6. a \notin observations
  BY <1>1, Finite DEF IsNew
<1>7. \A c \in observations : ~(DetectedAt[c] >= DetectedAt[a] - Window)
  BY <1>3, <1>6, CountFacts
<1>8. ASSUME NEW b \in stored PROVE Apart(a, b)
  <2>1. PICK c \in observations : DetectedAt[b] <= DetectedAt[c]
    BY DEF StoredApart
  <2> QED
    BY <1>1, <1>4, <1>5, <1>7, <2>1 DEF Apart
<1> QED
  BY <1>2, <1>8

LEMMA ObserveApart ==
  ASSUME IncidentInv, EvidenceInv, NEW a \in Anomaly, Observe(a)
  PROVE  StoredApart'
<1> SUFFICES ASSUME M <= 2, restarts' = 0, Opened' = {}
             PROVE  /\ M = 1 => stored' = {}
                    /\ \A b, c \in stored' : b = c \/ Apart(b, c) \/ Apart(c, b)
                    /\ \A b \in stored' : \E c \in observations' :
                         DetectedAt[b] <= DetectedAt[c]
  BY DEF StoredApart, Apart
<1>1. Opened = {} /\ restarts = 0 /\ StoredApart
  BY DEF Observe, Opened, countVars, EvidenceInv
<1>2. M = 2 /\ \A b \in stored : Apart(a, b)
  BY <1>1, AloneIsApart
<1>3. stored' = stored \cup {a} /\ observations' = Trim(observations \cup {a})
  BY DEF Observe, Remember
<1>4. \A b, c \in stored' : b = c \/ Apart(b, c) \/ Apart(c, b)
  BY <1>1, <1>2, <1>3 DEF StoredApart
<1>5. \A b \in stored' : DetectedAt[b] <= DetectedAt[a]
  <2>1. stored \subseteq Anomaly /\ Window \in Nat
    BY Finite, IncidentAssumption
  <2>2. \A b \in Anomaly : DetectedAt[b] \in Int
    BY IncidentAssumption
  <2> QED
    BY <1>2, <1>3, <2>1, <2>2 DEF Apart
<1>6. observations \cup {a} \subseteq stored' /\ observations \cup {a} \subseteq Anomaly
  BY <1>3, Finite
<1>7. a \in observations'
  <2> DEFINE S == observations \cup {a}
  <2>1. a \in S /\ S \subseteq Anomaly /\ \A b \in S : DetectedAt[b] <= DetectedAt[a]
    BY <1>5, <1>6
  <2>2. a \in Trim(S)
    BY <2>1, TrimKeepsLatest
  <2> QED
    BY <1>3, <2>2
<1> QED
  BY <1>2, <1>4, <1>5, <1>7

(* Of the observations and the new signal, those not older than a window   *)
(* before now were counted and stay: they are fewer than M.                *)
LEMMA ObserveRecent ==
  ASSUME IncidentInv, StoredPast, StoredPast', EvidenceInv,
         NEW a \in Anomaly, Observe(a)
  PROVE  RecentRemembered'
<1> SUFFICES ASSUME Opened' = {}, M <= RecoveryLimit + 1
             PROVE  /\ Since(stored', now' - Window) \subseteq observations'
                    /\ Cardinality(Since(stored', now' - Window)) < M
  BY DEF RecentRemembered, Since
<1> DEFINE S == observations \cup {a}
<1> DEFINE W == Within(S, a)
<1>1. Since(stored, now - Window) \subseteq observations
  BY DEF Observe, Opened, EvidenceInv, RecentRemembered
<1>2. /\ stored' = stored \cup {a} /\ observations' = Trim(S)
      /\ now' = IF DetectedAt[a] > now THEN DetectedAt[a] ELSE now
      /\ Count(a) < M
  BY DEF Observe, Remember
<1>3. /\ \A b \in Anomaly : DetectedAt[b] \in Int
      /\ now \in Int /\ Window \in Nat /\ M \in Nat /\ N \in Nat /\ M <= N
  BY IncidentAssumption DEF IncidentInv, IncidentTypeOK
<1>4. S \subseteq Anomaly /\ stored \subseteq Anomaly /\ S \subseteq stored'
  BY <1>2, Finite
<1>5. now' \in Int /\ now' >= now /\ now' >= DetectedAt[a]
  BY <1>2, <1>3
<1>6. \A b \in stored' : DetectedAt[b] <= now'
  BY DEF StoredPast
<1>7. ASSUME NEW b \in stored', DetectedAt[b] >= now' - Window
      PROVE  b \in S /\ b \in W
  <2>1. DetectedAt[b] \in Int
    BY <1>2, <1>3, <1>4
  <2>2. b \in S
    <3>1. CASE b = a
      BY <3>1
    <3>2. CASE b \in stored
      <4>1. DetectedAt[b] >= now - Window
        BY <1>3, <1>5, <1>7, <2>1
      <4>2. b \in Since(stored, now - Window)
        BY <3>2, <4>1 DEF Since
      <4> QED
        BY <1>1, <4>2
    <3> QED
      BY <1>2, <3>1, <3>2
  <2>3. DetectedAt[b] >= DetectedAt[a] - Window
    BY <1>3, <1>5, <1>7, <2>1
  <2> QED
    BY <2>2, <2>3, CountFacts
<1>8. IsFiniteSet(W) /\ Cardinality(W) < M /\ Cardinality(W) \in Nat
  BY <1>2, CountFacts, FS_CardinalityType DEF Count
<1>9. Cardinality(Since(stored', now' - Window)) < M
  <2>1. Since(stored', now' - Window) \in SUBSET W
    BY <1>7 DEF Since
  <2>2. /\ Cardinality(Since(stored', now' - Window)) <= Cardinality(W)
        /\ IsFiniteSet(Since(stored', now' - Window))
    BY <1>8, <2>1, FS_Subset
  <2> QED
    BY <1>3, <1>8, <2>2, FS_CardinalityType
<1>10. ASSUME NEW b \in stored', DetectedAt[b] >= now' - Window
       PROVE  b \in Trim(S)
  <2> DEFINE valid == {c \in S : \A d \in S : DetectedAt[c] >= DetectedAt[d] - Window}
  <2> DEFINE later == {c \in valid : DetectedAt[c] > DetectedAt[b]}
  <2>1. b \in S /\ DetectedAt[b] \in Int
    BY <1>3, <1>4, <1>7, <1>10
  <2>2. \A c \in S : DetectedAt[c] \in Int /\ DetectedAt[c] <= now'
    BY <1>3, <1>4, <1>6
  <2>3. b \in valid
    BY <1>3, <1>5, <1>10, <2>1, <2>2
  <2>4. later \in SUBSET W
    <3> SUFFICES ASSUME NEW c \in later PROVE c \in W
      OBVIOUS
    <3>1. c \in S /\ DetectedAt[c] > DetectedAt[b]
      OBVIOUS
    <3>2. DetectedAt[c] >= now' - Window /\ c \in stored'
      BY <1>3, <1>4, <1>5, <1>10, <2>1, <2>2, <3>1
    <3> QED
      BY <1>7, <3>2
  <2>5. Cardinality(later) <= Cardinality(W) /\ IsFiniteSet(later)
    BY <1>8, <2>4, FS_Subset
  <2>6. Cardinality(later) < N
    BY <1>3, <1>8, <2>5, FS_CardinalityType
  <2> QED
    BY <2>3, <2>6 DEF Trim
<1>11. Since(stored', now' - Window) \subseteq observations'
  BY <1>2, <1>10 DEF Since
<1> QED
  BY <1>9, <1>11

LEMMA ObserveEvidence ==
  ASSUME IncidentInv, StoredPast, StoredPast', EvidenceInv, NEW a \in Anomaly, Observe(a)
  PROVE  EvidenceInv'
<1>1. IsNew(a) /\ Remember(a) /\ ~HasActive /\ Opened' = Opened
  BY DEF Observe, Opened
<1>2. Unused = observations /\ Unused' = observations'
  BY <1>1 DEF Unused, HasActive, Observe
<1>3. /\ Cardinality(stored') = Cardinality(stored) + 1
      /\ Cardinality(observations') <= Cardinality(observations) + 1
      /\ IsFiniteSet(observations')
  BY <1>1, RememberCounts
<1>4. /\ Cardinality(Opened) \in Nat /\ Cardinality(stored) \in Nat
      /\ Cardinality(observations) \in Nat /\ Cardinality(observations') \in Nat
  BY <1>3, Finite, FS_CardinalityType
<1>5. M * Cardinality(Opened) \in Int
  BY <1>4, IncidentAssumption
<1>6. EvidencePaid'
  BY <1>1, <1>2, <1>3, <1>4, <1>5 DEF EvidencePaid, EvidenceInv, Observe, countVars
<1> QED
  BY <1>6, ObserveApart, ObserveRecent DEF EvidenceInv

-----------------------------------------------------------------------------
LEMMA TransitionEvidence ==
  ASSUME IncidentInv, EvidenceInv, NEW t \in Status, TransitionActiveIncident(t)
  PROVE  EvidenceInv'
<1>1. /\ active # 0 /\ Opened' = Opened
      /\ stored' = stored /\ restarts' = restarts /\ faults' = faults
  BY TransitionInv DEF TransitionActiveIncident, countVars
<1>2. Unused' = {}
  <2>1. CASE t \in {"NORMAL", "RECOVERED"}
    BY <2>1 DEF TransitionActiveIncident, Unused
  <2>2. CASE t \notin {"NORMAL", "RECOVERED"}
    <3>1. active' = active /\ status' = t /\ t \in ActiveStatus
      BY <2>2 DEF TransitionActiveIncident, ActiveStatus, Status
    <3> QED
      BY <1>1, <3>1 DEF Unused, HasActive
  <2> QED
    BY <2>1, <2>2
<1>3. EvidencePaid'
  BY <1>1, <1>2, PaidKept DEF EvidenceInv
<1> QED
  BY <1>1, <1>3, ActiveKept

LEMMA CloseEvidence ==
  ASSUME IncidentInv, EvidenceInv, CloseActiveIncident \/ CloseFails
  PROVE  EvidenceInv'
<1>1. Opened' = Opened
  BY CloseInv, CloseFailsInv
<1>2. CASE CloseActiveIncident
  <2>1. active # 0 /\ stored' = stored /\ restarts' = restarts /\ faults' = faults
    BY <1>2 DEF CloseActiveIncident, countVars
  <2>2. Unused' = {}
    BY <1>2 DEF CloseActiveIncident, Reset, Unused
  <2>3. EvidencePaid'
    BY <1>1, <2>1, <2>2, PaidKept DEF EvidenceInv
  <2> QED
    BY <1>1, <2>1, <2>3, ActiveKept
<1>3. CASE CloseFails
  <2>1. active # 0 /\ faults' # 0
    BY <1>3 DEF CloseFails, IncidentInv, IncidentTypeOK
  <2>2. EvidencePaid'
    BY <2>1 DEF EvidencePaid
  <2> QED
    BY <1>1, <2>1, <2>2, ActiveKept
<1> QED
  BY <1>2, <1>3

(* A restart that finds no more recent signals than it may load gets all.  *)
LEMMA AllRecent ==
  ASSUME IncidentInv, NEW t \in Int,
         Cardinality(Since(stored, t - Window)) <= RecoveryLimit
  PROVE  Recent(t) = Since(stored, t - Window)
<1> DEFINE S == Since(stored, t - Window)
<1>1. S \in SUBSET stored /\ S \subseteq Anomaly
  BY Finite DEF Since
<1>2. IsFiniteSet(S) /\ Cardinality(S) \in Nat
  BY <1>1, Finite, FS_Subset, FS_CardinalityType
<1>3. ASSUME NEW a \in S
      PROVE  Cardinality({b \in S : DetectedAt[b] < DetectedAt[a]}) < RecoveryLimit
  <2> DEFINE earlier == {b \in S : DetectedAt[b] < DetectedAt[a]}
  <2>1. earlier \in SUBSET S /\ a \notin earlier
    BY <1>1, IncidentAssumption
  <2>2. earlier # S
    BY <2>1
  <2> HIDE DEF earlier
  <2>3. IsFiniteSet(earlier) /\ Cardinality(earlier) <= Cardinality(S)
    BY <1>2, <2>1, FS_Subset
  <2>4. Cardinality(earlier) # Cardinality(S)
    BY <1>2, <2>1, <2>2, FS_Subset
  <2>5. Cardinality(earlier) \in Nat
    BY <2>3, FS_CardinalityType
  <2>6. Cardinality(earlier) < RecoveryLimit
    BY <1>2, <2>3, <2>4, <2>5, IncidentAssumption
  <2> QED
    BY <2>6 DEF earlier
<1> QED
  BY <1>3 DEF Recent

(* At most N observations of one window are not trimmed.                   *)
LEMMA TrimNothing ==
  ASSUME NEW S, S \subseteq Anomaly, IsFiniteSet(S), Cardinality(S) <= N, Together(S)
  PROVE  Trim(S) = S
<1>1. \A b \in S : DetectedAt[b] \in Int
  BY IncidentAssumption
<1>2. Window \in Nat /\ N \in Nat /\ Cardinality(S) \in Nat
  BY IncidentAssumption, FS_CardinalityType
<1>3. {b \in S : \A c \in S : DetectedAt[b] >= DetectedAt[c] - Window} = S
  BY <1>1, <1>2 DEF Together
<1>4. ASSUME NEW b \in S
      PROVE  Cardinality({c \in S : DetectedAt[c] > DetectedAt[b]}) < N
  <2> DEFINE later == {c \in S : DetectedAt[c] > DetectedAt[b]}
  <2>1. later \in SUBSET S /\ b \notin later
    BY <1>1
  <2>2. later # S
    BY <2>1
  <2> HIDE DEF later
  <2>3. IsFiniteSet(later) /\ Cardinality(later) <= Cardinality(S)
    BY <2>1, FS_Subset
  <2>4. Cardinality(later) # Cardinality(S)
    BY <2>1, <2>2, FS_Subset
  <2>5. Cardinality(later) \in Nat
    BY <2>3, FS_CardinalityType
  <2>6. Cardinality(later) < N
    BY <1>2, <2>3, <2>4, <2>5
  <2> QED
    BY <2>6 DEF later
<1> QED
  BY <1>3, <1>4 DEF Trim

(* What was within a window of t and is not later than t is together.      *)
LEMMA SinceTogether ==
  ASSUME NEW t \in Int, NEW S, S \subseteq Anomaly, \A b \in S : DetectedAt[b] <= t
  PROVE  Together(Since(S, t - Window))
<1>1. \A b \in S : DetectedAt[b] \in Int
  BY IncidentAssumption
<1>2. Window \in Nat
  BY IncidentAssumption
<1> QED
  BY <1>1, <1>2 DEF Together, Since

LEMMA RestartEvidence ==
  ASSUME IncidentInv, StoredPast, EvidenceInv, NEW t \in now .. MaxTime, Restart(t)
  PROVE  EvidenceInv'
<1>1. restarts' # 0
  BY DEF Restart, IncidentInv, IncidentTypeOK
<1>2. EvidencePaid' /\ StoredApart'
  BY <1>1 DEF EvidencePaid, StoredApart
<1>3. RecentRemembered'
  <2> SUFFICES ASSUME Opened' = {}, M <= RecoveryLimit + 1
               PROVE  /\ Since(stored', now' - Window) \subseteq observations'
                      /\ Cardinality(Since(stored', now' - Window)) < M
    BY DEF RecentRemembered, Since
  <2> DEFINE S == Since(stored, t - Window)
  <2>1. /\ Since(stored, now - Window) \subseteq observations
        /\ Cardinality(Since(stored, now - Window)) < M
    BY RestartInv DEF EvidenceInv, RecentRemembered
  <2>2. stored' = stored /\ now' = t /\ observations' = Trim(Recent(t))
    BY DEF Restart, tables
  <2>3. /\ \A b \in Anomaly : DetectedAt[b] \in Int
        /\ now \in Int /\ t \in Int /\ t >= now
        /\ Window \in Nat /\ M \in Nat /\ N \in Nat /\ M <= N /\ RecoveryLimit \in Nat
    BY IncidentAssumption DEF IncidentInv, IncidentTypeOK
  <2>4. S \in SUBSET Since(stored, now - Window)
    BY <2>3, Finite DEF Since
  <2>5. Since(stored, now - Window) \in SUBSET stored
    BY DEF Since
  <2>6. IsFiniteSet(Since(stored, now - Window)) /\ IsFiniteSet(S)
    BY <2>4, <2>5, Finite, FS_Subset
  <2>7. Cardinality(S) <= Cardinality(Since(stored, now - Window))
    BY <2>4, <2>6, FS_Subset
  <2>8. Cardinality(S) < M /\ Cardinality(S) \in Nat
    BY <2>1, <2>3, <2>6, <2>7, FS_CardinalityType
  <2>9. Cardinality(S) <= RecoveryLimit /\ Cardinality(S) <= N
    BY <2>3, <2>8
  <2>10. Recent(t) = S
    BY <2>3, <2>9, AllRecent
  <2>11. Together(S)
    <3>1. \A b \in stored : DetectedAt[b] <= t
      BY <2>3, Finite DEF StoredPast
    <3> QED
      BY <2>3, <3>1, Finite, SinceTogether
  <2>12. Trim(S) = S
    BY <2>4, <2>5, <2>6, <2>9, <2>11, Finite, TrimNothing
  <2> QED
    BY <2>2, <2>8, <2>10, <2>12
<1> QED
  BY <1>2, <1>3 DEF EvidenceInv

(* now never falls behind what is stored.                                  *)
LEMMA PastKept ==
  ASSUME IncidentInv, StoredPast, [Next]_vars
  PROVE  StoredPast'
<1>1. now \in Int /\ \A b \in Anomaly : DetectedAt[b] \in Int
  BY IncidentAssumption DEF IncidentInv, IncidentTypeOK
<1>2. stored \subseteq Anomaly
  BY Finite
<1>3. CASE \E a \in Anomaly : Remember(a)
  BY <1>1, <1>2, <1>3 DEF Remember, StoredPast
<1>4. CASE \E t \in now .. MaxTime : Restart(t)
  <2>1. PICK t \in now .. MaxTime : stored' = stored /\ now' = t
    BY <1>4 DEF Restart, tables
  <2>2. t \in Int /\ t >= now
    BY <1>1, <2>1, IncidentAssumption
  <2> QED
    BY <1>1, <1>2, <2>1, <2>2 DEF StoredPast
<1>5. CASE UNCHANGED <<stored, now>>
  BY <1>5 DEF StoredPast
<1> QED
  BY <1>3, <1>4, <1>5
  DEF Next, vars, tables, Repeat, Correlate, Observe, Open, TransitionActiveIncident,
      CloseActiveIncident, CloseFails

FullInv == IncidentInv /\ StoredPast /\ EvidenceInv

LEMMA FullInit == Init => FullInv
<1>1. Init => StoredPast
  BY DEF Init, StoredPast
<1> QED
  BY <1>1, InitInv, InitEvidence DEF FullInv

LEMMA FullNext == FullInv /\ [Next]_vars => FullInv'
<1> SUFFICES ASSUME IncidentInv, StoredPast, EvidenceInv, [Next]_vars
             PROVE  FullInv'
  BY DEF FullInv
<1>1. IncidentInv' /\ StoredPast'
  BY NextInv, PastKept
<1>2. CASE \E a \in Anomaly : Repeat(a) \/ Correlate(a) \/ Observe(a)
  BY <1>1, <1>2, RepeatEvidence, CorrelateEvidence, ObserveEvidence DEF FullInv
<1>3. CASE \E a \in Anomaly, i \in Incident : Open(a, i)
  BY <1>1, <1>3, OpenEvidence DEF FullInv
<1>4. CASE \E t \in Status : TransitionActiveIncident(t)
  BY <1>1, <1>4, TransitionEvidence DEF FullInv
<1>5. CASE CloseActiveIncident \/ CloseFails
  BY <1>1, <1>5, CloseEvidence DEF FullInv
<1>6. CASE \E t \in now .. MaxTime : Restart(t)
  BY <1>1, <1>6, RestartEvidence DEF FullInv
<1>7. CASE UNCHANGED vars
  <2>1. EvidenceInv'
    BY <1>7 DEF EvidenceInv, EvidencePaid, StoredApart, RecentRemembered, Unused,
       HasActive, Opened, Apart, Since, vars, tables, memory, countVars
  <2> QED
    BY <1>1, <2>1 DEF FullInv
<1> QED
  BY <1>2, <1>3, <1>4, <1>5, <1>6, <1>7 DEF Next

-----------------------------------------------------------------------------
(* All stored signals are apart: a set of them within one window has one   *)
(* element at most.                                                        *)
LEMMA ExactEvidence ==
  ASSUME IncidentInv, EvidenceInv
  PROVE  EvidenceIsExact
<1>1. M \in Nat \ {0} /\ Window \in Nat /\ \A b \in Anomaly : DetectedAt[b] \in Int
  BY IncidentAssumption
<1>2. ASSUME restarts = 0, faults = 0
      PROVE  M * Cardinality(Opened) <= Cardinality(stored)
  <2>1. IsFiniteSet(Unused)
    BY Finite, FS_EmptySet DEF Unused
  <2>2. /\ Cardinality(Unused) \in Nat /\ Cardinality(Opened) \in Nat
        /\ Cardinality(stored) \in Nat
    BY <2>1, Finite, FS_CardinalityType
  <2>3. M * Cardinality(Opened) \in Int
    BY <1>1, <2>2
  <2> QED
    BY <1>2, <2>2, <2>3 DEF EvidenceInv, EvidencePaid
<1>3. ASSUME M <= 2, restarts = 0, Opened = {}, NEW S \in SUBSET stored, Together(S)
      PROVE  Cardinality(S) < M
  <2>1. /\ M = 1 => stored = {}
        /\ \A a, b \in S : a = b \/ Apart(a, b) \/ Apart(b, a)
    BY <1>3 DEF EvidenceInv, StoredApart
  <2>2. \A a, b \in S : a = b
    BY <1>1, <1>3, <2>1, Finite DEF Together, Apart
  <2>3. CASE S = {}
    BY <1>1, <2>3, FS_EmptySet
  <2>4. CASE S # {}
    <3>1. PICK a \in S : S = {a}
      BY <2>2, <2>4
    <3>2. Cardinality(S) = 1 /\ M # 1
      BY <2>1, <3>1, FS_Singleton
    <3> QED
      BY <1>1, <3>2
  <2> QED
    BY <2>3, <2>4
<1> QED
  BY <1>2, <1>3 DEF EvidenceIsExact

(* Evidence counts once and always: every incident has M signals of its    *)
(* own, and where two signals are enough no two within Window of each      *)
(* other are stored without an incident, in whatever order they came.      *)
THEOREM ExactTheorem == Spec => []EvidenceIsExact
<1>1. FullInv => EvidenceIsExact
  BY ExactEvidence DEF FullInv
<1> QED
  BY FullInit, FullNext, <1>1, PTL DEF Spec

LEMMA ProgressStep ==
  ASSUME IncidentInv, StoredPast, EvidenceInv, [Next]_vars,
         restarts' # restarts, Opened = {},
         Cardinality(Since(stored, now' - Window)) <= RecoveryLimit
  PROVE  Since(observations, now' - Window) \subseteq observations'
<1>1. PICK t \in now .. MaxTime : Restart(t)
  BY DEF Next, Repeat, Correlate, Observe, Open, TransitionActiveIncident,
         CloseActiveIncident, CloseFails, vars, countVars
<1> DEFINE S == Since(stored, t - Window)
<1>2. now' = t /\ observations' = Trim(Recent(t))
  BY <1>1 DEF Restart
<1>3. /\ \A b \in Anomaly : DetectedAt[b] \in Int
      /\ now \in Int /\ t \in Int /\ t >= now
      /\ Window \in Nat /\ M \in Nat /\ N \in Nat /\ M <= N /\ RecoveryLimit \in Nat
  BY IncidentAssumption DEF IncidentInv, IncidentTypeOK
<1>4. S \in SUBSET stored /\ S \subseteq Anomaly /\ IsFiniteSet(S)
  BY Finite, FS_Subset DEF Since
<1>5. Recent(t) = S
  BY <1>2, <1>3, AllRecent
<1>6. Cardinality(S) <= N
  <2>1. CASE M <= RecoveryLimit + 1
    <3>1. Cardinality(Since(stored, now - Window)) < M
      BY <2>1 DEF EvidenceInv, RecentRemembered
    <3>2. S \in SUBSET Since(stored, now - Window)
      BY <1>3, Finite DEF Since
    <3>3. Since(stored, now - Window) \in SUBSET stored
      BY DEF Since
    <3>4. IsFiniteSet(Since(stored, now - Window))
      BY <3>3, Finite, FS_Subset
    <3>5. Cardinality(S) <= Cardinality(Since(stored, now - Window))
      BY <3>2, <3>4, FS_Subset
    <3> QED
      BY <1>3, <1>4, <3>1, <3>4, <3>5, FS_CardinalityType
  <2>2. CASE M > RecoveryLimit + 1
    BY <1>2, <1>3, <1>4, <2>2, FS_CardinalityType
  <2> QED
    BY <1>3, <2>1, <2>2
<1>7. Together(S)
  <2>1. \A b \in stored : DetectedAt[b] <= t
    BY <1>3, Finite DEF StoredPast
  <2> QED
    BY <1>3, <2>1, Finite, SinceTogether
<1>8. Trim(S) = S
  BY <1>4, <1>6, <1>7, TrimNothing
<1>9. Since(observations, t - Window) \subseteq S
  BY Finite DEF Since
<1> QED
  BY <1>2, <1>5, <1>8, <1>9

(* Unfinished correlation progress survives a restart, for every policy    *)
(* and every load limit that the recent signals do not exceed.             *)
THEOREM ProgressTheorem == Spec => ProgressSurvives
<1>1. FullInv /\ [Next]_vars =>
        [restarts' # restarts /\ Opened = {}
           /\ Cardinality(Since(stored, now' - Window)) <= RecoveryLimit
         => Since(observations, now' - Window) \subseteq observations']_vars
  BY ProgressStep DEF FullInv
<1> QED
  BY FullInit, FullNext, <1>1, PTL DEF Spec, ProgressSurvives

=============================================================================
