--------------------------- MODULE IncidentEngine ---------------------------
(***************************************************************************)
(* The edge's incident engine (incident/engine.go) on its SQLite tables,   *)
(* for one stream, that is one node and metric: the engine keeps streams   *)
(* apart by their key.                                                     *)
(*                                                                         *)
(* A call holds the engine's mutex from beginning to end and makes one     *)
(* transaction that changes the tables, then changes memory.  Calls are    *)
(* therefore steps; a crash inside one leaves what a crash before or after *)
(* its transaction leaves.  A call whose transaction fails changes nothing *)
(* except in CloseActiveIncident, where that is a step of its own.         *)
(* Rejected calls change nothing.  RegisterIncident is among them: with a  *)
(* store it always fails for a new incident, since PersistIncident-        *)
(* Evaluation refuses its nil observation.                                 *)
(*                                                                         *)
(* Severity, values and evidence of an incident are left out.              *)
(***************************************************************************)
EXTENDS Integers, FiniteSets

CONSTANTS
  Anomaly,        \* anomaly_id of the signals of the stream
  DetectedAt,     \* their detected_at, all different
  M, N, Window,   \* PolicyConfig: M of N observations within Window
  RecoveryLimit,  \* observations loaded by a restart, 500 in the code
  MaxTime,        \* bound: the last time of a restart
  MaxIncidents,   \* bound: incidents opened
  MaxRestarts,    \* bound: restarts
  MaxCleanups,    \* bound: calls that close an ANOMALY_DETECTED incident
  MaxFaults       \* bound: closures whose UpdateIncidentStatus fails

ASSUME IncidentAssumption ==
  /\ IsFiniteSet(Anomaly)
  /\ DetectedAt \in [Anomaly -> 0 .. MaxTime]
  /\ \A a, b \in Anomaly : DetectedAt[a] = DetectedAt[b] => a = b
  /\ {M, N, Window, RecoveryLimit} \subseteq Nat \ {0} /\ M <= N
  /\ {MaxTime, MaxIncidents, MaxRestarts, MaxCleanups, MaxFaults} \subseteq Nat

VARIABLES
  records,      \* incident_records: status and triggered_at
  stored,       \* incident_observations: their anomaly_id
  active, status,  \* streamState.activeIncident (0 for nil) and its status
  observations, \* streamState.observations
  seen,         \* streamState.seenAnomalies
  now,          \* the latest time a signal or a restart has shown
  restarts, cleanups, faults

tables == <<records, stored>>
memory == <<active, status, observations, seen>>
countVars == <<restarts, cleanups, faults>>
vars == <<tables, memory, now, countVars>>

Incident == 1 .. MaxIncidents
Status == {"NORMAL", "ANOMALY_DETECTED", "MITIGATING", "RECOVERED", "ESCALATED"}
ActiveStatus == {"ANOMALY_DETECTED", "MITIGATING", "ESCALATED"}

(* CanTransitionTo.                                                        *)
CanTransition(from, to) ==
  CASE from = "NORMAL" -> to = "ANOMALY_DETECTED"
    [] from = "ANOMALY_DETECTED" -> to \in {"MITIGATING", "ESCALATED"}
    [] from = "MITIGATING" -> to \in {"RECOVERED", "ESCALATED"}
    [] from = "RECOVERED" -> to = "NORMAL"
    [] from = "ESCALATED" -> to \in {"RECOVERED", "NORMAL"}

NoRecord == [status |-> "none", at |-> 0]
Opened == {i \in Incident : records[i].status # "none"}
Live == {i \in Incident : records[i].status \in ActiveStatus}

Since(S, t) == {a \in S : DetectedAt[a] >= t}
IsLatest(a, S) == a \in S /\ \A b \in S : DetectedAt[b] <= DetectedAt[a]
Within(S, a) == Since(S, DetectedAt[a] - Window)

(* What insertObservation leaves of the observations: the last N of those  *)
(* in the window that ends with the latest of them.                        *)
Trim(S) ==
  LET valid == {b \in S : \A c \in S : DetectedAt[b] >= DetectedAt[c] - Window}
  IN {b \in valid : Cardinality({c \in valid : DetectedAt[c] > DetectedAt[b]}) < N}

Init ==
  /\ records = [i \in Incident |-> NoRecord]
  /\ stored = {}
  /\ active = 0 /\ status = "none"
  /\ observations = {} /\ seen = {}
  /\ now = 0
  /\ restarts = 0 /\ cleanups = 0 /\ faults = 0

-----------------------------------------------------------------------------
(* Process, up to the evaluation: a signal not stored yet and not stale.   *)
IsNew(a) == a \notin seen \cup stored
Stale(a) == \E b \in observations : DetectedAt[a] < DetectedAt[b] - Window
HasActive == active # 0 /\ status \in ActiveStatus

(* Variant: the window is not looked at.                                   *)
CountAll(a) == Cardinality(observations \cup {a})

Count(a) == Cardinality(Within(observations \cup {a}, a))

(* Variant: the observation is not part of the transaction.                *)
RememberInMemory(a) ==
  /\ seen' = seen \cup {a}
  /\ observations' = Trim(observations \cup {a})
  /\ now' = IF DetectedAt[a] > now THEN DetectedAt[a] ELSE now
  /\ UNCHANGED stored

Remember(a) ==
  /\ stored' = stored \cup {a}
  /\ seen' = seen \cup {a}
  /\ observations' = Trim(observations \cup {a})
  /\ now' = IF DetectedAt[a] > now THEN DetectedAt[a] ELSE now

(* A signal that was already processed, also before a restart.             *)
Repeat(a) ==
  /\ ~IsNew(a)
  /\ seen' = seen \cup {a}
  /\ UNCHANGED <<tables, active, status, observations, now, countVars>>

(* It is correlated to the active incident, whose row is written again.    *)
Correlate(a) ==
  /\ IsNew(a) /\ ~Stale(a) /\ HasActive
  /\ Remember(a)
  /\ records' = [records EXCEPT ![active].status = status]
  /\ UNCHANGED <<active, status, countVars>>

Observe(a) ==
  /\ IsNew(a) /\ ~Stale(a) /\ ~HasActive
  /\ Count(a) < M
  /\ Remember(a)
  /\ UNCHANGED <<records, active, status, countVars>>

(* The threshold is reached.                                               *)
Open(a, i) ==
  /\ IsNew(a) /\ ~Stale(a) /\ ~HasActive
  /\ Count(a) >= M
  /\ i \notin Opened /\ 1 .. i - 1 \subseteq Opened
  /\ Remember(a)
  /\ records' = [records EXCEPT ![i] = [status |-> "ANOMALY_DETECTED", at |-> DetectedAt[a]]]
  /\ active' = i /\ status' = "ANOMALY_DETECTED"
  /\ UNCHANGED countVars

-----------------------------------------------------------------------------
(* Variant: the row is not written.                                        *)
TransitionInMemory(target) ==
  /\ active # 0
  /\ CanTransition(status, target)
  /\ status' = IF target = "NORMAL" THEN "none" ELSE target
  /\ active' = IF target = "NORMAL" THEN 0 ELSE active
  /\ observations' = IF target \in {"NORMAL", "RECOVERED"} THEN {} ELSE observations
  /\ UNCHANGED <<tables, seen, now, countVars>>

(* Variant: the observations stay.                                         *)
TransitionKeeping(target) ==
  /\ active # 0
  /\ CanTransition(status, target)
  /\ records' = [records EXCEPT ![active].status = target]
  /\ status' = IF target = "NORMAL" THEN "none" ELSE target
  /\ active' = IF target = "NORMAL" THEN 0 ELSE active
  /\ UNCHANGED <<stored, observations, seen, now, countVars>>

(* Also ResolveIncident, with RECOVERED.  A recovered incident stays in    *)
(* memory until it is NORMAL or the next one is opened.                    *)
TransitionActiveIncident(target) ==
  /\ active # 0
  /\ CanTransition(status, target)
  /\ records' = [records EXCEPT ![active].status = target]
  /\ status' = IF target = "NORMAL" THEN "none" ELSE target
  /\ active' = IF target = "NORMAL" THEN 0 ELSE active
  /\ observations' = IF target \in {"NORMAL", "RECOVERED"} THEN {} ELSE observations
  /\ UNCHANGED <<stored, seen, now, countVars>>

Reset == active' = 0 /\ status' = "none" /\ observations' = {}

(* CloseActiveIncident, canonically or as a cleanup of the stream that     *)
(* leaves the row as it is.                                                *)
CloseActiveIncident ==
  /\ active # 0
  /\ \/ /\ CanTransition(status, "RECOVERED")
        /\ records' = [records EXCEPT ![active].status = "RECOVERED"]
        /\ UNCHANGED countVars
     \/ /\ ~CanTransition(status, "RECOVERED")
        /\ status = "ANOMALY_DETECTED" => cleanups < MaxCleanups
        /\ cleanups' = IF status = "ANOMALY_DETECTED" THEN cleanups + 1 ELSE cleanups
        /\ UNCHANGED <<records, restarts, faults>>
  /\ Reset
  /\ UNCHANGED <<stored, seen, now>>

(* The closure fails to be stored after memory has got the new status.     *)
CloseFails ==
  /\ faults < MaxFaults /\ faults' = faults + 1
  /\ active # 0 /\ CanTransition(status, "RECOVERED")
  /\ status' = "RECOVERED"
  /\ UNCHANGED <<tables, active, observations, seen, now, restarts, cleanups>>

-----------------------------------------------------------------------------
(* ListActiveIncidents by triggered_at; of several, the last stays.        *)
LastLive(i) == i \in Live /\ \A j \in Live : records[j].at <= records[i].at

(* Variant: the newest observations are not loaded.                        *)
RecentButLatest(t) == {a \in Since(stored, t - Window) : ~IsLatest(a, stored)}

(* ListAllRecentObservations: the oldest RecoveryLimit within the window.  *)
Recent(t) ==
  LET S == Since(stored, t - Window)
  IN {a \in S : Cardinality({b \in S : DetectedAt[b] < DetectedAt[a]}) < RecoveryLimit}

(* A stop or crash, and RecoverFromStore at time t.                        *)
Restart(t) ==
  /\ restarts < MaxRestarts /\ restarts' = restarts + 1
  /\ now' = t
  /\ \/ \E i \in Live : LastLive(i) /\ active' = i /\ status' = records[i].status
     \/ Live = {} /\ active' = 0 /\ status' = "none"
  /\ seen' = Recent(t)
  /\ observations' = Trim(Recent(t))
  /\ UNCHANGED <<tables, cleanups, faults>>

Next ==
  \/ \E a \in Anomaly :
       \/ Repeat(a) \/ Correlate(a) \/ Observe(a)
       \/ \E i \in Incident : Open(a, i)
  \/ \E target \in Status : TransitionActiveIncident(target)
  \/ CloseActiveIncident
  \/ CloseFails
  \/ \E t \in now .. MaxTime : Restart(t)

Spec == Init /\ [][Next]_vars

-----------------------------------------------------------------------------
(* The types of the state.  Memory holds nothing that is not stored: a     *)
(* signal counts only after its transaction.                               *)
IncidentTypeOK ==
  /\ records \in [Incident -> [status : Status \cup {"none"}, at : Nat]]
  /\ stored \subseteq Anomaly /\ seen \subseteq stored
  /\ observations \subseteq seen
  /\ active \in Opened \cup {0}
  /\ status \in (Status \ {"NORMAL"}) \cup {"none"}
  /\ active = 0 <=> status = "none"
  /\ now \in 0 .. MaxTime
  /\ restarts \in 0 .. MaxRestarts /\ cleanups \in 0 .. MaxCleanups
  /\ faults \in 0 .. MaxFaults

(* "Persistent breaches preserve the identical IncidentID": while closures *)
(* are canonical and stored, the table has at most one active incident, it *)
(* is the one in memory with the same status, before and after restarts.   *)
Canonical == faults = 0 /\ cleanups = 0
MemoryMirrorsStore ==
  Canonical => /\ Live \subseteq {active}
               /\ active # 0 => records[active].status = status

(* The rows go through the states as the FSM allows, whatever writes them. *)
RecordsFollowFSM ==
  [][faults = 0 =>
       \A i \in Opened : records'[i].status # records[i].status =>
         CanTransition(records[i].status, records'[i].status)]_vars

(* An incident is opened by a new observation that is one of M stored ones *)
(* within Window of each other: "at least M qualifying observations".      *)
Together(S) == \A a, b \in S : DetectedAt[a] - DetectedAt[b] <= Window
OpensOnEvidence ==
  [][Opened' # Opened =>
       \E S \in SUBSET stored' :
         /\ Cardinality(S) >= M /\ Together(S)
         /\ S \ stored # {}]_vars

(* Evidence counts once, and always.  "If an incident is recovered/closed, *)
(* subsequent breaches begin a fresh evaluation lifecycle": until a        *)
(* restart, no two incidents share the observations that opened them.  And *)
(* two observations within Window open one in whatever order they are      *)
(* processed.  (For M > 2 late signals can meet a window that has moved    *)
(* on.)                                                                    *)
EvidenceIsExact ==
  /\ restarts = 0 /\ faults = 0 => M * Cardinality(Opened) <= Cardinality(stored)
  /\ M <= 2 /\ restarts = 0 /\ Opened = {} =>
       \A S \in SUBSET stored : Together(S) => Cardinality(S) < M

(* "Unfinished correlation progress survives agent restart": observations  *)
(* that are still recent are counted on, as far as the load limit allows.  *)
ProgressSurvives ==
  [][restarts' # restarts /\ Opened = {}
       /\ Cardinality(Since(stored, now' - Window)) <= RecoveryLimit
     => Since(observations, now' - Window) \subseteq observations']_vars

-----------------------------------------------------------------------------
(* "Only after an incident transitions to RECOVERED or NORMAL does a       *)
(* future breach create a new incident".                                   *)
NewOnlyAfterRecovery == [][Opened' # Opened => Live = {}]_vars

=============================================================================
