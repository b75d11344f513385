---------------------------- MODULE Verification ----------------------------
(***************************************************************************)
(* The edge's verification engine (verification/engine.go), which decides  *)
(* from the telemetry after a mitigation whether the incident is over, on  *)
(* its table verification_records, for one stream: the engine keeps        *)
(* streams apart by their key.                                             *)
(*                                                                         *)
(* A call holds the engine's mutex to its end; it changes memory, then the *)
(* row, and ignores the error of that update: an update may be lost.  A    *)
(* crash inside a call is a lost update and a restart.  Calls that return  *)
(* an error before they change anything are left out.                      *)
(*                                                                         *)
(* The incident engine is seen through the stream's active incident, which *)
(* other parts move too (IncidentEngine has all of its state).  Values,    *)
(* thresholds and comparators are abstracted to whether a sample satisfies *)
(* the condition; reasons and other evidence are left out.                 *)
(***************************************************************************)
EXTENDS Integers, Sequences, FiniteSets

CONSTANTS
  Sample,         \* sample ids of the stream
  SampleAt,       \* their timestamps
  Healthy,        \* the samples that satisfy the recovery condition
  Required,       \* RequiredConsecutiveObservations
  Timeout,        \* VerificationTimeout
  MaxDelay,       \* bound: how long before the call its mitigation ran
  MaxVerifications, \* bound: verifications started
  MaxIncidents,   \* bound: incidents of the stream
  MaxTime,        \* bound: the clock
  MaxRestarts,    \* bound: restarts
  MaxLost         \* bound: updates of a row that fail

ASSUME VerificationAssumption ==
  /\ IsFiniteSet(Sample) /\ Healthy \subseteq Sample
  /\ SampleAt \in [Sample -> Nat]
  /\ {Required, Timeout} \subseteq Nat \ {0}
  /\ {MaxDelay, MaxVerifications, MaxIncidents, MaxTime, MaxRestarts, MaxLost} \subseteq Nat

VARIABLES
  request,    \* the immutable part of a verification: incident_id, started_at
  byID,       \* engine.byID: status, consecutiveHealthy and seenSamples
  active,     \* the verification in engine.activeStreams, or 0
  rows,       \* verification_records
  incident,   \* the active incident of the stream: its id and status
  now, restarts, lost,
  heard,      \* history: samples a verification evaluated, in order
  resolved    \* history: which verification resolved which incident

memory == <<byID, active>>
histories == <<heard, resolved>>
vars == <<request, memory, rows, incident, now, restarts, lost, histories>>

Verifications == 1 .. MaxVerifications
Terminal == {"RECOVERED", "NOT_RECOVERED", "TIMED_OUT", "CANCELLED"}
VStatus == {"none", "PENDING"} \cup Terminal
None == [status |-> "none", streak |-> 0, seen |-> {}]

Started == {v \in Verifications : request[v].at >= 0}
ExpiresAt(v) == request[v].at + Timeout

Init ==
  /\ request = [v \in Verifications |-> [incident |-> 0, at |-> -1]]
  /\ byID = [v \in Verifications |-> None]
  /\ active = 0
  /\ rows = byID
  /\ incident = [id |-> 1, status |-> "ANOMALY_DETECTED"]
  /\ now = 0 /\ restarts = 0 /\ lost = 0
  /\ heard = [v \in Verifications |-> <<>>]
  /\ resolved = {}

-----------------------------------------------------------------------------
(* Variant: a terminal row is written over.                                *)
WrittenAlways(v, s) == [rows EXCEPT ![v] = s]

(* UpdateVerificationProgress: a terminal row keeps its status.            *)
Written(v, s) ==
  IF rows[v].status \in Terminal /\ rows[v].status # s.status
  THEN rows ELSE [rows EXCEPT ![v] = s]

(* The engine ignores the error of the update.                             *)
Save(v, s) ==
  \/ rows' = Written(v, s) /\ UNCHANGED lost
  \/ lost < MaxLost /\ lost' = lost + 1 /\ UNCHANGED rows

(* StartVerification: one verification of a stream is active at a time.    *)
(* An insert that fails changes nothing.                                   *)
StartVerification(v, delay) ==
  /\ active = 0
  /\ v \notin Started /\ 1 .. v - 1 \subseteq Started
  /\ delay <= now
  /\ request' = [request EXCEPT ![v] = [incident |-> incident.id, at |-> now - delay]]
  /\ byID' = [byID EXCEPT ![v].status = "PENDING"]
  /\ rows' = [rows EXCEPT ![v].status = "PENDING"]
  /\ active' = v
  /\ UNCHANGED <<incident, now, restarts, lost, histories>>

(* Variant: the stream's entry stays.                                      *)
ConcludeKeeping(v, status) ==
  /\ byID' = [byID EXCEPT ![v].status = status]
  /\ UNCHANGED active
  /\ Save(v, [byID[v] EXCEPT !.status = status])

(* A verification leaves memory's active streams with its verdict.  The    *)
(* entry is deleted by the stream's key, whichever verification it holds.  *)
Conclude(v, status) ==
  /\ byID' = [byID EXCEPT ![v].status = status]
  /\ active' = 0
  /\ Save(v, [byID[v] EXCEPT !.status = status])

TooLate(s) == SampleAt[s] >= ExpiresAt(active) \/ now > ExpiresAt(active)

(* ProcessSample, by what the sample shows.                                *)
SampleTimesOut(s) ==
  /\ active # 0 /\ TooLate(s)
  /\ Conclude(active, "TIMED_OUT")
  /\ UNCHANGED <<request, incident, now, restarts, histories>>

Counts(s) ==
  /\ active # 0 /\ ~TooLate(s)
  /\ SampleAt[s] >= request[active].at
  /\ s \notin byID[active].seen

Streak(s) == IF s \in Healthy THEN byID[active].streak + 1 ELSE 0

Evaluated(s) ==
  [status |-> IF s \in Healthy /\ Streak(s) >= Required THEN "RECOVERED" ELSE "PENDING",
   streak |-> Streak(s),
   seen |-> byID[active].seen \cup {s}]

ProcessSample(s) ==
  /\ Counts(s)
  /\ byID' = [byID EXCEPT ![active] = Evaluated(s)]
  /\ active' = IF Evaluated(s).status = "RECOVERED" THEN 0 ELSE active
  /\ Save(active, Evaluated(s))
  /\ heard' = [heard EXCEPT ![active] = Append(@, s)]
  /\ UNCHANGED <<request, incident, now, restarts, resolved>>

-----------------------------------------------------------------------------
(* CancelVerification and FailVerification differ in the verdict.          *)
Withdraw(v, status) ==
  /\ byID[v].status = "PENDING"
  /\ Conclude(v, status)
  /\ UNCHANGED <<request, incident, now, restarts, histories>>

CancelVerification(v) == Withdraw(v, "CANCELLED")
FailVerification(v) == Withdraw(v, "NOT_RECOVERED")

(* ExpireStaleVerifications and RecoverInFlightVerifications.              *)
Expired(v, table) == table[v].status = "PENDING" /\ ExpiresAt(v) <= now
Expire(table) ==
  [v \in Verifications |->
     IF Expired(v, table) THEN [table[v] EXCEPT !.status = "TIMED_OUT"] ELSE table[v]]

(* Variant: only the table is swept.                                       *)
ReconcileTableOnly ==
  /\ rows # Expire(rows)
  /\ rows' = Expire(rows)
  /\ UNCHANGED <<memory, lost, request, incident, now, restarts, histories>>

(* ReconcileTimeouts: the active verification first, then every row, which *)
(* makes up for a lost update of the first.                                *)
ReconcileTimeouts ==
  /\ rows # Expire(rows) \/ (active # 0 /\ Expired(active, byID))
  /\ IF active # 0 /\ Expired(active, byID)
     THEN /\ byID' = [byID EXCEPT ![active].status = "TIMED_OUT"]
          /\ active' = 0
     ELSE UNCHANGED memory
  /\ rows' = Expire(rows)
  /\ UNCHANGED <<lost, request, incident, now, restarts, histories>>

(* Variant: the samples seen before the restart are not restored.          *)
LoadedUnseen(v) == [rows[v] EXCEPT !.seen = {}]

Loaded(v) == rows[v]

(* RunRecovery expires rows, then RecoverFromStore restores those that are *)
(* still pending, the latest started one as the stream's.                  *)
Restart ==
  LET pending == {v \in Verifications : rows[v].status = "PENDING" /\ ExpiresAt(v) > now}
  IN /\ restarts < MaxRestarts
     /\ restarts' = restarts + 1
     /\ rows' = Expire(rows)
     /\ byID' = [v \in Verifications |-> IF v \in pending THEN Loaded(v) ELSE None]
     /\ \/ pending = {} /\ active' = 0
        \/ /\ active' \in pending
           /\ \A v \in pending : request[v].at <= request[active'].at
     /\ UNCHANGED <<request, incident, now, lost, histories>>

-----------------------------------------------------------------------------
(* GetVerification: from memory, otherwise the row.                        *)
GetStatus(v) == IF byID[v].status # "none" THEN byID[v].status ELSE rows[v].status

MayResolve(v) ==
  /\ GetStatus(v) = "RECOVERED"
  /\ incident.id = request[v].incident
  /\ incident.status = "MITIGATING"

(* HandoffToIncidentEngine leaves an incident in another status alone.     *)
HandoffToIncidentEngine(v) ==
  /\ MayResolve(v)
  /\ incident' = [incident EXCEPT !.status = "RECOVERED"]
  /\ resolved' = resolved \cup {<<v, incident.id>>}
  /\ UNCHANGED <<request, memory, rows, now, restarts, lost, heard>>

(* What the orchestrator, operators and new breaches do to the incident.   *)
IncidentMoves ==
  /\ \/ /\ incident.status = "ANOMALY_DETECTED"
        /\ \E to \in {"MITIGATING", "ESCALATED"} : incident' = [incident EXCEPT !.status = to]
     \/ /\ incident.status = "MITIGATING"
        /\ incident' = [incident EXCEPT !.status = "ESCALATED"]
     \/ /\ incident.status \in {"RECOVERED", "ESCALATED"} /\ incident.id < MaxIncidents
        /\ incident' = [id |-> incident.id + 1, status |-> "ANOMALY_DETECTED"]
  /\ UNCHANGED <<request, memory, rows, now, restarts, lost, histories>>

Tick ==
  /\ now < MaxTime
  /\ now' = now + 1
  /\ UNCHANGED <<request, memory, rows, incident, restarts, lost, histories>>

Next ==
  \/ \E v \in Verifications, delay \in 0 .. MaxDelay : StartVerification(v, delay)
  \/ \E s \in Sample : SampleTimesOut(s) \/ ProcessSample(s)
  \/ \E v \in Verifications :
       CancelVerification(v) \/ FailVerification(v) \/ HandoffToIncidentEngine(v)
  \/ ReconcileTimeouts
  \/ Restart
  \/ IncidentMoves
  \/ Tick

Spec == Init /\ [][Next]_vars

-----------------------------------------------------------------------------
State == [status : VStatus, streak : Nat, seen : SUBSET Sample]

(* The state is well formed, and a verification is active in memory only   *)
(* while memory says it is pending (activeStreams and byID share it).      *)
VerificationTypeOK ==
  /\ request \in [Verifications -> [incident : Nat, at : Int]]
  /\ byID \in [Verifications -> State]
  /\ rows \in [Verifications -> State]
  /\ active \in Verifications \cup {0}
  /\ active # 0 => byID[active].status = "PENDING"
  /\ incident.id \in Nat
  /\ incident.status \in {"ANOMALY_DETECTED", "MITIGATING", "RECOVERED", "ESCALATED"}
  /\ {now, restarts, lost} \subseteq Nat
  /\ heard \in [Verifications -> Seq(Sample)]
  /\ resolved \subseteq Verifications \X Nat

(* The last samples a verification heard show that the metric has          *)
(* recovered.                                                              *)
LastHeard(v) == {heard[v][k] : k \in Len(heard[v]) - Required + 1 .. Len(heard[v])}
Evidence(v) ==
  /\ Len(heard[v]) >= Required
  /\ LastHeard(v) \subseteq Healthy
  /\ Cardinality(LastHeard(v)) = Required
  /\ \A s \in LastHeard(v) : request[v].at <= SampleAt[s] /\ SampleAt[s] < ExpiresAt(v)

(* RECOVERED, in memory or in the table, rests on as many different        *)
(* samples in a row as required, all healthy and from within the window,   *)
(* however samples are repeated or reordered and however often the agent   *)
(* restarts in between (ProcessSample, RecoverFromStore).  A lost update   *)
(* may bring an earlier streak back.  An incident is resolved only by a    *)
(* verification of its own and, whatever was lost, never without a healthy *)
(* sample from the window.                                                 *)
RecoveredOnEvidence ==
  \A v \in Verifications :
    /\ lost = 0 /\ "RECOVERED" \in {byID[v].status, rows[v].status} => Evidence(v)
    /\ \A i \in 1 .. MaxIncidents : <<v, i>> \in resolved =>
         /\ request[v].incident = i
         /\ \E k \in DOMAIN heard[v] :
              /\ heard[v][k] \in Healthy
              /\ request[v].at <= SampleAt[heard[v][k]]
              /\ SampleAt[heard[v][k]] < ExpiresAt(v)

(* Unless an update was lost, memory and table give the same verdict after *)
(* every call and every restart, and a pending row is the one verification *)
(* samples of the stream go to: none is left behind without a watcher.     *)
VerdictsAgree ==
  lost = 0 =>
    \A v \in Verifications :
      /\ byID[v].status # "none" => byID[v] = rows[v]
      /\ rows[v].status = "PENDING" => active = v

(* A verdict that reached the table stands: whatever is lost, and whatever *)
(* memory a restart left, no later call changes it.                        *)
VerdictIsFinal ==
  [][\A v \in Verifications :
       rows[v].status \in Terminal => rows'[v].status = rows[v].status]_vars

=============================================================================
