------------------------- MODULE Orchestrator_proofs -------------------------
(***************************************************************************)
(* Theorems about the orchestrator, for any policy, ceiling, clock and     *)
(* numbers of crashes and resets.                                          *)
(***************************************************************************)
EXTENDS Orchestrator, FiniteSetTheorems, TLAPS

-----------------------------------------------------------------------------
TelemetrySteps == {"idle", "RECOVERED", "TIMED_OUT", "escalate",
                   "cache RECOVERED", "cache ESCALATED"}

(* What the escalation engine's two tables hold.                           *)
EngineTyped(e, c) ==
  /\ IsFiniteSet(e)
  /\ \A r \in e : r.at \in 0 .. MaxTime /\ r.id[2] \in Failure
  /\ c \in [open : BOOLEAN, count : Nat]

(* The types of OrchestratorTypeOK, those of the other variables, and what *)
(* the proofs need of them.                                                *)
Typed ==
  /\ mitigations \in Seq(MStatus)
  /\ verification \in VStatus
  /\ EngineTyped(escalations, circuit)
  /\ incident \in seen /\ seen \subseteq IStatus
  /\ approval \in {"unneeded", "missing", "granted", "spent"}
  /\ leader \in [at : Steps, attempt : Nat, inc : IStatus, failure : Failure, late : BOOLEAN]
  /\ telemetry \in TelemetrySteps
  /\ result \in Cached \cup {"none"}
  /\ now \in 0 .. MaxTime
  /\ acted \in Nat

(* Attempts, rows and actions count together: before the row of an attempt *)
(* there is one row less, and before its action one action less.           *)
Counted ==
  /\ leader.at \in {"decide", "record", "circuit", "cooldown"} =>
       leader.attempt = Len(mitigations) + 1
  /\ leader.at \in {"mitigate", "act", "failed", "mark", "verify", "retry"} =>
       leader.attempt = Len(mitigations)
  /\ leader.at = "record" => leader.attempt <= MaxExecutionCeiling
  /\ leader.at \in {"mitigate", "act"} => acted < Len(mitigations)
  /\ acted <= Len(mitigations) /\ Len(mitigations) <= MaxExecutionCeiling
  /\ leader.at \in {"samples", "unverified", "failed", "mark", "verify", "retry", "mitigate", "act"} =>
       Len(mitigations) = leader.attempt

(* An approval that is missing keeps a cycle from its action, and one that *)
(* was granted is there until the one action it was for.                   *)
Approved ==
  /\ leader.at \in {"record", "mitigate", "act"} => approval # "missing"
  /\ approval \in {"missing", "granted"} => acted = 0
  /\ approval = "spent" => acted = 1

(* Past the survey of the table no row is UNKNOWN: only a restart makes    *)
(* one, and it ends the cycle.                                             *)
Surveyed == leader.at \notin {"idle", "survey"} => ~AnyUnknown

(* A closed incident has a cached result, or will have one at the next     *)
(* step of telemetry, or is known to be closed to every caller.            *)
ClosureKnown ==
  Closed => \/ result # "none"
            \/ seen \subseteq {"ESCALATED", "RECOVERED"}
            \/ telemetry \in {"cache RECOVERED", "cache ESCALATED"}

(* So a cycle that begins on a closed incident has a copy that says so,    *)
(* which the validator refuses.                                            *)
LateIsHarmless ==
  leader.late => leader.inc = "ESCALATED" /\ leader.at \notin {"record", "mitigate", "act"}

OInv ==
  Typed /\ Counted /\ Approved /\ Surveyed /\ ClosureKnown /\ LateIsHarmless

-----------------------------------------------------------------------------
(* What an evaluation decides, and that it keeps its tables in order.      *)
LEMMA EvaluationTyped ==
  ASSUME Typed, NEW action, NEW failure \in Failure
  PROVE  LET v == Evaluation(action, failure) IN
         /\ v.decision \in {"NONE", "ESCALATE", "RETRY"}
         /\ EngineTyped(v.escalations, v.circuit)
<1> DEFINE window == {e \in escalations : e.at >= now - FailureWindow}
<1>1. IsFiniteSet(window) /\ InWindow = Cardinality(window)
  BY FS_Subset DEF InWindow, Typed, EngineTyped
<1>2. InWindow \in Nat
  BY <1>1, FS_CardinalityType
<1>3. ASSUME NEW class \in Failure, NEW n
      PROVE  /\ IsFiniteSet(Recorded(action, class, n))
             /\ \A r \in Recorded(action, class, n) : r.at \in 0 .. MaxTime /\ r.id[2] \in Failure
  <2>1. IsFiniteSet(escalations \cup {[id |-> <<action, class, n>>, at |-> now]})
    BY FS_AddElement DEF Typed, EngineTyped
  <2> QED  BY <2>1 DEF Recorded, Typed, EngineTyped
<1>4. /\ circuit \in [open : BOOLEAN, count : Nat]
      /\ [open |-> TRUE, count |-> InWindow + 1] \in [open : BOOLEAN, count : Nat]
  BY <1>2 DEF Typed, EngineTyped
<1>5. "CIRCUIT_OPEN" \in Failure /\ "BUDGET" \in Failure
  BY DEF Failure
<1>6. CASE circuit.open
  BY <1>3, <1>4, <1>5, <1>6 DEF Evaluation, EngineTyped
<1>7. CASE ~circuit.open /\ Cooling
  BY <1>7 DEF Evaluation, Typed
<1>8. CASE ~circuit.open /\ ~Cooling /\ failure = "NOT_RECOVERED"
  BY <1>3, <1>4, <1>5, <1>8 DEF Evaluation, EngineTyped
<1>9. CASE ~circuit.open /\ ~Cooling /\ failure # "NOT_RECOVERED"
  BY <1>3, <1>4, <1>5, <1>9 DEF Evaluation, EngineTyped
<1> QED  BY <1>6, <1>7, <1>8, <1>9

LEMMA EvaluateTyped ==
  ASSUME Typed, NEW action, NEW failure \in Failure, Evaluate(action, failure)
  PROVE  EngineTyped(escalations', circuit')
BY EvaluationTyped DEF Evaluate

(* A transition keeps the types, and a closed incident closed.             *)
LEMMA BecomeTyped ==
  ASSUME Typed, NEW to \in IStatus, Become(to)
  PROVE  /\ incident' \in seen' /\ seen' \subseteq IStatus
         /\ seen' \subseteq seen \cup {incident'}
         /\ Closed => incident' = incident
         /\ incident' \in {incident, to}
BY DEF Typed, Become, CanBecome, Closed, IStatus

(* The end of a cycle leaves nothing to prove about its leader.            *)
LEMMA FinishTyped ==
  ASSUME Typed, NEW state, Finish(state)
  PROVE  /\ leader' = Idle
         /\ leader' \in [at : Steps, attempt : Nat, inc : IStatus, failure : Failure, late : BOOLEAN]
         /\ result' \in Cached \cup {"none"}
         /\ result # "none" => result' # "none"
         /\ state \in Cached => result' # "none"
BY DEF Typed, Finish, Idle, Steps, IStatus, Failure, Cached

LEMMA GoToTyped ==
  ASSUME Typed, NEW step \in Steps, GoTo(step)
  PROVE  /\ leader' = [leader EXCEPT !.at = step]
         /\ leader' \in [at : Steps, attempt : Nat, inc : IStatus, failure : Failure, late : BOOLEAN]
         /\ leader'.at = step /\ leader'.attempt = leader.attempt
         /\ leader'.inc = leader.inc /\ leader'.late = leader.late
BY DEF Typed, GoTo

LEMMA OInit == Init => OInv
<1> SUFFICES ASSUME Init PROVE OInv
  OBVIOUS
<1>1. IsFiniteSet({})
  BY FS_EmptySet
<1>2. Typed
  BY <1>1, OrchestratorAssumption
  DEF Init, Typed, EngineTyped, VStatus, IStatus, Idle, Steps, Failure, TelemetrySteps, Cached
<1>3. Counted /\ Approved /\ Surveyed /\ ClosureKnown /\ LateIsHarmless
  BY OrchestratorAssumption
  DEF Init, Counted, Approved, Surveyed, ClosureKnown, LateIsHarmless, Idle, Closed
<1> QED  BY <1>2, <1>3 DEF OInv

(* What follows an evaluation is the end of the cycle, a handoff or a      *)
(* retry.                                                                  *)
LEMMA FollowTyped ==
  ASSUME Typed, NEW decision \in {"NONE", "ESCALATE", "RETRY"}, Follow(decision)
  PROVE  /\ leader' = Idle \/ \E step \in {"escalate", "retry"} : leader' = [leader EXCEPT !.at = step]
         /\ leader' \in [at : Steps, attempt : Nat, inc : IStatus, failure : Failure, late : BOOLEAN]
         /\ result' \in Cached \cup {"none"}
         /\ result # "none" => result' # "none"
<1>1. CASE decision = "NONE"
  <2>1. Finish("FAILED")
    BY <1>1 DEF Follow
  <2> QED  BY <2>1, FinishTyped
<1>2. CASE decision = "ESCALATE"
  <2>1. GoTo("escalate") /\ UNCHANGED result
    BY <1>2 DEF Follow
  <2>2. "escalate" \in Steps
    BY DEF Steps
  <2> QED  BY <2>1, <2>2, GoToTyped DEF Typed
<1>3. CASE decision = "RETRY"
  <2>1. GoTo("retry") /\ UNCHANGED result
    BY <1>3 DEF Follow
  <2>2. "retry" \in Steps
    BY DEF Steps
  <2> QED  BY <2>1, <2>2, GoToTyped DEF Typed
<1> QED  BY <1>1, <1>2, <1>3

(* A step of the cycle that only ends it keeps everything.                 *)
LEMMA EndKeeps ==
  ASSUME OInv, NEW state, Finish(state), EngineTyped(escalations', circuit'),
         UNCHANGED <<mitigations, verification, incident, approval, telemetry, seen, now, acted>>
  PROVE  OInv'
<1>1. leader' = Idle /\ (result # "none" => result' # "none")
  BY FinishTyped DEF OInv
<1>2. Typed'
  BY FinishTyped DEF OInv, Typed
<1>3. Counted' /\ Approved' /\ Surveyed' /\ LateIsHarmless'
  BY <1>1 DEF OInv, Counted, Approved, Surveyed, LateIsHarmless, Idle
<1>4. ClosureKnown'
  BY <1>1 DEF OInv, ClosureKnown, Closed
<1> QED  BY <1>2, <1>3, <1>4 DEF OInv

(* So does one that only goes on, where the numbers allow it.              *)
LEMMA GoingOnKeeps ==
  ASSUME OInv, NEW step \in Steps, GoTo(step), EngineTyped(escalations', circuit'),
         UNCHANGED <<mitigations, incident, approval, telemetry, seen, now, acted, result>>,
         verification' \in VStatus,
         Counted', Approved', leader.at \notin {"idle", "survey"},
         leader.late => step \notin {"record", "mitigate", "act"}
  PROVE  OInv'
<1>1. Typed'
  BY GoToTyped DEF OInv, Typed
<1>2. Surveyed' /\ LateIsHarmless'
  BY GoToTyped DEF OInv, Surveyed, LateIsHarmless, AnyUnknown
<1>3. ClosureKnown'
  BY DEF OInv, ClosureKnown, Closed
<1> QED  BY <1>1, <1>2, <1>3 DEF OInv

-----------------------------------------------------------------------------
(* The cycle's steps, one lemma for each group of them.                    *)
LEMMA SurveyKeeps == OInv /\ Survey => OInv'
<1> SUFFICES ASSUME OInv, Survey PROVE OInv'
  OBVIOUS
<1>1. \/ Finish("RECOVERED") \/ Finish("FAILED")
      \/ /\ ~AnyUnknown
         /\ leader' = [leader EXCEPT !.at = "circuit", !.attempt = Len(mitigations) + 1]
         /\ UNCHANGED result
  BY DEF Survey, Blocked
<1>2. UNCHANGED <<tables, incident, approval, telemetry, seen, now, acted>>
  BY DEF Survey, counts
<1>3. EngineTyped(escalations', circuit')
  BY <1>2 DEF tables, OInv, Typed
<1>4. CASE Finish("RECOVERED") \/ Finish("FAILED")
  BY <1>2, <1>3, <1>4, EndKeeps DEF tables
<1>5. CASE /\ ~AnyUnknown
           /\ leader' = [leader EXCEPT !.at = "circuit", !.attempt = Len(mitigations) + 1]
           /\ UNCHANGED result
  <2>1. leader.at = "survey"
    BY DEF Survey
  <2>2. Typed'
    <3>1. Len(mitigations) + 1 \in Nat /\ "circuit" \in Steps
      BY DEF OInv, Typed, Steps
    <3>2. PICK n \in Nat : leader' = [leader EXCEPT !.at = "circuit", !.attempt = n]
      BY <1>5, <3>1
    <3>3. leader' \in [at : Steps, attempt : Nat, inc : IStatus, failure : Failure, late : BOOLEAN]
      BY <3>1, <3>2 DEF OInv, Typed
    <3> QED  BY <1>2, <1>3, <1>5, <3>3 DEF tables, OInv, Typed
  <2>3. Counted' /\ Approved'
    BY <1>2, <1>5 DEF tables, OInv, Typed, Counted, Approved
  <2>4. Surveyed' /\ LateIsHarmless' /\ ClosureKnown'
    BY <1>2, <1>5 DEF tables, OInv, Typed, Surveyed, LateIsHarmless, ClosureKnown, Closed, AnyUnknown
  <2> QED  BY <2>2, <2>3, <2>4 DEF OInv
<1> QED  BY <1>1, <1>4, <1>5

LEMMA CircuitKeeps == OInv /\ (CheckCircuit \/ CheckCooldown) => OInv'
<1>1. ASSUME OInv, CheckCircuit PROVE OInv'
  <2>1. PICK step \in {"openCircuit", "cooldown"} : GoTo(step)
    BY <1>1 DEF CheckCircuit
  <2>2. UNCHANGED <<tables, incident, approval, telemetry, seen, now, acted, result>> /\ leader.at = "circuit"
    BY <1>1 DEF CheckCircuit, counts, memory
  <2>3. EngineTyped(escalations', circuit') /\ verification' \in VStatus /\ step \in Steps
    BY <1>1, <2>2 DEF tables, OInv, Typed, Steps
  <2>4. Counted' /\ Approved'
    BY <1>1, <2>1, <2>2, <2>3, GoToTyped DEF tables, OInv, Counted, Approved
  <2> QED  BY <1>1, <2>1, <2>2, <2>3, <2>4, GoingOnKeeps DEF tables
<1>2. ASSUME OInv, CheckCooldown PROVE OInv'
  <2>1. UNCHANGED <<tables, incident, approval, telemetry, seen, now, acted>> /\ leader.at = "cooldown"
    BY <1>2 DEF CheckCooldown, counts
  <2>2. EngineTyped(escalations', circuit') /\ verification' \in VStatus /\ "decide" \in Steps
    BY <1>2, <2>1 DEF tables, OInv, Typed, Steps
  <2>3. CASE Finish("FAILED")
    BY <1>2, <2>1, <2>2, <2>3, EndKeeps DEF tables
  <2>4. CASE GoTo("decide") /\ UNCHANGED result
    <3>1. Counted' /\ Approved'
      BY <1>2, <2>1, <2>2, <2>4, GoToTyped DEF tables, OInv, Counted, Approved
    <3> QED  BY <1>2, <2>1, <2>2, <2>4, <3>1, GoingOnKeeps DEF tables
  <2> QED  BY <1>2, <2>3, <2>4 DEF CheckCooldown
<1> QED  BY <1>1, <1>2

LEMMA DecideKeeps == OInv /\ (Decide \/ Cancel) => OInv'
<1> SUFFICES ASSUME OInv, Decide \/ Cancel PROVE OInv'
  OBVIOUS
<1>1. UNCHANGED <<tables, incident, approval, telemetry, seen, now, acted>> /\ leader.at = "decide"
  BY DEF Decide, Cancel, counts
<1>2. EngineTyped(escalations', circuit') /\ verification' \in VStatus
  BY <1>1 DEF tables, OInv, Typed
<1>3. \/ Finish("WAITING_APPROVAL") \/ Finish("FAILED") \/ Finish("CANCELLED")
      \/ GoTo("badApproval") /\ UNCHANGED result
      \/ UnderCeiling /\ approval # "missing" /\ Actionable /\ GoTo("record") /\ UNCHANGED result
  BY DEF Decide, Cancel
<1>4. CASE Finish("WAITING_APPROVAL") \/ Finish("FAILED") \/ Finish("CANCELLED")
  BY <1>1, <1>2, <1>4, EndKeeps DEF tables
<1>5. CASE GoTo("badApproval") /\ UNCHANGED result
  <2>1. "badApproval" \in Steps
    BY DEF Steps
  <2>2. Counted' /\ Approved'
    BY <1>1, <1>5, <2>1, GoToTyped DEF tables, OInv, Counted, Approved
  <2> QED  BY <1>1, <1>2, <1>5, <2>1, <2>2, GoingOnKeeps DEF tables
<1>6. CASE UnderCeiling /\ approval # "missing" /\ Actionable /\ GoTo("record") /\ UNCHANGED result
  <2>1. "record" \in Steps
    BY DEF Steps
  <2>2. Counted' /\ Approved'
    BY <1>1, <1>6, <2>1, GoToTyped DEF tables, OInv, Counted, Approved, UnderCeiling
  <2>3. ~leader.late
    BY <1>6 DEF Actionable, OInv, LateIsHarmless
  <2> QED  BY <1>1, <1>2, <1>6, <2>1, <2>2, <2>3, GoingOnKeeps DEF tables
<1> QED  BY <1>3, <1>4, <1>5, <1>6

LEMMA EvaluationsKeep ==
  OInv /\ (OpenCircuit \/ BadApproval \/ ExecutionFailed \/ NotVerified) => OInv'
<1> SUFFICES ASSUME OInv, OpenCircuit \/ BadApproval \/ ExecutionFailed \/ NotVerified PROVE OInv'
  OBVIOUS
<1> DEFINE Kept == UNCHANGED <<mitigations, verification, incident, approval, telemetry, seen, now, acted>>
<1> USE DEF Kept
<1>1. {"CIRCUIT_OPEN", "MITIGATION_FAILED", leader.failure} \subseteq Failure
      /\ {"escalate", "retry"} \subseteq Steps
  BY DEF Failure, Steps, OInv, Typed
<1>2. ASSUME NEW action, NEW failure \in Failure, Evaluate(action, failure), Kept,
             Follow(Evaluation(action, failure).decision), leader.at \in {"failed", "unverified"}
      PROVE  OInv'
  <2>1. EngineTyped(escalations', circuit')
    BY <1>2, EvaluateTyped DEF OInv
  <2>2. Evaluation(action, failure).decision \in {"NONE", "ESCALATE", "RETRY"}
    BY <1>2, EvaluationTyped DEF OInv
  <2>3. \/ Finish("FAILED")
        \/ \E step \in {"escalate", "retry"} : GoTo(step) /\ UNCHANGED result
    BY <1>2, <2>2 DEF Follow
  <2>4. CASE Finish("FAILED")
    BY <1>2, <2>1, <2>4, EndKeeps
  <2>5. ASSUME NEW step \in {"escalate", "retry"}, GoTo(step), UNCHANGED result PROVE OInv'
    <3>1. Counted' /\ Approved'
      BY <1>1, <1>2, <2>5, GoToTyped DEF OInv, Typed, Counted, Approved
    <3>2. verification' \in VStatus
      BY <1>2 DEF OInv, Typed
    <3> QED  BY <1>1, <1>2, <2>1, <2>5, <3>1, <3>2, GoingOnKeeps
  <2> QED  BY <2>3, <2>4, <2>5
<1>3. CASE OpenCircuit
  <2>1. /\ Evaluate("cb-open-check", "CIRCUIT_OPEN") /\ GoTo("escalate") /\ Kept
        /\ UNCHANGED result /\ leader.at = "openCircuit"
    BY <1>3 DEF OpenCircuit, counts, memory
  <2>2. EngineTyped(escalations', circuit') /\ verification' \in VStatus
    BY <1>1, <2>1, EvaluateTyped DEF OInv, Typed
  <2>3. Counted' /\ Approved'
    BY <1>1, <2>1, GoToTyped DEF OInv, Counted, Approved
  <2> QED  BY <1>1, <2>1, <2>2, <2>3, GoingOnKeeps
<1>4. CASE BadApproval
  <2>1. Evaluate("approval", "MITIGATION_FAILED") /\ Finish("FAILED") /\ Kept
    BY <1>4 DEF BadApproval, counts
  <2> QED  BY <1>1, <2>1, EvaluateTyped, EndKeeps DEF OInv
<1>5. CASE ExecutionFailed
  <2>1. /\ Evaluate("exec", "MITIGATION_FAILED") /\ Kept /\ leader.at = "failed"
        /\ Follow(Evaluation("exec", "MITIGATION_FAILED").decision)
    BY <1>5 DEF ExecutionFailed, counts
  <2> QED  BY <1>1, <1>2, <2>1
<1>6. CASE NotVerified
  <2>1. /\ Evaluate("exec", leader.failure) /\ Kept /\ leader.at = "unverified"
        /\ Follow(Evaluation("exec", leader.failure).decision)
    BY <1>6 DEF NotVerified, counts
  <2> QED  BY <1>1, <1>2, <2>1
<1> QED  BY <1>3, <1>4, <1>5, <1>6

LEMMA RecordKeeps == OInv /\ RecordMitigation => OInv'
<1> SUFFICES ASSUME OInv, RecordMitigation PROVE OInv'
  OBVIOUS
<1>1. /\ UNCHANGED <<verification, escalations, circuit, incident, approval, telemetry, seen, now, acted>>
      /\ leader.at = "record"
  BY DEF RecordMitigation, counts
<1>2. EngineTyped(escalations', circuit')
  BY <1>1 DEF OInv, Typed
<1>3. CASE Finish("FAILED") /\ UNCHANGED mitigations
  BY <1>1, <1>2, <1>3, EndKeeps
<1>4. CASE mitigations' = Append(mitigations, "EXECUTING") /\ GoTo("mitigate") /\ UNCHANGED result
  <2>1. /\ leader' = [leader EXCEPT !.at = "mitigate"] /\ "mitigate" \in Steps
        /\ mitigations \in Seq(MStatus) /\ "EXECUTING" \in MStatus
    BY <1>4 DEF GoTo, Steps, MStatus, OInv, Typed
  <2>2. mitigations' \in Seq(MStatus) /\ Len(mitigations') = Len(mitigations) + 1
    BY <1>4, <2>1
  <2>3. Typed'
    BY <1>1, <1>2, <1>4, <2>1, <2>2, GoToTyped DEF OInv, Typed
  <2>4. Counted'
    BY <1>1, <2>1, <2>2 DEF OInv, Typed, Counted
  <2>5. Surveyed'
    <3>1. \A k \in DOMAIN mitigations : mitigations[k] # "UNKNOWN"
      BY <1>1 DEF OInv, Surveyed, AnyUnknown
    <3>2. \A k \in DOMAIN mitigations' : mitigations'[k] # "UNKNOWN"
      BY <1>4, <2>1, <3>1
    <3> QED  BY <3>2 DEF Surveyed, AnyUnknown
  <2>6. Approved' /\ LateIsHarmless'
    BY <1>1, <2>1 DEF OInv, Typed, Approved, LateIsHarmless
  <2>7. ClosureKnown'
    BY <1>1, <1>4 DEF OInv, ClosureKnown, Closed
  <2> QED  BY <2>3, <2>4, <2>5, <2>6, <2>7 DEF OInv
<1> QED  BY <1>3, <1>4 DEF RecordMitigation

LEMMA ActionKeeps == OInv /\ (Execute \/ MarkExecuted) => OInv'
<1>1. ASSUME OInv, Execute PROVE OInv'
  <2>1. /\ UNCHANGED <<tables, incident, telemetry, seen, now, result>>
        /\ leader.at = "act"
    BY <1>1 DEF Execute, counts
  <2>2. EngineTyped(escalations', circuit') /\ verification' \in VStatus /\ {"mark", "failed"} \subseteq Steps
    BY <1>1, <2>1 DEF tables, OInv, Typed, Steps
  <2>3. CASE \E step \in {"mark", "failed"} : GoTo(step) /\ UNCHANGED <<approval, acted>>
    <3>1. PICK step \in {"mark", "failed"} : GoTo(step)
      BY <2>3
    <3>2. Counted' /\ Approved'
      BY <1>1, <2>1, <2>2, <2>3, <3>1, GoToTyped DEF tables, OInv, Counted, Approved
    <3> QED  BY <1>1, <2>1, <2>2, <2>3, <3>1, <3>2, GoingOnKeeps DEF tables
  <2>4. CASE /\ approval # "spent" /\ acted' = acted + 1 /\ GoTo("mark")
             /\ approval' = IF approval = "granted" THEN "spent" ELSE approval
    <3>1. leader' = [leader EXCEPT !.at = "mark"]
      BY <2>4 DEF GoTo
    <3>2. Typed'
      BY <1>1, <2>1, <2>2, <2>4, <3>1, GoToTyped DEF tables, OInv, Typed
    <3>3. Counted'
      BY <1>1, <2>1, <2>4, <3>1 DEF tables, OInv, Typed, Counted
    <3>4. Approved'
      BY <1>1, <2>1, <2>4, <3>1 DEF OInv, Typed, Approved
    <3>5. Surveyed' /\ LateIsHarmless' /\ ClosureKnown'
      BY <1>1, <2>1, <3>1 DEF tables, OInv, Typed, Surveyed, AnyUnknown, LateIsHarmless, ClosureKnown, Closed
    <3> QED  BY <3>2, <3>3, <3>4, <3>5 DEF OInv
  <2> QED  BY <1>1, <2>3, <2>4 DEF Execute
<1>2. ASSUME OInv, MarkExecuted PROVE OInv'
  <2>1. /\ UNCHANGED <<verification, escalations, circuit, incident, approval, telemetry, seen, now, acted, result>>
        /\ leader.at = "mark" /\ leader' = [leader EXCEPT !.at = "verify"]
    BY <1>2 DEF MarkExecuted, counts, memory, GoTo
  <2>2. /\ mitigations \in Seq(MStatus) /\ "EXECUTED" \in MStatus /\ "verify" \in Steps
        /\ Len(mitigations) \in Nat
    BY <1>2 DEF OInv, Typed, MStatus, Steps
  <2>3. /\ mitigations' \in Seq(MStatus) /\ Len(mitigations') = Len(mitigations)
        /\ DOMAIN mitigations' = DOMAIN mitigations
        /\ \A k \in DOMAIN mitigations : mitigations'[k] \in {mitigations[k], "EXECUTED"}
    BY <1>2, <2>2 DEF MarkExecuted
  <2>4. Typed'
    BY <1>2, <2>1, <2>2, <2>3 DEF OInv, Typed
  <2>5. Counted' /\ Approved' /\ LateIsHarmless'
    BY <1>2, <2>1, <2>3 DEF OInv, Typed, Counted, Approved, LateIsHarmless
  <2>6. Surveyed'
    BY <1>2, <2>1, <2>3 DEF OInv, Surveyed, AnyUnknown
  <2>7. ClosureKnown'
    BY <1>2, <2>1 DEF OInv, ClosureKnown, Closed
  <2> QED  BY <2>4, <2>5, <2>6, <2>7 DEF OInv
<1> QED  BY <1>1, <1>2

LEMMA TransitionsKeep == OInv /\ (BecomeMitigating \/ Recovered \/ Escalate) => OInv'
<1> DEFINE Kept == UNCHANGED <<tables, approval, telemetry, now, acted>>
<1>1. ASSUME OInv, BecomeMitigating PROVE OInv'
  <2>1. Kept /\ UNCHANGED result /\ leader.at = "mitigate"
    BY <1>1 DEF BecomeMitigating, counts
  <2>2. /\ leader'.at = "act" /\ leader'.attempt = leader.attempt /\ leader'.late = leader.late
        /\ leader' \in [at : Steps, attempt : Nat, inc : IStatus, failure : Failure, late : BOOLEAN]
    BY <1>1 DEF BecomeMitigating, GoTo, OInv, Typed, Steps, IStatus
  <2>3. /\ incident' \in seen' /\ seen' \subseteq IStatus /\ ~leader.late
        /\ Closed' => UNCHANGED <<incident, seen>>
    <3>1. ~leader.late /\ (Become("MITIGATING") \/ UNCHANGED <<incident, seen>>)
      BY <1>1, <2>1 DEF BecomeMitigating, OInv, LateIsHarmless
    <3>2. CASE Become("MITIGATING")
      <4>1. incident' \in {incident, "MITIGATING"} /\ seen' = seen \cup {incident'}
        BY <3>2 DEF Become
      <4>2. incident \in seen /\ (Closed' => incident' = incident)
        BY <1>1, <4>1 DEF Closed, OInv, Typed
      <4>3. incident' = incident => seen' = seen
        BY <4>1, <4>2
      <4> QED  BY <1>1, <3>1, <4>1, <4>2, <4>3 DEF OInv, Typed, IStatus
    <3> QED  BY <1>1, <3>1, <3>2 DEF OInv, Typed
  <2>4. Typed'
    BY <1>1, <2>1, <2>2, <2>3 DEF tables, OInv, Typed
  <2>5. Counted' /\ Approved' /\ Surveyed' /\ LateIsHarmless'
    BY <1>1, <2>1, <2>2, <2>3 DEF tables, OInv, Typed, Counted, Approved, Surveyed, AnyUnknown, LateIsHarmless
  <2>6. ClosureKnown'
    BY <1>1, <2>1, <2>3 DEF OInv, ClosureKnown, Closed
  <2> QED  BY <2>4, <2>5, <2>6 DEF OInv
<1>2. ASSUME OInv, NEW state \in {"RECOVERED", "ESCALATED"}, Finish(state), Kept,
             \/ Become(state)
             \/ UNCHANGED <<incident, seen>>
      PROVE  OInv'
  <2>1. leader' = Idle /\ result' # "none"
    BY <1>2, FinishTyped DEF OInv, Cached
  <2>2. incident' \in seen' /\ seen' \subseteq IStatus
    BY <1>2, BecomeTyped DEF OInv, Typed, IStatus
  <2>3. Typed'
    BY <1>2, <2>2, FinishTyped DEF tables, OInv, Typed
  <2>4. Counted' /\ Approved' /\ Surveyed' /\ LateIsHarmless' /\ ClosureKnown'
    BY <1>2, <2>1 DEF tables, OInv, Counted, Approved, Surveyed, LateIsHarmless, ClosureKnown, Idle
  <2> QED  BY <2>3, <2>4 DEF OInv
<1>3. ASSUME OInv, Recovered PROVE OInv'
  <2>1. Kept /\ Finish("RECOVERED") /\ (Become("RECOVERED") \/ UNCHANGED <<incident, seen>>)
    BY <1>3 DEF Recovered, counts
  <2> QED  BY <1>2, <1>3, <2>1
<1>4. ASSUME OInv, Escalate PROVE OInv'
  <2>1. Kept /\ Finish("ESCALATED") /\ Become("ESCALATED")
    BY <1>4 DEF Escalate, counts
  <2> QED  BY <1>2, <1>4, <2>1
<1> QED  BY <1>1, <1>3, <1>4

LEMMA VerificationKeeps == OInv /\ (StartVerification \/ ProcessSamples) => OInv'
<1> SUFFICES ASSUME OInv, StartVerification \/ ProcessSamples PROVE OInv'
  OBVIOUS
<1>1. /\ UNCHANGED <<mitigations, escalations, circuit, incident, approval, telemetry, seen, now, acted>>
      /\ leader.at \in {"verify", "samples"} /\ verification' \in VStatus
  BY DEF StartVerification, ProcessSamples, counts, OInv, Typed, VStatus
<1>2. EngineTyped(escalations', circuit')
  BY <1>1 DEF OInv, Typed
<1>3. CASE \E state \in {"FAILED", "VERIFYING"} : Finish(state) /\ UNCHANGED verification
  BY <1>1, <1>2, <1>3, EndKeeps
<1>4. CASE \E step \in {"samples", "recovered"} : GoTo(step) /\ UNCHANGED result
  <2>1. PICK step \in {"samples", "recovered"} : GoTo(step)
    BY <1>4
  <2>2. step \in Steps
    BY DEF Steps
  <2>3. Counted' /\ Approved'
    BY <1>1, <2>1, <2>2, GoToTyped DEF OInv, Counted, Approved
  <2> QED  BY <1>1, <1>2, <1>4, <2>1, <2>2, <2>3, GoingOnKeeps
<1>5. CASE leader' = [leader EXCEPT !.at = "unverified", !.failure = "TIMED_OUT"] /\ UNCHANGED result
  <2>1. "unverified" \in Steps /\ "TIMED_OUT" \in Failure
    BY DEF Steps, Failure
  <2>2. Typed'
    BY <1>1, <1>2, <1>5, <2>1 DEF OInv, Typed
  <2>3. Counted' /\ Approved' /\ Surveyed' /\ LateIsHarmless'
    BY <1>1, <1>5 DEF OInv, Typed, Counted, Approved, Surveyed, AnyUnknown, LateIsHarmless
  <2>4. ClosureKnown'
    BY <1>1, <1>5 DEF OInv, ClosureKnown, Closed
  <2> QED  BY <2>2, <2>3, <2>4 DEF OInv
<1> QED  BY <1>3, <1>4, <1>5 DEF StartVerification, ProcessSamples

LEMMA RetryKeeps == OInv /\ (Retry \/ StoreFails) => OInv'
<1> SUFFICES ASSUME OInv, Retry \/ StoreFails PROVE OInv'
  OBVIOUS
<1>1. UNCHANGED <<tables, incident, approval, telemetry, seen, now, acted>>
  BY DEF Retry, StoreFails, counts
<1>2. EngineTyped(escalations', circuit')
  BY <1>1 DEF tables, OInv, Typed
<1>3. CASE Finish("FAILED")
  BY <1>1, <1>2, <1>3, EndKeeps DEF tables
<1>4. CASE /\ leader.at = "retry" /\ UNCHANGED result
           /\ leader' = [leader EXCEPT !.at = "decide", !.attempt = @ + 1]
  <2>1. Typed'
    <3>1. leader.attempt + 1 \in Nat /\ "decide" \in Steps
      BY DEF OInv, Typed, Steps
    <3>2. PICK n \in Nat : leader' = [leader EXCEPT !.at = "decide", !.attempt = n]
      BY <1>4, <3>1
    <3>3. leader' \in [at : Steps, attempt : Nat, inc : IStatus, failure : Failure, late : BOOLEAN]
      BY <3>1, <3>2 DEF OInv, Typed
    <3> QED  BY <1>1, <1>2, <1>4, <3>3 DEF tables, OInv, Typed
  <2>2. Counted' /\ Approved' /\ Surveyed' /\ LateIsHarmless'
    BY <1>1, <1>4 DEF tables, OInv, Typed, Counted, Approved, Surveyed, AnyUnknown, LateIsHarmless
  <2>3. ClosureKnown'
    BY <1>1, <1>4 DEF OInv, ClosureKnown, Closed
  <2> QED  BY <2>1, <2>2, <2>3 DEF OInv
<1> QED  BY <1>3, <1>4 DEF Retry, StoreFails

(* A new cycle: an idle telemetry and no result say that a closed incident *)
(* is known as closed to the caller.                                       *)
LEMMA BeginKeeps == ASSUME NEW inc PROVE OInv /\ OrchestrateIncident(inc) => OInv'
<1> SUFFICES ASSUME OInv, OrchestrateIncident(inc) PROVE OInv'
  OBVIOUS
<1>1. /\ UNCHANGED <<tables, incident, approval, telemetry, memory, counts, acted>>
      /\ leader = Idle /\ result = "none" /\ inc \in seen /\ inc # "RECOVERED"
      /\ leader' = [Idle EXCEPT !.at = "survey", !.inc = inc, !.late = Closed /\ telemetry = "idle"]
  BY DEF OrchestrateIncident
<1>2. (Closed /\ telemetry = "idle") \in BOOLEAN
  BY DEF Closed
<1>3. Typed'
  BY <1>1, <1>2 DEF tables, memory, counts, OInv, Typed, Idle, Steps, Failure
<1>4. LateIsHarmless'
  BY <1>1 DEF OInv, ClosureKnown, LateIsHarmless, Idle
<1>5. Counted' /\ Approved' /\ Surveyed'
  BY <1>1 DEF tables, OInv, Counted, Approved, Surveyed, Idle
<1>6. ClosureKnown'
  BY <1>1 DEF memory, OInv, ClosureKnown, Closed
<1> QED  BY <1>3, <1>4, <1>5, <1>6 DEF OInv

LEMMA CycleKeeps == OInv /\ CycleStep => OInv'
BY SurveyKeeps, CircuitKeeps, DecideKeeps, EvaluationsKeep, RecordKeeps, ActionKeeps,
   TransitionsKeep, VerificationKeeps, RetryKeeps DEF CycleStep

(* Telemetry leaves the leader, its numbers and its approval alone.        *)
LEMMA TelemetryKeeps == OInv /\ ProcessTelemetry => OInv'
<1> SUFFICES ASSUME OInv, ProcessTelemetry PROVE OInv'
  OBVIOUS
<1>1. UNCHANGED <<mitigations, approval, leader, acted, now>>
  BY DEF ProcessTelemetry, Sample, SampleRecovered, SampleTimedOut, SampleEscalates, SampleCaches,
         tables, counts
<1>2. Counted' /\ Approved' /\ Surveyed' /\ LateIsHarmless'
  BY <1>1 DEF OInv, Counted, Approved, Surveyed, AnyUnknown, LateIsHarmless
<1>3. Typed' /\ ClosureKnown'
  <2>1. CASE \E outcome \in VStatus : Sample(outcome)
    <3>1. /\ UNCHANGED <<escalations, circuit, incident, result, seen>>
          /\ verification' \in VStatus /\ telemetry' \in TelemetrySteps /\ telemetry = "idle"
      BY <2>1 DEF Sample, memory, TelemetrySteps, VStatus
    <3> QED  BY <1>1, <3>1 DEF OInv, Typed, ClosureKnown, Closed
  <2>2. CASE SampleRecovered
    <3>1. /\ UNCHANGED <<verification, escalations, circuit, result>>
          /\ telemetry' = "cache RECOVERED" /\ telemetry' \in TelemetrySteps
          /\ Become("RECOVERED") \/ UNCHANGED <<incident, seen>>
      BY <2>2 DEF SampleRecovered, tables, TelemetrySteps
    <3>2. incident' \in seen' /\ seen' \subseteq IStatus
      BY <3>1, BecomeTyped DEF OInv, Typed, IStatus
    <3> QED  BY <1>1, <3>1, <3>2 DEF OInv, Typed, ClosureKnown
  <2>3. CASE SampleTimedOut
    <3>1. /\ UNCHANGED <<verification, incident, result, seen>> /\ telemetry = "TIMED_OUT"
          /\ telemetry' \in TelemetrySteps /\ Evaluate("exec", "TIMED_OUT")
      BY <2>3 DEF SampleTimedOut, memory, TelemetrySteps
    <3>2. EngineTyped(escalations', circuit')
      BY <3>1, EvaluateTyped DEF OInv, Failure
    <3> QED  BY <1>1, <3>1, <3>2 DEF OInv, Typed, ClosureKnown, Closed
  <2>4. CASE SampleEscalates
    <3>1. /\ UNCHANGED <<verification, escalations, circuit, result>>
          /\ telemetry' = "cache ESCALATED" /\ telemetry' \in TelemetrySteps
          /\ Become("ESCALATED")
      BY <2>4 DEF SampleEscalates, tables, TelemetrySteps
    <3>2. incident' \in seen' /\ seen' \subseteq IStatus
      BY <3>1, BecomeTyped DEF OInv, IStatus
    <3> QED  BY <1>1, <3>1, <3>2 DEF OInv, Typed, ClosureKnown
  <2>5. CASE SampleCaches
    <3>1. /\ UNCHANGED <<verification, escalations, circuit, incident, seen>>
          /\ telemetry' \in TelemetrySteps /\ result' \in Cached /\ result' # "none"
      BY <2>5 DEF SampleCaches, tables, TelemetrySteps, Cached
    <3> QED  BY <1>1, <3>1 DEF OInv, Typed, ClosureKnown
  <2> QED  BY <2>1, <2>2, <2>3, <2>4, <2>5 DEF ProcessTelemetry
<1> QED  BY <1>2, <1>3 DEF OInv

(* Operators and the clock.                                                *)
LEMMA OthersKeep ==
  OInv /\ (ResetCircuitBreaker \/ WithdrawVerification \/ Approve \/ Tick) => OInv'
<1> SUFFICES ASSUME OInv, ResetCircuitBreaker \/ WithdrawVerification \/ Approve \/ Tick PROVE OInv'
  OBVIOUS
<1>1. /\ UNCHANGED <<mitigations, escalations, incident, leader, telemetry, result, seen, acted>>
      /\ verification' \in VStatus
      /\ circuit' \in [open : BOOLEAN, count : Nat]
  <2>1. verification \in VStatus /\ circuit \in [open : BOOLEAN, count : Nat]
    BY DEF OInv, Typed, EngineTyped
  <2>2. CASE ResetCircuitBreaker
    BY <2>1, <2>2 DEF ResetCircuitBreaker, memory
  <2>3. CASE WithdrawVerification
    BY <2>1, <2>3 DEF WithdrawVerification, memory, VStatus
  <2>4. CASE Approve \/ Tick
    BY <2>1, <2>4 DEF Approve, Tick, tables, memory
  <2> QED  BY <2>2, <2>3, <2>4
<1>2. now' \in 0 .. MaxTime
  BY OrchestratorAssumption
  DEF ResetCircuitBreaker, WithdrawVerification, Approve, Tick, counts, OInv, Typed
<1>3. UNCHANGED approval \/ (approval = "missing" /\ approval' = "granted")
  BY DEF ResetCircuitBreaker, WithdrawVerification, Approve, Tick
<1>4. Typed'
  BY <1>1, <1>2, <1>3 DEF OInv, Typed, EngineTyped
<1>5. Counted' /\ Surveyed' /\ LateIsHarmless'
  BY <1>1 DEF OInv, Counted, Surveyed, AnyUnknown, LateIsHarmless
<1>6. Approved' /\ ClosureKnown'
  BY <1>1, <1>3 DEF OInv, Approved, ClosureKnown, Closed
<1> QED  BY <1>4, <1>5, <1>6 DEF OInv

(* A crash ends the cycle and forgets every copy but the true one.         *)
LEMMA CrashKeeps == OInv /\ CrashAndRestart => OInv'
<1> SUFFICES ASSUME OInv, CrashAndRestart PROVE OInv'
  OBVIOUS
<1>1. /\ UNCHANGED <<verification, escalations, circuit, incident, approval, now, acted>>
      /\ leader' = Idle /\ telemetry' = "idle" /\ result' = "none" /\ seen' = {incident}
  BY DEF CrashAndRestart
<1>2. mitigations' \in Seq(MStatus) /\ Len(mitigations') = Len(mitigations)
  <2>1. mitigations \in Seq(MStatus) /\ "UNKNOWN" \in MStatus
    BY DEF OInv, Typed, MStatus
  <2> QED  BY <2>1 DEF CrashAndRestart
<1>3. Typed'
  BY <1>1, <1>2 DEF OInv, Typed, Idle, Steps, IStatus, Failure, TelemetrySteps
<1>4. Counted' /\ Approved' /\ Surveyed' /\ LateIsHarmless'
  BY <1>1, <1>2 DEF OInv, Counted, Approved, Surveyed, LateIsHarmless, Idle
<1>5. ClosureKnown'
  BY <1>1 DEF ClosureKnown, Closed
<1> QED  BY <1>3, <1>4, <1>5 DEF OInv

LEMMA OStep == OInv /\ [Next]_vars => OInv'
<1> SUFFICES ASSUME OInv, [Next]_vars PROVE OInv'
  OBVIOUS
<1>1. CASE \E inc \in IStatus : OrchestrateIncident(inc)
  BY <1>1, BeginKeeps
<1>2. CASE CycleStep
  BY <1>2, CycleKeeps
<1>3. CASE ProcessTelemetry
  BY <1>3, TelemetryKeeps
<1>4. CASE ResetCircuitBreaker \/ WithdrawVerification \/ Approve \/ Tick
  BY <1>4, OthersKeep
<1>5. CASE CrashAndRestart
  BY <1>5, CrashKeeps
<1>6. CASE UNCHANGED vars
  <2>1. UNCHANGED <<mitigations, verification, escalations, circuit, incident, approval, leader,
                    telemetry, result, seen, now, acted>>
    BY <1>6 DEF vars, tables, memory, counts
  <2>2. Typed'
    BY <2>1 DEF OInv, Typed
  <2>3. Counted' /\ Approved' /\ Surveyed' /\ LateIsHarmless' /\ ClosureKnown'
    BY <2>1 DEF OInv, Counted, Approved, Surveyed, AnyUnknown, ClosureKnown, Closed, LateIsHarmless
  <2> QED  BY <2>2, <2>3 DEF OInv
<1> QED  BY <1>1, <1>2, <1>3, <1>4, <1>5, <1>6 DEF Next

LEMMA OrchestratorInvariant == Spec => []OInv
<1>1. Init => OInv
  BY OInit
<1>2. OInv /\ [Next]_vars => OInv'
  BY OStep
<1> QED  BY <1>1, <1>2, PTL DEF Spec

-----------------------------------------------------------------------------
(* Types, and the agreement of attempt numbers with rows.                  *)
THEOREM OrchestratorTypeTheorem == Spec => []OrchestratorTypeOK
<1>1. OInv => OrchestratorTypeOK
  BY DEF OInv, Typed, EngineTyped, Counted, OrchestratorTypeOK
<1> QED  BY <1>1, OrchestratorInvariant, PTL

(* No incident sees more actions than the ceiling, whatever restarts,      *)
(* resets and failures outside the window do, and an approval lets one     *)
(* pass.                                                                   *)
THEOREM CeilingTheorem == Spec => []CeilingHolds
<1>1. OInv => CeilingHolds
  BY DEF OInv, Counted, Approved, CeilingHolds
<1> QED  BY <1>1, OrchestratorInvariant, PTL

(* Only Execute dispatches.                                                *)
LEMMA OnlyExecuteActs == [Next]_vars => acted' = acted \/ leader.at = "act"
BY DEF Next, vars, OrchestrateIncident, CycleStep, Survey, CheckCircuit, OpenCircuit, CheckCooldown,
       Decide, BadApproval, RecordMitigation, BecomeMitigating, Execute, ExecutionFailed, MarkExecuted,
       StartVerification, ProcessSamples, Recovered, NotVerified, Escalate, Retry, Cancel, StoreFails,
       ProcessTelemetry, Sample, SampleRecovered, SampleTimedOut, SampleEscalates, SampleCaches,
       ResetCircuitBreaker, WithdrawVerification, Approve, Tick, CrashAndRestart

(* After an action whose outcome a crash left unknown, none is dispatched. *)
THEOREM UnknownTheorem == Spec => UnknownNeverRepeated
<1>1. OInv /\ [Next]_vars => [AnyUnknown => acted' = acted]_vars
  BY OnlyExecuteActs DEF OInv, Surveyed
<1> QED  BY <1>1, OrchestratorInvariant, PTL DEF Spec, UnknownNeverRepeated

(* A cycle that begins on a closed incident dispatches nothing.            *)
THEOREM ClosedTheorem == Spec => ClosedIsLeftAlone
<1>1. OInv /\ [Next]_vars => [leader.late => acted' = acted]_vars
  BY OnlyExecuteActs DEF OInv, LateIsHarmless
<1> QED  BY <1>1, OrchestratorInvariant, PTL DEF Spec, ClosedIsLeftAlone

=============================================================================
