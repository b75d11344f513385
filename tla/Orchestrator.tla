---------------------------- MODULE Orchestrator ----------------------------
(***************************************************************************)
(* The edge's orchestrator (orchestrator/orchestrator.go) with the         *)
(* escalation engine (escalation/engine.go), for one incident: policy,     *)
(* validation, execution, verification, retry or escalation, on the tables *)
(* of mitigations, verifications, escalations and circuit states.          *)
(*                                                                         *)
(* One call at a time leads the incident's cycle (inFlight); others wait   *)
(* for it and change nothing.  Telemetry and operators go on meanwhile, so *)
(* that a step of the leader is what happens between two calls of the      *)
(* store, of an engine or of the executor.  A crash may come anywhere; the *)
(* start after it runs RecoverInFlightMitigations and restores a pending   *)
(* verification, but no result, executor history or target cooldown.       *)
(*                                                                         *)
(* Response and Verification have what the executor and the verification   *)
(* engine do; here an execution or a verification has one of its outcomes. *)
(* As in the orchestrator's tests the executor has no store of its own.    *)
(* A call that fails ends the cycle or is ignored, as in the code; the one *)
(* assumed to succeed is the list of verifications at the cycle's begin.   *)
(* Audit events and metrics are left out.                                  *)
(***************************************************************************)
EXTENDS Integers, Sequences, FiniteSets

CONSTANTS
  MaxAutomaticRetries, RetryCooldown, FailureWindow, Threshold, \* EscalationPolicy
  MaxExecutionCeiling, \* Config
  TargetCooldown,      \* the validator's, recorded by the executor
  MaxTime,             \* bound: the clock
  MaxRestarts,         \* bound: crashes
  MaxResets            \* bound: resets of the circuit breaker

ASSUME OrchestratorAssumption ==
  /\ {MaxAutomaticRetries, RetryCooldown, TargetCooldown} \subseteq Nat
  /\ {FailureWindow, Threshold, MaxExecutionCeiling} \subseteq Nat \ {0}
  /\ {MaxTime, MaxRestarts, MaxResets} \subseteq Nat

VARIABLES
  mitigations,   \* the incident's mitigation_records in order: their status
  verification,  \* the status of its latest verification
  escalations,   \* its escalation_records: id and created_at
  circuit,       \* its circuit state: OPEN, and failure_count
  incident,      \* its status in the incident engine
  approval,      \* of the policy's decision: unneeded, missing, granted, spent
  leader,        \* the cycle in flight: step, attempt, status of its inc
  telemetry,     \* the step of ProcessTelemetry
  result,        \* orchestrator.history: the state cached
  executed,      \* executor.history has EXECUTED for the decision
  coolUntil,     \* the target's entry in the cooldown tracker
  seen,          \* statuses of the incident that callers may hold
  now, restarts, resets,
  acted          \* history: actions dispatched

tables == <<mitigations, verification, escalations, circuit>>
memory == <<result, executed, coolUntil, seen>>
counts == <<now, restarts, resets>>
vars == <<tables, incident, approval, leader, telemetry, memory, counts, acted>>

IStatus == {"ANOMALY_DETECTED", "MITIGATING", "ESCALATED", "RECOVERED"}
MStatus == {"EXECUTING", "EXECUTED", "UNKNOWN"}
VStatus == {"none", "PENDING", "RECOVERED", "TIMED_OUT", "NOT_RECOVERED", "CANCELLED"}
Failure == {"MITIGATION_FAILED", "TIMED_OUT", "NOT_RECOVERED", "CIRCUIT_OPEN", "BUDGET"}
Cached == {"RECOVERED", "ESCALATED", "FAILED", "CANCELLED"}
Steps == {"idle", "survey", "circuit", "openCircuit", "cooldown", "decide", "badApproval",
          "record", "mitigate", "act", "failed", "mark", "verify", "samples",
          "recovered", "unverified", "escalate", "retry"}

(* inc is the status of the caller's copy of the incident; late tells that *)
(* the incident was already closed when the cycle began.                   *)
Idle == [at |-> "idle", attempt |-> 0, inc |-> "ANOMALY_DETECTED",
         failure |-> "TIMED_OUT", late |-> FALSE]
Closed == incident \in {"ESCALATED", "RECOVERED"}

Init ==
  /\ mitigations = <<>>
  /\ verification = "none"
  /\ escalations = {}
  /\ circuit = [open |-> FALSE, count |-> 0]
  /\ incident = "ANOMALY_DETECTED"
  /\ approval \in {"unneeded", "missing"}
  /\ leader = Idle /\ telemetry = "idle"
  /\ result = "none" /\ executed = FALSE /\ coolUntil = 0
  /\ seen = {incident}
  /\ now = 0 /\ restarts = 0 /\ resets = 0
  /\ acted = 0

-----------------------------------------------------------------------------
(* IncidentStatus.CanTransitionTo, as far as it is used here; the engine   *)
(* refuses others, and its callers here ignore that.                       *)
CanBecome(to) ==
  \/ incident = "ANOMALY_DETECTED" /\ to \in {"MITIGATING", "ESCALATED"}
  \/ incident = "MITIGATING" /\ to \in {"RECOVERED", "ESCALATED"}

Become(to) ==
  /\ incident' = IF CanBecome(to) THEN to ELSE incident
  /\ seen' = seen \cup {incident'}

Latest == {e \in escalations : \A f \in escalations : f.at <= e.at}
Cooling == \E e \in Latest : now < e.at + RetryCooldown
InWindow == Cardinality({e \in escalations : e.at >= now - FailureWindow})

(* CanRetry.                                                               *)
CanRetry == ~circuit.open /\ ~Cooling

(* RecordEscalation: the id is computed from the action, the failure and   *)
(* the attempt; one that exists is not recorded again.                     *)
Recorded(action, failure, attempt) ==
  LET id == <<action, failure, attempt>> IN
  IF \E e \in escalations : e.id = id THEN escalations
  ELSE escalations \cup {[id |-> id, at |-> now]}

(* EvaluateFailure: what it decides, and its two tables afterwards.        *)
Evaluation(action, failure) ==
  LET attempt == InWindow + 1
      Is(decision, class, n, c) ==
        [decision |-> decision, escalations |-> Recorded(action, class, n), circuit |-> c]
      tripped == [open |-> TRUE, count |-> attempt]
  IN CASE circuit.open ->
            Is("ESCALATE", "CIRCUIT_OPEN", circuit.count + 1, circuit)
       [] ~circuit.open /\ Cooling ->
            [decision |-> "NONE", escalations |-> escalations, circuit |-> circuit]
       [] ~circuit.open /\ ~Cooling /\ failure = "NOT_RECOVERED" ->
            Is("ESCALATE", failure, attempt, circuit)
       [] ~circuit.open /\ ~Cooling /\ failure # "NOT_RECOVERED" ->
            IF attempt >= Threshold THEN Is("ESCALATE", "CIRCUIT_OPEN", attempt, tripped)
            ELSE IF attempt > MaxAutomaticRetries THEN Is("ESCALATE", "BUDGET", attempt, tripped)
            ELSE Is("RETRY", failure, attempt, circuit)

Evaluate(action, failure) ==
  /\ escalations' = Evaluation(action, failure).escalations
  /\ circuit' = Evaluation(action, failure).circuit

-----------------------------------------------------------------------------
GoTo(step) == leader' = [leader EXCEPT !.at = step]

(* The deferred function of OrchestrateIncident: terminal states are       *)
(* cached, others may be asked again.                                      *)
Finish(state) ==
  /\ leader' = Idle
  /\ result' = IF state \in Cached THEN state ELSE result

(* OrchestrateIncident by a new leader, with the status it was given.      *)
OrchestrateIncident(inc) ==
  /\ leader = Idle /\ result = "none"
  /\ inc \in seen /\ inc # "RECOVERED"
  /\ leader' = [Idle EXCEPT !.at = "survey", !.inc = inc, !.late = Closed /\ telemetry = "idle"]
  /\ UNCHANGED <<tables, incident, approval, telemetry, memory, counts, acted>>

AnyUnknown == \E k \in DOMAIN mitigations : mitigations[k] = "UNKNOWN"

(* Variant: only the latest mitigation is looked at.                       *)
BlockedByLatest == mitigations # <<>> /\ mitigations[Len(mitigations)] = "UNKNOWN"

Blocked == AnyUnknown

(* executeCycle, 1 and 2: confirmed recovery, then unknown mitigations.    *)
Survey ==
  /\ leader.at = "survey"
  /\ CASE verification = "RECOVERED" -> Finish("RECOVERED")
       [] verification # "RECOVERED" /\ Blocked -> Finish("FAILED")
       [] OTHER -> /\ leader' = [leader EXCEPT !.at = "circuit", !.attempt = Len(mitigations) + 1]
                   /\ UNCHANGED result
  /\ UNCHANGED <<tables, incident, approval, telemetry, executed, coolUntil, seen, counts, acted>>

(* 3: the circuit breaker is looked at once.                               *)
CheckCircuit ==
  /\ leader.at = "circuit"
  /\ GoTo(IF circuit.open THEN "openCircuit" ELSE "cooldown")
  /\ UNCHANGED <<tables, incident, approval, telemetry, memory, counts, acted>>

(* It was open: an evaluation, which may find it reset, and the handoff.   *)
OpenCircuit ==
  /\ leader.at = "openCircuit"
  /\ Evaluate("cb-open-check", "CIRCUIT_OPEN")
  /\ GoTo("escalate")
  /\ UNCHANGED <<mitigations, verification, incident, approval, telemetry, memory, counts, acted>>

(* 4: a retry is asked for only if there was a mitigation before.          *)
CheckCooldown ==
  /\ leader.at = "cooldown"
  /\ IF leader.attempt > 1 /\ ~CanRetry THEN Finish("FAILED") ELSE GoTo("decide") /\ UNCHANGED result
  /\ UNCHANGED <<tables, incident, approval, telemetry, executed, coolUntil, seen, counts, acted>>

(* Variant: an escalated incident is validated like the others.            *)
ActionableAny == now >= coolUntil

(* The validator's look at the incident's copy and at the target.          *)
Actionable == leader.inc \in {"ANOMALY_DETECTED", "MITIGATING"} /\ now >= coolUntil

(* Variant: the ceiling is left to the loop's retries.                     *)
UnderCeilingLoose == leader.attempt <= MaxExecutionCeiling + 1

UnderCeiling == leader.attempt <= MaxExecutionCeiling

(* The head of the loop: ceiling, policy, approval and validation.  The    *)
(* policy may find nothing to do; an approval handed in may be a copy of   *)
(* one that is spent, or invalid.                                          *)
Decide ==
  /\ leader.at = "decide"
  /\ \/ UnderCeiling /\ approval # "missing" /\ Actionable
        /\ GoTo("record") /\ UNCHANGED result
     \/ UnderCeiling /\ approval # "unneeded"
        /\ \/ Finish("WAITING_APPROVAL")
           \/ GoTo("badApproval") /\ UNCHANGED result
     \/ Finish("FAILED")
  /\ UNCHANGED <<tables, incident, approval, telemetry, executed, coolUntil, seen, counts, acted>>

BadApproval ==
  /\ leader.at = "badApproval"
  /\ Evaluate("approval", "MITIGATION_FAILED")
  /\ Finish("FAILED")
  /\ UNCHANGED <<mitigations, verification, incident, approval, telemetry, executed, coolUntil, seen, counts, acted>>

(* The mitigation's row before its execution; without it, the cycle ends.  *)
RecordMitigation ==
  /\ leader.at = "record"
  /\ \/ mitigations' = Append(mitigations, "EXECUTING") /\ GoTo("mitigate") /\ UNCHANGED result
     \/ Finish("FAILED") /\ UNCHANGED mitigations
  /\ UNCHANGED <<verification, escalations, circuit, incident, approval, telemetry,
                 executed, coolUntil, seen, counts, acted>>

(* D: the transition's error is ignored.                                   *)
BecomeMitigating ==
  /\ leader.at = "mitigate"
  /\ IF leader.inc = "ANOMALY_DETECTED"
     THEN /\ Become("MITIGATING")
          /\ leader' = [leader EXCEPT !.at = "act",
                          !.inc = IF CanBecome("MITIGATING") THEN "MITIGATING" ELSE @]
     ELSE GoTo("act") /\ UNCHANGED <<incident, seen>>
  /\ UNCHANGED <<tables, approval, telemetry, result, executed, coolUntil, counts, acted>>

(* E: the executor answers a decision it executed from its history.        *)
Execute ==
  /\ leader.at = "act"
  /\ \/ executed /\ GoTo("mark") /\ UNCHANGED <<executed, coolUntil, approval, acted>>
     \/ /\ ~executed /\ approval # "spent"
        /\ executed' = TRUE /\ coolUntil' = now + TargetCooldown
        /\ approval' = IF approval = "granted" THEN "spent" ELSE approval
        /\ acted' = acted + 1
        /\ GoTo("mark")
     \/ ~executed /\ GoTo("failed") /\ UNCHANGED <<executed, coolUntil, approval, acted>>
  /\ UNCHANGED <<tables, incident, telemetry, result, seen, counts>>

(* What follows the evaluation of a failure.                               *)
Follow(decision) ==
  CASE decision = "NONE" -> Finish("FAILED")
    [] decision = "ESCALATE" -> GoTo("escalate") /\ UNCHANGED result
    [] decision = "RETRY" -> GoTo("retry") /\ UNCHANGED result

(* A failed execution.  The row to mark is looked up by the execution id,  *)
(* which is not its action_id: it stays EXECUTING.                         *)
ExecutionFailed ==
  /\ leader.at = "failed"
  /\ Evaluate("exec", "MITIGATION_FAILED")
  /\ Follow(Evaluation("exec", "MITIGATION_FAILED").decision)
  /\ UNCHANGED <<mitigations, verification, incident, approval, telemetry, executed, coolUntil, seen, counts, acted>>

(* The error of the update is ignored.                                     *)
MarkExecuted ==
  /\ leader.at = "mark"
  /\ \/ mitigations' = [mitigations EXCEPT ![Len(mitigations)] = "EXECUTED"]
     \/ UNCHANGED mitigations
  /\ GoTo("verify")
  /\ UNCHANGED <<verification, escalations, circuit, incident, approval, telemetry, memory, counts, acted>>

(* F: one verification of the stream at a time.                            *)
StartVerification ==
  /\ leader.at = "verify"
  /\ IF verification = "PENDING" THEN Finish("FAILED") /\ UNCHANGED verification
     ELSE verification' = "PENDING" /\ GoTo("samples") /\ UNCHANGED result
  /\ UNCHANGED <<mitigations, escalations, circuit, incident, approval, telemetry,
                 executed, coolUntil, seen, counts, acted>>

(* G: the samples handed in; if others end the verification first, the     *)
(* result in hand still says PENDING.                                      *)
ProcessSamples ==
  /\ leader.at = "samples"
  /\ \/ Finish("VERIFYING") /\ UNCHANGED verification
     \/ verification = "PENDING" /\ verification' = "RECOVERED"
        /\ GoTo("recovered") /\ UNCHANGED result
     \/ verification = "PENDING" /\ verification' = "TIMED_OUT"
        /\ leader' = [leader EXCEPT !.at = "unverified", !.failure = "TIMED_OUT"] /\ UNCHANGED result
  /\ UNCHANGED <<mitigations, escalations, circuit, incident, approval, telemetry,
                 executed, coolUntil, seen, counts, acted>>

(* HandoffToIncidentEngine of the verification engine.                     *)
Recovered ==
  /\ leader.at = "recovered"
  /\ IF incident = "MITIGATING" THEN Become("RECOVERED") ELSE UNCHANGED <<incident, seen>>
  /\ Finish("RECOVERED")
  /\ UNCHANGED <<tables, approval, telemetry, executed, coolUntil, counts, acted>>

NotVerified ==
  /\ leader.at = "unverified"
  /\ Evaluate("exec", leader.failure)
  /\ Follow(Evaluation("exec", leader.failure).decision)
  /\ UNCHANGED <<mitigations, verification, incident, approval, telemetry, executed, coolUntil, seen, counts, acted>>

(* HandoffToIncidentEngine of the escalation engine; its error is ignored. *)
Escalate ==
  /\ leader.at = "escalate"
  /\ Become("ESCALATED")
  /\ Finish("ESCALATED")
  /\ UNCHANGED <<tables, approval, telemetry, executed, coolUntil, counts, acted>>

(* Variant: a retry is an execution of the same attempt.                   *)
RetrySame ==
  /\ leader.at = "retry"
  /\ IF CanRetry THEN GoTo("decide") /\ UNCHANGED result ELSE Finish("FAILED")
  /\ UNCHANGED <<tables, incident, approval, telemetry, executed, coolUntil, seen, counts, acted>>

(* A retry that was decided is made at once or, in this process, never.    *)
Retry ==
  /\ leader.at = "retry"
  /\ IF CanRetry
     THEN leader' = [leader EXCEPT !.at = "decide", !.attempt = @ + 1] /\ UNCHANGED result
     ELSE Finish("FAILED")
  /\ UNCHANGED <<tables, incident, approval, telemetry, executed, coolUntil, seen, counts, acted>>

(* The call's context ends, seen at the head of the loop.                  *)
Cancel ==
  /\ leader.at = "decide"
  /\ Finish("CANCELLED")
  /\ UNCHANGED <<tables, incident, approval, telemetry, executed, coolUntil, seen, counts, acted>>

(* A call of the store or an engine that fails, where the cycle ends by it *)
(* (elsewhere the error is ignored, or the step above has it).             *)
StoreFails ==
  /\ leader.at \in {"survey", "circuit", "cooldown", "failed", "verify", "unverified"}
  /\ Finish("FAILED")
  /\ UNCHANGED <<tables, incident, approval, telemetry, executed, coolUntil, seen, counts, acted>>

CycleStep ==
  \/ Survey \/ CheckCircuit \/ OpenCircuit \/ CheckCooldown \/ Decide \/ BadApproval
  \/ RecordMitigation \/ BecomeMitigating \/ Execute \/ ExecutionFailed \/ MarkExecuted
  \/ StartVerification \/ ProcessSamples \/ Recovered \/ NotVerified \/ Escalate \/ Retry
  \/ Cancel \/ StoreFails

-----------------------------------------------------------------------------
(* ProcessTelemetry: the sample ends the verification, the incident is     *)
(* told, and the result is cached, over what is cached already.            *)
Sample(outcome) ==
  /\ telemetry = "idle" /\ verification = "PENDING"
  /\ outcome \in {"RECOVERED", "TIMED_OUT"}
  /\ verification' = outcome /\ telemetry' = outcome
  /\ UNCHANGED <<mitigations, escalations, circuit, incident, approval, leader, memory, counts, acted>>

SampleRecovered ==
  /\ telemetry = "RECOVERED"
  /\ IF incident = "MITIGATING" THEN Become("RECOVERED") ELSE UNCHANGED <<incident, seen>>
  /\ telemetry' = "cache RECOVERED"
  /\ UNCHANGED <<tables, approval, leader, result, executed, coolUntil, counts, acted>>

SampleTimedOut ==
  /\ telemetry = "TIMED_OUT"
  /\ Evaluate("exec", "TIMED_OUT")
  /\ telemetry' = IF Evaluation("exec", "TIMED_OUT").decision = "ESCALATE" THEN "escalate" ELSE "idle"
  /\ UNCHANGED <<mitigations, verification, incident, approval, leader, memory, counts, acted>>

SampleEscalates ==
  /\ telemetry = "escalate"
  /\ Become("ESCALATED")
  /\ telemetry' = "cache ESCALATED"
  /\ UNCHANGED <<tables, approval, leader, result, executed, coolUntil, counts, acted>>

SampleCaches ==
  /\ telemetry \in {"cache RECOVERED", "cache ESCALATED"}
  /\ result' = IF telemetry = "cache RECOVERED" THEN "RECOVERED" ELSE "ESCALATED"
  /\ telemetry' = "idle"
  /\ UNCHANGED <<tables, incident, approval, leader, executed, coolUntil, seen, counts, acted>>

ProcessTelemetry ==
  \/ \E outcome \in VStatus : Sample(outcome)
  \/ SampleRecovered \/ SampleTimedOut \/ SampleEscalates \/ SampleCaches

-----------------------------------------------------------------------------
(* Operators: ResetCircuitBreaker, CancelVerification and an approval.     *)
ResetCircuitBreaker ==
  /\ circuit.open /\ resets < MaxResets
  /\ circuit' = [open |-> FALSE, count |-> 0]
  /\ resets' = resets + 1
  /\ UNCHANGED <<mitigations, verification, escalations, incident, approval, leader, telemetry,
                 memory, now, restarts, acted>>

WithdrawVerification ==
  /\ verification = "PENDING"
  /\ verification' \in {"CANCELLED", "NOT_RECOVERED"}
  /\ UNCHANGED <<mitigations, escalations, circuit, incident, approval, leader, telemetry,
                 memory, counts, acted>>

Approve ==
  /\ approval = "missing" /\ approval' = "granted"
  /\ UNCHANGED <<tables, incident, leader, telemetry, memory, counts, acted>>

Tick ==
  /\ now < MaxTime /\ now' = now + 1
  /\ UNCHANGED <<tables, incident, approval, leader, telemetry, memory, restarts, resets, acted>>

CrashAndRestart ==
  /\ restarts < MaxRestarts /\ restarts' = restarts + 1
  /\ mitigations' = [k \in DOMAIN mitigations |->
                       IF mitigations[k] = "EXECUTING" THEN "UNKNOWN" ELSE mitigations[k]]
  /\ leader' = Idle /\ telemetry' = "idle"
  /\ result' = "none" /\ executed' = FALSE /\ coolUntil' = 0 /\ seen' = {incident}
  /\ UNCHANGED <<verification, escalations, circuit, incident, approval, now, resets, acted>>

Next ==
  \/ \E inc \in IStatus : OrchestrateIncident(inc)
  \/ CycleStep
  \/ ProcessTelemetry
  \/ ResetCircuitBreaker \/ WithdrawVerification \/ Approve \/ Tick \/ CrashAndRestart

Spec == Init /\ [][Next]_vars

-----------------------------------------------------------------------------
(* The state is well formed, and past its first row a cycle works on the   *)
(* latest one: attempt numbers and rows do not drift apart, so that no     *)
(* action_id is used twice.                                                *)
OrchestratorTypeOK ==
  /\ mitigations \in Seq(MStatus)
  /\ verification \in VStatus
  /\ \A e \in escalations : e.at \in 0 .. MaxTime /\ e.id[2] \in Failure
  /\ circuit \in [open : BOOLEAN, count : Nat]
  /\ incident \in seen /\ seen \subseteq IStatus
  /\ approval \in {"unneeded", "missing", "granted", "spent"}
  /\ leader.at \in Steps /\ leader.inc \in IStatus
  /\ result \in Cached \cup {"none"}
  /\ leader.at \in {"decide", "record", "circuit", "cooldown"} =>
       leader.attempt = Len(mitigations) + 1
  /\ leader.at \in {"mitigate", "act", "failed", "mark", "verify", "retry"} =>
       leader.attempt = Len(mitigations)

(* However often the agent restarts, the circuit breaker is reset, and     *)
(* failures age out of the window, an incident sees no more actions than   *)
(* the ceiling, each behind a row of its own; an action that needs an      *)
(* approval is dispatched once.                                            *)
CeilingHolds ==
  /\ acted <= Len(mitigations) /\ Len(mitigations) <= MaxExecutionCeiling
  /\ approval \in {"missing", "granted"} => acted = 0
  /\ approval = "spent" => acted = 1

(* After a mitigation whose outcome a crash left unknown, no action is     *)
(* dispatched for the incident, by whatever call, retry or reset.          *)
UnknownNeverRepeated ==
  [][AnyUnknown => acted' = acted]_vars

(* A cycle that begins after an incident was escalated or resolved, also   *)
(* in another process, with any copy of it, dispatches nothing.            *)
ClosedIsLeftAlone ==
  [][leader.late => acted' = acted]_vars

=============================================================================
