------------------------------ MODULE Response ------------------------------
(***************************************************************************)
(* The edge's action executor (response/executor.go) with its validator    *)
(* and approvals, on the tables mitigation_records and approval_records,   *)
(* called by several goroutines for the same decisions.                    *)
(*                                                                         *)
(* A step is what a call does between two points where others can see or   *)
(* change what it uses: a lock of the executor, one call of the store, the *)
(* action itself.  Errors of writing mitigation_records are ignored by the *)
(* executor: such a write may be lost.  A crash ends all calls and memory; *)
(* the start after it runs RecoverInFlightMitigations.                     *)
(*                                                                         *)
(* The decisions are about one target, so that they share its cooldown.    *)
(* The other checks of the validator and the bindings of an approval       *)
(* (fingerprint, node, target, version) hold for the calls modelled or     *)
(* are a choice to refuse.  Actions are simulated in the code: what counts *)
(* here is that executeSimulation dispatched one.                          *)
(***************************************************************************)
EXTENDS Integers, FiniteSets

CONSTANTS
  Automatic,     \* decisions of class AUTO
  Gated,         \* decisions of class APPROVAL_REQUIRED
  Caller,        \* goroutines
  MaxRestarts,   \* bound: crashes
  MaxLost        \* bound: writes of mitigation_records that fail

ASSUME ResponseAssumption ==
  /\ Automatic \cap Gated = {} /\ Automatic \cup Gated # {}
  /\ {MaxRestarts, MaxLost} \subseteq Nat

VARIABLES
  rows,      \* mitigation_records: the status by decision_id
  approval,  \* approval_records: the status by decision_id
  overdue,   \* the approvals whose expires_at has passed
  history,   \* executor.history: the status answered from memory
  flight,    \* executor.inFlight: whether a leader has the decision
  cooling,   \* the target's entry in the cooldown tracker is in force
  call,      \* what each goroutine is at
  restarts, lost,
  acted,     \* history: actions dispatched for a decision
  answered   \* history: answers given for a decision

tables == <<rows, approval>>
memory == <<history, flight, cooling>>
counts == <<restarts, lost>>
vars == <<tables, overdue, memory, call, counts, acted, answered>>

Decision == Automatic \cup Gated
MStatus == {"EXECUTING", "EXECUTED", "FAILED", "SKIPPED", "UNKNOWN"}
AStatus == {"PENDING", "APPROVED", "REJECTED", "CANCELLED", "CONSUMED", "EXPIRED"}
Route == {"Execute", "ExecuteValidated", "ExecuteWithApproval"}

(* Steps of a call; a leader has registered itself in inFlight.            *)
Leading == {"validate", "check", "consume", "record", "act", "mark", "reject", "finish"}
At == {"idle", "lookup", "cache", "approval", "claim", "wait"} \cup Leading

(* value is what the call read or will answer; late is its "now".          *)
Idle == [at |-> "idle", d |-> CHOOSE d \in Decision : TRUE, route |-> "Execute",
         value |-> "none", late |-> FALSE]

Init ==
  /\ rows = [d \in Decision |-> "none"]
  /\ approval = [d \in Decision |-> "none"]
  /\ overdue = {}
  /\ history = rows
  /\ flight = [d \in Decision |-> FALSE]
  /\ cooling = FALSE
  /\ call = [c \in Caller |-> Idle]
  /\ restarts = 0 /\ lost = 0
  /\ acted = [d \in Decision |-> 0]
  /\ answered = [d \in Decision |-> {}]

-----------------------------------------------------------------------------
GoTo(c, at) == call' = [call EXCEPT ![c].at = at]
GoWith(c, at, value) == call' = [call EXCEPT ![c].at = at, ![c].value = value]

Answer(c, status) ==
  /\ call' = [call EXCEPT ![c] = Idle]
  /\ answered' = [answered EXCEPT ![call[c].d] = @ \cup {status}]

(* CanMitigationTransition.                                                *)
CanTransition(from, to) ==
  \/ from = to
  \/ from = "EXECUTING" /\ to \in {"EXECUTED", "FAILED", "UNKNOWN"}

(* RecordMitigation: the decision_id is unique.                            *)
Inserted(d, status) ==
  IF rows[d] = "none" THEN [rows EXCEPT ![d] = status] ELSE rows

(* UpdateMitigationStatus.                                                 *)
Updated(d, status) ==
  IF rows[d] # "none" /\ CanTransition(rows[d], status)
  THEN [rows EXCEPT ![d] = status] ELSE rows

Save(table) ==
  \/ rows' = table /\ UNCHANGED lost
  \/ lost < MaxLost /\ lost' = lost + 1 /\ UNCHANGED rows

(* The entry of Execute, ExecuteValidated and ExecuteWithApproval.  A      *)
(* validated decision carries a SafetyResult that allows it.               *)
Begin(c, d, route) ==
  /\ call[c].at = "idle"
  /\ route = "ExecuteValidated" => d \in Automatic
  /\ route = "ExecuteWithApproval" => d \in Gated /\ approval[d] # "none"
  /\ IF history[d] # "none"
     THEN /\ answered' = [answered EXCEPT ![d] = @ \cup {history[d]}]
          /\ UNCHANGED call
     ELSE /\ call' = [call EXCEPT ![c] = [Idle EXCEPT !.at = "lookup", !.d = d, !.route = route]]
          /\ UNCHANGED answered
  /\ UNCHANGED <<tables, overdue, memory, counts, acted>>

(* Variant: a row that says EXECUTING is not taken for an answer.          *)
AfterLookupFinal(c) ==
  LET d == call[c].d IN
  IF rows[d] \notin {"none", "EXECUTING", "UNKNOWN"} THEN "cache"
  ELSE IF d \in Gated /\ call[c].route = "Execute" THEN "approval"
  ELSE "claim"

(* GetMitigationByDecisionID: a row of any status is the answer.           *)
AfterLookup(c) ==
  LET d == call[c].d IN
  IF rows[d] # "none" THEN "cache"
  ELSE IF d \in Gated /\ call[c].route = "Execute" THEN "approval"
  ELSE "claim"

Lookup(c) ==
  /\ call[c].at = "lookup"
  /\ GoWith(c, AfterLookup(c), rows[call[c].d])
  /\ UNCHANGED <<tables, overdue, memory, counts, acted, answered>>

(* What was read is put into history, whatever others put there since.     *)
Cache(c) ==
  /\ call[c].at = "cache"
  /\ history' = [history EXCEPT ![call[c].d] = call[c].value]
  /\ Answer(c, call[c].value)
  /\ UNCHANGED <<tables, overdue, flight, cooling, counts, acted>>

(* Execute of a gated decision goes on as ExecuteWithApproval, from its    *)
(* beginning, if there is an approved approval.                            *)
FindApproval(c) ==
  /\ call[c].at = "approval"
  /\ call' = IF approval[call[c].d] = "APPROVED"
             THEN [call EXCEPT ![c].at = "lookup", ![c].route = "ExecuteWithApproval"]
             ELSE [call EXCEPT ![c].at = "claim"]
  /\ UNCHANGED <<tables, overdue, memory, counts, acted, answered>>

FirstStep(c) ==
  CASE call[c].route = "Execute" -> "validate"
    [] call[c].route = "ExecuteValidated" -> "record"
    [] call[c].route = "ExecuteWithApproval" -> "check"

(* Variant: the history is not looked at again.                            *)
ClaimUnchecked(c) ==
  /\ call[c].at = "claim"
  /\ IF flight[call[c].d]
     THEN GoTo(c, "wait") /\ UNCHANGED flight
     ELSE GoTo(c, FirstStep(c)) /\ flight' = [flight EXCEPT ![call[c].d] = TRUE]
  /\ UNCHANGED <<tables, overdue, history, cooling, counts, acted, answered>>

(* Under the lock: an answer from history, a follower or the leader.       *)
Claim(c) ==
  LET d == call[c].d IN
  /\ call[c].at = "claim"
  /\ CASE history[d] # "none" -> Answer(c, history[d]) /\ UNCHANGED flight
       [] history[d] = "none" /\ flight[d] -> GoTo(c, "wait") /\ UNCHANGED <<flight, answered>>
       [] OTHER -> /\ GoTo(c, FirstStep(c))
                   /\ flight' = [flight EXCEPT ![d] = TRUE]
                   /\ UNCHANGED answered
  /\ UNCHANGED <<tables, overdue, history, cooling, counts, acted>>

(* A follower's context ends.                                              *)
GiveUp(c) ==
  /\ call[c].at = "wait"
  /\ call' = [call EXCEPT ![c] = Idle]
  /\ UNCHANGED <<tables, overdue, memory, counts, acted, answered>>

-----------------------------------------------------------------------------
(* Validate: gated decisions are always refused here, an automatic one     *)
(* while its target cools down or for what the incident or its parameters  *)
(* show.  An error instead of a verdict ends the call without a row.       *)
Validate(c) ==
  LET d == call[c].d IN
  /\ call[c].at = "validate"
  /\ \/ d \in Automatic /\ ~cooling /\ GoTo(c, "record")
     \/ d \in Automatic /\ GoWith(c, "reject", "FAILED")
     \/ d \in Gated /\ GoWith(c, "reject", "SKIPPED")
     \/ GoWith(c, "finish", "FAILED")
  /\ UNCHANGED <<tables, overdue, memory, counts, acted, answered>>

(* ValidateApprovalForExecution, on the row as it is and the time as it is *)
ApprovalValid(c) == approval[call[c].d] = "APPROVED" /\ call[c].d \notin overdue

(* GetApproval, then ValidateApproved, which may refuse or fail as         *)
(* Validate does.                                                          *)
Check(c) ==
  /\ call[c].at = "check"
  /\ \/ /\ ApprovalValid(c) /\ ~cooling
        /\ call' = [call EXCEPT ![c].at = "consume", ![c].late = call[c].d \in overdue]
     \/ \E at \in {"reject", "finish"} : GoWith(c, at, "FAILED")
  /\ UNCHANGED <<tables, overdue, memory, counts, acted, answered>>

(* Variant: the approval is left for the end of the call.                  *)
ConsumeLater(c) ==
  /\ call[c].at = "consume"
  /\ GoTo(c, "record")
  /\ UNCHANGED <<tables, overdue, memory, counts, acted, answered>>

(* ConsumeApproval, one atomic update, with the time read before.          *)
ConsumeApproval(c) ==
  LET d == call[c].d IN
  /\ call[c].at = "consume"
  /\ IF approval[d] = "APPROVED" /\ ~call[c].late
     THEN approval' = [approval EXCEPT ![d] = "CONSUMED"] /\ GoTo(c, "record")
     ELSE UNCHANGED approval /\ GoWith(c, "finish", "FAILED")
  /\ UNCHANGED <<rows, overdue, memory, counts, acted, answered>>

(* A refusal is recorded.                                                  *)
RecordRefusal(c) ==
  /\ call[c].at = "reject"
  /\ Save(Inserted(call[c].d, call[c].value))
  /\ GoTo(c, "finish")
  /\ UNCHANGED <<approval, overdue, memory, restarts, acted, answered>>

(* The EXECUTING row, before the action.                                   *)
RecordExecuting(c) ==
  /\ call[c].at = "record"
  /\ Save(Inserted(call[c].d, "EXECUTING"))
  /\ GoTo(c, "act")
  /\ UNCHANGED <<approval, overdue, memory, restarts, acted, answered>>

(* executeSimulation.  A context that ended before it makes the call fail; *)
(* the update to FAILED has the same context and is refused, too.          *)
ExecuteSimulation(c) ==
  LET d == call[c].d IN
  /\ call[c].at = "act"
  /\ \/ acted' = [acted EXCEPT ![d] = @ + 1] /\ GoWith(c, "mark", "EXECUTED")
     \/ UNCHANGED acted /\ GoWith(c, "finish", "FAILED")
  /\ UNCHANGED <<tables, overdue, memory, counts, answered>>

(* MarkMitigationExecuted, then the cooldown of the target.                *)
MarkExecuted(c) ==
  /\ call[c].at = "mark"
  /\ Save(Updated(call[c].d, "EXECUTED"))
  /\ cooling' = TRUE
  /\ GoTo(c, "finish")
  /\ UNCHANGED <<approval, overdue, history, flight, restarts, acted, answered>>

(* Variant: the decision stays in flight.                                  *)
FinishKeeping(c) ==
  /\ call[c].at = "finish"
  /\ history' = IF call[c].value = "EXECUTED"
                THEN [history EXCEPT ![call[c].d] = "EXECUTED"] ELSE history
  /\ Answer(c, call[c].value)
  /\ UNCHANGED <<tables, overdue, flight, cooling, counts, acted>>

(* The leader's deferred function: followers get its answer.               *)
Finish(c) ==
  LET d == call[c].d IN
  /\ call[c].at = "finish"
  /\ history' = IF call[c].value = "EXECUTED" THEN [history EXCEPT ![d] = "EXECUTED"] ELSE history
  /\ flight' = [flight EXCEPT ![d] = FALSE]
  /\ call' = [b \in Caller |->
                IF b = c \/ (call[b].at = "wait" /\ call[b].d = d) THEN Idle ELSE call[b]]
  /\ answered' = [answered EXCEPT ![d] = @ \cup {call[c].value}]
  /\ UNCHANGED <<tables, overdue, cooling, counts, acted>>

-----------------------------------------------------------------------------
ApprovalBecomes(d, status) == approval' = [approval EXCEPT ![d] = status]

(* RequestApproval: one approval for a decision, ever.                     *)
RequestApproval(d) ==
  /\ approval[d] = "none"
  /\ ApprovalBecomes(d, "PENDING")
  /\ UNCHANGED <<rows, overdue, memory, call, counts, acted, answered>>

(* ApproveApproval, which finds an approval that is overdue expired.       *)
ApproveApproval(d) ==
  /\ approval[d] = "PENDING"
  /\ ApprovalBecomes(d, IF d \in overdue THEN "EXPIRED" ELSE "APPROVED")
  /\ UNCHANGED <<rows, overdue, memory, call, counts, acted, answered>>

RejectApproval(d) ==
  /\ approval[d] = "PENDING"
  /\ ApprovalBecomes(d, "REJECTED")
  /\ UNCHANGED <<rows, overdue, memory, call, counts, acted, answered>>

CancelApproval(d) ==
  /\ approval[d] \in {"PENDING", "APPROVED"}
  /\ ApprovalBecomes(d, "CANCELLED")
  /\ UNCHANGED <<rows, overdue, memory, call, counts, acted, answered>>

ExpireStaleApprovals(d) ==
  /\ approval[d] \in {"PENDING", "APPROVED"} /\ d \in overdue
  /\ ApprovalBecomes(d, "EXPIRED")
  /\ UNCHANGED <<rows, overdue, memory, call, counts, acted, answered>>

(* Time passes an approval's deadline, or the end of the cooldown.         *)
Elapse ==
  /\ \/ \E d \in Gated \ overdue :
          approval[d] # "none" /\ overdue' = overdue \cup {d} /\ UNCHANGED cooling
     \/ cooling /\ cooling' = FALSE /\ UNCHANGED overdue
  /\ UNCHANGED <<tables, history, flight, call, counts, acted, answered>>

(* RecoverInFlightMitigations.                                             *)
Recover == [d \in Decision |-> IF rows[d] = "EXECUTING" THEN "UNKNOWN" ELSE rows[d]]

CrashAndRestart ==
  /\ restarts < MaxRestarts
  /\ restarts' = restarts + 1
  /\ rows' = Recover
  /\ history' = [d \in Decision |-> "none"]
  /\ flight' = [d \in Decision |-> FALSE]
  /\ cooling' = FALSE
  /\ call' = [c \in Caller |-> Idle]
  /\ UNCHANGED <<approval, overdue, lost, acted, answered>>

CallStep(c) ==
  \/ Lookup(c) \/ Cache(c) \/ FindApproval(c) \/ Claim(c) \/ GiveUp(c)
  \/ Validate(c) \/ Check(c) \/ ConsumeApproval(c) \/ RecordRefusal(c)
  \/ RecordExecuting(c) \/ ExecuteSimulation(c) \/ MarkExecuted(c) \/ Finish(c)

Next ==
  \/ \E c \in Caller, d \in Decision, route \in Route : Begin(c, d, route)
  \/ \E c \in Caller : CallStep(c)
  \/ \E d \in Gated : RequestApproval(d) \/ ApproveApproval(d) \/ RejectApproval(d)
                      \/ CancelApproval(d) \/ ExpireStaleApprovals(d)
  \/ Elapse
  \/ CrashAndRestart

Spec == Init /\ [][Next]_vars

-----------------------------------------------------------------------------
(* The state is well formed, and exactly the decision of a leading call is *)
(* in flight, under one leader.                                            *)
ResponseTypeOK ==
  /\ rows \in [Decision -> MStatus \cup {"none"}]
  /\ approval \in [Decision -> AStatus \cup {"none"}]
  /\ overdue \subseteq Gated
  /\ history \in [Decision -> MStatus \cup {"none"}]
  /\ cooling \in BOOLEAN
  /\ call \in [Caller -> [at : At, d : Decision, route : Route,
                          value : MStatus \cup {"none"}, late : BOOLEAN]]
  /\ flight = [d \in Decision |-> \E c \in Caller : call[c].at \in Leading /\ call[c].d = d]
  /\ \A b, c \in Caller :
       call[b].at \in Leading /\ call[c].at \in Leading /\ call[b].d = call[c].d => b = c
  /\ acted \in [Decision -> Nat]
  /\ answered \in [Decision -> SUBSET (MStatus \cup {"none"})]

(* Unless a write was lost, an action is dispatched once for its decision  *)
(* and has a row, whoever calls, waits, gives up or crashes at any point   *)
(* (the claim under the lock, the EXECUTING row and the recovery after a   *)
(* crash together); and no call answers, records or remembers EXECUTED for *)
(* one that was not dispatched.                                            *)
ActuatedOnce ==
  \A d \in Decision :
    /\ lost = 0 => acted[d] <= 1 /\ (acted[d] > 0 => rows[d] # "none")
    /\ "EXECUTED" \in answered[d] \cup {rows[d], history[d]} => acted[d] > 0

(* An action that needs an approval is dispatched at most once for it and  *)
(* only for one that is consumed, even when the rows of mitigations are    *)
(* lost, the approval is withdrawn or expires meanwhile, or the agent      *)
(* crashes in between.                                                     *)
ApprovalSpentOnce ==
  \A d \in Gated :
    /\ acted[d] <= 1
    /\ acted[d] = 1 => approval[d] = "CONSUMED"

(* What a crash left unconfirmed stays so: no call dispatches the action   *)
(* of an UNKNOWN row or gives the row another status.                      *)
UnconfirmedNeverRepeated ==
  [][\A d \in Decision :
       rows[d] = "UNKNOWN" => rows'[d] = "UNKNOWN" /\ acted'[d] = acted[d]]_vars

=============================================================================
