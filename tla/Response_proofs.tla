--------------------------- MODULE Response_proofs ---------------------------
(***************************************************************************)
(* Theorems about the executor, for any decisions, goroutines, crashes and *)
(* lost writes.                                                            *)
(***************************************************************************)
EXTENDS Response, TLAPS

-----------------------------------------------------------------------------
Call == [at : At, d : Decision, route : Route, value : MStatus \cup {"none"}, late : BOOLEAN]

Typed ==
  /\ rows \in [Decision -> MStatus \cup {"none"}]
  /\ approval \in [Decision -> AStatus \cup {"none"}]
  /\ overdue \subseteq Gated
  /\ history \in [Decision -> MStatus \cup {"none"}]
  /\ cooling \in BOOLEAN
  /\ call \in [Caller -> Call]
  /\ restarts \in Nat /\ lost \in Nat
  /\ acted \in [Decision -> Nat]
  /\ answered \in [Decision -> SUBSET (MStatus \cup {"none"})]

Leads(c, d) == call[c].at \in Leading /\ call[c].d = d
OneLeader ==
  /\ flight = [d \in Decision |-> \E c \in Caller : Leads(c, d)]
  /\ \A b, c \in Caller : \A d \in Decision : Leads(b, d) /\ Leads(c, d) => b = c

(* A leader that has not come to the action yet.                           *)
Before == {"validate", "check", "consume", "reject", "record", "act"}

(* A leader that has acted, and will put that into the history.            *)
HasActed(c, d) == call[c].d = d /\ call[c].at \in {"mark", "finish"} /\ call[c].value = "EXECUTED"

(* What a caller may rely on, by the point it is at.                       *)
CallerInv(c) ==
  LET d == call[c].d IN
  /\ call[c].at # "idle" /\ call[c].route = "ExecuteValidated" => d \in Automatic
  /\ call[c].at = "reject" => call[c].value \in {"FAILED", "SKIPPED"}
  /\ call[c].at = "mark" => call[c].value = "EXECUTED"
  /\ call[c].at = "cache" => call[c].value # "none"
  /\ call[c].value = "EXECUTED" => acted[d] > 0
  /\ call[c].at \in {"record", "act"} /\ d \in Gated => approval[d] = "CONSUMED" /\ acted[d] = 0
  /\ lost = 0 /\ call[c].at \in Before => acted[d] = 0
  /\ lost = 0 /\ call[c].at = "act" => rows[d] # "none"
  /\ lost = 0 /\ acted[d] > 0 /\ history[d] = "none" /\ call[c].at \in {"approval", "claim"} =>
       \E b \in Caller : HasActed(b, d)
  /\ rows[d] = "UNKNOWN" => call[c].at \in {"idle", "lookup", "cache"}

(* What is said of a decision.                                             *)
DecisionInv(d) ==
  /\ "EXECUTED" \in answered[d] \cup {rows[d], history[d]} => acted[d] > 0
  /\ d \in Gated => acted[d] <= 1 /\ (acted[d] = 1 => approval[d] = "CONSUMED")
  /\ lost = 0 => acted[d] <= 1 /\ (acted[d] > 0 => rows[d] # "none")

RInv ==
  /\ Typed /\ OneLeader
  /\ \A c \in Caller : CallerInv(c)
  /\ \A d \in Decision : DecisionInv(d)

-----------------------------------------------------------------------------
LEMMA IdleIsCall == Idle \in Call /\ Idle.at = "idle" /\ Idle.value = "none"
<1>1. (CHOOSE d \in Decision : TRUE) \in Decision
  BY ResponseAssumption DEF Decision
<1> QED  BY <1>1 DEF Idle, Call, At, Route

LEMMA RInit == Init => RInv
<1> SUFFICES ASSUME Init PROVE RInv
  OBVIOUS
<1>1. \A c \in Caller : call[c] = Idle
  BY DEF Init
<1>2. Typed
  BY IdleIsCall DEF Init, Typed, MStatus, AStatus
<1>3. OneLeader
  BY <1>1, IdleIsCall DEF Init, OneLeader, Leads, Leading
<1>4. \A c \in Caller : CallerInv(c)
  BY <1>1, <1>2, IdleIsCall DEF Init, CallerInv, Before, Typed, Call
<1>5. \A d \in Decision : DecisionInv(d)
  BY DEF Init, DecisionInv
<1> QED  BY <1>2, <1>3, <1>4, <1>5 DEF RInv

(* One caller moves, within or without the lead of its decision.           *)
Moves(c, k) == call' = [call EXCEPT ![c] = k]

LEMMA MovesCalls ==
  ASSUME Typed, NEW c \in Caller, NEW k \in Call, Moves(c, k)
  PROVE  /\ call' \in [Caller -> Call] /\ call'[c] = k
         /\ \A b \in Caller \ {c} : call'[b] = call[b]
BY DEF Typed, Moves

LEMMA LeadersKept ==
  ASSUME RInv, NEW c \in Caller, NEW k \in Call, Moves(c, k), UNCHANGED flight,
         \/ k.at \in Leading /\ call[c].at \in Leading /\ k.d = call[c].d
         \/ k.at \notin Leading /\ call[c].at \notin Leading
  PROVE  OneLeader'
<1>1. /\ call'[c] = k
      /\ \A b \in Caller \ {c} : call'[b] = call[b]
  BY MovesCalls DEF RInv
<1>2. \A b \in Caller : \A d \in Decision : Leads(b, d)' <=> Leads(b, d)
  BY <1>1 DEF Leads
<1> QED  BY <1>2 DEF RInv, OneLeader

(* A move that touches no table and no history keeps the invariant if it   *)
(* keeps the leaders apart and the mover's part of it.                     *)
LEMMA MoveKeeps ==
  ASSUME RInv, NEW c \in Caller, NEW k \in Call, Moves(c, k),
         UNCHANGED <<rows, approval, overdue, history, cooling, restarts, lost, acted>>,
         \/ UNCHANGED answered
         \/ \E v \in MStatus \cup {"none"} :
              /\ answered' = [answered EXCEPT ![call[c].d] = @ \cup {v}]
              /\ v = "EXECUTED" => acted[call[c].d] > 0,
         OneLeader',
         \A d \in Decision : HasActed(c, d) => HasActed(c, d)',
         CallerInv(c)'
  PROVE  RInv'
<1>1. /\ call' \in [Caller -> Call] /\ call'[c] = k
      /\ \A b \in Caller \ {c} : call'[b] = call[b]
  BY MovesCalls DEF RInv
<1>2. Typed'
  BY <1>1 DEF RInv, Typed, Call
<1>3. OneLeader'
  OBVIOUS
<1>4. \A b \in Caller : \A d \in Decision : HasActed(b, d) => HasActed(b, d)'
  BY <1>1 DEF HasActed
<1>5. ASSUME NEW b \in Caller PROVE CallerInv(b)'
  <2>1. CASE b = c
    BY <2>1
  <2>2. CASE b # c
    <3>1. call'[b] = call[b] /\ call[b].d \in Decision /\ CallerInv(b)
      BY <1>1, <2>2 DEF RInv, Typed, Call
    <3> QED  BY <1>4, <3>1 DEF CallerInv
  <2> QED  BY <2>1, <2>2
<1>6. ASSUME NEW d \in Decision PROVE DecisionInv(d)'
  <2>1. DecisionInv(d) /\ CallerInv(c)
    BY DEF RInv
  <2> QED  BY <2>1 DEF DecisionInv, CallerInv, RInv, Typed
<1> QED  BY <1>2, <1>3, <1>5, <1>6 DEF RInv

(* The three ways a definition of the model moves its caller.              *)
LEMMA GoToMoves ==
  ASSUME RInv, NEW c \in Caller, NEW at \in At, GoTo(c, at)
  PROVE  /\ Moves(c, [call[c] EXCEPT !.at = at])
         /\ [call[c] EXCEPT !.at = at] \in Call
BY DEF RInv, Typed, Call, GoTo, Moves

LEMMA GoWithMoves ==
  ASSUME RInv, NEW c \in Caller, NEW at \in At, NEW value \in MStatus \cup {"none"},
         GoWith(c, at, value)
  PROVE  /\ Moves(c, [call[c] EXCEPT !.at = at, !.value = value])
         /\ [call[c] EXCEPT !.at = at, !.value = value] \in Call
BY DEF RInv, Typed, Call, GoWith, Moves

(* A caller that is idle has nothing to keep.                              *)
LEMMA IdleInv ==
  ASSUME NEW c \in Caller, call'[c] = Idle
  PROVE  CallerInv(c)'
BY IdleIsCall DEF CallerInv, Before

-----------------------------------------------------------------------------
(* The entry, up to the lock.                                              *)
LEMMA BeginKeeps ==
  ASSUME RInv, NEW c \in Caller, NEW d \in Decision, NEW route \in Route, Begin(c, d, route)
  PROVE  RInv'
<1>1. UNCHANGED <<rows, approval, overdue, history, flight, cooling, restarts, lost, acted>>
      /\ call[c].at = "idle"
  BY DEF Begin, tables, memory, counts
<1>2. CASE history[d] # "none"
  <2>1. answered' = [answered EXCEPT ![d] = @ \cup {history[d]}] /\ UNCHANGED call
    BY <1>2 DEF Begin
  <2>2. Typed' /\ OneLeader'
    BY <1>1, <2>1 DEF RInv, Typed, OneLeader, Leads
  <2>3. ASSUME NEW b \in Caller PROVE CallerInv(b)'
    <3>1. \A e \in Decision, a \in Caller : HasActed(a, e)' <=> HasActed(a, e)
      BY <2>1 DEF HasActed
    <3>2. CallerInv(b) /\ call[b].d \in Decision
      BY DEF RInv, Typed, Call
    <3> QED  BY <1>1, <2>1, <3>1, <3>2 DEF CallerInv
  <2>4. ASSUME NEW e \in Decision PROVE DecisionInv(e)'
    <3>1. DecisionInv(e) /\ DecisionInv(d)
      BY DEF RInv
    <3> QED  BY <1>1, <2>1, <3>1 DEF DecisionInv, RInv, Typed
  <2> QED  BY <2>2, <2>3, <2>4 DEF RInv
<1>3. CASE history[d] = "none"
  <2> DEFINE k == [Idle EXCEPT !.at = "lookup", !.d = d, !.route = route]
  <2>1. k \in Call /\ k.at = "lookup" /\ k.d = d /\ k.route = route /\ k.value = "none"
    BY IdleIsCall DEF Call, At, Idle
  <2>2. Moves(c, k) /\ UNCHANGED answered /\ (route = "ExecuteValidated" => d \in Automatic)
    <3>1. call' = [call EXCEPT ![c] = k] /\ UNCHANGED answered
      BY <1>3 DEF Begin
    <3>2. route = "ExecuteValidated" => d \in Automatic
      BY DEF Begin
    <3> QED  BY <3>1, <3>2 DEF Moves
  <2>3. call'[c] = k
    BY <2>1, <2>2, MovesCalls DEF RInv
  <2>4. CallerInv(c)'
    BY <2>1, <2>2, <2>3 DEF CallerInv, Before
  <2>5. \A e \in Decision : ~HasActed(c, e)
    BY <1>1 DEF HasActed
  <2> HIDE DEF k
  <2>6. OneLeader'
    BY <1>1, <2>1, <2>2, LeadersKept DEF Leading
  <2> QED  BY <1>1, <2>1, <2>2, <2>4, <2>5, <2>6, MoveKeeps
<1> QED  BY <1>2, <1>3

LEMMA LookupKeeps ==
  ASSUME RInv, NEW c \in Caller, Lookup(c)
  PROVE  RInv'
<1> DEFINE d == call[c].d
           at == AfterLookup(c)
           k == [call[c] EXCEPT !.at = at, !.value = rows[d]]
<1>1. /\ UNCHANGED <<rows, approval, overdue, history, flight, cooling, restarts, lost, acted, answered>>
      /\ call[c].at = "lookup" /\ GoWith(c, at, rows[d])
  BY DEF Lookup, tables, memory, counts
<1>2. /\ at \in {"cache", "approval", "claim"} /\ at \in At
      /\ (at = "cache") <=> (rows[d] # "none")
  BY DEF AfterLookup, At
<1>3. d \in Decision /\ rows[d] \in MStatus \cup {"none"} /\ CallerInv(c) /\ DecisionInv(d)
  BY DEF RInv, Typed, Call
<1>4. Moves(c, k) /\ k \in Call
  BY <1>1, <1>2, <1>3, GoWithMoves
<1>5. call'[c] = k /\ k.at = at /\ k.d = d /\ k.value = rows[d] /\ k.route = call[c].route
  BY <1>3, <1>4, MovesCalls DEF RInv, Typed, Call
<1>6. CallerInv(c)'
  BY <1>1, <1>2, <1>3, <1>5 DEF CallerInv, DecisionInv, Before
<1>7. \A e \in Decision : ~HasActed(c, e)
  BY <1>1 DEF HasActed
<1> HIDE DEF k, at, d
<1>8. OneLeader'
  BY <1>1, <1>2, <1>4, <1>5, LeadersKept DEF Leading
<1> QED  BY <1>1, <1>4, <1>6, <1>7, <1>8, MoveKeeps

LEMMA FindApprovalKeeps ==
  ASSUME RInv, NEW c \in Caller, FindApproval(c)
  PROVE  RInv'
<1>1. /\ UNCHANGED <<rows, approval, overdue, history, flight, cooling, restarts, lost, acted, answered>>
      /\ call[c].at = "approval"
  BY DEF FindApproval, tables, memory, counts
<1>2. PICK at \in {"lookup", "claim"}, route \in {call[c].route, "ExecuteWithApproval"} :
        call' = [call EXCEPT ![c] = [call[c] EXCEPT !.at = at, !.route = route]]
  <2>1. CASE approval[call[c].d] = "APPROVED"
    BY <2>1 DEF FindApproval
  <2>2. CASE approval[call[c].d] # "APPROVED"
    <3>1. [call[c] EXCEPT !.at = "claim"] = [call[c] EXCEPT !.at = "claim", !.route = call[c].route]
      BY DEF RInv, Typed, Call
    <3>2. call' = [call EXCEPT ![c] = [call[c] EXCEPT !.at = "claim"]]
      BY <2>2 DEF FindApproval
    <3> QED  BY <3>1, <3>2
  <2> QED  BY <2>1, <2>2
<1> DEFINE k == [call[c] EXCEPT !.at = at, !.route = route]
<1>3. Moves(c, k) /\ k \in Call /\ k.at = at /\ k.d = call[c].d /\ k.value = call[c].value /\ k.route = route
  BY <1>2 DEF Moves, RInv, Typed, Call, At, Route
<1>4. call'[c] = k /\ CallerInv(c)
  BY <1>3, MovesCalls DEF RInv
<1>5. rows[call[c].d] # "UNKNOWN"
  BY <1>1, <1>4 DEF CallerInv
<1>6. ASSUME lost = 0, acted[call[c].d] > 0, history[call[c].d] = "none", at = "claim"
      PROVE  \E b \in Caller : HasActed(b, call[c].d)'
  <2>1. PICK b \in Caller : HasActed(b, call[c].d)
    BY <1>1, <1>4, <1>6 DEF CallerInv
  <2>2. b # c
    BY <1>1, <2>1 DEF HasActed
  <2> QED  BY <1>3, <2>1, <2>2, MovesCalls DEF HasActed, RInv
<1>7. CallerInv(c)'
  BY <1>1, <1>3, <1>4, <1>5, <1>6 DEF CallerInv, Before
<1>8. \A e \in Decision : ~HasActed(c, e)
  BY <1>1 DEF HasActed
<1> HIDE DEF k
<1>9. OneLeader'
  BY <1>1, <1>3, LeadersKept DEF Leading
<1> QED  BY <1>1, <1>3, <1>7, <1>8, <1>9, MoveKeeps

(* The answer of a row: it goes into the history, over what is there.      *)
LEMMA CacheKeeps ==
  ASSUME RInv, NEW c \in Caller, Cache(c)
  PROVE  RInv'
<1> DEFINE d == call[c].d
           v == call[c].value
<1>1. /\ UNCHANGED <<rows, approval, overdue, flight, cooling, restarts, lost, acted>>
      /\ call[c].at = "cache" /\ Moves(c, Idle)
      /\ history' = [history EXCEPT ![d] = v]
      /\ answered' = [answered EXCEPT ![d] = @ \cup {v}]
  BY DEF Cache, Answer, tables, counts, Moves
<1>2. d \in Decision /\ v \in MStatus /\ CallerInv(c)
  BY <1>1 DEF RInv, Typed, Call, CallerInv
<1>3. /\ call' \in [Caller -> Call] /\ call'[c] = Idle
      /\ \A b \in Caller \ {c} : call'[b] = call[b]
  BY <1>1, IdleIsCall, MovesCalls DEF RInv
<1>4. Typed'
  BY <1>1, <1>2, <1>3 DEF RInv, Typed
<1>5. OneLeader'
  BY <1>1, IdleIsCall, LeadersKept DEF Leading
<1>6. v = "EXECUTED" => acted[d] > 0
  BY <1>2 DEF CallerInv
<1>7. ASSUME NEW e \in Decision PROVE DecisionInv(e)'
  <2>1. DecisionInv(e)
    BY DEF RInv
  <2> QED  BY <1>1, <1>2, <1>6, <2>1 DEF DecisionInv, RInv, Typed
<1>8. ASSUME NEW b \in Caller PROVE CallerInv(b)'
  <2>1. CASE b = c
    BY <1>3, <2>1, IdleInv
  <2>2. CASE b # c
    <3>1. call'[b] = call[b] /\ CallerInv(b) /\ call[b].d \in Decision
      BY <1>3, <2>2 DEF RInv, Typed, Call
    <3>2. history'[call[b].d] = "none" => history[call[b].d] = "none"
      BY <1>1, <1>2, <3>1 DEF RInv, Typed, MStatus
    <3>3. \A e \in Decision, a \in Caller : HasActed(a, e) => HasActed(a, e)'
      BY <1>1, <1>3 DEF HasActed
    <3> QED  BY <1>1, <3>1, <3>2, <3>3 DEF CallerInv
  <2> QED  BY <2>1, <2>2
<1> QED  BY <1>4, <1>5, <1>7, <1>8 DEF RInv

(* The lock: an answer, a place to wait, or the lead.                      *)
LEMMA ClaimKeeps ==
  ASSUME RInv, NEW c \in Caller, Claim(c)
  PROVE  RInv'
<1> DEFINE d == call[c].d
<1>1. /\ UNCHANGED <<rows, approval, overdue, history, cooling, restarts, lost, acted>>
      /\ call[c].at = "claim"
  BY DEF Claim, tables, counts
<1>2. d \in Decision /\ call[c] \in Call /\ CallerInv(c) /\ DecisionInv(d)
  BY DEF RInv, Typed, Call
<1>3. \A e \in Decision : ~HasActed(c, e)
  BY <1>1 DEF HasActed
<1>4. flight[d] <=> \E b \in Caller : Leads(b, d)
  BY <1>2 DEF RInv, OneLeader
<1>5. CASE history[d] # "none"
  <2>1. /\ Moves(c, Idle) /\ UNCHANGED flight
        /\ answered' = [answered EXCEPT ![d] = @ \cup {history[d]}]
    BY <1>5 DEF Claim, Answer, Moves
  <2>2. history[d] \in MStatus \cup {"none"} /\ (history[d] = "EXECUTED" => acted[d] > 0)
    BY <1>2 DEF DecisionInv, RInv, Typed
  <2>3. OneLeader'
    BY <1>1, <2>1, IdleIsCall, LeadersKept DEF Leading
  <2>4. CallerInv(c)'
    BY <2>1, IdleIsCall, MovesCalls, IdleInv DEF RInv
  <2> QED  BY <1>1, <1>3, <2>1, <2>2, <2>3, <2>4, IdleIsCall, MoveKeeps
<1>6. CASE history[d] = "none" /\ flight[d]
  <2> DEFINE k == [call[c] EXCEPT !.at = "wait"]
  <2>1. Moves(c, k) /\ k \in Call /\ UNCHANGED <<flight, answered>>
    BY <1>6, GoToMoves DEF Claim, At
  <2>2. k.at = "wait" /\ k.d = d /\ k.value = call[c].value /\ k.route = call[c].route
    BY <1>2 DEF Call
  <2>3. call'[c] = k
    BY <2>1, MovesCalls DEF RInv
  <2>4. OneLeader'
    BY <1>1, <2>1, <2>2, LeadersKept DEF Leading
  <2>5. CallerInv(c)'
    BY <1>1, <1>2, <2>2, <2>3 DEF CallerInv, Before
  <2> HIDE DEF k
  <2> QED  BY <1>1, <1>3, <2>1, <2>4, <2>5, MoveKeeps
<1>7. CASE history[d] = "none" /\ ~flight[d]
  <2> DEFINE at == FirstStep(c)
             k == [call[c] EXCEPT !.at = at]
  <2>1. at \in {"validate", "record", "check"} /\ (at = "record" <=> call[c].route = "ExecuteValidated")
    BY <1>2 DEF FirstStep, Call, Route
  <2>2. at \in Leading /\ at \in At
    BY <2>1 DEF Leading, At
  <2>3. Moves(c, k) /\ k \in Call /\ flight' = [flight EXCEPT ![d] = TRUE] /\ UNCHANGED answered
    BY <1>7, <2>2, GoToMoves DEF Claim
  <2>4. k.at = at /\ k.d = d /\ k.value = call[c].value /\ k.route = call[c].route
    BY <1>2 DEF Call
  <2>5. call'[c] = k /\ \A b \in Caller \ {c} : call'[b] = call[b]
    BY <2>3, MovesCalls DEF RInv
  <2> HIDE DEF k, at
  <2>6. OneLeader'
    <3>1. \A b \in Caller, e \in Decision : Leads(b, e)' <=> Leads(b, e) \/ (b = c /\ e = d)
      BY <1>1, <2>2, <2>4, <2>5 DEF Leads, Leading
    <3>2. \A b \in Caller : ~Leads(b, d)
      BY <1>4, <1>7
    <3>3. /\ flight = [e \in Decision |-> \E b \in Caller : Leads(b, e)]
          /\ \A a, b \in Caller : \A e \in Decision : Leads(a, e) /\ Leads(b, e) => a = b
      BY DEF RInv, OneLeader
    <3>4. \A e \in Decision : (\E b \in Caller : Leads(b, e)') <=> (e = d \/ \E b \in Caller : Leads(b, e))
      BY <3>1
    <3>5. flight' = [e \in Decision |-> e = d \/ \E b \in Caller : Leads(b, e)]
      BY <1>2, <2>3, <3>3
    <3>6. flight' = [e \in Decision |-> \E b \in Caller : Leads(b, e)']
      BY <3>4, <3>5, Zenon
    <3>7. \A a, b \in Caller : \A e \in Decision : Leads(a, e)' /\ Leads(b, e)' => a = b
      BY <3>1, <3>2, <3>3
    <3> QED  BY <3>6, <3>7 DEF OneLeader
  <2>7. lost = 0 => acted[d] = 0
    <3>1. SUFFICES ASSUME lost = 0, acted[d] # 0 PROVE FALSE
      OBVIOUS
    <3>2. acted[d] > 0
      BY <1>2, <3>1 DEF RInv, Typed
    <3>3. PICK b \in Caller : HasActed(b, d)
      BY <1>1, <1>2, <1>7, <3>1, <3>2 DEF CallerInv
    <3> QED  BY <1>4, <1>7, <3>3 DEF HasActed, Leads, Leading
  <2>8. CallerInv(c)'
    BY <1>1, <1>2, <2>1, <2>4, <2>5, <2>7, ResponseAssumption DEF CallerInv
  <2> QED  BY <1>1, <1>3, <2>3, <2>6, <2>8, MoveKeeps
<1> QED  BY <1>5, <1>6, <1>7

LEMMA GiveUpKeeps ==
  ASSUME RInv, NEW c \in Caller, GiveUp(c)
  PROVE  RInv'
<1>1. /\ UNCHANGED <<rows, approval, overdue, history, flight, cooling, restarts, lost, acted, answered>>
      /\ call[c].at = "wait" /\ Moves(c, Idle)
  BY DEF GiveUp, tables, memory, counts, Moves
<1>2. OneLeader'
  BY <1>1, IdleIsCall, LeadersKept DEF Leading
<1>3. CallerInv(c)'
  BY <1>1, IdleIsCall, MovesCalls, IdleInv DEF RInv
<1>4. \A e \in Decision : ~HasActed(c, e)
  BY <1>1 DEF HasActed
<1> QED  BY <1>1, <1>2, <1>3, <1>4, IdleIsCall, MoveKeeps

-----------------------------------------------------------------------------
(* The verdict of the validator.                                           *)
LEMMA VerdictKeeps ==
  ASSUME RInv, NEW c \in Caller, NEW k \in Call, Moves(c, k),
         UNCHANGED <<tables, overdue, memory, counts, acted, answered>>,
         call[c].at \in {"validate", "check"},
         k.at \in {"record", "reject", "finish", "consume"},
         k.d = call[c].d, k.route = call[c].route,
         k.at = "record" => k.d \in Automatic,
         \/ k.value \in {"FAILED", "SKIPPED"}
         \/ k.value = call[c].value /\ k.at # "reject"
  PROVE  RInv'
<1>1. UNCHANGED <<rows, approval, overdue, history, flight, cooling, restarts, lost, acted, answered>>
  BY DEF tables, memory, counts
<1>2. k.d \in Decision /\ CallerInv(c)
  BY DEF RInv, Call
<1>3. call'[c] = k
  BY MovesCalls DEF RInv
<1>4. OneLeader'
  BY <1>1, LeadersKept DEF Leading
<1>5. CallerInv(c)'
  BY <1>1, <1>2, <1>3, ResponseAssumption DEF CallerInv, Before
<1>6. \A e \in Decision : ~HasActed(c, e)
  BY DEF HasActed
<1> QED  BY <1>1, <1>4, <1>5, <1>6, MoveKeeps

LEMMA GoWithKeeps ==
  ASSUME RInv, NEW c \in Caller, call[c].at \in {"validate", "check"},
         UNCHANGED <<tables, overdue, memory, counts, acted, answered>>,
         NEW at \in {"reject", "finish"}, NEW v \in {"FAILED", "SKIPPED"}, GoWith(c, at, v)
  PROVE  RInv'
<1> DEFINE k == [call[c] EXCEPT !.at = at, !.value = v]
<1>1. at \in At /\ v \in MStatus \cup {"none"} /\ call[c] \in Call
  BY DEF At, Leading, MStatus, RInv, Typed
<1>2. Moves(c, k) /\ k \in Call
  BY <1>1, GoWithMoves
<1>3. k.at = at /\ k.d = call[c].d /\ k.value = v /\ k.route = call[c].route
  BY <1>1 DEF Call
<1> HIDE DEF k
<1> QED  BY <1>2, <1>3, VerdictKeeps

LEMMA ValidateKeeps ==
  ASSUME RInv, NEW c \in Caller, Validate(c)
  PROVE  RInv'
<1>1. /\ UNCHANGED <<tables, overdue, memory, counts, acted, answered>>
      /\ call[c].at \in {"validate", "check"}
  BY DEF Validate
<1>2. CASE call[c].d \in Automatic /\ GoTo(c, "record")
  <2> DEFINE k == [call[c] EXCEPT !.at = "record"]
  <2>1. "record" \in At /\ call[c] \in Call
    BY DEF At, Leading, RInv, Typed
  <2>2. Moves(c, k) /\ k \in Call
    BY <1>2, <2>1, GoToMoves
  <2>3. k.at = "record" /\ k.d = call[c].d /\ k.value = call[c].value /\ k.route = call[c].route
    BY <2>1 DEF Call
  <2> HIDE DEF k
  <2> QED  BY <1>1, <1>2, <2>2, <2>3, VerdictKeeps
<1> QED  BY <1>1, <1>2, GoWithKeeps DEF Validate

LEMMA CheckKeeps ==
  ASSUME RInv, NEW c \in Caller, Check(c)
  PROVE  RInv'
<1>1. /\ UNCHANGED <<tables, overdue, memory, counts, acted, answered>>
      /\ call[c].at \in {"validate", "check"}
  BY DEF Check
<1>2. CASE call' = [call EXCEPT ![c].at = "consume", ![c].late = call[c].d \in overdue]
  <2> DEFINE late == call[c].d \in overdue
             k == [call[c] EXCEPT !.at = "consume", !.late = late]
  <2>1. late \in BOOLEAN /\ call[c] \in Call /\ "consume" \in At
    BY DEF RInv, Typed, At, Leading
  <2> HIDE DEF late
  <2>2. k \in Call /\ k.at = "consume" /\ k.d = call[c].d /\ k.value = call[c].value /\ k.route = call[c].route
    BY <2>1 DEF Call
  <2>3. Moves(c, k)
    BY <1>2 DEF Moves, late
  <2> HIDE DEF k
  <2> QED  BY <1>1, <2>2, <2>3, VerdictKeeps
<1> QED  BY <1>1, <1>2, GoWithKeeps DEF Check

(* A step of a leader in the tables concerns nobody else's decision, and   *)
(* those who share its decision are not leading.                           *)
LEMMA LeadKeeps ==
  ASSUME RInv, NEW c \in Caller, NEW k \in Call, Moves(c, k),
         k.at \in Leading, call[c].at \in Leading, k.d = call[c].d,
         UNCHANGED <<overdue, history, flight, restarts, answered>>,
         Typed', lost' = 0 => lost = 0,
         \A e \in Decision \ {k.d} :
           rows'[e] = rows[e] /\ approval'[e] = approval[e] /\ acted'[e] = acted[e],
         rows'[k.d] = "UNKNOWN" => rows[k.d] = "UNKNOWN",
         acted'[k.d] >= acted[k.d],
         acted'[k.d] > acted[k.d] => HasActed(c, k.d)',
         HasActed(c, k.d) => HasActed(c, k.d)',
         CallerInv(c)', DecisionInv(k.d)'
  PROVE  RInv'
<1>1. /\ call'[c] = k /\ k.d \in Decision
      /\ \A b \in Caller \ {c} : call'[b] = call[b]
  BY MovesCalls DEF RInv, Call
<1>2. OneLeader'
  BY LeadersKept
<1>3. ASSUME NEW e \in Decision PROVE DecisionInv(e)'
  <2>1. CASE e = k.d
    BY <2>1
  <2>2. CASE e # k.d
    BY <2>2 DEF DecisionInv, RInv
  <2> QED  BY <2>1, <2>2
<1>4. \A e \in Decision, a \in Caller : HasActed(a, e) => HasActed(a, e)'
  BY <1>1 DEF HasActed
<1>5. ASSUME NEW b \in Caller \ {c} PROVE CallerInv(b)'
  <2>1. call'[b] = call[b] /\ CallerInv(b) /\ call[b].d \in Decision
    BY <1>1 DEF RInv, Typed, Call
  <2>2. CASE call[b].d # k.d
    BY <1>4, <2>1, <2>2 DEF CallerInv
  <2>3. CASE call[b].d = k.d
    <3>1. call[b].at \notin Leading
      BY <1>1, <2>3 DEF RInv, OneLeader, Leads
    <3>2. acted[k.d] \in Nat /\ acted'[k.d] \in Nat
      BY <1>1 DEF RInv, Typed
    <3>3. lost' = 0 /\ acted'[k.d] > 0 /\ history'[k.d] = "none" /\ call[b].at \in {"approval", "claim"}
            => \E a \in Caller : HasActed(a, k.d)'
      BY <1>1, <1>4, <2>1, <2>3, <3>2 DEF CallerInv
    <3> QED  BY <1>1, <2>1, <2>3, <3>1, <3>2, <3>3 DEF CallerInv, Before, Leading
  <2> QED  BY <2>2, <2>3
<1> QED  BY <1>2, <1>3, <1>5 DEF RInv

-----------------------------------------------------------------------------
(* A write of a mitigation reaches one row, which it may not change.       *)
LEMMA SaveWrites ==
  ASSUME RInv, NEW d \in Decision, NEW s \in MStatus \ {"UNKNOWN"},
         NEW table, table \in {Inserted(d, s), Updated(d, s)}, Save(table)
  PROVE  /\ rows' \in [Decision -> MStatus \cup {"none"}] /\ lost' \in Nat
         /\ lost' = 0 => lost = 0 /\ rows' = table
         /\ \A e \in Decision \ {d} : rows'[e] = rows[e]
         /\ rows'[d] \in {rows[d], s}
         /\ rows[d] # "none" => rows'[d] # "none"
         /\ rows[d] = "UNKNOWN" => rows'[d] = "UNKNOWN"
<1>1. rows \in [Decision -> MStatus \cup {"none"}] /\ lost \in Nat /\ MaxLost \in Nat
  BY ResponseAssumption DEF RInv, Typed
<1>2. /\ table \in [Decision -> MStatus \cup {"none"}]
      /\ \A e \in Decision \ {d} : table[e] = rows[e]
      /\ table[d] \in {rows[d], s}
      /\ rows[d] # "none" => table[d] # "none"
      /\ rows[d] = "UNKNOWN" => table[d] = "UNKNOWN"
  BY <1>1 DEF Inserted, Updated, CanTransition, MStatus
<1> QED  BY <1>1, <1>2 DEF Save

LEMMA ConsumeKeeps ==
  ASSUME RInv, NEW c \in Caller, ConsumeApproval(c)
  PROVE  RInv'
<1> SUFFICES ASSUME NEW d \in Decision, d = call[c].d PROVE RInv'
  BY DEF RInv, Typed, Call
<1>1. /\ UNCHANGED <<rows, overdue, history, flight, cooling, restarts, lost, acted, answered>>
      /\ call[c].at = "consume"
  BY DEF ConsumeApproval, memory, counts
<1>2. d \in Decision /\ call[c] \in Call /\ CallerInv(c) /\ DecisionInv(d)
  BY DEF RInv, Typed, Call
<1>3. "record" \in At /\ "finish" \in At /\ "FAILED" \in MStatus \cup {"none"}
  BY DEF At, Leading, MStatus
<1>4. CASE approval[d] = "APPROVED" /\ ~call[c].late
  <2> DEFINE k == [call[c] EXCEPT !.at = "record"]
  <2>1. approval' = [approval EXCEPT ![d] = "CONSUMED"] /\ GoTo(c, "record")
    BY <1>4 DEF ConsumeApproval
  <2>2. Moves(c, k) /\ k \in Call
    BY <1>3, <2>1, GoToMoves
  <2>3. k.at = "record" /\ k.d = d /\ k.value = call[c].value /\ k.route = call[c].route
    BY <1>2 DEF Call
  <2> HIDE DEF k
  <2>4. call'[c] = k /\ call' \in [Caller -> Call]
    BY <2>2, MovesCalls DEF RInv
  <2>5. Typed'
    BY <1>1, <2>1, <2>4 DEF RInv, Typed, AStatus
  <2>6. approval'[d] = "CONSUMED" /\ acted[d] \in Nat /\ (d \in Gated => acted[d] = 0)
    BY <1>2, <1>4, <2>1 DEF RInv, Typed, DecisionInv
  <2>7. CallerInv(c)'
    BY <1>1, <1>2, <2>3, <2>4, <2>6, ResponseAssumption DEF CallerInv, Before
  <2>8. DecisionInv(d)'
    BY <1>1, <1>2, <2>6 DEF DecisionInv
  <2>9. \A e \in Decision \ {k.d} : rows'[e] = rows[e] /\ approval'[e] = approval[e] /\ acted'[e] = acted[e]
    BY <1>1, <2>1, <2>3 DEF RInv, Typed
  <2>10. ~HasActed(c, d)
    BY <1>1 DEF HasActed
  <2>11. k.at \in Leading /\ call[c].at \in Leading
    BY <1>1, <2>3 DEF Leading
  <2> QED  BY <1>1, <2>2, <2>3, <2>5, <2>6, <2>7, <2>8, <2>9, <2>10, <2>11, LeadKeeps
<1>5. CASE ~(approval[d] = "APPROVED" /\ ~call[c].late)
  <2> DEFINE k == [call[c] EXCEPT !.at = "finish", !.value = "FAILED"]
  <2>1. UNCHANGED approval /\ GoWith(c, "finish", "FAILED")
    BY <1>5 DEF ConsumeApproval
  <2>2. Moves(c, k) /\ k \in Call
    BY <1>3, <2>1, GoWithMoves
  <2>3. k.at = "finish" /\ k.d = d /\ k.value = "FAILED" /\ k.route = call[c].route
    BY <1>2 DEF Call
  <2> HIDE DEF k
  <2>4. call'[c] = k
    BY <2>2, MovesCalls DEF RInv
  <2>5. OneLeader'
    BY <1>1, <2>2, <2>3, LeadersKept DEF Leading
  <2>6. CallerInv(c)'
    BY <1>1, <1>2, <2>1, <2>3, <2>4 DEF CallerInv, Before
  <2>7. \A e \in Decision : ~HasActed(c, e)
    BY <1>1 DEF HasActed
  <2> QED  BY <1>1, <2>1, <2>2, <2>5, <2>6, <2>7, MoveKeeps
<1> QED  BY <1>4, <1>5

LEMMA RecordKeeps ==
  ASSUME RInv, NEW c \in Caller, RecordRefusal(c) \/ RecordExecuting(c)
  PROVE  RInv'
<1> SUFFICES ASSUME NEW d \in Decision, d = call[c].d PROVE RInv'
  BY DEF RInv, Typed, Call
<1> DEFINE s == IF call[c].at = "reject" THEN call[c].value ELSE "EXECUTING"
           at == IF call[c].at = "reject" THEN "finish" ELSE "act"
           k == [call[c] EXCEPT !.at = at]
<1>1. /\ UNCHANGED <<approval, overdue, history, flight, cooling, restarts, acted, answered>>
      /\ call[c].at \in {"reject", "record"}
      /\ Save(Inserted(d, s)) /\ GoTo(c, at)
  BY DEF RecordRefusal, RecordExecuting, memory
<1>2. d \in Decision /\ call[c] \in Call /\ CallerInv(c) /\ DecisionInv(d)
  BY DEF RInv, Typed, Call
<1>3. s \in {"FAILED", "SKIPPED", "EXECUTING"} /\ at \in {"finish", "act"}
  BY <1>1, <1>2 DEF CallerInv
<1>4. (at = "act") <=> (call[c].at = "record")
  BY <1>1
<1> HIDE DEF s, at
<1>5. /\ s \in MStatus \ {"UNKNOWN"} /\ at \in At /\ at \in Leading /\ call[c].at \in Leading
  BY <1>1, <1>3 DEF MStatus, At, Leading
<1>6. Moves(c, k) /\ k \in Call
  BY <1>1, <1>5, GoToMoves
<1>7. k.at = at /\ k.d = d /\ k.value = call[c].value /\ k.route = call[c].route
  BY <1>2 DEF Call
<1> HIDE DEF k
<1>8. call'[c] = k /\ call' \in [Caller -> Call]
  BY <1>6, MovesCalls DEF RInv
<1>9. /\ rows' \in [Decision -> MStatus \cup {"none"}] /\ lost' \in Nat
      /\ lost' = 0 => lost = 0 /\ rows' = Inserted(d, s)
      /\ \A e \in Decision \ {d} : rows'[e] = rows[e]
      /\ rows'[d] \in {rows[d], s}
      /\ rows[d] # "none" => rows'[d] # "none"
  BY <1>1, <1>2, <1>5, SaveWrites
<1>10. Typed'
  BY <1>1, <1>8, <1>9 DEF RInv, Typed
<1>11. lost' = 0 => rows'[d] # "none"
  <2>1. Inserted(d, s)[d] # "none"
    BY <1>2, <1>3 DEF Inserted, RInv, Typed
  <2> QED  BY <1>9, <2>1
<1>12. rows[d] # "UNKNOWN" /\ rows'[d] # "UNKNOWN"
  BY <1>1, <1>2, <1>3, <1>9 DEF CallerInv
<1>13. CallerInv(c)'
  <2>1. lost' = 0 => acted[d] = 0
    BY <1>1, <1>2, <1>9 DEF CallerInv, Before
  <2>2. at = "act" /\ d \in Gated => approval[d] = "CONSUMED" /\ acted[d] = 0
    BY <1>2, <1>4 DEF CallerInv
  <2> QED  BY <1>1, <1>2, <1>3, <1>7, <1>8, <1>11, <1>12, <2>1, <2>2 DEF CallerInv
<1>14. DecisionInv(d)'
  BY <1>1, <1>2, <1>3, <1>9 DEF DecisionInv
<1>15. HasActed(c, d) => HasActed(c, d)'
  BY <1>1 DEF HasActed
<1>16. acted[d] \in Nat
  BY <1>2 DEF RInv, Typed
<1> QED  BY <1>1, <1>5, <1>6, <1>7, <1>9, <1>10, <1>12, <1>13, <1>14, <1>15, <1>16, LeadKeeps

LEMMA ExecuteKeeps ==
  ASSUME RInv, NEW c \in Caller, ExecuteSimulation(c)
  PROVE  RInv'
<1> SUFFICES ASSUME NEW d \in Decision, d = call[c].d PROVE RInv'
  BY DEF RInv, Typed, Call
<1>1. /\ UNCHANGED <<rows, approval, overdue, history, flight, cooling, restarts, lost, answered>>
      /\ call[c].at = "act"
  BY DEF ExecuteSimulation, tables, memory, counts
<1>2. call[c] \in Call /\ CallerInv(c) /\ DecisionInv(d)
  BY DEF RInv, Typed
<1>3. /\ "mark" \in At /\ "finish" \in At
      /\ "FAILED" \in MStatus \cup {"none"} /\ "EXECUTED" \in MStatus \cup {"none"}
  BY DEF At, Leading, MStatus
<1>4. CASE acted' = [acted EXCEPT ![d] = @ + 1] /\ GoWith(c, "mark", "EXECUTED")
  <2> DEFINE k == [call[c] EXCEPT !.at = "mark", !.value = "EXECUTED"]
  <2>1. Moves(c, k) /\ k \in Call
    BY <1>3, <1>4, GoWithMoves
  <2>2. k.at = "mark" /\ k.d = d /\ k.value = "EXECUTED" /\ k.route = call[c].route
    BY <1>2 DEF Call
  <2> HIDE DEF k
  <2>3. call'[c] = k /\ call' \in [Caller -> Call]
    BY <2>1, MovesCalls DEF RInv
  <2>4. /\ acted \in [Decision -> Nat] /\ acted' \in [Decision -> Nat]
        /\ acted'[d] = acted[d] + 1
        /\ \A e \in Decision \ {d} : acted'[e] = acted[e]
    BY <1>4 DEF RInv, Typed
  <2>5. Typed'
    BY <1>1, <2>3, <2>4 DEF RInv, Typed
  <2>6. rows[d] # "UNKNOWN"
    BY <1>1, <1>2 DEF CallerInv
  <2>7. CallerInv(c)'
    BY <1>1, <1>2, <2>2, <2>3, <2>4, <2>6 DEF CallerInv, Before
  <2>8. DecisionInv(d)'
    <3>1. lost = 0 => acted[d] = 0 /\ rows[d] # "none"
      BY <1>1, <1>2 DEF CallerInv, Before
    <3>2. d \in Gated => acted[d] = 0 /\ approval[d] = "CONSUMED"
      BY <1>1, <1>2 DEF CallerInv
    <3> QED  BY <1>1, <1>2, <2>4, <3>1, <3>2 DEF DecisionInv
  <2>9. HasActed(c, d)'
    BY <2>2, <2>3 DEF HasActed
  <2>10. k.at \in Leading /\ call[c].at \in Leading
    BY <1>1, <2>2 DEF Leading
  <2>11. acted[d] \in Nat
    BY <2>4
  <2> QED  BY <1>1, <2>1, <2>2, <2>4, <2>5, <2>6, <2>7, <2>8, <2>9, <2>10, <2>11, LeadKeeps
<1>5. CASE UNCHANGED acted /\ GoWith(c, "finish", "FAILED")
  <2> DEFINE k == [call[c] EXCEPT !.at = "finish", !.value = "FAILED"]
  <2>1. Moves(c, k) /\ k \in Call
    BY <1>3, <1>5, GoWithMoves
  <2>2. k.at = "finish" /\ k.d = d /\ k.value = "FAILED" /\ k.route = call[c].route
    BY <1>2 DEF Call
  <2> HIDE DEF k
  <2>3. call'[c] = k
    BY <2>1, MovesCalls DEF RInv
  <2>4. OneLeader'
    BY <1>1, <2>1, <2>2, LeadersKept DEF Leading
  <2>5. CallerInv(c)'
    BY <1>1, <1>2, <1>5, <2>2, <2>3 DEF CallerInv, Before
  <2>6. \A e \in Decision : ~HasActed(c, e)
    BY <1>1 DEF HasActed
  <2> QED  BY <1>1, <1>5, <2>1, <2>4, <2>5, <2>6, MoveKeeps
<1> QED  BY <1>4, <1>5 DEF ExecuteSimulation

LEMMA MarkKeeps ==
  ASSUME RInv, NEW c \in Caller, MarkExecuted(c)
  PROVE  RInv'
<1> SUFFICES ASSUME NEW d \in Decision, d = call[c].d PROVE RInv'
  BY DEF RInv, Typed, Call
<1> DEFINE k == [call[c] EXCEPT !.at = "finish"]
<1>1. /\ UNCHANGED <<approval, overdue, history, flight, restarts, acted, answered>>
      /\ call[c].at = "mark" /\ cooling' = TRUE
      /\ Save(Updated(d, "EXECUTED")) /\ GoTo(c, "finish")
  BY DEF MarkExecuted
<1>2. call[c] \in Call /\ CallerInv(c) /\ DecisionInv(d) /\ acted[d] \in Nat
  BY DEF RInv, Typed
<1>3. call[c].value = "EXECUTED" /\ acted[d] > 0 /\ rows[d] # "UNKNOWN"
  BY <1>1, <1>2 DEF CallerInv
<1>4. "finish" \in At /\ "EXECUTED" \in MStatus \ {"UNKNOWN"}
  BY DEF At, Leading, MStatus
<1>5. Moves(c, k) /\ k \in Call
  BY <1>1, <1>4, GoToMoves
<1>6. k.at = "finish" /\ k.d = d /\ k.value = "EXECUTED" /\ k.route = call[c].route
  BY <1>2, <1>3 DEF Call
<1> HIDE DEF k
<1>7. call'[c] = k /\ call' \in [Caller -> Call]
  BY <1>5, MovesCalls DEF RInv
<1>8. /\ rows' \in [Decision -> MStatus \cup {"none"}] /\ lost' \in Nat
      /\ lost' = 0 => lost = 0
      /\ \A e \in Decision \ {d} : rows'[e] = rows[e]
      /\ rows'[d] \in {rows[d], "EXECUTED"}
      /\ rows[d] # "none" => rows'[d] # "none"
  BY <1>1, <1>4, SaveWrites
<1>9. Typed'
  BY <1>1, <1>7, <1>8 DEF RInv, Typed
<1>10. CallerInv(c)'
  BY <1>1, <1>2, <1>3, <1>6, <1>7, <1>8 DEF CallerInv, Before
<1>11. DecisionInv(d)'
  BY <1>1, <1>2, <1>3, <1>8 DEF DecisionInv
<1>12. HasActed(c, d)'
  BY <1>6, <1>7 DEF HasActed
<1>13. k.at \in Leading /\ call[c].at \in Leading /\ rows'[d] # "UNKNOWN"
  BY <1>1, <1>3, <1>6, <1>8 DEF Leading
<1> QED  BY <1>1, <1>2, <1>5, <1>6, <1>8, <1>9, <1>10, <1>11, <1>12, <1>13, LeadKeeps

(* The leader leaves, with the answer for those who wait.                  *)
LEMMA FinishKeeps ==
  ASSUME RInv, NEW c \in Caller, Finish(c)
  PROVE  RInv'
<1> SUFFICES ASSUME NEW d \in Decision, d = call[c].d PROVE RInv'
  BY DEF RInv, Typed, Call
<1> DEFINE v == call[c].value
           Ends(b) == b = c \/ (call[b].at = "wait" /\ call[b].d = d)
<1>1. /\ UNCHANGED <<rows, approval, overdue, cooling, restarts, lost, acted>>
      /\ call[c].at = "finish"
      /\ history' = IF v = "EXECUTED" THEN [history EXCEPT ![d] = "EXECUTED"] ELSE history
      /\ flight' = [flight EXCEPT ![d] = FALSE]
      /\ call' = [b \in Caller |-> IF Ends(b) THEN Idle ELSE call[b]]
      /\ answered' = [answered EXCEPT ![d] = @ \cup {v}]
  BY DEF Finish, tables, counts
<1>2. v \in MStatus \cup {"none"} /\ CallerInv(c) /\ (v = "EXECUTED" => acted[d] > 0)
  BY DEF RInv, Typed, Call, CallerInv
<1> HIDE DEF v
<1>3. \A b \in Caller : call'[b] = IF Ends(b) THEN Idle ELSE call[b]
  BY <1>1
<1>4. Typed'
  <2>1. call' \in [Caller -> Call]
    BY <1>1, IdleIsCall DEF RInv, Typed
  <2> QED  BY <1>1, <1>2, <2>1 DEF RInv, Typed, MStatus
<1>5. OneLeader'
  <2>1. \A b \in Caller, e \in Decision : Leads(b, e)' <=> Leads(b, e) /\ b # c
    BY <1>3, IdleIsCall DEF Leads, Leading
  <2>2. \A b \in Caller : Leads(b, d) <=> b = c
    BY <1>1 DEF RInv, OneLeader, Leads, Leading
  <2>3. \A e \in Decision : (\E b \in Caller : Leads(b, e)') <=> (e # d /\ \E b \in Caller : Leads(b, e))
    <3>1. \A e \in Decision : Leads(c, e) <=> e = d
      BY <1>1 DEF Leads, Leading
    <3> QED  BY <2>1, <2>2, <3>1
  <2>4. /\ flight = [e \in Decision |-> \E b \in Caller : Leads(b, e)]
        /\ \A a, b \in Caller : \A e \in Decision : Leads(a, e) /\ Leads(b, e) => a = b
    BY DEF RInv, OneLeader
  <2>5. flight' = [e \in Decision |-> e # d /\ \E b \in Caller : Leads(b, e)]
    BY <1>1, <2>4
  <2>6. flight' = [e \in Decision |-> \E b \in Caller : Leads(b, e)']
    BY <2>3, <2>5, Zenon
  <2>7. \A a, b \in Caller : \A e \in Decision : Leads(a, e)' /\ Leads(b, e)' => a = b
    BY <2>1, <2>4
  <2> QED  BY <2>6, <2>7 DEF OneLeader
<1>6. ASSUME NEW e \in Decision PROVE DecisionInv(e)'
  <2>1. DecisionInv(e)
    BY DEF RInv
  <2> QED  BY <1>1, <1>2, <2>1 DEF DecisionInv, RInv, Typed
<1>7. ASSUME NEW b \in Caller PROVE CallerInv(b)'
  <2>1. CASE Ends(b)
    BY <1>3, <2>1, IdleInv
  <2>2. CASE ~Ends(b)
    <3>1. call'[b] = call[b] /\ CallerInv(b) /\ call[b].d \in Decision
      BY <1>3, <2>2 DEF RInv, Typed, Call
    <3>2. history'[call[b].d] = "none" => history[call[b].d] = "none"
      BY <1>1, <3>1 DEF RInv, Typed
    <3>3. history'[call[b].d] = "none" =>
            \A a \in Caller : HasActed(a, call[b].d) => HasActed(a, call[b].d)'
      <4>1. SUFFICES ASSUME history'[call[b].d] = "none", NEW a \in Caller, HasActed(a, call[b].d)
                     PROVE  HasActed(a, call[b].d)'
        BY <3>1 DEF HasActed
      <4>2. CASE a = c
        BY <1>1, <3>1, <4>1, <4>2 DEF HasActed, v, RInv, Typed
      <4>3. CASE a # c
        BY <1>3, <3>1, <4>1, <4>3 DEF HasActed
      <4> QED  BY <4>2, <4>3
    <3> QED  BY <1>1, <3>1, <3>2, <3>3 DEF CallerInv, HasActed
  <2> QED  BY <2>1, <2>2
<1> QED  BY <1>4, <1>5, <1>6, <1>7 DEF RInv

-----------------------------------------------------------------------------
(* What happens outside of the executor never takes an approval back that  *)
(* was consumed.                                                           *)
LEMMA QuietKeeps ==
  ASSUME RInv, UNCHANGED <<rows, history, flight, call, restarts, lost, acted, answered>>,
         approval' \in [Decision -> AStatus \cup {"none"}],
         \A d \in Decision : approval[d] = "CONSUMED" => approval'[d] = "CONSUMED",
         overdue' \subseteq Gated, cooling' \in BOOLEAN
  PROVE  RInv'
<1>1. Typed'
  BY DEF RInv, Typed
<1>2. OneLeader'
  BY DEF RInv, OneLeader, Leads
<1>3. ASSUME NEW c \in Caller PROVE CallerInv(c)'
  <2>1. CallerInv(c) /\ call[c].d \in Decision
    BY DEF RInv, Typed, Call
  <2>2. \A b \in Caller, d \in Decision : HasActed(b, d)' <=> HasActed(b, d)
    BY DEF HasActed
  <2> QED  BY <2>1, <2>2 DEF CallerInv
<1>4. ASSUME NEW d \in Decision PROVE DecisionInv(d)'
  BY DEF RInv, DecisionInv
<1> QED  BY <1>1, <1>2, <1>3, <1>4 DEF RInv

LEMMA ApprovalsKeep ==
  ASSUME RInv, NEW d \in Gated,
         \/ RequestApproval(d) \/ ApproveApproval(d) \/ RejectApproval(d)
         \/ CancelApproval(d) \/ ExpireStaleApprovals(d)
  PROVE  RInv'
<1>1. UNCHANGED <<rows, overdue, history, flight, cooling, call, restarts, lost, acted, answered>>
  BY DEF RequestApproval, ApproveApproval, RejectApproval, CancelApproval,
         ExpireStaleApprovals, memory, counts
<1>2. PICK status \in AStatus :
        approval[d] # "CONSUMED" /\ approval' = [approval EXCEPT ![d] = status]
  BY DEF RequestApproval, ApproveApproval, RejectApproval, CancelApproval,
         ExpireStaleApprovals, ApprovalBecomes, AStatus
<1>3. approval \in [Decision -> AStatus \cup {"none"}] /\ d \in Decision
  BY DEF RInv, Typed, Decision
<1>4. /\ approval' \in [Decision -> AStatus \cup {"none"}]
      /\ \A e \in Decision : approval[e] = "CONSUMED" => approval'[e] = "CONSUMED"
  BY <1>2, <1>3
<1> QED  BY <1>1, <1>4, QuietKeeps DEF RInv, Typed

LEMMA ElapseKeeps ==
  ASSUME RInv, Elapse
  PROVE  RInv'
<1>1. UNCHANGED <<rows, approval, history, flight, call, restarts, lost, acted, answered>>
  BY DEF Elapse, tables, counts
<1>2. overdue' \subseteq Gated /\ cooling' \in BOOLEAN
  BY DEF Elapse, RInv, Typed
<1> QED  BY <1>1, <1>2, QuietKeeps DEF RInv, Typed

LEMMA StutterKeeps ==
  ASSUME RInv, UNCHANGED vars
  PROVE  RInv'
BY QuietKeeps DEF vars, tables, memory, counts, RInv, Typed

(* The start after a crash: no call is left, and every action a call had   *)
(* begun has a row that says so.                                           *)
LEMMA CrashKeeps ==
  ASSUME RInv, CrashAndRestart
  PROVE  RInv'
<1>1. /\ UNCHANGED <<approval, overdue, lost, acted, answered>>
      /\ rows' = Recover /\ restarts' = restarts + 1 /\ cooling' = FALSE
      /\ history' = [d \in Decision |-> "none"] /\ flight' = [d \in Decision |-> FALSE]
      /\ call' = [c \in Caller |-> Idle]
  BY DEF CrashAndRestart
<1>2. Typed'
  <2>1. rows' \in [Decision -> MStatus \cup {"none"}]
    BY <1>1 DEF RInv, Typed, Recover, MStatus
  <2>2. call' \in [Caller -> Call] /\ restarts' \in Nat
    BY <1>1, IdleIsCall DEF RInv, Typed
  <2> QED  BY <1>1, <2>1, <2>2 DEF RInv, Typed
<1>3. OneLeader'
  <2>1. \A c \in Caller, d \in Decision : ~Leads(c, d)'
    BY <1>1, IdleIsCall DEF Leads, Leading
  <2>2. \A d \in Decision : (\E c \in Caller : Leads(c, d)') = FALSE
    BY <2>1
  <2>3. flight' = [d \in Decision |-> \E c \in Caller : Leads(c, d)']
    BY <1>1, <2>2
  <2> QED  BY <2>1, <2>3 DEF OneLeader
<1>4. \A c \in Caller : CallerInv(c)'
  BY <1>1, IdleInv
<1>5. ASSUME NEW d \in Decision PROVE DecisionInv(d)'
  <2>1. DecisionInv(d)
    BY DEF RInv
  <2>2. /\ rows'[d] = "EXECUTED" => rows[d] = "EXECUTED"
        /\ rows[d] # "none" => rows'[d] # "none"
    BY <1>1 DEF Recover
  <2>3. history'[d] = "none"
    BY <1>1
  <2> QED  BY <1>1, <2>1, <2>2, <2>3 DEF DecisionInv
<1> QED  BY <1>2, <1>3, <1>4, <1>5 DEF RInv

LEMMA RStep == RInv /\ [Next]_vars => RInv'
<1> SUFFICES ASSUME RInv, [Next]_vars PROVE RInv'
  OBVIOUS
<1>1. ASSUME NEW c \in Caller, NEW d \in Decision, NEW route \in Route, Begin(c, d, route)
      PROVE  RInv'
  BY <1>1, BeginKeeps
<1>2. ASSUME NEW c \in Caller, CallStep(c)
      PROVE  RInv'
  BY <1>2, LookupKeeps, CacheKeeps, FindApprovalKeeps, ClaimKeeps, GiveUpKeeps,
     ValidateKeeps, CheckKeeps, ConsumeKeeps, RecordKeeps, ExecuteKeeps, MarkKeeps,
     FinishKeeps DEF CallStep
<1> QED  BY <1>1, <1>2, ApprovalsKeep, ElapseKeeps, CrashKeeps, StutterKeeps DEF Next

LEMMA RInvariant == Spec => []RInv
BY RInit, RStep, PTL DEF Spec

-----------------------------------------------------------------------------
(* The executor's maps and tables are well formed, and the map inFlight    *)
(* holds exactly the decisions that one leading call of Execute,           *)
(* ExecuteValidated or ExecuteWithApproval works on.                       *)
THEOREM ResponseTypeTheorem == Spec => []ResponseTypeOK
<1>1. RInv => ResponseTypeOK
  <2> SUFFICES ASSUME RInv PROVE ResponseTypeOK
    OBVIOUS
  <2>1. flight = [d \in Decision |-> \E c \in Caller : call[c].at \in Leading /\ call[c].d = d]
    BY DEF RInv, OneLeader, Leads
  <2>2. \A b, c \in Caller :
          call[b].at \in Leading /\ call[c].at \in Leading /\ call[b].d = call[c].d => b = c
    BY DEF RInv, OneLeader, Leads, Typed, Call
  <2> QED  BY <2>1, <2>2 DEF ResponseTypeOK, RInv, Typed, Call
<1> QED  BY <1>1, RInvariant, PTL

(* While no write of mitigation_records was lost, executeSimulation runs   *)
(* once for a decision, with a row, for any number of goroutines and of    *)
(* crashes; and EXECUTED is answered, recorded or remembered only for a    *)
(* decision it ran for.                                                    *)
THEOREM ActuatedOnceTheorem == Spec => []ActuatedOnce
<1>1. RInv => ActuatedOnce
  BY DEF RInv, DecisionInv, ActuatedOnce
<1> QED  BY <1>1, RInvariant, PTL

(* ConsumeApproval before executeSimulation: an approval is good for one   *)
(* action, whatever is lost, withdrawn, overdue or crashes meanwhile.      *)
THEOREM ApprovalTheorem == Spec => []ApprovalSpentOnce
<1>1. RInv => ApprovalSpentOnce
  BY DEF RInv, DecisionInv, ApprovalSpentOnce, Decision
<1> QED  BY <1>1, RInvariant, PTL

(* A step that leaves the rows and the actions alone confirms nothing.     *)
LEMMA UnconfirmedStep ==
  ASSUME RInv, [Next]_vars, NEW d \in Decision, rows[d] = "UNKNOWN"
  PROVE  rows'[d] = "UNKNOWN" /\ acted'[d] = acted[d]
<1> DEFINE Kept == rows' = rows /\ acted' = acted
<1>1. ASSUME NEW c \in Caller, NEW e \in Decision, NEW route \in Route, Begin(c, e, route)
      PROVE  Kept
  BY <1>1 DEF Begin, tables
<1>2. ASSUME NEW c \in Caller, CallStep(c)
      PROVE  rows'[d] = "UNKNOWN" /\ acted'[d] = acted[d]
  <2>1. CASE RecordRefusal(c) \/ RecordExecuting(c) \/ MarkExecuted(c)
    <3>1. PICK s \in MStatus \ {"UNKNOWN"} :
            /\ Save(Inserted(call[c].d, s)) \/ Save(Updated(call[c].d, s))
            /\ UNCHANGED acted
      <4>1. CASE RecordRefusal(c)
        <5>1. call[c].value \in MStatus \ {"UNKNOWN"}
          BY <4>1 DEF RecordRefusal, RInv, CallerInv, MStatus
        <5> QED  BY <4>1, <5>1 DEF RecordRefusal
      <4>2. CASE RecordExecuting(c)
        BY <4>2 DEF RecordExecuting, MStatus
      <4>3. CASE MarkExecuted(c)
        BY <4>3 DEF MarkExecuted, MStatus
      <4> QED  BY <2>1, <4>1, <4>2, <4>3
    <3>2. call[c].d \in Decision
      BY DEF RInv, Typed, Call
    <3>3. /\ \A e \in Decision \ {call[c].d} : rows'[e] = rows[e]
          /\ rows[call[c].d] = "UNKNOWN" => rows'[call[c].d] = "UNKNOWN"
      BY <3>1, <3>2, SaveWrites
    <3> QED  BY <3>1, <3>3
  <2>2. CASE ExecuteSimulation(c)
    <3>1. call[c].at = "act" /\ UNCHANGED rows
      BY <2>2 DEF ExecuteSimulation, tables
    <3>2. call[c].d # d
      BY <3>1 DEF RInv, CallerInv
    <3>3. acted' = [acted EXCEPT ![call[c].d] = @ + 1] \/ UNCHANGED acted
      BY <2>2 DEF ExecuteSimulation
    <3> QED  BY <3>1, <3>2, <3>3 DEF RInv, Typed
  <2>3. CASE \/ Lookup(c) \/ Cache(c) \/ FindApproval(c) \/ Claim(c) \/ GiveUp(c)
             \/ Validate(c) \/ Check(c) \/ ConsumeApproval(c) \/ Finish(c)
    BY <2>3 DEF Lookup, Cache, FindApproval, Claim, GiveUp, Validate, Check,
                ConsumeApproval, Finish, tables
  <2> QED  BY <1>2, <2>1, <2>2, <2>3 DEF CallStep
<1>3. ASSUME NEW e \in Gated,
             \/ RequestApproval(e) \/ ApproveApproval(e) \/ RejectApproval(e)
             \/ CancelApproval(e) \/ ExpireStaleApprovals(e)
      PROVE  Kept
  BY <1>3 DEF RequestApproval, ApproveApproval, RejectApproval, CancelApproval,
              ExpireStaleApprovals
<1>4. CASE CrashAndRestart
  BY <1>4 DEF CrashAndRestart, Recover
<1>5. CASE Elapse \/ UNCHANGED vars
  BY <1>5 DEF Elapse, vars, tables
<1> QED  BY <1>1, <1>2, <1>3, <1>4, <1>5 DEF Next

(* RecoverInFlightMitigations leaves UNKNOWN what a crash interrupted, and *)
(* neither a call of the executor nor another start ever dispatches that   *)
(* action again or gives its row another status.                           *)
THEOREM UnconfirmedTheorem == Spec => UnconfirmedNeverRepeated
<1>1. RInv /\ [Next]_vars =>
        [\A d \in Decision :
           rows[d] = "UNKNOWN" => rows'[d] = "UNKNOWN" /\ acted'[d] = acted[d]]_vars
  BY UnconfirmedStep
<1> QED  BY <1>1, RInvariant, PTL DEF Spec, UnconfirmedNeverRepeated

=============================================================================
