---------------------------- MODULE NodeRegistry ----------------------------
(***************************************************************************)
(* One edge node and the control plane's registry of it: the edge's        *)
(* coordinator (edge/agent/coordination), the requests in flight, the      *)
(* handlers of server/server.go and the row of cp_nodes they keep beside   *)
(* the server's map of nodes.                                              *)
(*                                                                         *)
(* A handler holds the node's lock, commits to the database, and then      *)
(* brings the map up to date: a job is a handler between the two.  A       *)
(* request may be lost, or be handled after its caller has given up, after *)
(* later ones, or after the edge has restarted.  A restart of the server   *)
(* reads the database again, which is gone if it was in memory (the        *)
(* default).  Both sides use the one clock; a replay of a quarantined      *)
(* batch writes the database only.                                         *)
(*                                                                         *)
(* An incarnation of the edge stands for the attributes it registers; the  *)
(* edge sends no MetadataVersion.  Backoff only delays the next attempt,   *)
(* which may come at any time here.  Authentication, metrics, audit events *)
(* and failures of the database (for the edge, a lost request) are left    *)
(* out.                                                                    *)
(***************************************************************************)
EXTENDS Integers, FiniteSets

CONSTANTS
  Batch,             \* sequence numbers of the node's batches
  MaxBeats,          \* bound: heartbeat numbers; the last one repeats
  MaxTime,           \* bound: the clock
  MaxEdgeRestarts,   \* bound: restarts of the edge
  MaxServerRestarts, \* bound: restarts of the control plane
  MaxLost,           \* bound: requests and answers lost, early timeouts
  Health             \* what a heartbeat may report

ASSUME RegistryAssumption ==
  /\ Batch \subseteq Nat \ {0}
  /\ {MaxBeats, MaxTime, MaxEdgeRestarts, MaxServerRestarts, MaxLost} \subseteq Nat
  /\ "healthy" \in Health

VARIABLES
  edge,      \* the coordinator: registered, state, seqNumber, incarnation
  call,      \* the request it waits for, or NoCall
  answer,    \* what came back for it: none, ok, missing (404)
  requests,  \* requests sent and not handled
  jobs,      \* handlers past their transaction
  db, mem,   \* the node's row, and its record in the map
  ingested,  \* batches in the database
  replayed,  \* history: a replay since the server's start
  now, serverRestarts, lost

edgeVars == <<edge, call, answer>>
counts == <<now, serverRestarts, lost>>
vars == <<edgeVars, requests, jobs, db, mem, ingested, replayed, counts>>

State == {"DISCONNECTED", "CONNECTING", "CONNECTED", "DEGRADED", "STOPPING"}
Time == 0 .. MaxTime
Request == [kind : {"register", "heartbeat"}, at : Time, seq : 0 .. MaxBeats,
            status : Health, incarnation : 0 .. MaxEdgeRestarts]
NoCall == [kind |-> "none"]

(* Of a row: statusAt (history) is the timestamp of the heartbeat that set *)
(* its status; metaAt is metadata_updated_at.                              *)
Row == [known : BOOLEAN, lastSeen : Time, status : Health, statusAt : Time,
        seq : Batch \cup {0}, hbSeq : 0 .. MaxBeats,
        incarnation : 0 .. MaxEdgeRestarts, metaAt : Time]
NoRow == [known |-> FALSE, lastSeen |-> 0, status |-> "healthy", statusAt |-> 0,
          seq |-> 0, hbSeq |-> 0, incarnation |-> 0, metaAt |-> 0]

Started(incarnation) ==
  [registered |-> FALSE, state |-> "DISCONNECTED", seq |-> 0,
   incarnation |-> incarnation, stopping |-> FALSE]

Init ==
  /\ edge = Started(0) /\ call = NoCall /\ answer = "none"
  /\ requests = {} /\ jobs = {}
  /\ db = NoRow /\ mem = NoRow /\ ingested = {} /\ replayed = FALSE
  /\ now = 0 /\ serverRestarts = 0 /\ lost = 0

-----------------------------------------------------------------------------
(* The coordinator.                                                        *)
Send(request) == call' = request /\ answer' = "none" /\ requests' = requests \cup {request}

Registration == [kind |-> "register", at |-> now, seq |-> 0,
                 status |-> "healthy", incarnation |-> edge.incarnation]

(* attemptRegistration, up to the request: at the start, and whenever the  *)
(* timer finds the node unregistered.                                      *)
AttemptRegistration ==
  /\ call = NoCall /\ ~edge.stopping /\ ~edge.registered
  /\ edge' = [edge EXCEPT !.state = "CONNECTING"]
  /\ Send(Registration)
  /\ UNCHANGED <<jobs, db, mem, ingested, replayed, counts>>

(* sendHeartbeat, up to the request; the node's health is read here.       *)
SendHeartbeat ==
  /\ call = NoCall /\ ~edge.stopping /\ edge.registered
  /\ LET seq == IF edge.seq < MaxBeats THEN edge.seq + 1 ELSE edge.seq IN
     /\ edge' = [edge EXCEPT !.seq = seq]
     /\ \E status \in Health :
          Send([kind |-> "heartbeat", at |-> now, seq |-> seq,
                status |-> status, incarnation |-> edge.incarnation])
  /\ UNCHANGED <<jobs, db, mem, ingested, replayed, counts>>

Succeeds ==
  /\ call # NoCall /\ answer = "ok"
  /\ edge' = [edge EXCEPT !.registered = TRUE, !.state = "CONNECTED"]
  /\ call' = NoCall /\ answer' = "none"
  /\ UNCHANGED <<requests, jobs, db, mem, ingested, replayed, counts>>

(* Variant: an unknown node is a failure like the others.                  *)
NotFoundIgnored ==
  /\ call # NoCall /\ answer = "missing"
  /\ edge' = [edge EXCEPT !.state = "DEGRADED"]
  /\ call' = NoCall /\ answer' = "none"
  /\ UNCHANGED <<requests, jobs, db, mem, ingested, replayed, counts>>

(* ErrNodeNotFound: registration follows at once, without the timer; its   *)
(* request is not sent any more once the coordinator is being stopped.     *)
NotFound ==
  /\ call # NoCall /\ answer = "missing"
  /\ edge' = [edge EXCEPT !.registered = FALSE, !.state = "CONNECTING"]
  /\ IF edge.stopping
     THEN call' = Registration /\ answer' = "none" /\ UNCHANGED requests
     ELSE Send(Registration)
  /\ UNCHANGED <<jobs, db, mem, ingested, replayed, counts>>

(* The call times out, or Stop cancels it; scheduleReconnect.              *)
Fails ==
  /\ call # NoCall /\ answer = "none"
  /\ \/ call \notin requests /\ (\A j \in jobs : j.request # call) /\ UNCHANGED lost
     \/ edge.stopping /\ UNCHANGED lost
     \/ lost < MaxLost /\ lost' = lost + 1
  /\ edge' = [edge EXCEPT !.state = "DEGRADED"]
  /\ call' = NoCall
  /\ UNCHANGED <<answer, requests, jobs, db, mem, ingested, replayed, now, serverRestarts>>

(* Stop, during a call or between two.                                     *)
Stop ==
  /\ ~edge.stopping /\ edge.incarnation < MaxEdgeRestarts
  /\ edge' = [edge EXCEPT !.stopping = TRUE, !.state = "STOPPING"]
  /\ UNCHANGED <<call, answer, requests, jobs, db, mem, ingested, replayed, counts>>

(* A new process, after a stop or a crash, later than the old one.         *)
EdgeRestart ==
  /\ edge.incarnation < MaxEdgeRestarts /\ now < MaxTime
  /\ edge' = Started(edge.incarnation + 1)
  /\ call' = NoCall /\ answer' = "none"
  /\ now' = now + 1
  /\ UNCHANGED <<requests, jobs, db, mem, ingested, replayed, serverRestarts, lost>>

-----------------------------------------------------------------------------
(* RegisterNode, on one row: what a first registration makes, and how it   *)
(* is merged into what is there.  The handler merges the record that the   *)
(* transaction leaves into the map by the same rule.                       *)
Later(a, b) == IF a > b THEN a ELSE b

Enrolled(request) ==
  [NoRow EXCEPT !.known = TRUE, !.lastSeen = request.at, !.metaAt = request.at,
                !.incarnation = request.incarnation]

(* Variant: the registration that comes last is taken.                     *)
AdvancesAlways(row, record) == TRUE

Advances(row, record) == record.metaAt >= row.metaAt

Merged(row, record) ==
  LET kept == [row EXCEPT !.lastSeen = Later(@, record.lastSeen),
                          !.seq = Later(@, record.seq), !.hbSeq = Later(@, record.hbSeq)]
  IN IF Advances(row, record)
     THEN [kept EXCEPT !.metaAt = record.metaAt, !.incarnation = record.incarnation]
     ELSE kept

Registered(row, request) ==
  IF row.known THEN Merged(row, Enrolled(request)) ELSE Enrolled(request)

(* The order of heartbeats, the same in UpdateNodeHeartbeat and in the map.*)
Newer(row, request) ==
  \/ request.at > row.lastSeen
  \/ request.at = row.lastSeen /\ request.seq >= row.hbSeq

Beaten(row, request) ==
  LET beat == [row EXCEPT !.hbSeq = Later(@, request.seq)] IN
  IF Newer(row, request)
  THEN [beat EXCEPT !.lastSeen = request.at, !.status = request.status, !.statusAt = request.at]
  ELSE beat

(* The activity of a batch; nothing is made up for an unknown node.        *)
Active(row, batch, at) ==
  IF row.known THEN [row EXCEPT !.lastSeen = Later(@, at), !.seq = Later(@, batch)] ELSE row

(* The record a heartbeat would make in a map that has none.               *)
FromHeartbeat(request) ==
  Beaten([NoRow EXCEPT !.known = TRUE, !.lastSeen = request.at], request)

-----------------------------------------------------------------------------
(* Variant: handlers of the same node do not wait for each other.          *)
Unlocked == Cardinality(jobs) < 2

LockFree == jobs = {}

(* The first half of handleNodeRegister and handleNodeHeartbeat.  What     *)
(* happens to the map is decided by the request and by isNew.              *)
HandleRegister(request) ==
  /\ LockFree
  /\ request.kind = "register"
  /\ db' = Registered(db, request)
  /\ jobs' = jobs \cup {[kind |-> "register", request |-> request, isNew |-> ~db.known,
                         record |-> db']}
  /\ requests' = requests \ {request}
  /\ UNCHANGED <<edgeVars, mem, ingested, replayed, counts>>

HandleHeartbeat(request) ==
  /\ LockFree
  /\ request.kind = "heartbeat"
  /\ requests' = requests \ {request}
  /\ IF db.known
     THEN /\ db' = Beaten(db, request)
          /\ jobs' = jobs \cup {[kind |-> "heartbeat", request |-> request]}
          /\ UNCHANGED answer
     ELSE /\ answer' = IF call = request THEN "missing" ELSE answer
          /\ UNCHANGED <<db, jobs>>
  /\ UNCHANGED <<edge, call, mem, ingested, replayed, counts>>

(* handleIngestBatch and IngestBatch, a batch that is new.                 *)
Ingest(batch) ==
  /\ LockFree
  /\ batch \notin ingested /\ ingested' = ingested \cup {batch}
  /\ db' = Active(db, batch, now)
  /\ jobs' = jobs \cup {[kind |-> "batch", request |-> NoCall, batch |-> batch, at |-> now]}
  /\ UNCHANGED <<edgeVars, requests, mem, replayed, counts>>

(* handleReplayQuarantine: the map is not told.                            *)
Replay(batch) ==
  /\ LockFree
  /\ batch \notin ingested /\ ingested' = ingested \cup {batch}
  /\ db' = Active(db, batch, now)
  /\ replayed' = TRUE
  /\ UNCHANGED <<edgeVars, requests, jobs, mem, counts>>

(* What a job leaves in the map.                                           *)
Reconciled(job) ==
  CASE job.kind = "register" ->
         IF job.isNew \/ ~mem.known THEN job.record ELSE Merged(mem, job.record)
    [] job.kind = "heartbeat" ->
         IF mem.known THEN Beaten(mem, job.request) ELSE FromHeartbeat(job.request)
    [] job.kind = "batch" -> Active(mem, job.batch, job.at)

(* The second half of a handler, the answer, and the release of the lock.  *)
Reconcile(job) ==
  /\ mem' = Reconciled(job)
  /\ jobs' = jobs \ {job}
  /\ answer' = IF call # NoCall /\ job.request = call THEN "ok" ELSE answer
  /\ UNCHANGED <<edge, call, requests, db, ingested, replayed, counts>>

(* A restart; with a database in memory, all is forgotten.                 *)
ServerRestart ==
  /\ serverRestarts < MaxServerRestarts /\ serverRestarts' = serverRestarts + 1
  /\ jobs' = {} /\ replayed' = FALSE
  /\ \/ UNCHANGED <<db, ingested>>
     \/ db' = NoRow /\ ingested' = {}
  /\ mem' = db'
  /\ UNCHANGED <<edgeVars, requests, now, lost>>

Lose ==
  /\ lost < MaxLost /\ lost' = lost + 1
  /\ \/ \E request \in requests : requests' = requests \ {request} /\ UNCHANGED answer
     \/ answer # "none" /\ answer' = "none" /\ UNCHANGED requests
  /\ UNCHANGED <<edge, call, jobs, db, mem, ingested, replayed, now, serverRestarts>>

Tick ==
  /\ now < MaxTime /\ now' = now + 1
  /\ UNCHANGED <<edgeVars, requests, jobs, db, mem, ingested, replayed, serverRestarts, lost>>

Coordinate ==
  AttemptRegistration \/ SendHeartbeat \/ Succeeds \/ NotFound \/ Fails

Serve ==
  \/ \E request \in requests : HandleRegister(request) \/ HandleHeartbeat(request)
  \/ \E job \in jobs : Reconcile(job)

Next ==
  \/ Coordinate \/ Stop \/ EdgeRestart
  \/ Serve \/ ServerRestart
  \/ \E batch \in Batch : Ingest(batch) \/ Replay(batch)
  \/ Lose \/ Tick

(* The coordinator's loop goes on (its timer fires, a call ends), and the  *)
(* server handles the requests it has.                                     *)
Fairness == WF_vars(Coordinate) /\ WF_vars(Serve)

Spec == Init /\ [][Next]_vars /\ Fairness

-----------------------------------------------------------------------------
(* The state is well formed, and the row is consistent: a status was set   *)
(* by a heartbeat not after lastSeen, and the node is not known by a       *)
(* record that no registration made (the synthetic record of               *)
(* handleNodeHeartbeat is never needed).                                   *)
RegistryTypeOK ==
  /\ edge.state \in State /\ edge.seq \in 0 .. MaxBeats
  /\ call \in Request \cup {NoCall} /\ answer \in {"none", "ok", "missing"}
  /\ requests \subseteq Request
  /\ db \in Row /\ mem \in Row
  /\ db.statusAt <= db.lastSeen /\ db.metaAt <= db.lastSeen
  /\ mem.known => db.known
  /\ \A job \in jobs : job.kind = "heartbeat" => mem.known

(* When no handler is at work on the node, and no batch was replayed since *)
(* the start, listings say what the database says.  After a replay they do *)
(* not: see Replay.                                                        *)
RegistryMirrorsDatabase == jobs = {} /\ ~replayed => mem = db

(* While the node is known, nothing its row or its record tells goes back, *)
(* whatever requests come late and also when the server is restarted or a  *)
(* batch was replayed: liveness, both counters, and the process whose      *)
(* attributes are shown.  The age of the status is compared in the row     *)
(* only: after a replay the record may show a later one than the row.      *)
NothingRegresses ==
  [][/\ db.known /\ db'.known =>
          /\ db'.lastSeen >= db.lastSeen /\ db'.statusAt >= db.statusAt
          /\ db'.seq >= db.seq /\ db'.hbSeq >= db.hbSeq
          /\ db'.incarnation >= db.incarnation
     /\ mem.known /\ db'.known =>
          /\ mem'.lastSeen >= mem.lastSeen /\ mem'.seq >= mem.seq
          /\ mem'.hbSeq >= mem.hbSeq /\ mem'.incarnation >= mem.incarnation]_vars

(* Whatever is lost and whoever restarts, a node that runs is registered   *)
(* and connected in the end, also with a server that has forgotten it.     *)
NodeReturns == <>[](edge.stopping \/ (edge.state = "CONNECTED" /\ db.known))

=============================================================================
