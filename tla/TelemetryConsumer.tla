------------------------- MODULE TelemetryConsumer -------------------------
(***************************************************************************)
(* The control plane's NATS consumer (nats/consumer.go) over its store,    *)
(* with the JetStream stream and durable consumer it reads from.           *)
(*                                                                         *)
(* Three goroutines of the consumer work on the same messages: the consume *)
(* loop, the recovery worker and the callback of the core advisory         *)
(* subscription.  Each handler is split where it leaves the process: at a  *)
(* store transaction, a read of the stream and an acknowledgement.  HTTP   *)
(* ingestion, the operator's replay and discard requests and the retention *)
(* passes run beside them.                                                 *)
(***************************************************************************)
EXTENDS ControlPlaneStore, Sequences

CONSTANTS
  Incomplete,      \* the junk whose batch id only the pending pass derives
  MaxDeliver,      \* ConsumerConfig.MaxDeliver
  FetchBatch,      \* messages of one Fetch
  MaxStream,       \* bound: messages published
  MaxStoreFaults,  \* bound: failed store calls
  MaxReadFaults,   \* bound: failed reads of the stream
  MaxRequests,     \* bound: operator requests in progress
  RetentionRuns,   \* whether rows ever get old enough for a retention pass
  MaxRestarts      \* bound: stops and crashes of the control plane

ASSUME ConsumerAssumption ==
  /\ Incomplete \subseteq Junk
  /\ MaxDeliver \in Nat \ {0}
  /\ FetchBatch \in Nat \ {0}
  /\ MaxStream \in Nat
  /\ Key = 1 .. MaxStream     \* DeriveDeduplicationKey: stream:<name>:<seq>
  /\ {MaxStoreFaults, MaxReadFaults, MaxRestarts, MaxRequests} \subseteq Nat
  /\ RetentionRuns \in BOOLEAN

VARIABLES
  stream,       \* the published messages, in stream order
  deliveries,   \* NumDelivered of each stream sequence
  broker,       \* the durable consumer's state of each stream sequence
  advisory,     \* the max-deliveries advisory of each sequence in its stream
  notice,       \* core advisory notifications on their way to the subscriber
  fetched,      \* copies fetched and not yet looked at
  loop,         \* the consume loop: [pc, seq, count]
  exhausted,    \* exhaustedSeqs
  pending,      \* pendingExhausted: what each item carries
  scanRetries,  \* pendingScanRetries: sequences a scan failed on
  phase,        \* the pass the recovery worker is in
  todo,         \* the items left in that pass
  recover,      \* the handler run by the worker and by the subscriber
  requests,     \* operator requests past their status check
  storeFaults, readFaults, restarts

brokerVars == <<stream, deliveries, broker, advisory>>
recoveryVars == <<exhausted, pending, scanRetries, phase, todo, recover, notice>>
faultVars == <<storeFaults, readFaults, restarts>>
vars == <<storeVars, brokerVars, fetched, loop, recoveryVars, requests, faultVars>>

Message == {m \in [body : Batch \cup Junk, claim : Identity] :
              m.body \in Batch => m.claim = m.body}
Handler == {"worker", "subscriber"}

LoopIdle == [pc |-> "idle", seq |-> 0, count |-> 0]
RecoverIdle == [pc |-> "idle", seq |-> 0, id |-> NoBatch, payload |-> Empty]

Published == 1 .. Len(stream)
Body(s) == stream[s].body

(* The identity the consume loop and RecoverStreamSequence give a message. *)
IdentityOf(s) == IF Body(s) \in Incomplete THEN NoBatch ELSE stream[s].claim

StoreFault == storeFaults < MaxStoreFaults /\ storeFaults' = storeFaults + 1
ReadFault == readFaults < MaxReadFaults /\ readFaults' = readFaults + 1

VolatileInit ==
  /\ fetched = {}
  /\ loop = LoopIdle
  /\ exhausted = {}
  /\ pending = [s \in Key |-> "none"]
  /\ scanRetries = {}
  /\ phase = "scan"
  /\ todo = {}
  /\ recover = [p \in Handler |-> RecoverIdle]
  /\ notice = {}
  /\ requests = {}

Init ==
  /\ StoreInit
  /\ stream = <<>>
  /\ deliveries = [s \in Key |-> 0]
  /\ broker = [s \in Key |-> "none"]
  /\ advisory = [s \in Key |-> "none"]
  /\ VolatileInit
  /\ storeFaults = 0 /\ readFaults = 0 /\ restarts = 0

-----------------------------------------------------------------------------
(* JetStream: a message is ready to be delivered, out with an              *)
(* acknowledgement awaited, settled by an ack or a term, or dead once      *)
(* MaxDeliver deliveries were not acknowledged.                            *)

Publish(m) ==
  /\ Len(stream) < MaxStream
  /\ stream' = Append(stream, m)
  /\ broker' = [broker EXCEPT ![Len(stream) + 1] = "ready"]
  /\ UNCHANGED <<storeVars, deliveries, advisory, fetched, loop, recoveryVars,
                 requests, faultVars>>

AckWaitExpires(s) ==
  /\ broker[s] = "out"
  /\ broker' = [broker EXCEPT ![s] = "ready"]
  /\ UNCHANGED <<storeVars, stream, deliveries, advisory, fetched, loop, recoveryVars,
                 requests, faultVars>>

(* The broker gives up on s: the advisory is stored in the advisory stream *)
(* and sent to the core subscription, which may miss it.                   *)
MaxDeliverReached(s) ==
  /\ broker[s] = "ready"
  /\ deliveries[s] = MaxDeliver
  /\ broker' = [broker EXCEPT ![s] = "dead"]
  /\ advisory' = [advisory EXCEPT ![s] = "queued"]
  /\ notice' \in {notice, notice \cup {s}}
  /\ UNCHANGED <<storeVars, stream, deliveries, fetched, loop, exhausted, pending, scanRetries,
                 phase, todo, recover, requests, faultVars>>

(* The effect of an acknowledgement, which a copy of any delivery may send.*)
Acked(s) == IF broker[s] \in {"out", "ready"}
            THEN [broker EXCEPT ![s] = "settled"] ELSE broker
Naked(s) == IF broker[s] = "out" THEN [broker EXCEPT ![s] = "ready"] ELSE broker

-----------------------------------------------------------------------------
(* The consume loop.                                                       *)

Deliverable == {s \in Published : broker[s] = "ready" /\ deliveries[s] < MaxDeliver}

Fetch(S) ==
  /\ loop.pc = "idle" /\ fetched = {}
  /\ S # {} /\ S \subseteq Deliverable /\ Cardinality(S) <= FetchBatch
  /\ deliveries' = [s \in Key |-> IF s \in S THEN deliveries[s] + 1 ELSE deliveries[s]]
  /\ broker' = [s \in Key |-> IF s \in S THEN "out" ELSE broker[s]]
  /\ fetched' = {[seq |-> s, count |-> deliveries'[s]] : s \in S}
  /\ UNCHANGED <<storeVars, stream, advisory, loop, recoveryVars, requests, faultVars>>

ProcessMessage(c) ==
  /\ loop.pc = "idle"
  /\ c \in fetched
  /\ fetched' = fetched \ {c}
  /\ loop' = [pc |-> IF Body(c.seq) \in Batch THEN "ingest" ELSE "poison",
              seq |-> c.seq, count |-> c.count]
  /\ UNCHANGED <<storeVars, brokerVars, recoveryVars, requests, faultVars>>

Goto(pc) == loop' = [loop EXCEPT !.pc = pc]

(* IngestBatch: an accepted or duplicate batch is acknowledged; a conflict *)
(* with an active quarantine or a store error is transient, and at the     *)
(* delivery limit the message is to be quarantined.                        *)
IngestBatch ==
  /\ loop.pc = "ingest"
  /\ LET afterError == IF loop.count >= MaxDeliver THEN "exhausted" ELSE "nak" IN
     \/ /\ RecordBatch(Body(loop.seq))
        /\ Goto(IF BatchOutcome(Body(loop.seq), {}) = "conflict" THEN afterError ELSE "ack")
        /\ UNCHANGED storeFaults
     \/ /\ StoreFault
        /\ Goto(afterError)
        /\ UNCHANGED storeVars
  /\ UNCHANGED <<brokerVars, fetched, recoveryVars, requests, readFaults, restarts>>

EnqueueRecovery(s, kind) ==
  /\ exhausted' = exhausted \cup {s}
  /\ pending' = [pending EXCEPT ![s] = IF @ = "none" THEN kind ELSE @]

NoEnqueue == UNCHANGED <<exhausted, pending>>

(* recordQuarantine at the delivery limit, and handlePermanentFailure for  *)
(* a message no batch can be decoded from.                                 *)
QuarantineMessage ==
  /\ loop.pc \in {"exhausted", "poison"}
  /\ LET s == loop.seq
         outcome == QuarantineOutcome(s, IdentityOf(s), Body(s))
         poison == loop.pc = "poison" IN
     \/ /\ RecordQuarantine(s, IdentityOf(s), Body(s))
        /\ CASE outcome = "ingested" -> Goto("ack") /\ NoEnqueue
             [] outcome = "mismatch" ->
                  Goto("nak") /\ IF poison THEN NoEnqueue ELSE EnqueueRecovery(s, "full")
             [] OTHER -> Goto(IF poison THEN "term" ELSE "nak") /\ NoEnqueue
        /\ UNCHANGED storeFaults
     \/ /\ StoreFault
        /\ Goto("nak")
        /\ IF poison /\ loop.count < MaxDeliver THEN NoEnqueue
           ELSE EnqueueRecovery(s, "full")
        /\ UNCHANGED storeVars
  /\ UNCHANGED <<brokerVars, fetched, scanRetries, notice, phase, todo, recover,
                 requests, readFaults, restarts>>

(* Ack, Nak or Term; its error is ignored, so it may have no effect.       *)
Acknowledge ==
  /\ loop.pc \in {"ack", "nak", "term"}
  /\ broker' \in {broker, IF loop.pc = "nak" THEN Naked(loop.seq) ELSE Acked(loop.seq)}
  /\ loop' = LoopIdle
  /\ UNCHANGED <<storeVars, stream, deliveries, advisory, fetched, recoveryVars,
                 requests, faultVars>>

ConsumeLoop ==
  \/ \E S \in SUBSET Published : Fetch(S)
  \/ \E c \in fetched : ProcessMessage(c)
  \/ IngestBatch
  \/ QuarantineMessage
  \/ Acknowledge

-----------------------------------------------------------------------------
(* RecoverStreamSequence, run by the worker for an advisory or a scan and  *)
(* by the subscriber for a core notification.  Inspect is its first half:  *)
(* read the message from the stream, ask HasBatch, look for evidence of    *)
(* exhaustion; Record is its second half.  Between the two the message may *)
(* be ingested by the loop, or by HTTP.                                    *)

FromAdvisory(p) == p = "subscriber" \/ phase = "advisories"

(* Variant: every message the scan meets is taken for exhausted.           *)
EvidenceAssumed(p, s) == TRUE
Evidence(p, s) == FromAdvisory(p) \/ s \in exhausted

(* The handler when it is done with s: the worker acknowledges an advisory.*)
Done(p, s) == IF p = "worker" /\ phase = "advisories"
              THEN [RecoverIdle EXCEPT !.pc = "settle", !.seq = s]
              ELSE RecoverIdle

(* Variants: the advisory of a failed attempt is acknowledged, with the    *)
(* sequence on the list in memory or without.                              *)
GiveUpSettles(p, s) ==
  /\ IF FromAdvisory(p) THEN EnqueueRecovery(s, "hollow") ELSE NoEnqueue
  /\ UNCHANGED scanRetries
  /\ recover' = [recover EXCEPT ![p] = Done(p, s)]
GiveUpForgets(p, s) ==
  NoEnqueue /\ UNCHANGED scanRetries /\ recover' = [recover EXCEPT ![p] = Done(p, s)]

(* A transient error: an advisory is left in its stream and the sequence   *)
(* is put on the pending list without its data; a scan notes the sequence  *)
(* for the next one (and forgets it after more failures than occur here).  *)
GiveUp(p, s) ==
  /\ IF FromAdvisory(p)
     THEN EnqueueRecovery(s, "hollow") /\ UNCHANGED scanRetries
     ELSE NoEnqueue /\ scanRetries' = scanRetries \cup {s}
  /\ recover' = [recover EXCEPT ![p] = RecoverIdle]

ScanDone(p, s) ==
  scanRetries' = IF FromAdvisory(p) THEN scanRetries ELSE scanRetries \ {s}

InspectFails(p, s) ==
  /\ \/ ReadFault /\ UNCHANGED storeFaults
     \/ Body(s) \in Batch /\ StoreFault /\ UNCHANGED readFaults
  /\ GiveUp(p, s)

FoundIngested(p, s) ==
  /\ Body(s) \in ingested
  /\ pending' = IF FromAdvisory(p) THEN [pending EXCEPT ![s] = "none"] ELSE pending
  /\ recover' = [recover EXCEPT ![p] = Done(p, s)]
  /\ ScanDone(p, s)

InFlight(p, s) ==
  /\ Body(s) \in Batch \ ingested /\ ~Evidence(p, s)
  /\ recover' = [recover EXCEPT ![p] = RecoverIdle]
  /\ ScanDone(p, s)
  /\ UNCHANGED pending

ToBeRecorded(p, s) ==
  /\ Body(s) \notin ingested
  /\ Body(s) \in Batch => Evidence(p, s)
  /\ recover' = [recover EXCEPT ![p] =
        [pc |-> "record", seq |-> s, id |-> IdentityOf(s), payload |-> Body(s)]]
  /\ UNCHANGED <<pending, scanRetries>>

Inspect(p, s) ==
  \/ InspectFails(p, s)
  \/ /\ exhausted' = IF FromAdvisory(p) THEN exhausted \cup {s} ELSE exhausted
     /\ FoundIngested(p, s) \/ InFlight(p, s) \/ ToBeRecorded(p, s)
     /\ UNCHANGED <<storeFaults, readFaults>>

Record(p) ==
  /\ recover[p].pc = "record"
  /\ LET s == recover[p].seq
         outcome == QuarantineOutcome(s, recover[p].id, recover[p].payload) IN
     \/ /\ RecordQuarantine(s, recover[p].id, recover[p].payload)
        /\ pending' = IF \/ outcome \in {"inserted", "updated"}
                         \/ outcome = "ingested" /\ FromAdvisory(p)
                      THEN [pending EXCEPT ![s] = "none"] ELSE pending
        /\ recover' = [recover EXCEPT ![p] = Done(p, s)]
        /\ IF outcome = "mismatch" /\ ~FromAdvisory(p)
           THEN scanRetries' = scanRetries \cup {s} ELSE ScanDone(p, s)
        /\ UNCHANGED <<exhausted, storeFaults>>
     \/ StoreFault /\ GiveUp(p, s) /\ UNCHANGED storeVars
  /\ UNCHANGED <<brokerVars, fetched, loop, notice, phase, todo, requests,
                 readFaults, restarts>>

(* The worker repeats three passes: the advisories waiting in their        *)
(* stream, the items pending when the pass begins, and the sequences from  *)
(* the first unacknowledged one to the last delivered with those an        *)
(* earlier scan failed on.  The passes and the range of one scan are       *)
(* longer than the model's stream (MaxRecoveryBatch), and the back-off of  *)
(* an item only delays it.                                                 *)
AckPending == {s \in Published : /\ deliveries[s] > 0
                                 /\ broker[s] \in {"ready", "out", "dead"}}

PassItems(ph) ==
  CASE ph = "advisories" ->
         {[seq |-> s, data |-> "hollow"] : s \in {x \in Key : advisory[x] = "queued"}}
    [] ph = "pending" ->
         {[seq |-> s, data |-> pending[s]] : s \in {x \in Key : pending[x] # "none"}}
    [] ph = "scan" ->
         {[seq |-> s, data |-> "hollow"] :
            s \in scanRetries \cup
                  {x \in Published : /\ \E a \in AckPending : a <= x
                                    /\ \E d \in Published : x <= d /\ deliveries[d] > 0}}

NextPass == [advisories |-> "pending", pending |-> "scan", scan |-> "advisories"]

BeginPass ==
  /\ recover["worker"].pc = "idle" /\ todo = {}
  /\ phase' = NextPass[phase]
  /\ todo' = PassItems(phase')
  /\ UNCHANGED <<storeVars, brokerVars, fetched, loop, exhausted, pending, scanRetries,
                 recover, notice, requests, faultVars>>

Take(i) ==
  /\ recover["worker"].pc = "idle"
  /\ i \in todo
  /\ todo' = todo \ {i}

InspectItem(i) ==
  /\ phase # "pending"
  /\ Take(i)
  /\ Inspect("worker", i.seq)
  /\ UNCHANGED <<storeVars, brokerVars, fetched, loop, notice, phase, requests, restarts>>

(* processPendingRecoveryPass: an item without data or without identity is *)
(* completed from the stream; the error of that read is ignored.           *)
ReadPending(i) ==
  /\ phase = "pending"
  /\ Take(i)
  /\ LET s == i.seq
         partial == i.data = "hollow" \/ IdentityOf(s) = NoBatch
         known == IF i.data = "hollow" THEN [id |-> NoBatch, payload |-> Empty]
                  ELSE [id |-> IdentityOf(s), payload |-> Body(s)]
         item(id, payload) == [pc |-> "persist", seq |-> s, id |-> id, payload |-> payload] IN
     \/ /\ recover' = [recover EXCEPT !["worker"] =
                          IF partial THEN item(stream[s].claim, Body(s))
                          ELSE item(known.id, known.payload)]
        /\ UNCHANGED readFaults
     \/ /\ partial /\ ReadFault
        /\ recover' = [recover EXCEPT !["worker"] = item(known.id, known.payload)]
  /\ UNCHANGED <<storeVars, brokerVars, fetched, loop, exhausted, pending, scanRetries,
                 phase, notice, requests, storeFaults, restarts>>

(* Written, already ingested or in conflict with another payload: the item *)
(* is dropped.  Any other error keeps it.                                  *)
PersistPending ==
  /\ recover["worker"].pc = "persist"
  /\ recover' = [recover EXCEPT !["worker"] = RecoverIdle]
  /\ LET r == recover["worker"] IN
     \/ /\ RecordQuarantine(r.seq, r.id, r.payload)
        /\ pending' = [pending EXCEPT ![r.seq] = "none"]
        /\ UNCHANGED storeFaults
     \/ StoreFault /\ UNCHANGED <<storeVars, pending>>
  /\ UNCHANGED <<brokerVars, fetched, loop, exhausted, scanRetries, phase, todo, notice,
                 requests, readFaults, restarts>>

SettleAdvisory ==
  /\ recover["worker"].pc = "settle"
  /\ advisory' \in {advisory, [advisory EXCEPT ![recover["worker"].seq] = "acked"]}
  /\ recover' = [recover EXCEPT !["worker"] = RecoverIdle]
  /\ UNCHANGED <<storeVars, stream, deliveries, broker, fetched, loop, exhausted, pending,
                 scanRetries, phase, todo, notice, requests, faultVars>>

RecoveryWorker ==
  \/ BeginPass
  \/ \E i \in todo : InspectItem(i) \/ ReadPending(i)
  \/ Record("worker")
  \/ PersistPending
  \/ SettleAdvisory

(* The callback of the core subscription: handleAdvisoryData(data, nil).   *)
TakeNotice(s) ==
  /\ recover["subscriber"].pc = "idle"
  /\ s \in notice
  /\ notice' = notice \ {s}
  /\ Inspect("subscriber", s)
  /\ UNCHANGED <<storeVars, brokerVars, fetched, loop, phase, todo, requests, restarts>>

Subscriber == (\E s \in notice : TakeNotice(s)) \/ Record("subscriber")

-----------------------------------------------------------------------------
(* The HTTP server over the same store.                                    *)

storeOnly == <<brokerVars, fetched, loop, recoveryVars, requests, faultVars>>

IngestHTTP(b) == RecordBatch(b) /\ UNCHANGED storeOnly

(* handleReplayQuarantine and handleDiscardQuarantine check the status,    *)
(* then lock the node and run the transaction.                             *)
BeginRequest(op, k) ==
  /\ Active(k)
  /\ Cardinality(requests) < MaxRequests
  /\ requests' = requests \cup {<<op, k>>}
  /\ UNCHANGED <<storeVars, brokerVars, fetched, loop, recoveryVars, faultVars>>

(* Variant: a discard relies on the status read when the request began.    *)
CommitRequestStale(op, k) ==
  /\ <<op, k>> \in requests
  /\ requests' = requests \ {<<op, k>>}
  /\ \/ op = "replay" /\ ReplayQuarantineRecord(k)
     \/ op = "discard" /\ quar' = [quar EXCEPT ![k].status = "discarded"]
                       /\ UNCHANGED <<ingested, payloads, nodeSeq>>
  /\ UNCHANGED <<brokerVars, fetched, loop, recoveryVars, faultVars>>

CommitRequest(op, k) ==
  /\ <<op, k>> \in requests
  /\ requests' = requests \ {<<op, k>>}
  /\ \/ op = "replay" /\ ReplayQuarantineRecord(k)
     \/ op = "discard" /\ DiscardQuarantineRecord(k)
     \/ UNCHANGED storeVars        \* refused, failed or abandoned
  /\ UNCHANGED <<brokerVars, fetched, loop, recoveryVars, faultVars>>

Operator == \E op \in {"replay", "discard"}, k \in Key :
              BeginRequest(op, k) \/ CommitRequest(op, k)

Retention ==
  /\ RetentionRuns
  /\ \/ \E S \in SUBSET payloads : PruneTelemetryPayloads(S)
     \/ \E S \in SUBSET Key : PruneQuarantinePayloads(S)
  /\ UNCHANGED storeOnly

(* A stop or a crash: what the process held is gone, the store and the     *)
(* broker are as they were.                                                *)
Restart ==
  /\ restarts < MaxRestarts
  /\ restarts' = restarts + 1
  /\ fetched' = {} /\ loop' = LoopIdle
  /\ exhausted' = {} /\ pending' = [s \in Key |-> "none"] /\ scanRetries' = {}
  /\ phase' = "scan" /\ todo' = {}
  /\ recover' = [p \in Handler |-> RecoverIdle]
  /\ notice' = {} /\ requests' = {}
  /\ UNCHANGED <<storeVars, brokerVars, storeFaults, readFaults>>

Broker == \E s \in Key : AckWaitExpires(s) \/ MaxDeliverReached(s)

Next ==
  \/ \E m \in Message : Publish(m)
  \/ Broker
  \/ ConsumeLoop
  \/ RecoveryWorker
  \/ Subscriber
  \/ \E b \in Batch : IngestHTTP(b)
  \/ \E n \in Node : RegisterNode(n) /\ UNCHANGED storeOnly
  \/ Operator
  \/ Retention
  \/ Restart

Spec == Init /\ [][Next]_vars

(* The broker's timers and the two goroutines of the consumer keep going.  *)
FairSpec == Spec /\ WF_vars(Broker) /\ WF_vars(ConsumeLoop) /\ WF_vars(RecoveryWorker)

-----------------------------------------------------------------------------
Item == [seq : Key, data : {"full", "hollow"}]

(* The types of the state, and the states a sequence is in once published. *)
ControlTypeOK ==
  /\ stream \in Seq(Message) /\ Len(stream) <= MaxStream
  /\ deliveries \in [Key -> 0 .. MaxDeliver]
  /\ broker \in [Key -> {"none", "ready", "out", "settled", "dead"}]
  /\ \A s \in Key : broker[s] = "none" <=> s > Len(stream)
  /\ advisory \in [Key -> {"none", "queued", "acked"}]
  /\ notice \subseteq Published
  /\ fetched \subseteq [seq : Published, count : 1 .. MaxDeliver]
  /\ loop \in [pc : {"idle", "ingest", "exhausted", "poison", "ack", "nak", "term"},
               seq : 0 .. MaxStream, count : 0 .. MaxDeliver]
  /\ exhausted \subseteq Key
  /\ pending \in [Key -> {"none", "full", "hollow"}]
  /\ scanRetries \subseteq Published
  /\ phase \in {"advisories", "pending", "scan"}
  /\ todo \subseteq Item
  /\ recover \in [Handler -> [pc : {"idle", "record", "persist", "settle"},
                              seq : 0 .. MaxStream, id : Identity, payload : Payload]]
  /\ requests \subseteq {"replay", "discard"} \X Key
  /\ storeFaults \in 0 .. MaxStoreFaults
  /\ readFaults \in 0 .. MaxReadFaults
  /\ restarts \in 0 .. MaxRestarts

TypeOK == StoreTypeOK /\ ControlTypeOK

(* The row of s is about the message at s: a row that holds the message's  *)
(* bytes, or a resolved row the retention pass emptied.                    *)
RowIsFaithful(s) ==
  \/ quar[s].payload = Body(s)
  \/ quar[s].status \in Terminal /\ quar[s].payload = Empty

(* "No telemetry data is silently lost": a message published is still to   *)
(* be delivered, or its exhaustion is still announced by an unacknowledged *)
(* advisory, or its batch is ingested, or it has a quarantine row with its *)
(* bytes.                                                                  *)
InCustody(s) ==
  \/ broker[s] \in {"ready", "out"}
  \/ advisory[s] = "queued"
  \/ stream[s].claim \in ingested
  \/ quar[s].status # "none" /\ RowIsFaithful(s)

NoMessageLost == \A s \in Published : InCustody(s)

(* An active row holds the bytes of its message: "full payload remains     *)
(* accessible until an operator explicitly acts".                          *)
ActiveRowsKeepPayload == \A s \in Published : Active(s) => quar[s].payload = Body(s)

(* In-flight protection: a message with a valid batch gets a quarantine    *)
(* row only after the last of its MaxDeliver deliveries, never while the   *)
(* broker may still deliver it for the first times.                        *)
InFlightProtected ==
  \A s \in Published :
    quar[s].status # "none" /\ Body(s) \in Batch => deliveries[s] = MaxDeliver

(* Every message published is in the end ingested or quarantined, whatever *)
(* finite number of faults and restarts it meets.                          *)
Resolved(s) ==
  s \in Published /\ (stream[s].claim \in ingested \/ quar[s].status # "none")
EveryMessageResolved == \A s \in Key : s \in Published ~> Resolved(s)
=============================================================================
