------------------------- MODULE TelemetryPipeline -------------------------
(***************************************************************************)
(* The telemetry of one node from its outbox to the control plane's store: *)
(* EdgeOutbox and TelemetryConsumer, and the steps they make together, the *)
(* transmissions that reach the control plane.  On NATS the agent          *)
(* publishes into the stream that the consumer reads; on HTTP the server   *)
(* ingests in the request.  The batches of other nodes, and messages that  *)
(* nobody can decode, come from outside.                                   *)
(*                                                                         *)
(* The sequence numbers in the outbox are not related to SeqOf: nothing    *)
(* below depends on the numbers in the store.                              *)
(***************************************************************************)
EXTENDS TelemetryConsumer

CONSTANTS
  BatchOf,   \* the identity (node_id, batch_id) of the agent's n-th batch
  Delivered, MaxAttempts, Limit, MaxBatches, MaxFaults, MaxRequeues,
  MaxEdgeRestarts, MaxPowerLosses    \* of EdgeOutbox

VARIABLES rows, disk, nextSeq, pc, queue, born, sent, arrived, setAside,
          faults, requeues, edgeRestarts, powerLosses

Edge == INSTANCE EdgeOutbox
          WITH restarts <- edgeRestarts, MaxRestarts <- MaxEdgeRestarts

edgeVars == <<rows, disk, nextSeq, pc, queue, born, sent, arrived, setAside,
              faults, requeues, edgeRestarts, powerLosses>>
pipelineVars == <<vars, edgeVars>>

(* The generator names every batch with a random UUID, and no two are the  *)
(* same.                                                                   *)
PipelineAssumption ==
  /\ Edge!OutboxAssumption
  /\ BatchOf \in [Edge!Id -> Batch]
  /\ \A m, n \in Edge!Id : BatchOf[m] = BatchOf[n] => m = n

Own == {BatchOf[n] : n \in Edge!Id}

PipelineInit == Init /\ Edge!Init

-----------------------------------------------------------------------------
InStream(b) == \E s \in Published : Body(s) = b

(* What a transmission does at the control plane.  JetStream stores the    *)
(* message, unless it knows its Nats-Msg-Id; the server records the batch  *)
(* and answers 201 or 200, and an error if the batch is quarantined.       *)
Accept(b) ==
  \/ /\ Delivered = "PUBLISHED"
     /\ \/ Publish([body |-> b, claim |-> b])
        \/ InStream(b) /\ UNCHANGED vars
  \/ /\ Delivered = "SYNCED"
     /\ BatchOutcome(b, {}) # "conflict"
     /\ IngestHTTP(b)

(* A transmission that is answered, or takes effect without an answer.     *)
Reach(n) ==
  /\ \/ \E i \in queue : i.batch = n /\ Edge!Transmit(i) /\ pc' = "mark"
     \/ Edge!Arrive(n)
  /\ Accept(BatchOf[n])

EdgeAlone ==
  /\ \/ Edge!Collect
     \/ Edge!BeginCycle
     \/ \E i \in queue : \/ Edge!Transmit(i) /\ pc' # "mark"
                         \/ Edge!MarkDelivered(i)
                         \/ Edge!MarkQuarantined(i)
                         \/ Edge!RecordSyncAttempt(i)
     \/ \E S \in SUBSET Edge!Having(rows, {Delivered}) : Edge!PruneCompletedBatches(S)
     \/ \E n \in Edge!Id : Edge!RequeueQuarantinedBatch(n)
     \/ Edge!Restart
     \/ Edge!Checkpoint
     \/ Edge!PowerLoss
  /\ UNCHANGED vars

(* Outside the pipeline nobody sends the node's batches.                   *)
ControlPlaneAlone ==
  /\ \/ \E m \in Message : m.body \notin Own /\ Publish(m)
     \/ \E b \in Batch \ Own : IngestHTTP(b)
     \/ \E n \in Node : RegisterNode(n) /\ UNCHANGED storeOnly
     \/ Broker \/ ConsumeLoop \/ RecoveryWorker \/ Subscriber
     \/ Operator \/ Retention \/ Restart
  /\ UNCHANGED edgeVars

PipelineNext ==
  \/ EdgeAlone
  \/ \E n \in Edge!Id : Reach(n)
  \/ ControlPlaneAlone

PipelineSpec == PipelineInit /\ [][PipelineNext]_pipelineVars

-----------------------------------------------------------------------------
(* "No telemetry data is silently lost", from end to end: every batch that *)
(* was collected is in the outbox still, or was taken back by a loss of    *)
(* power before it was sent for good, or is ingested, or is in the care of *)
(* the stream, the advisories or the quarantine table with its bytes.  The *)
(* outbox gives up a batch on what the broker or the server said long      *)
(* before, and the broker on what the consumer recorded.                   *)
NothingLostEndToEnd ==
  \A n \in 1 .. born :
    \/ rows[n].status \in {"PENDING", "FAILED"}
    \/ rows[n].status = "none" /\ powerLosses > 0
    \/ BatchOf[n] \in ingested
    \/ \E s \in Published : Body(s) = BatchOf[n] /\ InCustody(s)

AtControlPlane(b) == b \in ingested \/ InStream(b)

(* The control plane has exactly the node's batches that a transmission    *)
(* brought: no recovery, replay or malformed message that claims a batch   *)
(* makes one ingested that was not sent, and none goes away.               *)
ExactlyTransmitted ==
  \A n \in Edge!Id : AtControlPlane(BatchOf[n]) <=> n \in arrived

(* The node's batches reach the control plane in the order of their        *)
(* sequence numbers, except behind those that were set aside.              *)
ReachesInOrder ==
  [][\A n, c \in Edge!Known :
       /\ ~AtControlPlane(BatchOf[n]) /\ AtControlPlane(BatchOf[n])'
       /\ rows[c].seq < rows[n].seq
       => AtControlPlane(BatchOf[c]) \/ c \in setAside]_pipelineVars
=============================================================================
