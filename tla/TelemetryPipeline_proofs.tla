---------------------- MODULE TelemetryPipeline_proofs ----------------------
(***************************************************************************)
(* Proofs about the control plane's store, its consumer, and the pipeline  *)
(* from an edge outbox into them, for any sets of batches, nodes and keys, *)
(* any stream length, delivery limit and numbers of faults, restarts and   *)
(* requests.                                                               *)
(*                                                                         *)
(* The first part is about StoreSpec alone.  StoreInv is inductive: its    *)
(* conjuncts are the type invariant, the exclusion of ingested and         *)
(* quarantined, and that a replayed row names an ingested batch.           *)
(*                                                                         *)
(* The consumer uses the store only through the store's calls, so it       *)
(* implements StoreSpec and inherits these theorems; what it guarantees    *)
(* beyond them is the second part.                                         *)
(*                                                                         *)
(* The third part is about PipelineSpec: each of its steps is a step of    *)
(* EdgeOutbox and of TelemetryConsumer or leaves that part alone, so it    *)
(* implements both.  What the two guarantee together is joined by          *)
(* ExactlyTransmitted: the control plane has the batches a transmission    *)
(* brought, and no others of the node's.                                   *)
(***************************************************************************)
EXTENDS TelemetryPipeline, TLAPS

StoreInv ==
  /\ StoreTypeOK
  /\ NeverIngestedAndQuarantined
  /\ ReplayedIsIngested

USE StoreAssumption

(* The row RecordQuarantine leaves is a row, keeps what a resolved row     *)
(* says, and names no ingested batch that it did not name before.          *)
LEMMA QuarantineRowFacts ==
  ASSUME StoreTypeOK,
         NEW k \in Key, NEW id \in Identity, NEW p \in Payload
  PROVE  /\ QuarantineRow(k, id, p) \in Row
         /\ \/ QuarantineRow(k, id, p) = quar[k]
            \/ /\ id \notin ingested
               /\ quar[k].status = "none"
               /\ QuarantineRow(k, id, p) =
                    [status |-> "quarantined", batch |-> id, payload |-> p]
            \/ /\ id \notin ingested
               /\ Active(k) /\ id # NoBatch
               /\ QuarantineRow(k, id, p) = [quar[k] EXCEPT !.batch = id]
<1>1. quar[k] \in Row
  BY DEF StoreTypeOK
<1>2. CASE QuarantineOutcome(k, id, p) = "inserted"
  BY <1>1, <1>2 DEF QuarantineRow, QuarantineOutcome, Row
<1>3. CASE QuarantineOutcome(k, id, p) = "updated" /\ Active(k) /\ id # NoBatch
  <2>1. QuarantineOutcome(k, id, p) # "inserted"
    BY <1>3
  <2>2. QuarantineRow(k, id, p) = [quar[k] EXCEPT !.batch = id]
    BY <1>3, <2>1 DEF QuarantineRow
  <2>3. id \notin ingested
    BY <1>3 DEF QuarantineOutcome
  <2> QED
    BY <1>1, <1>3, <2>2, <2>3 DEF Row
<1>4. CASE /\ QuarantineOutcome(k, id, p) # "inserted"
           /\ ~(QuarantineOutcome(k, id, p) = "updated" /\ Active(k) /\ id # NoBatch)
  BY <1>1, <1>4 DEF QuarantineRow
<1> QED
  BY <1>2, <1>3, <1>4

(* The tables start empty.                                                 *)
LEMMA StoreInitInv == StoreInit => StoreInv
BY DEF StoreInit, StoreInv, StoreTypeOK, NeverIngestedAndQuarantined,
       ReplayedIsIngested, NoRow, Row, Identity, Payload, ActiveFor, Active, Unregistered,
       Terminal

(* The rows an insertion writes keep their types, and the node's sequence  *)
(* number does not go back and covers the batch.                           *)
LEMMA InsertBatchFacts ==
  ASSUME StoreTypeOK, NEW b \in Batch, InsertBatch(b)
  PROVE  /\ ingested' = ingested \cup {b}
         /\ ingested' \subseteq Batch
         /\ payloads' \subseteq ingested'
         /\ nodeSeq' \in [Node -> Nat \cup {Unregistered}]
         /\ NodeStep
<1>1. NodeOf[b] \in Node /\ SeqOf[b] \in Nat
  OBVIOUS
<1>2. /\ ingested' = ingested \cup {b}
      /\ payloads' = payloads \cup {b}
  BY DEF InsertBatch
<1>3. nodeSeq' = [nodeSeq EXCEPT ![NodeOf[b]] =
                    IF nodeSeq[NodeOf[b]] # Unregistered /\ nodeSeq[NodeOf[b]] < SeqOf[b]
                    THEN SeqOf[b] ELSE nodeSeq[NodeOf[b]]]
  BY DEF InsertBatch
<1>4. nodeSeq \in [Node -> Nat \cup {Unregistered}]
  BY DEF StoreTypeOK
<1>5. nodeSeq' \in [Node -> Nat \cup {Unregistered}]
  BY <1>1, <1>3, <1>4 DEF Unregistered
<1>6. \A n \in Node : nodeSeq'[n] >= nodeSeq[n]
  BY <1>1, <1>3, <1>4 DEF Unregistered
<1>7. nodeSeq[NodeOf[b]] # Unregistered => nodeSeq'[NodeOf[b]] >= SeqOf[b]
  BY <1>1, <1>3, <1>4 DEF Unregistered
<1> QED
  BY <1>2, <1>5, <1>6, <1>7 DEF StoreTypeOK, NodeStep

-----------------------------------------------------------------------------
(* What each kind of step may do to the quarantine table, in one lemma:    *)
(* one row at most changes, and how.                                       *)
LEMMA RecordQuarantineInv ==
  ASSUME StoreInv, NEW k \in Key, NEW id \in Identity, NEW p \in Payload,
         RecordQuarantine(k, id, p)
  PROVE  StoreInv'
<1> DEFINE row == QuarantineRow(k, id, p)
<1>1. /\ quar' = [quar EXCEPT ![k] = row]
      /\ UNCHANGED <<ingested, payloads, nodeSeq>>
  BY DEF RecordQuarantine
<1>2. quar \in [Key -> Row]
  BY DEF StoreInv, StoreTypeOK
<1>3. /\ row \in Row
      /\ \/ row = quar[k]
         \/ /\ id \notin ingested
            /\ quar[k].status = "none"
            /\ row = [status |-> "quarantined", batch |-> id, payload |-> p]
         \/ /\ id \notin ingested
            /\ Active(k) /\ id # NoBatch
            /\ row = [quar[k] EXCEPT !.batch = id]
  BY QuarantineRowFacts DEF StoreInv
<1> HIDE DEF row
<1>4. StoreTypeOK'
  BY <1>1, <1>2, <1>3 DEF StoreInv, StoreTypeOK
<1>5. NeverIngestedAndQuarantined'
  <2>1. SUFFICES ASSUME NEW b \in ingested, NEW j \in Key,
                        quar'[j].status = "quarantined", quar'[j].batch = b
                 PROVE  FALSE
    BY <1>1 DEF NeverIngestedAndQuarantined, ActiveFor, Active
  <2>2. ~(quar[j].status = "quarantined" /\ quar[j].batch = b)
    BY DEF StoreInv, NeverIngestedAndQuarantined, ActiveFor, Active
  <2>3. CASE j # k
    BY <1>1, <1>2, <2>1, <2>2, <2>3
  <2>4. CASE j = k
    <3>1. quar'[j] = row
      BY <1>1, <1>2, <2>4
    <3>2. quar[k] \in Row
      BY <1>2
    <3>3. row.batch # id
      BY <1>3, <2>1, <2>2, <2>4, <3>1
    <3> QED
      BY <1>3, <2>1, <2>2, <2>4, <3>1, <3>2, <3>3 DEF Row
  <2> QED
    BY <2>3, <2>4
<1>6. ReplayedIsIngested'
  <2>1. SUFFICES ASSUME NEW j \in Key, quar'[j].status = "replayed"
                 PROVE  quar'[j].batch \in ingested
    BY <1>1 DEF ReplayedIsIngested
  <2>2. quar[j].status = "replayed" => quar[j].batch \in ingested
    BY DEF StoreInv, ReplayedIsIngested
  <2>3. CASE j # k
    BY <1>1, <1>2, <2>1, <2>2, <2>3
  <2>4. CASE j = k
    <3>1. quar'[j] = row
      BY <1>1, <1>2, <2>4
    <3>2. quar[k] \in Row
      BY <1>2
    <3>3. row = quar[k]
      BY <1>3, <2>1, <3>1, <3>2 DEF Active, Row
    <3> QED
      BY <2>1, <2>2, <2>4, <3>1, <3>3
  <2> QED
    BY <2>3, <2>4
<1> QED
  BY <1>4, <1>5, <1>6 DEF StoreInv

(* recordBatchTx ingests a batch only without an active row of it.         *)
LEMMA RecordBatchInv ==
  ASSUME StoreInv, NEW b \in Batch, RecordBatch(b)
  PROVE  StoreInv'
<1>1. CASE BatchOutcome(b, {}) = "new"
  <2>1. InsertBatch(b) /\ UNCHANGED quar /\ ActiveFor(b) = {}
    BY <1>1 DEF RecordBatch, BatchOutcome
  <2>2. StoreTypeOK'
    BY <2>1, InsertBatchFacts DEF StoreInv, StoreTypeOK
  <2> QED
    BY <2>1, <2>2 DEF StoreInv, NeverIngestedAndQuarantined, ReplayedIsIngested,
                      ActiveFor, Active, InsertBatch
<1>2. CASE BatchOutcome(b, {}) # "new"
  BY <1>2 DEF RecordBatch, StoreInv, StoreTypeOK, NeverIngestedAndQuarantined,
              ReplayedIsIngested, ActiveFor, Active
<1> QED
  BY <1>1, <1>2

(* A replay makes its row terminal in the transaction that ingests the     *)
(* batch.                                                                  *)
LEMMA ReplayInv ==
  ASSUME StoreInv, NEW k \in Key, ReplayQuarantineRecord(k)
  PROVE  StoreInv'
<1> DEFINE b == quar[k].batch
<1>1. /\ Active(k) /\ b \in Batch
      /\ quar' = [quar EXCEPT ![k].status = "replayed"]
  BY DEF ReplayQuarantineRecord, CanReplay
<1>2. quar \in [Key -> Row]
  BY DEF StoreInv, StoreTypeOK
<1>3. b \notin ingested
  BY <1>1 DEF StoreInv, NeverIngestedAndQuarantined, ActiveFor
<1>4. InsertBatch(b) /\ ActiveFor(b) \ {k} = {}
  BY <1>3 DEF ReplayQuarantineRecord, CanReplay, BatchOutcome
<1>5. ingested' = ingested \cup {b}
  BY <1>4 DEF InsertBatch
<1> HIDE DEF b
<1>6. StoreTypeOK'
  BY <1>1, <1>2, <1>4, InsertBatchFacts DEF StoreInv, StoreTypeOK, Row, Terminal
<1>7. \A j \in Key : /\ j # k => quar'[j] = quar[j]
                     /\ quar'[k].status = "replayed" /\ quar'[k].batch = quar[k].batch
  BY <1>1, <1>2 DEF Row
<1>8. NeverIngestedAndQuarantined'
  BY <1>4, <1>5, <1>7
  DEF StoreInv, NeverIngestedAndQuarantined, ActiveFor, Active
<1>9. ReplayedIsIngested'
  BY <1>5, <1>7 DEF StoreInv, ReplayedIsIngested, b
<1> QED
  BY <1>6, <1>8, <1>9 DEF StoreInv

(* A discard makes an active row terminal and ingests nothing.             *)
LEMMA DiscardInv ==
  ASSUME StoreInv, NEW k \in Key, DiscardQuarantineRecord(k)
  PROVE  StoreInv'
<1>1. /\ quar' = [quar EXCEPT ![k].status = "discarded"]
      /\ UNCHANGED <<ingested, payloads, nodeSeq>>
  BY DEF DiscardQuarantineRecord
<1>2. quar \in [Key -> Row]
  BY DEF StoreInv, StoreTypeOK
<1>3. \A j \in Key : /\ j # k => quar'[j] = quar[j]
                     /\ quar'[k].status = "discarded" /\ quar'[k].batch = quar[k].batch
  BY <1>1, <1>2 DEF Row
<1>4. StoreTypeOK'
  BY <1>1, <1>2 DEF StoreInv, StoreTypeOK, Row, Terminal
<1> QED
  BY <1>1, <1>3, <1>4
  DEF StoreInv, NeverIngestedAndQuarantined, ReplayedIsIngested, ActiveFor, Active

(* The retention pass empties terminal rows only, so no active row         *)
(* changes.                                                                *)
LEMMA PruneQuarantineInv ==
  ASSUME StoreInv, NEW S \in SUBSET Key, PruneQuarantinePayloads(S)
  PROVE  StoreInv'
<1>1. /\ quar' = [k \in Key |-> IF k \in S THEN [quar[k] EXCEPT !.payload = Empty]
                                ELSE quar[k]]
      /\ UNCHANGED <<ingested, payloads, nodeSeq>>
  BY DEF PruneQuarantinePayloads
<1>2. quar \in [Key -> Row]
  BY DEF StoreInv, StoreTypeOK
<1>3. \A j \in Key : /\ quar'[j] \in Row
                     /\ quar'[j].status = quar[j].status
                     /\ quar'[j].batch = quar[j].batch
  BY <1>1, <1>2 DEF Row, Payload
<1>4. StoreTypeOK'
  BY <1>1, <1>3 DEF StoreInv, StoreTypeOK
<1> QED
  BY <1>1, <1>3, <1>4
  DEF StoreInv, NeverIngestedAndQuarantined, ReplayedIsIngested, ActiveFor, Active

(* Steps that leave the quarantine and idempotency tables alone.           *)
LEMMA OtherTablesInv ==
  ASSUME StoreInv,
         \/ \E S \in SUBSET Batch : PruneTelemetryPayloads(S)
         \/ \E n \in Node : RegisterNode(n)
         \/ UNCHANGED storeVars
  PROVE  StoreInv'
<1>1. UNCHANGED <<ingested, quar>>
  BY DEF PruneTelemetryPayloads, RegisterNode, storeVars
<1>2. payloads' \subseteq payloads
  BY DEF PruneTelemetryPayloads, RegisterNode, storeVars
<1>3. nodeSeq' \in [Node -> Nat \cup {Unregistered}]
  BY DEF PruneTelemetryPayloads, RegisterNode, storeVars, StoreInv, StoreTypeOK
<1> QED
  BY <1>1, <1>2, <1>3
  DEF StoreInv, StoreTypeOK, NeverIngestedAndQuarantined, ReplayedIsIngested,
      ActiveFor, Active

(* The inductive step: every transaction keeps the invariant of the store. *)
LEMMA StoreNextInv == StoreInv /\ [StoreNext]_storeVars => StoreInv'
<1> SUFFICES ASSUME StoreInv, [StoreNext]_storeVars
             PROVE  StoreInv'
  OBVIOUS
<1>1. CASE \E b \in Batch : RecordBatch(b)
  BY <1>1, RecordBatchInv
<1>2. CASE \E k \in Key, id \in Identity, p \in Payload :
             SameIdentity(k, id) /\ RecordQuarantine(k, id, p)
  BY <1>2, RecordQuarantineInv
<1>3. CASE \E k \in Key : ReplayQuarantineRecord(k) \/ DiscardQuarantineRecord(k)
  BY <1>3, ReplayInv, DiscardInv
<1>4. CASE \E S \in SUBSET Key : PruneQuarantinePayloads(S)
  BY <1>4, PruneQuarantineInv
<1>5. CASE \/ \E S \in SUBSET Batch : PruneTelemetryPayloads(S)
           \/ \E n \in Node : RegisterNode(n)
           \/ UNCHANGED storeVars
  BY <1>5, OtherTablesInv
<1> QED
  BY <1>1, <1>2, <1>3, <1>4, <1>5 DEF StoreNext

(* The store's calls keep the inductive invariant, in any order.           *)
THEOREM StoreInvariance == StoreSpec => []StoreInv
BY StoreInitInv, StoreNextInv, PTL DEF StoreSpec

(* No batch is ever both ingested and actively quarantined, for any number *)
(* of batches and messages: the check each of the two transactions makes   *)
(* of the other's table is enough.                                         *)
THEOREM ExclusionTheorem == StoreSpec => []NeverIngestedAndQuarantined
<1>1. StoreInv => NeverIngestedAndQuarantined
  BY DEF StoreInv
<1> QED
  BY <1>1, StoreInvariance, PTL

(* The tables keep their types.                                            *)
THEOREM StoreTypeTheorem == StoreSpec => []StoreTypeOK
<1>1. StoreInv => StoreTypeOK
  BY DEF StoreInv
<1> QED
  BY <1>1, StoreInvariance, PTL

(* A row marked replayed names an ingested batch.                          *)
THEOREM ReplayTheorem == StoreSpec => []ReplayedIsIngested
<1>1. StoreInv => ReplayedIsIngested
  BY DEF StoreInv
<1> QED
  BY <1>1, StoreInvariance, PTL

-----------------------------------------------------------------------------
(* What a call may do to one row: a resolved row keeps its disposition and *)
(* its batch, an active one its payload and its known batch.               *)
LEMMA RowKeptStep ==
  ASSUME StoreTypeOK, [StoreNext]_storeVars, NEW j \in Key
  PROVE  RowKept(j)
<1>1. quar \in [Key -> Row]
  BY DEF StoreTypeOK
<1>2. CASE UNCHANGED quar
  BY <1>1, <1>2 DEF RowKept, Active, Row
<1>3. ASSUME NEW k \in Key, NEW id \in Identity, NEW p \in Payload,
             SameIdentity(k, id), RecordQuarantine(k, id, p)
      PROVE  RowKept(j)
  <2>1. quar' = [quar EXCEPT ![k] = QuarantineRow(k, id, p)]
    BY <1>3 DEF RecordQuarantine
  <2>2. CASE j # k
    BY <1>1, <2>1, <2>2 DEF RowKept, Active, Row
  <2>3. CASE j = k
    <3>1. quar'[j] = QuarantineRow(k, id, p)
      BY <1>1, <2>1, <2>3
    <3>2. quar[k] \in Row
      BY <1>1
    <3>3. CASE QuarantineRow(k, id, p) = quar[k]
      BY <2>3, <3>1, <3>2, <3>3 DEF RowKept, Active, Row
    <3>4. CASE quar[k].status = "none"
      BY <2>3, <3>1, <3>4 DEF RowKept, Active, Terminal
    <3>5. CASE Active(k) /\ id # NoBatch /\ QuarantineRow(k, id, p) = [quar[k] EXCEPT !.batch = id]
      <4>1. quar[k].batch # NoBatch => id = quar[k].batch
        BY <1>3, <3>5 DEF SameIdentity, Active
      <4>2. /\ quar'[j].status = "quarantined"
            /\ quar'[j].payload = quar[j].payload
            /\ quar'[j].batch = id
        BY <2>3, <3>1, <3>2, <3>5 DEF Row, Active
      <4> QED
        BY <2>3, <3>5, <4>1, <4>2 DEF RowKept, Active, Terminal
    <3> QED
      BY <3>3, <3>4, <3>5, QuarantineRowFacts
  <2> QED
    BY <2>2, <2>3
<1>4. ASSUME NEW k \in Key, ReplayQuarantineRecord(k) \/ DiscardQuarantineRecord(k)
      PROVE  RowKept(j)
  <2>1. /\ Active(k)
        /\ \/ quar' = [quar EXCEPT ![k].status = "replayed"]
           \/ quar' = [quar EXCEPT ![k].status = "discarded"]
    BY <1>4 DEF ReplayQuarantineRecord, CanReplay, DiscardQuarantineRecord
  <2> QED
    BY <1>1, <2>1 DEF RowKept, Active, Row, Terminal
<1>5. ASSUME NEW S \in SUBSET Key, PruneQuarantinePayloads(S)
      PROVE  RowKept(j)
  <2>1. /\ quar'[j] = IF j \in S THEN [quar[j] EXCEPT !.payload = Empty] ELSE quar[j]
        /\ j \in S => quar[j].status \in Terminal
    BY <1>5 DEF PruneQuarantinePayloads
  <2> QED
    BY <1>1, <2>1 DEF RowKept, Active, Row, Terminal
<1>6. ASSUME \/ \E b \in Batch : RecordBatch(b)
             \/ \E S \in SUBSET Batch : PruneTelemetryPayloads(S)
             \/ \E n \in Node : RegisterNode(n)
             \/ UNCHANGED storeVars
      PROVE  UNCHANGED quar
  BY <1>6 DEF RecordBatch, PruneTelemetryPayloads, RegisterNode, storeVars
<1> QED
  BY <1>2, <1>3, <1>4, <1>5, <1>6 DEF StoreNext

(* No row disappears, none loses its payload but a resolved one in a       *)
(* retention pass, and no batch stops being ingested.                      *)
LEMMA NothingDisappears ==
  ASSUME StoreTypeOK, [StoreNext]_storeVars
  PROVE  /\ ingested \subseteq ingested'
         /\ \A j \in Key : quar[j].status # "none" =>
              /\ quar'[j].status # "none"
              /\ \/ quar'[j].payload = quar[j].payload
                 \/ quar'[j].status \in Terminal /\ quar'[j].payload = Empty
<1>1. ingested \subseteq ingested'
  BY DEF StoreNext, RecordBatch, InsertBatch, RecordQuarantine, ReplayQuarantineRecord,
         DiscardQuarantineRecord, PruneTelemetryPayloads, PruneQuarantinePayloads,
         RegisterNode, storeVars
<1>2. ASSUME NEW j \in Key, quar[j].status # "none"
      PROVE  /\ quar'[j].status # "none"
             /\ \/ quar'[j].payload = quar[j].payload
                \/ quar'[j].status \in Terminal /\ quar'[j].payload = Empty
  <2>1. quar[j] \in Row /\ quar \in [Key -> Row]
    BY DEF StoreTypeOK
  <2>2. quar[j].status \in Terminal => quar'[j].status = quar[j].status
    BY RowKeptStep DEF RowKept
  <2>3. Active(j) => quar'[j].status # "none" /\ quar'[j].payload = quar[j].payload
    BY RowKeptStep DEF RowKept
  <2>4. CASE Active(j)
    BY <2>3, <2>4
  <2>5. CASE quar[j].status \in Terminal
    <3>1. CASE \E S \in SUBSET Key : PruneQuarantinePayloads(S)
      BY <2>1, <2>2, <2>5, <3>1 DEF PruneQuarantinePayloads, Row, Terminal
    <3>2. ASSUME NEW k \in Key, NEW id \in Identity, NEW p \in Payload,
                 RecordQuarantine(k, id, p)
          PROVE  quar'[j] = quar[j]
      BY <2>1, <2>5, <3>2, QuarantineRowFacts DEF RecordQuarantine, Active, Terminal
    <3>3. ASSUME NEW k \in Key, ReplayQuarantineRecord(k) \/ DiscardQuarantineRecord(k)
          PROVE  quar'[j] = quar[j]
      BY <2>1, <2>5, <3>3 DEF ReplayQuarantineRecord, CanReplay,
         DiscardQuarantineRecord,
                              Active, Terminal
    <3>4. ASSUME \/ \E b \in Batch : RecordBatch(b)
                 \/ \E S \in SUBSET Batch : PruneTelemetryPayloads(S)
                 \/ \E n \in Node : RegisterNode(n)
                 \/ UNCHANGED storeVars
          PROVE  quar'[j] = quar[j]
      BY <3>4 DEF RecordBatch, PruneTelemetryPayloads, RegisterNode, storeVars
    <3>5. quar'[j] = quar[j] \/ \E S \in SUBSET Key : PruneQuarantinePayloads(S)
      BY <3>2, <3>3, <3>4 DEF StoreNext
    <3> QED
      BY <2>2, <2>5, <3>1, <3>5 DEF Terminal
  <2> QED
    BY <1>2, <2>1, <2>4, <2>5 DEF Active, Row
<1> QED
  BY <1>1, <1>2

(* A sequence number never goes back.                                      *)
LEMMA NodeStepStep == StoreTypeOK /\ [StoreNext]_storeVars => NodeStep
<1> SUFFICES ASSUME StoreTypeOK, [StoreNext]_storeVars
             PROVE  NodeStep
  OBVIOUS
<1>1. nodeSeq \in [Node -> Nat \cup {Unregistered}]
  BY DEF StoreTypeOK
<1>2. \A n \in Node : nodeSeq[n] >= nodeSeq[n]
  BY <1>1 DEF Unregistered
<1>3. CASE UNCHANGED <<ingested, nodeSeq>>
  BY <1>2, <1>3 DEF NodeStep
<1>4. CASE \E b \in Batch : InsertBatch(b)
  BY <1>4, InsertBatchFacts
<1>5. CASE \E n \in Node : RegisterNode(n)
  BY <1>1, <1>5 DEF RegisterNode, NodeStep, Unregistered
<1>6. ASSUME NEW b \in Batch, RecordBatch(b)
      PROVE  InsertBatch(b) \/ UNCHANGED <<ingested, nodeSeq>>
  BY <1>6 DEF RecordBatch
<1>7. ASSUME NEW k \in Key, ReplayQuarantineRecord(k)
      PROVE  (\E b \in Batch : InsertBatch(b)) \/ UNCHANGED <<ingested, nodeSeq>>
  BY <1>7 DEF ReplayQuarantineRecord, CanReplay
<1>8. ASSUME \/ \E k \in Key, id \in Identity, p \in Payload : RecordQuarantine(k, id, p)
             \/ \E k \in Key : DiscardQuarantineRecord(k)
             \/ \E S \in SUBSET Batch : PruneTelemetryPayloads(S)
             \/ \E S \in SUBSET Key : PruneQuarantinePayloads(S)
             \/ UNCHANGED storeVars
      PROVE  UNCHANGED <<ingested, nodeSeq>>
  BY <1>8 DEF RecordQuarantine, DiscardQuarantineRecord, PruneTelemetryPayloads,
              PruneQuarantinePayloads, storeVars
<1> QED
  BY <1>3, <1>4, <1>5, <1>6, <1>7, <1>8 DEF StoreNext

(* No call takes back a disposition, changes what a resolved row names, or *)
(* takes an active row's payload.                                          *)
THEOREM MonotoneTheorem == StoreSpec => RowsAreMonotone
<1>1. StoreInv /\ [StoreNext]_storeVars => [\A k \in Key : RowKept(k)]_storeVars
  BY RowKeptStep DEF StoreInv
<1> QED
  BY <1>1, StoreInvariance, PTL DEF StoreSpec, RowsAreMonotone

(* Out of order ingestion and replay never take a sequence number back.    *)
THEOREM SequenceTheorem == StoreSpec => NodeSequenceNeverRegresses
<1>1. StoreInv /\ [StoreNext]_storeVars => [NodeStep]_storeVars
  BY NodeStepStep DEF StoreInv
<1> QED
  BY <1>1, StoreInvariance, PTL DEF StoreSpec, NodeSequenceNeverRegresses

-----------------------------------------------------------------------------
(* The abstract disposition of each batch, and what a step does to it.     *)

SetAside(b) == \E k \in Key : quar[k].status = "discarded" /\ quar[k].batch = b

(* The disposition of a batch, by cases on the tables.                     *)
LEMMA DispositionOf ==
  ASSUME NEW b \in Batch
  PROVE  Disposition[b] = IF b \in ingested THEN "ingested"
                          ELSE IF ActiveFor(b) # {} THEN "quarantined"
                          ELSE IF SetAside(b) THEN "discarded" ELSE "open"
BY DEF Disposition, SetAside

(* A disposition is a function on the batches, so two that agree on every  *)
(* batch are equal.                                                        *)
LEMMA DispositionIsFunction ==
  /\ Disposition = [b \in Batch |-> Disposition[b]]
  /\ Disposition' = [b \in Batch |-> Disposition'[b]]
BY DEF Disposition

(* A step that changes the disposition of at most one batch, in one of the *)
(* ways allowed, is an abstract step.                                      *)
Allowed(from, to) ==
  \/ from \in {"open", "discarded"} /\ to \in {"ingested", "quarantined"}
  \/ from = "quarantined" /\ to \in {"ingested", "discarded"}

(* A step that changes the disposition of one batch by an abstract move is *)
(* an abstract step.                                                       *)
LEMMA OneMove ==
  ASSUME NEW b \in Batch,
         \A c \in Batch : c # b => Disposition'[c] = Disposition[c],
         Disposition'[b] = Disposition[b] \/ Allowed(Disposition[b], Disposition'[b])
  PROVE  [D!Next]_Disposition
<1>1. Disposition' = [Disposition EXCEPT ![b] = Disposition'[b]]
  BY DispositionIsFunction
<1>2. CASE Disposition'[b] = Disposition[b]
  BY <1>1, <1>2, DispositionIsFunction
<1>3. CASE Allowed(Disposition[b], Disposition'[b])
  BY <1>1, <1>3 DEF Allowed, D!Next, D!Ingest, D!Quarantine, D!Replay, D!Discard, D!Move
<1> QED
  BY <1>2, <1>3

(* Rows whose status and batch stay the same leave the dispositions alone. *)
LEMMA NoMove ==
  ASSUME ingested' = ingested,
         \A k \in Key : quar'[k].status = quar[k].status /\ quar'[k].batch = quar[k].batch
  PROVE  UNCHANGED Disposition
BY DEF Disposition, ActiveFor, Active

(* recordBatchTx moves its batch from open or discarded to ingested, or    *)
(* moves nothing.                                                          *)
LEMMA RecordBatchMoves ==
  ASSUME StoreInv, NEW b \in Batch, RecordBatch(b)
  PROVE  [D!Next]_Disposition
<1>1. UNCHANGED quar
  BY DEF RecordBatch
<1>2. CASE BatchOutcome(b, {}) = "new"
  <2>1. ingested' = ingested \cup {b} /\ ActiveFor(b) = {} /\ b \notin ingested
    BY <1>2 DEF RecordBatch, BatchOutcome, InsertBatch
  <2>2. \A c \in Batch : c # b => Disposition'[c] = Disposition[c]
    BY <1>1, <2>1 DEF Disposition, ActiveFor, Active
  <2>3. Disposition[b] \in {"open", "discarded"} /\ Disposition'[b] = "ingested"
    BY <2>1 DEF Disposition
  <2> QED
    BY <2>2, <2>3, OneMove DEF Allowed
<1>3. CASE BatchOutcome(b, {}) # "new"
  BY <1>1, <1>3, NoMove DEF RecordBatch
<1> QED
  BY <1>2, <1>3

(* RecordQuarantine moves the batch its row names to quarantined, or moves *)
(* nothing.                                                                *)
LEMMA RecordQuarantineMoves ==
  ASSUME StoreInv, NEW k \in Key, NEW id \in Identity, NEW p \in Payload,
         SameIdentity(k, id), RecordQuarantine(k, id, p)
  PROVE  [D!Next]_Disposition
<1> DEFINE row == QuarantineRow(k, id, p)
<1>1. quar' = [quar EXCEPT ![k] = row] /\ UNCHANGED ingested
  BY DEF RecordQuarantine
<1>2. quar \in [Key -> Row]
  BY DEF StoreInv, StoreTypeOK
<1>3. \/ row = quar[k]
      \/ /\ id \notin ingested
         /\ quar[k].status = "none"
         /\ row = [status |-> "quarantined", batch |-> id, payload |-> p]
      \/ /\ id \notin ingested
         /\ Active(k) /\ id # NoBatch
         /\ row = [quar[k] EXCEPT !.batch = id]
  BY QuarantineRowFacts DEF StoreInv
<1> HIDE DEF row
<1>4. \A j \in Key : quar'[j] = IF j = k THEN row ELSE quar[j]
  BY <1>1, <1>2
<1>5. CASE row.status = quar[k].status /\ row.batch = quar[k].batch
  BY <1>1, <1>4, <1>5, NoMove
<1>6. CASE ~(row.status = quar[k].status /\ row.batch = quar[k].batch)
  <2>1. /\ id \notin ingested
        /\ row.status = "quarantined" /\ row.batch = id
        /\ quar[k].status = "none" \/ (Active(k) /\ quar[k].batch = NoBatch)
    <3>1. quar[k] \in Row
      BY <1>2
    <3>2. Active(k) /\ id # NoBatch => quar[k].batch \in {NoBatch, id}
      BY DEF SameIdentity, Active
    <3> QED
      BY <1>3, <1>6, <3>1, <3>2 DEF Active, Row
  <2>2. \A c \in Batch : c # id => Disposition'[c] = Disposition[c]
    <3>1. SUFFICES ASSUME NEW c \in Batch, c # id
                   PROVE  ActiveFor(c)' = ActiveFor(c) /\ SetAside(c)' = SetAside(c)
      BY <1>1 DEF Disposition, SetAside
    <3>2. quar[k].status = "quarantined" => quar[k].batch # c
      BY <2>1 DEF Active
    <3>3. quar[k].status # "discarded"
      BY <2>1 DEF Active
    <3> QED
      BY <1>4, <2>1, <3>1, <3>2, <3>3 DEF ActiveFor, Active, SetAside
  <2>3. CASE id \in Batch
    <3>1. ActiveFor(id)' # {}
      BY <1>4, <2>1 DEF ActiveFor, Active
    <3>2. Disposition'[id] = "quarantined"
      BY <1>1, <2>1, <2>3, <3>1 DEF Disposition
    <3>3. Disposition[id] \in {"quarantined", "open", "discarded"}
      BY <2>1, <2>3 DEF Disposition
    <3> QED
      BY <2>2, <2>3, <3>2, <3>3, OneMove DEF Allowed
  <2>4. CASE id \notin Batch
    BY <2>2, <2>4, DispositionIsFunction
  <2> QED
    BY <2>3, <2>4
<1> QED
  BY <1>5, <1>6

(* A replay or a discard resolves one active row.                          *)
LEMMA ResolveMoves ==
  ASSUME StoreInv, NEW k \in Key, ReplayQuarantineRecord(k) \/ DiscardQuarantineRecord(k)
  PROVE  [D!Next]_Disposition
<1> DEFINE b == quar[k].batch
<1>1. quar \in [Key -> Row] /\ Active(k)
  BY DEF StoreInv, StoreTypeOK, ReplayQuarantineRecord, CanReplay,
     DiscardQuarantineRecord
<1>2. b \notin ingested
  BY <1>1 DEF StoreInv, StoreTypeOK, NeverIngestedAndQuarantined, ActiveFor
<1>3. CASE ReplayQuarantineRecord(k)
  <2>1. /\ quar' = [quar EXCEPT ![k].status = "replayed"]
        /\ b \in Batch
        /\ ingested' = ingested \cup {b}
    BY <1>2, <1>3 DEF ReplayQuarantineRecord, CanReplay, InsertBatch
  <2>2. \A j \in Key : /\ j # k => quar'[j] = quar[j]
                       /\ quar'[j].batch = quar[j].batch
                       /\ quar'[k].status = "replayed"
    BY <1>1, <2>1 DEF Row
  <2>3. Disposition[b] = "quarantined" /\ Disposition'[b] = "ingested"
    BY <1>1, <1>2, <2>1 DEF Disposition, ActiveFor
  <2>4. ASSUME NEW c \in Batch, c # b
        PROVE  Disposition'[c] = Disposition[c]
    <3>1. ActiveFor(c)' = ActiveFor(c)
      BY <2>2, <2>4 DEF ActiveFor, Active
    <3>2. SetAside(c)' = SetAside(c)
      BY <1>1, <2>2, <2>4 DEF SetAside, Active
    <3> QED
      BY <2>1, <2>4, <3>1, <3>2 DEF Disposition, SetAside
  <2> HIDE DEF b
  <2> QED
    BY <2>1, <2>3, <2>4, OneMove DEF Allowed
<1>4. CASE DiscardQuarantineRecord(k)
  <2>1. quar' = [quar EXCEPT ![k].status = "discarded"] /\ ingested' = ingested
    BY <1>4 DEF DiscardQuarantineRecord
  <2>2. \A j \in Key : /\ j # k => quar'[j] = quar[j]
                       /\ quar'[j].batch = quar[j].batch
                       /\ quar'[k].status = "discarded"
    BY <1>1, <2>1 DEF Row
  <2>3. ASSUME NEW c \in Batch, c # b
        PROVE  Disposition'[c] = Disposition[c]
    <3>1. ActiveFor(c)' = ActiveFor(c)
      BY <2>2, <2>3 DEF ActiveFor, Active
    <3>2. SetAside(c)' = SetAside(c)
      BY <1>1, <2>2, <2>3 DEF SetAside, Active
    <3> QED
      BY <2>1, <2>3, <3>1, <3>2 DEF Disposition, SetAside
  <2>4. CASE b \in Batch
    <3>1. Disposition[b] = "quarantined"
      BY <1>1, <1>2, <2>4 DEF Disposition, ActiveFor
    <3>2. Disposition'[b] \in {"quarantined", "discarded"}
      BY <1>2, <2>1, <2>2, <2>4 DEF Disposition
    <3> HIDE DEF b
    <3> QED
      BY <2>3, <2>4, <3>1, <3>2, OneMove DEF Allowed
  <2>5. CASE b \notin Batch
    <3> HIDE DEF b
    <3> QED
      BY <2>3, <2>5, DispositionIsFunction
  <2> QED
    BY <2>4, <2>5
<1> QED
  BY <1>3, <1>4

(* Every transaction of the store is an abstract step or a stutter.        *)
LEMMA StoreNextMoves == StoreInv /\ [StoreNext]_storeVars => [D!Next]_Disposition
<1> SUFFICES ASSUME StoreInv, [StoreNext]_storeVars
             PROVE  [D!Next]_Disposition
  OBVIOUS
<1>1. CASE \E b \in Batch : RecordBatch(b)
  BY <1>1, RecordBatchMoves
<1>2. CASE \E k \in Key, id \in Identity, p \in Payload :
             SameIdentity(k, id) /\ RecordQuarantine(k, id, p)
  BY <1>2, RecordQuarantineMoves
<1>3. CASE \E k \in Key : ReplayQuarantineRecord(k) \/ DiscardQuarantineRecord(k)
  BY <1>3, ResolveMoves
<1>4. CASE \E S \in SUBSET Key : PruneQuarantinePayloads(S)
  <2>1. PICK S \in SUBSET Key : PruneQuarantinePayloads(S)
    BY <1>4
  <2>2. quar \in [Key -> Row]
    BY DEF StoreInv, StoreTypeOK
  <2>3. \A j \in Key : quar'[j].status = quar[j].status /\ quar'[j].batch = quar[j].batch
    BY <2>1, <2>2 DEF PruneQuarantinePayloads, Row
  <2> QED
    BY <2>1, <2>3, NoMove DEF PruneQuarantinePayloads
<1>5. CASE \/ \E S \in SUBSET Batch : PruneTelemetryPayloads(S)
           \/ \E n \in Node : RegisterNode(n)
           \/ UNCHANGED storeVars
  <2>1. UNCHANGED <<ingested, quar>>
    BY <1>5 DEF PruneTelemetryPayloads, RegisterNode, storeVars
  <2> QED
    BY <2>1, NoMove
<1> QED
  BY <1>1, <1>2, <1>3, <1>4, <1>5 DEF StoreNext

(* The store implements the life of a batch BatchDisposition states.       *)
THEOREM DispositionTheorem == StoreSpec => DispositionSpec
<1>1. StoreInit => D!Init
  BY DEF StoreInit, D!Init, Disposition, ActiveFor, Active, NoRow
<1> QED
  BY <1>1, StoreNextMoves, StoreInvariance, PTL DEF StoreSpec, DispositionSpec, D!Spec

-----------------------------------------------------------------------------

USE ConsumerAssumption

(* What the goroutines hold is about published messages.                   *)
HeldByLoop ==
  /\ loop.pc # "idle" => loop.seq \in Published
  /\ loop.pc = "ingest" => Body(loop.seq) \in Batch

HeldByHandler(r) ==
  r.pc # "idle" => /\ r.seq \in Published
                   /\ r.id \in {NoBatch, stream[r.seq].claim}
                   /\ r.payload \in {Empty, Body(r.seq)}

HeldByRecovery ==
  /\ \A p \in Handler : HeldByHandler(recover[p])
  /\ \A i \in todo : i.seq \in Published
  /\ \A s \in Key : pending[s] # "none" \/ advisory[s] # "none" => s \in Published

(* A quarantine row names the batch its message claims, or none.           *)
RowsNameTheirMessage ==
  \A s \in Key : quar[s].status # "none" =>
    s \in Published /\ quar[s].batch \in {NoBatch, stream[s].claim}

ConsumerInv ==
  /\ StoreInv
  /\ ControlTypeOK
  /\ HeldByLoop
  /\ HeldByRecovery
  /\ RowsNameTheirMessage

(* The bounds of the control state, which the arithmetic below needs.      *)
LEMMA ControlBounds ==
  ASSUME ControlTypeOK
  PROVE  /\ stream \in Seq(Message) /\ Len(stream) <= MaxStream
         /\ deliveries \in [Key -> 0 .. MaxDeliver]
         /\ loop.count \in 0 .. MaxDeliver
         /\ storeFaults \in 0 .. MaxStoreFaults
         /\ readFaults \in 0 .. MaxReadFaults
  BY DEF ControlTypeOK

(* Published messages are messages, with an identity and bytes.            *)
LEMMA PublishedFacts ==
  ASSUME ControlTypeOK, NEW s \in Published
  PROVE  /\ s \in Key
         /\ stream[s] \in Message
         /\ Body(s) \in Batch \cup Junk /\ Body(s) \in Payload
         /\ stream[s].claim \in Identity /\ IdentityOf(s) \in Identity
         /\ IdentityOf(s) \in {NoBatch, stream[s].claim}
         /\ Body(s) \in Batch => stream[s].claim = Body(s) /\ IdentityOf(s) = Body(s)
<1>1. s \in Key /\ stream[s] \in Message
  BY ControlBounds DEF Published
<1> QED
  BY <1>1 DEF Message, Body, IdentityOf, Payload, Identity

-----------------------------------------------------------------------------
(* Every step of the consumer is a call of the store or leaves it alone.   *)

(* What the consume loop writes goes through recordBatchTx and             *)
(* RecordQuarantine, with the identity of its message.                     *)
LEMMA ConsumeLoopStore == ConsumerInv /\ ConsumeLoop => [StoreNext]_storeVars
<1> SUFFICES ASSUME ConsumerInv, ConsumeLoop
             PROVE  [StoreNext]_storeVars
  OBVIOUS
<1>1. CASE IngestBatch
  <2>1. Body(loop.seq) \in Batch
    BY <1>1 DEF ConsumerInv, HeldByLoop, IngestBatch
  <2> QED
    BY <1>1, <2>1 DEF IngestBatch, StoreNext, storeVars
<1>2. CASE QuarantineMessage
  <2> DEFINE s == loop.seq
  <2>1. s \in Published
    BY <1>2 DEF ConsumerInv, HeldByLoop, QuarantineMessage
  <2>2. /\ s \in Key /\ IdentityOf(s) \in Identity /\ Body(s) \in Payload
        /\ IdentityOf(s) \in {NoBatch, stream[s].claim}
    BY <2>1, PublishedFacts DEF ConsumerInv
  <2>3. SameIdentity(s, IdentityOf(s))
    BY <2>2 DEF ConsumerInv, RowsNameTheirMessage, SameIdentity
  <2>4. RecordQuarantine(s, IdentityOf(s), Body(s)) \/ UNCHANGED storeVars
    BY <1>2 DEF QuarantineMessage
  <2> QED
    BY <2>2, <2>3, <2>4 DEF StoreNext
<1>3. CASE (\E S \in SUBSET Published : Fetch(S)) \/ (\E c \in fetched : ProcessMessage(c))
           \/ Acknowledge
  BY <1>3 DEF Fetch, ProcessMessage, Acknowledge
<1> QED
  BY <1>1, <1>2, <1>3 DEF ConsumeLoop

(* The store call of a handler names what its message claims.              *)
LEMMA HandlerStore ==
  ASSUME ConsumerInv, NEW p \in Handler, recover[p].pc # "idle",
         \/ RecordQuarantine(recover[p].seq, recover[p].id, recover[p].payload)
         \/ UNCHANGED storeVars
  PROVE  [StoreNext]_storeVars
<1> DEFINE s == recover[p].seq
           id == recover[p].id
           payload == recover[p].payload
<1>1. /\ s \in Published
      /\ id \in {NoBatch, stream[s].claim}
      /\ payload \in {Empty, Body(s)}
  BY DEF ConsumerInv, HeldByRecovery, HeldByHandler
<1>2. s \in Key /\ id \in Identity /\ payload \in Payload
  BY <1>1, PublishedFacts DEF ConsumerInv, Identity, Payload
<1>3. SameIdentity(s, id)
  BY <1>1, <1>2 DEF ConsumerInv, RowsNameTheirMessage, SameIdentity
<1> QED
  BY <1>2, <1>3 DEF StoreNext

(* What the recovery worker and the subscriber write goes through          *)
(* RecordQuarantine, with the identity of the message or none.             *)
LEMMA RecoveryStore == ConsumerInv /\ (RecoveryWorker \/ Subscriber) => [StoreNext]_storeVars
<1> SUFFICES ASSUME ConsumerInv, RecoveryWorker \/ Subscriber
             PROVE  [StoreNext]_storeVars
  OBVIOUS
<1>1. CASE \E p \in Handler : Record(p)
  <2>1. PICK p \in Handler : Record(p)
    BY <1>1
  <2> QED
    BY <2>1, HandlerStore DEF Record
<1>2. CASE PersistPending
  BY <1>2, HandlerStore DEF PersistPending, Handler
<1>3. CASE UNCHANGED storeVars
  BY <1>3
<1> QED
  BY <1>1, <1>2, <1>3 DEF RecoveryWorker, Subscriber, Handler, BeginPass, InspectItem,
                          ReadPending, SettleAdvisory, TakeNotice

(* Every step of the composed system is a transaction of the store or      *)
(* leaves the tables alone.                                                *)
LEMMA NextStore == ConsumerInv /\ [Next]_vars => [StoreNext]_storeVars
<1> SUFFICES ASSUME ConsumerInv, [Next]_vars
             PROVE  [StoreNext]_storeVars
  OBVIOUS
<1>1. CASE ConsumeLoop
  BY <1>1, ConsumeLoopStore
<1>2. CASE RecoveryWorker \/ Subscriber
  BY <1>2, RecoveryStore
<1>3. CASE \E b \in Batch : IngestHTTP(b)
  BY <1>3 DEF IngestHTTP, StoreNext
<1>4. CASE \E n \in Node : RegisterNode(n) /\ UNCHANGED storeOnly
  BY <1>4 DEF StoreNext
<1>5. CASE Operator
  BY <1>5 DEF Operator, BeginRequest, CommitRequest, StoreNext
<1>6. CASE Retention
  <2>1. CASE \E S \in SUBSET payloads : PruneTelemetryPayloads(S)
    BY <2>1 DEF StoreNext, ConsumerInv, StoreInv, StoreTypeOK
  <2>2. CASE \E S \in SUBSET Key : PruneQuarantinePayloads(S)
    BY <2>2 DEF StoreNext
  <2> QED
    BY <1>6, <2>1, <2>2 DEF Retention
<1>7. CASE \/ \E m \in Message : Publish(m)
           \/ Broker
           \/ Restart
           \/ UNCHANGED vars
  BY <1>7 DEF Publish, Broker, AckWaitExpires, MaxDeliverReached, Restart, vars
<1> QED
  BY <1>1, <1>2, <1>3, <1>4, <1>5, <1>6, <1>7 DEF Next

-----------------------------------------------------------------------------
(* The types of the control state, one action at a time.                   *)

(* Publishing appends a message and leaves the earlier ones as they are.   *)
LEMMA PublishTypes ==
  ASSUME ControlTypeOK, NEW m \in Message, Publish(m)
  PROVE  /\ ControlTypeOK'
         /\ \A s \in Published : s \in Published' /\ stream'[s] = stream[s]
<1>1. /\ stream \in Seq(Message) /\ Len(stream) < MaxStream
      /\ stream' = Append(stream, m)
  BY DEF ControlTypeOK, Publish
<1>2. /\ stream' \in Seq(Message)
      /\ Len(stream') = Len(stream) + 1
      /\ \A s \in Published : s \in Published' /\ stream'[s] = stream[s]
  BY <1>1 DEF Published
<1>3. Len(stream) + 1 \in Key
  BY <1>1
<1>4. /\ broker' \in [Key -> {"none", "ready", "out", "settled", "dead"}]
      /\ \A s \in Key : broker'[s] = "none" <=> s > Len(stream')
  <2>1. /\ broker \in [Key -> {"none", "ready", "out", "settled", "dead"}]
        /\ \A s \in Key : broker[s] = "none" <=> s > Len(stream)
        /\ broker' = [broker EXCEPT ![Len(stream) + 1] = "ready"]
    BY DEF ControlTypeOK, Publish
  <2>2. /\ broker' \in [Key -> {"none", "ready", "out", "settled", "dead"}]
        /\ \A s \in Key : broker'[s] = IF s = Len(stream) + 1 THEN "ready" ELSE broker[s]
    BY <2>1, <1>3
  <2>3. \A s \in Key : s > Len(stream') <=> s > Len(stream) /\ s # Len(stream) + 1
    BY <1>1, <1>2, Len(stream) \in Nat, ConsumerAssumption
  <2> QED
    BY <2>1, <2>2, <2>3
<1>5. /\ notice' \subseteq Published' /\ scanRetries' \subseteq Published'
      /\ fetched' \subseteq [seq : Published', count : 1 .. MaxDeliver]
  BY <1>2 DEF ControlTypeOK, Publish, recoveryVars
<1>6. Len(stream') <= MaxStream
  BY <1>1, <1>2
<1>7. UNCHANGED <<deliveries, advisory, loop, exhausted, pending, phase, todo, recover,
                  requests, storeFaults, readFaults, restarts>>
  BY DEF Publish, recoveryVars, faultVars
<1> QED
  BY <1>2, <1>4, <1>5, <1>6, <1>7 DEF ControlTypeOK

(* The timers of the broker keep the types.                                *)
LEMMA BrokerTypes ==
  ASSUME ControlTypeOK, Broker
  PROVE  ControlTypeOK'
<1>1. PICK s \in Key : AckWaitExpires(s) \/ MaxDeliverReached(s)
  BY DEF Broker
<1>2. CASE AckWaitExpires(s)
  BY <1>1, <1>2 DEF AckWaitExpires, ControlTypeOK, Published, recoveryVars, faultVars
<1>3. CASE MaxDeliverReached(s)
  <2>1. s \in Published
    BY <1>1, <1>3 DEF MaxDeliverReached, ControlTypeOK, Published
  <2> QED
    BY <1>1, <1>3, <2>1 DEF MaxDeliverReached, ControlTypeOK, Published, faultVars
<1> QED
  BY <1>1, <1>2, <1>3

(* markExhausted touches the pending entry of its sequence only.           *)
LEMMA EnqueueTypes ==
  ASSUME ControlTypeOK, NEW s \in Key, NEW kind \in {"full", "hollow"},
         EnqueueRecovery(s, kind) \/ NoEnqueue
  PROVE  /\ exhausted' \subseteq Key
         /\ pending' \in [Key -> {"none", "full", "hollow"}]
         /\ \A x \in Key : x # s => pending'[x] = pending[x]
<1>1. pending \in [Key -> {"none", "full", "hollow"}] /\ exhausted \subseteq Key
  BY DEF ControlTypeOK
<1>2. CASE NoEnqueue
  BY <1>1, <1>2 DEF NoEnqueue
<1>3. CASE EnqueueRecovery(s, kind)
  BY <1>1, <1>3 DEF EnqueueRecovery
<1> QED
  BY <1>2, <1>3

(* An acknowledgement, effective or lost, settles or releases the sequence *)
(* of the loop.                                                            *)
LEMMA AcknowledgeTypes ==
  ASSUME ControlTypeOK, Acknowledge
  PROVE  /\ broker' \in [Key -> {"none", "ready", "out", "settled", "dead"}]
         /\ \A s \in Key : broker'[s] = "none" <=> broker[s] = "none"
         /\ \A s \in Key : broker'[s] # broker[s] =>
              \/ broker'[s] = "ready"
              \/ broker'[s] = "settled" /\ s = loop.seq /\ loop.pc \in {"ack", "term"}
<1>1. broker \in [Key -> {"none", "ready", "out", "settled", "dead"}]
  BY DEF ControlTypeOK
<1>2. CASE UNCHANGED broker
  BY <1>1, <1>2
<1>3. CASE loop.pc = "nak" /\ broker' = Naked(loop.seq)
  BY <1>1, <1>3 DEF Naked
<1>4. CASE loop.pc # "nak" /\ broker' = Acked(loop.seq)
  BY <1>1, <1>4 DEF Acked, Acknowledge
<1> QED
  BY <1>2, <1>3, <1>4 DEF Acknowledge

(* The consume loop keeps the types.                                       *)
LEMMA ConsumeLoopTypes ==
  ASSUME ControlTypeOK, HeldByLoop, ConsumeLoop
  PROVE  ControlTypeOK'
<1>1. ASSUME NEW S \in SUBSET Published, Fetch(S)
      PROVE  ControlTypeOK'
  <2>1. /\ S \subseteq Key
        /\ \A s \in S : s \in Published /\ broker[s] = "ready" /\ deliveries[s] < MaxDeliver
    BY <1>1 DEF Fetch, Deliverable, ControlTypeOK, Published
  <2>5. \A s \in S : deliveries[s] + 1 \in 1 .. MaxDeliver
    BY <2>1, ControlBounds
  <2>2. deliveries' \in [Key -> 0 .. MaxDeliver]
    BY <1>1, <2>1, <2>5 DEF Fetch, ControlTypeOK
  <2>3. /\ broker' \in [Key -> {"none", "ready", "out", "settled", "dead"}]
        /\ \A s \in Key : broker'[s] = "none" <=> s > Len(stream)
    BY <1>1, <2>1 DEF Fetch, ControlTypeOK
  <2>4. fetched' \subseteq [seq : Published, count : 1 .. MaxDeliver]
    BY <1>1, <2>1, <2>5 DEF Fetch, ControlTypeOK
  <2> QED
    BY <1>1, <2>2, <2>3, <2>4 DEF Fetch, ControlTypeOK, Published, recoveryVars,
       faultVars
<1>2. ASSUME NEW c \in fetched, ProcessMessage(c)
      PROVE  ControlTypeOK'
  <2>1. c.seq \in 0 .. MaxStream /\ c.count \in 0 .. MaxDeliver
    BY <1>2 DEF ControlTypeOK, Published
  <2> QED
    BY <1>2, <2>1 DEF ProcessMessage, ControlTypeOK, Published, brokerVars,
       recoveryVars,
                      faultVars
<1>3. CASE IngestBatch
  <2>1. \E x \in {"exhausted", "nak", "ack"} : loop' = [loop EXCEPT !.pc = x]
    BY <1>3 DEF IngestBatch, Goto
  <2>2. storeFaults' \in 0 .. MaxStoreFaults
    BY <1>3 DEF IngestBatch, StoreFault, ControlTypeOK
  <2> QED
    BY <1>3, <2>1, <2>2 DEF IngestBatch, ControlTypeOK, Published, brokerVars,
       recoveryVars
<1>4. CASE QuarantineMessage
  <2>1. \E x \in {"ack", "nak", "term"} : loop' = [loop EXCEPT !.pc = x]
    BY <1>4 DEF QuarantineMessage, Goto
  <2>2. storeFaults' \in 0 .. MaxStoreFaults
    BY <1>4 DEF QuarantineMessage, StoreFault, ControlTypeOK
  <2>3. loop.seq \in Key
    BY <1>4 DEF QuarantineMessage, HeldByLoop, ControlTypeOK, Published
  <2>4. (EnqueueRecovery(loop.seq, "full") \/ NoEnqueue)
    BY <1>4 DEF QuarantineMessage
  <2>5. exhausted' \subseteq Key /\ pending' \in [Key -> {"none", "full", "hollow"}]
    BY <2>3, <2>4, EnqueueTypes
  <2> QED
    BY <1>4, <2>1, <2>2, <2>5 DEF QuarantineMessage, ControlTypeOK, Published,
       brokerVars
<1>5. CASE Acknowledge
  <2>1. loop' \in [pc : {"idle"}, seq : 0 .. MaxStream, count : 0 .. MaxDeliver]
    BY <1>5 DEF Acknowledge, LoopIdle
  <2>2. UNCHANGED <<stream, Published, deliveries, advisory, notice, fetched, exhausted,
                    pending, scanRetries, phase, todo, recover, requests, storeFaults,
                    readFaults, restarts>>
    BY <1>5 DEF Acknowledge, Published, recoveryVars, faultVars
  <2> QED
    BY <1>5, <2>1, <2>2, AcknowledgeTypes DEF ControlTypeOK
<1> QED
  BY <1>1, <1>2, <1>3, <1>4, <1>5 DEF ConsumeLoop

(* The states of a recovery handler.                                       *)
HandlerState == [pc : {"idle", "record", "persist", "settle"}, seq : 0 .. MaxStream,
                 id : Identity, payload : Payload]

(* The states RecoverStreamSequence leaves a handler in: idle, done, or    *)
(* holding what the message says.                                          *)
LEMMA HandlerStates ==
  ASSUME ControlTypeOK, NEW p \in Handler, NEW s \in Published
  PROVE  /\ RecoverIdle \in HandlerState /\ HeldByHandler(RecoverIdle)
         /\ Done(p, s) \in HandlerState /\ HeldByHandler(Done(p, s))
         /\ \A id \in {NoBatch, stream[s].claim}, payload \in {Empty, Body(s)},
               c \in {"record", "persist"} :
              /\ [pc |-> c, seq |-> s, id |-> id, payload |-> payload] \in HandlerState
              /\ HeldByHandler([pc |-> c, seq |-> s, id |-> id, payload |-> payload])
<1>0. /\ s \in 0 .. MaxStream /\ Body(s) \in Payload /\ stream[s].claim \in Identity
      /\ NoBatch \in Identity /\ Empty \in Payload
  BY PublishedFacts DEF Identity, Payload
<1>1. RecoverIdle \in HandlerState /\ HeldByHandler(RecoverIdle)
  BY <1>0 DEF RecoverIdle, HandlerState, HeldByHandler
<1>2. \/ Done(p, s) = RecoverIdle
      \/ Done(p, s) = [pc |-> "settle", seq |-> s, id |-> NoBatch, payload |-> Empty]
  BY DEF Done, RecoverIdle
<1>3. /\ [pc |-> "settle", seq |-> s, id |-> NoBatch, payload |-> Empty] \in HandlerState
      /\ HeldByHandler([pc |-> "settle", seq |-> s, id |-> NoBatch, payload |-> Empty])
  BY <1>0 DEF HandlerState, HeldByHandler
<1>4. Done(p, s) \in HandlerState /\ HeldByHandler(Done(p, s))
  BY <1>1, <1>2, <1>3, Zenon
<1> QED
  BY <1>0, <1>1, <1>4 DEF HandlerState, HeldByHandler

(* The first half of RecoverStreamSequence keeps the types, and the        *)
(* handler holds what the message says.                                    *)
LEMMA InspectTypes ==
  ASSUME ControlTypeOK, NEW p \in Handler, NEW s \in Published, Inspect(p, s)
  PROVE  /\ storeFaults' \in 0 .. MaxStoreFaults /\ readFaults' \in 0 .. MaxReadFaults
         /\ exhausted' \subseteq Key
         /\ pending' \in [Key -> {"none", "full", "hollow"}]
         /\ \A x \in Key : x # s => pending'[x] = pending[x]
         /\ scanRetries' \subseteq Published
         /\ \E r \in HandlerState :
              HeldByHandler(r) /\ recover' = [recover EXCEPT ![p] = r]
<1>0. /\ s \in Key
      /\ IdentityOf(s) \in {NoBatch, stream[s].claim}
      /\ pending \in [Key -> {"none", "full", "hollow"}] /\ exhausted \subseteq Key
  BY PublishedFacts DEF ControlTypeOK
<1>1. CASE InspectFails(p, s)
  <2>1. storeFaults' \in 0 .. MaxStoreFaults /\ readFaults' \in 0 .. MaxReadFaults
    BY <1>1, ControlBounds DEF InspectFails, ReadFault, StoreFault
  <2>2. /\ EnqueueRecovery(s, "hollow") \/ NoEnqueue
        /\ recover' = [recover EXCEPT ![p] = RecoverIdle]
        /\ scanRetries' \subseteq Published
    BY <1>1 DEF InspectFails, GiveUp, ControlTypeOK
  <2> QED
    BY <1>0, <2>1, <2>2, EnqueueTypes, HandlerStates
<1>2. CASE ~InspectFails(p, s)
  <2>1. /\ exhausted' = IF FromAdvisory(p) THEN exhausted \cup {s} ELSE exhausted
        /\ UNCHANGED <<storeFaults, readFaults>>
        /\ FoundIngested(p, s) \/ InFlight(p, s) \/ ToBeRecorded(p, s)
    BY <1>2 DEF Inspect
  <2>2. \E r \in {RecoverIdle, Done(p, s),
                  [pc |-> "record", seq |-> s, id |-> IdentityOf(s), payload |-> Body(s)]} :
          recover' = [recover EXCEPT ![p] = r]
    BY <2>1 DEF FoundIngested, InFlight, ToBeRecorded
  <2>3. \E r \in HandlerState : HeldByHandler(r) /\ recover' = [recover EXCEPT ![p] = r]
    BY <1>0, <2>2, HandlerStates
  <2>4. pending' = pending \/ pending' = [pending EXCEPT ![s] = "none"]
    BY <2>1 DEF FoundIngested, InFlight, ToBeRecorded
  <2>5. /\ pending' \in [Key -> {"none", "full", "hollow"}]
        /\ \A x \in Key : x # s => pending'[x] = pending[x]
    BY <1>0, <2>4
  <2>6. storeFaults' \in 0 .. MaxStoreFaults /\ readFaults' \in 0 .. MaxReadFaults
    BY <2>1 DEF ControlTypeOK
  <2>7. scanRetries' \subseteq Published
    BY <2>1 DEF FoundIngested, InFlight, ToBeRecorded, ScanDone, ControlTypeOK
  <2> QED
    BY <1>0, <2>1, <2>3, <2>5, <2>6, <2>7
<1> QED
  BY <1>1, <1>2

(* The second half of RecoverStreamSequence keeps the types.               *)
LEMMA RecordTypes ==
  ASSUME ControlTypeOK, HeldByRecovery, NEW p \in Handler, Record(p)
  PROVE  /\ storeFaults' \in 0 .. MaxStoreFaults
         /\ exhausted' \subseteq Key
         /\ pending' \in [Key -> {"none", "full", "hollow"}]
         /\ \A x \in Key : pending'[x] # "none" => pending[x] # "none" \/ x \in Published
         /\ scanRetries' \subseteq Published
         /\ \E r \in HandlerState :
              HeldByHandler(r) /\ recover' = [recover EXCEPT ![p] = r]
<1> DEFINE s == recover[p].seq
<1>1. s \in Published
  BY DEF HeldByRecovery, HeldByHandler, Record
<1>2. s \in Key /\ pending \in [Key -> {"none", "full", "hollow"}] /\ exhausted \subseteq Key
  BY <1>1, PublishedFacts DEF ControlTypeOK
<1>3. CASE StoreFault /\ GiveUp(p, s)
  <2>1. /\ EnqueueRecovery(s, "hollow") \/ NoEnqueue
        /\ recover' = [recover EXCEPT ![p] = RecoverIdle]
        /\ scanRetries' \subseteq Published
    BY <1>1, <1>3 DEF GiveUp, ControlTypeOK
  <2>2. storeFaults' \in 0 .. MaxStoreFaults
    BY <1>3, ControlBounds DEF StoreFault
  <2> HIDE DEF s
  <2>3. /\ exhausted' \subseteq Key /\ pending' \in [Key -> {"none", "full", "hollow"}]
        /\ \A x \in Key : x # s => pending'[x] = pending[x]
    BY <1>2, <2>1, EnqueueTypes
  <2>4. RecoverIdle \in HandlerState /\ HeldByHandler(RecoverIdle)
    BY <1>1, HandlerStates
  <2> QED
    BY <1>1, <2>1, <2>2, <2>3, <2>4
<1>4. CASE ~(StoreFault /\ GiveUp(p, s))
  <2>1. /\ UNCHANGED <<exhausted, storeFaults>>
        /\ pending' = pending \/ pending' = [pending EXCEPT ![s] = "none"]
        /\ recover' = [recover EXCEPT ![p] = Done(p, s)]
        /\ scanRetries' \subseteq Published
    BY <1>1, <1>4 DEF Record, ScanDone, ControlTypeOK
  <2>2. /\ pending' \in [Key -> {"none", "full", "hollow"}]
        /\ \A x \in Key : pending'[x] # "none" => pending[x] # "none"
    BY <1>2, <2>1
  <2>3. storeFaults' \in 0 .. MaxStoreFaults
    BY <2>1 DEF ControlTypeOK
  <2> HIDE DEF s
  <2> QED
    BY <1>1, <1>2, <2>1, <2>2, <2>3, HandlerStates
<1> QED
  BY <1>3, <1>4

(* A step that sets one handler and the pending list keeps what recovery   *)
(* holds about published messages.                                         *)
LEMMA HandlerHolds ==
  ASSUME ControlTypeOK, HeldByRecovery, UNCHANGED <<stream, advisory>>, NEW p \in Handler,
         todo' \subseteq todo,
         \A x \in Key : pending'[x] # "none" => pending[x] # "none" \/ x \in Published,
         \E r \in HandlerState :
           HeldByHandler(r) /\ recover' = [recover EXCEPT ![p] = r]
  PROVE  HeldByRecovery' /\ recover' \in [Handler -> HandlerState]
<1>1. PICK r \in HandlerState :
        HeldByHandler(r) /\ recover' = [recover EXCEPT ![p] = r]
  OBVIOUS
<1>2. recover \in [Handler -> HandlerState]
  BY DEF ControlTypeOK, HandlerState
<1>3. recover' \in [Handler -> HandlerState]
  BY <1>1, <1>2
<1>4. \A q \in Handler : recover'[q] = recover[q] \/ recover'[q] = r
  BY <1>1, <1>2
<1>5. \A q \in Handler : HeldByHandler(recover'[q])
  BY <1>1, <1>4 DEF HeldByRecovery
<1>6. \A q \in Handler : HeldByHandler(recover[q])'
  BY <1>5 DEF HeldByHandler, Published, Body
<1> QED
  BY <1>3, <1>6 DEF HeldByRecovery, Published

(* The recovery worker and the subscriber keep the types, and work on      *)
(* published messages only.                                                *)
LEMMA RecoveryTypes ==
  ASSUME ControlTypeOK, HeldByRecovery, RecoveryWorker \/ Subscriber
  PROVE  ControlTypeOK' /\ HeldByRecovery'
<1> USE DEF HandlerState
<1>1. CASE BeginPass
  <2>1. PassItems(phase') \subseteq Item /\ \A i \in PassItems(phase') : i.seq \in Published
    <3>1. phase' \in {"advisories", "pending", "scan"}
      BY <1>1 DEF BeginPass, NextPass, ControlTypeOK
    <3>2. \A x \in Key : pending[x] # "none" => pending[x] \in {"full", "hollow"}
      BY DEF ControlTypeOK
    <3>3. Published \subseteq Key
      BY DEF Published, ControlTypeOK
    <3> QED
      BY <3>1, <3>2, <3>3 DEF PassItems, Item, HeldByRecovery, ControlTypeOK
  <2>2. /\ phase' \in {"advisories", "pending", "scan"}
        /\ todo' = PassItems(phase')
    BY <1>1 DEF BeginPass, NextPass, ControlTypeOK
  <2>3. UNCHANGED <<brokerVars, fetched, loop, exhausted, pending, scanRetries, recover,
                    notice, requests, faultVars>>
    BY <1>1 DEF BeginPass
  <2>4. ControlTypeOK'
    BY <2>1, <2>2, <2>3 DEF ControlTypeOK, brokerVars, faultVars, Published
  <2> QED
    BY <2>1, <2>2, <2>3, <2>4 DEF HeldByRecovery, HeldByHandler, Published, Body,
       brokerVars
<1>2. ASSUME NEW i \in todo, InspectItem(i)
      PROVE  ControlTypeOK' /\ HeldByRecovery'
  <2>1. i.seq \in Published
    BY DEF HeldByRecovery
  <2>2. /\ Inspect("worker", i.seq) /\ todo' = todo \ {i}
        /\ UNCHANGED <<storeVars, brokerVars, fetched, loop, notice, phase, requests, restarts>>
    BY <1>2 DEF InspectItem, Take
  <2>3. HeldByRecovery' /\ recover' \in [Handler -> HandlerState]
    BY <2>1, <2>2, InspectTypes, HandlerHolds DEF Handler, brokerVars
  <2> QED
    BY <2>1, <2>2, <2>3, InspectTypes DEF ControlTypeOK, brokerVars, Published, Handler
<1>3. ASSUME NEW s \in notice, TakeNotice(s)
      PROVE  ControlTypeOK' /\ HeldByRecovery'
  <2>1. s \in Published
    BY DEF ControlTypeOK
  <2>2. /\ Inspect("subscriber", s) /\ notice' = notice \ {s}
        /\ UNCHANGED <<storeVars, brokerVars, fetched, loop, phase, todo, requests, restarts>>
    BY <1>3 DEF TakeNotice
  <2>3. HeldByRecovery' /\ recover' \in [Handler -> HandlerState]
    BY <2>1, <2>2, InspectTypes, HandlerHolds DEF Handler, brokerVars
  <2> QED
    BY <2>1, <2>2, <2>3, InspectTypes DEF ControlTypeOK, brokerVars, Published, Handler
<1>4. ASSUME NEW p \in Handler, Record(p)
      PROVE  ControlTypeOK' /\ HeldByRecovery'
  <2>1. UNCHANGED <<brokerVars, fetched, loop, notice, phase, todo, requests, readFaults,
                    restarts>>
    BY <1>4 DEF Record
  <2>2. HeldByRecovery' /\ recover' \in [Handler -> HandlerState]
    BY <1>4, <2>1, RecordTypes, HandlerHolds DEF brokerVars
  <2> QED
    BY <1>4, <2>1, <2>2, RecordTypes DEF ControlTypeOK, brokerVars, Published
<1>5. ASSUME NEW i \in todo, ReadPending(i)
      PROVE  ControlTypeOK' /\ HeldByRecovery'
  <2> DEFINE s == i.seq
  <2>1. s \in Published
    BY DEF HeldByRecovery
  <2>2. /\ UNCHANGED <<storeVars, brokerVars, fetched, loop, exhausted, pending, scanRetries,
                       phase, notice, requests, storeFaults, restarts>>
        /\ todo' = todo \ {i}
        /\ readFaults' \in 0 .. MaxReadFaults
    BY <1>5, ControlBounds DEF ReadPending, Take, ReadFault
  <2>3. \E id \in {NoBatch, IdentityOf(s), stream[s].claim}, payload \in {Empty, Body(s)} :
          recover' = [recover EXCEPT !["worker"] =
            [pc |-> "persist", seq |-> s, id |-> id, payload |-> payload]]
    <3>1. CASE i.data = "hollow"
      BY <1>5, <3>1 DEF ReadPending
    <3>2. CASE i.data # "hollow"
      BY <1>5, <3>2 DEF ReadPending
    <3> QED
      BY <3>1, <3>2
  <2>4. IdentityOf(s) \in {NoBatch, stream[s].claim}
    BY <2>1, PublishedFacts
  <2>5. \E r \in HandlerState :
          HeldByHandler(r) /\ recover' = [recover EXCEPT !["worker"] = r]
    <3>1. PICK id \in {NoBatch, stream[s].claim}, payload \in {Empty, Body(s)} :
            recover' = [recover EXCEPT !["worker"] =
              [pc |-> "persist", seq |-> s, id |-> id, payload |-> payload]]
      BY <2>3, <2>4
    <3>2. /\ [pc |-> "persist", seq |-> s, id |-> id, payload |-> payload] \in HandlerState
          /\ HeldByHandler([pc |-> "persist", seq |-> s, id |-> id, payload |-> payload])
      <4> HIDE DEF s
      <4> QED
        BY <2>1, HandlerStates DEF Handler
    <3> QED
      BY <3>1, <3>2
  <2>6. HeldByRecovery' /\ recover' \in [Handler -> HandlerState]
    BY <2>2, <2>5, HandlerHolds DEF brokerVars, Handler
  <2> QED
    BY <2>2, <2>6 DEF ControlTypeOK, brokerVars, Published
<1>6. CASE PersistPending
  <2>1. /\ UNCHANGED <<brokerVars, fetched, loop, exhausted, scanRetries, phase, todo,
                       notice, requests, readFaults, restarts>>
        /\ recover' = [recover EXCEPT !["worker"] = RecoverIdle]
        /\ storeFaults' \in 0 .. MaxStoreFaults
        /\ \/ pending' = pending
           \/ pending' = [pending EXCEPT ![recover["worker"].seq] = "none"]
    BY <1>6 DEF PersistPending, StoreFault, ControlTypeOK
  <2>2. /\ pending' \in [Key -> {"none", "full", "hollow"}]
        /\ \A x \in Key : pending'[x] # "none" => pending[x] # "none"
    BY <2>1 DEF ControlTypeOK
  <2>3. RecoverIdle \in HandlerState /\ HeldByHandler(RecoverIdle)
    BY DEF RecoverIdle, HeldByHandler, Identity, Payload
  <2>4. HeldByRecovery' /\ recover' \in [Handler -> HandlerState]
    BY <2>1, <2>2, <2>3, HandlerHolds DEF brokerVars, Handler
  <2> QED
    BY <2>1, <2>2, <2>4 DEF ControlTypeOK, brokerVars, Published
<1>7. CASE SettleAdvisory
  <2> DEFINE s == recover["worker"].seq
  <2>0. s \in Published /\ s \in Key
    BY <1>7, PublishedFacts DEF SettleAdvisory, HeldByRecovery, HeldByHandler, Handler
  <2>1. /\ UNCHANGED <<stream, deliveries, broker, fetched, loop, exhausted, pending,
                       scanRetries, phase, todo, notice, requests, faultVars>>
        /\ recover' = [recover EXCEPT !["worker"] = RecoverIdle]
        /\ advisory' = advisory \/ advisory' = [advisory EXCEPT ![s] = "acked"]
    BY <1>7 DEF SettleAdvisory
  <2> HIDE DEF s
  <2>2. /\ advisory' \in [Key -> {"none", "queued", "acked"}]
        /\ \A x \in Key : advisory'[x] # "none" => advisory[x] # "none" \/ x \in Published
    BY <2>0, <2>1 DEF ControlTypeOK
  <2>3. recover' \in [Handler -> HandlerState] /\ RecoverIdle.pc = "idle"
    BY <2>1 DEF ControlTypeOK, RecoverIdle, Identity, Payload, Handler
  <2>4. \A q \in Handler : recover'[q] = recover[q] \/ recover'[q] = RecoverIdle
    BY <2>1 DEF ControlTypeOK
  <2>5. HeldByRecovery'
    BY <2>1, <2>2, <2>3, <2>4 DEF HeldByRecovery, HeldByHandler, Published, Body
  <2> QED
    BY <2>1, <2>2, <2>3, <2>5 DEF ControlTypeOK, faultVars, Published
<1> QED
  BY <1>1, <1>2, <1>3, <1>4, <1>5, <1>6, <1>7 DEF RecoveryWorker, Subscriber, Handler

-----------------------------------------------------------------------------
(* The remaining actions, and the invariant as a whole.                    *)

(* HTTP ingestion, operator requests, retention and restarts keep the      *)
(* types.                                                                  *)
LEMMA OtherTypes ==
  ASSUME ControlTypeOK, HeldByRecovery, HeldByLoop,
         \/ \E b \in Batch : IngestHTTP(b)
         \/ \E n \in Node : RegisterNode(n) /\ UNCHANGED storeOnly
         \/ Operator \/ Retention \/ Restart \/ UNCHANGED vars
  PROVE  ControlTypeOK' /\ HeldByRecovery' /\ HeldByLoop'
<1>1. CASE Restart
  <2>1. /\ fetched' = {} /\ loop' = LoopIdle /\ exhausted' = {} /\ todo' = {}
        /\ pending' = [s \in Key |-> "none"] /\ phase' = "scan" /\ notice' = {}
        /\ scanRetries' = {}
        /\ recover' = [p \in Handler |-> RecoverIdle] /\ requests' = {}
        /\ restarts' \in 0 .. MaxRestarts
        /\ UNCHANGED <<stream, deliveries, broker, advisory, storeFaults, readFaults>>
    BY <1>1 DEF Restart, brokerVars, ControlTypeOK
  <2>2. loop' \in [pc : {"idle"}, seq : 0 .. MaxStream, count : 0 .. MaxDeliver]
    BY <2>1 DEF LoopIdle
  <2>3. recover' \in [Handler -> HandlerState]
    BY <2>1 DEF RecoverIdle, HandlerState, Identity, Payload
  <2>4. \A p \in Handler : recover'[p].pc = "idle"
    BY <2>1 DEF RecoverIdle
  <2>5. ControlTypeOK'
    BY <2>1, <2>2, <2>3 DEF ControlTypeOK, HandlerState, Published
  <2> QED
    BY <2>1, <2>2, <2>4, <2>5 DEF HeldByRecovery, HeldByHandler, HeldByLoop, Published,
       Body
<1>2. CASE Operator
  <2>1. /\ UNCHANGED <<brokerVars, fetched, loop, recoveryVars, faultVars>>
        /\ requests' \subseteq {"replay", "discard"} \X Key
    BY <1>2 DEF Operator, BeginRequest, CommitRequest, ControlTypeOK
  <2> QED
    BY <2>1 DEF ControlTypeOK, HeldByRecovery, HeldByHandler, HeldByLoop, Published,
       Body,
                brokerVars, recoveryVars, faultVars
<1>3. CASE \/ \E b \in Batch : IngestHTTP(b)
           \/ \E n \in Node : RegisterNode(n) /\ UNCHANGED storeOnly
           \/ Retention \/ UNCHANGED vars
  <2>1. UNCHANGED storeOnly
    BY <1>3 DEF IngestHTTP, Retention, storeOnly, vars
  <2> QED
    BY <2>1 DEF ControlTypeOK, HeldByRecovery, HeldByHandler, HeldByLoop, Published,
       Body,
                storeOnly, brokerVars, recoveryVars, faultVars
<1> QED
  BY <1>1, <1>2, <1>3

(* The consume loop keeps what recovery holds, and its own.                *)
LEMMA ConsumeLoopHolds ==
  ASSUME ControlTypeOK, HeldByRecovery, HeldByLoop, ConsumeLoop
  PROVE  HeldByRecovery' /\ HeldByLoop'
<1>1. UNCHANGED <<stream, advisory, todo, recover>>
  BY DEF ConsumeLoop, Fetch, ProcessMessage, IngestBatch, QuarantineMessage,
     Acknowledge,
         brokerVars, recoveryVars
<1>2. \A x \in Key : pending'[x] # "none" => pending[x] # "none" \/ x \in Published
  <2>1. CASE QuarantineMessage
    <3>1. loop.seq \in Published /\ loop.seq \in Key
      BY <2>1, PublishedFacts DEF QuarantineMessage, HeldByLoop
    <3>2. EnqueueRecovery(loop.seq, "full") \/ NoEnqueue
      BY <2>1 DEF QuarantineMessage
    <3> QED
      BY <3>1, <3>2, EnqueueTypes
  <2>2. CASE ~QuarantineMessage
    BY <2>2 DEF ConsumeLoop, Fetch, ProcessMessage, IngestBatch, Acknowledge,
       recoveryVars
  <2> QED
    BY <2>1, <2>2
<1>3. HeldByRecovery'
  BY <1>1, <1>2 DEF HeldByRecovery, HeldByHandler, Published, Body
<1>4. HeldByLoop'
  <2>1. CASE \E S \in SUBSET Published : Fetch(S)
    BY <1>1, <2>1 DEF Fetch, HeldByLoop, Published, Body
  <2>2. ASSUME NEW c \in fetched, ProcessMessage(c)
        PROVE  HeldByLoop'
    <3>1. /\ loop'.seq = c.seq
          /\ loop'.pc = "ingest" => Body(c.seq) \in Batch
      BY <2>2 DEF ProcessMessage
    <3>2. c.seq \in Published
      BY DEF ControlTypeOK
    <3> QED
      BY <1>1, <3>1, <3>2 DEF HeldByLoop, Published, Body
  <2>3. CASE IngestBatch \/ QuarantineMessage
    <3>1. loop.seq \in Published
      BY <2>3 DEF IngestBatch, QuarantineMessage, HeldByLoop
    <3>2. \E x \in {"exhausted", "nak", "ack", "term"} : loop' = [loop EXCEPT !.pc = x]
      BY <2>3 DEF IngestBatch, QuarantineMessage, Goto
    <3>3. loop'.seq = loop.seq /\ loop'.pc # "ingest"
      BY <3>2 DEF ControlTypeOK
    <3> QED
      BY <1>1, <3>1, <3>3 DEF HeldByLoop, Published
  <2>4. CASE Acknowledge
    BY <2>4 DEF Acknowledge, LoopIdle, HeldByLoop
  <2> QED
    BY <2>1, <2>2, <2>3, <2>4 DEF ConsumeLoop
<1> QED
  BY <1>3, <1>4

(* A step of the store on behalf of the consumer names a row's batch as    *)
(* the row's message does.                                                 *)
LEMMA QuarantineNames ==
  ASSUME StoreTypeOK, RowsNameTheirMessage, NEW s \in Published, s \in Key,
         NEW id \in Identity, NEW payload \in Payload, id \in {NoBatch, stream[s].claim},
         RecordQuarantine(s, id, payload)
  PROVE  \A x \in Key : quar'[x].status # "none" =>
           x \in Published /\ quar'[x].batch \in {NoBatch, stream[x].claim}
<1>1. quar \in [Key -> Row]
  BY DEF StoreTypeOK
<1>2. \A x \in Key : quar'[x] = IF x = s THEN QuarantineRow(s, id, payload) ELSE quar[x]
  BY <1>1 DEF RecordQuarantine
<1>3. quar[s] \in Row
  BY <1>1
<1>4. QuarantineRow(s, id, payload).status # "none" =>
        QuarantineRow(s, id, payload).batch \in {NoBatch, stream[s].claim}
  <2>1. CASE QuarantineRow(s, id, payload) = quar[s]
    BY <2>1 DEF RowsNameTheirMessage
  <2>2. CASE QuarantineRow(s, id, payload) =
               [status |-> "quarantined", batch |-> id, payload |-> payload]
    BY <2>2
  <2>3. CASE QuarantineRow(s, id, payload) = [quar[s] EXCEPT !.batch = id]
    BY <1>3, <2>3 DEF Row
  <2> QED
    BY <2>1, <2>2, <2>3, QuarantineRowFacts
<1> QED
  BY <1>2, <1>4 DEF RowsNameTheirMessage

(* Every step keeps each row named after the batch its message claims.     *)
LEMMA NamesStep == ConsumerInv /\ [Next]_vars => RowsNameTheirMessage'
<1> SUFFICES ASSUME ConsumerInv, [Next]_vars
             PROVE  RowsNameTheirMessage'
  OBVIOUS
<1> DEFINE Names == \A x \in Key : quar'[x].status # "none" =>
                      x \in Published /\ quar'[x].batch \in {NoBatch, stream[x].claim}
<1>1. ASSUME UNCHANGED quar
      PROVE  Names
  BY <1>1 DEF ConsumerInv, RowsNameTheirMessage
<1>2. ASSUME QuarantineMessage
      PROVE  Names
  <2>1. loop.seq \in Published
    BY <1>2 DEF QuarantineMessage, ConsumerInv, HeldByLoop
  <2>2. \/ RecordQuarantine(loop.seq, IdentityOf(loop.seq), Body(loop.seq))
        \/ UNCHANGED quar
    BY <1>2 DEF QuarantineMessage, storeVars
  <2> QED
    BY <1>1, <2>1, <2>2, QuarantineNames, PublishedFacts DEF ConsumerInv, StoreInv
<1>3. ASSUME NEW p \in Handler, recover[p].pc # "idle",
             RecordQuarantine(recover[p].seq, recover[p].id, recover[p].payload)
      PROVE  Names
  <2>1. /\ recover[p].seq \in Published
        /\ recover[p].id \in {NoBatch, stream[recover[p].seq].claim}
        /\ recover[p].payload \in {Empty, Body(recover[p].seq)}
    BY <1>3 DEF ConsumerInv, HeldByRecovery, HeldByHandler
  <2>2. /\ recover[p].seq \in Key
        /\ recover[p].id \in Identity /\ recover[p].payload \in Payload
    BY <2>1, PublishedFacts DEF ConsumerInv, Identity, Payload
  <2> QED
    BY <1>3, <2>1, <2>2, QuarantineNames DEF ConsumerInv, StoreInv
<1>4. ASSUME RecoveryWorker \/ Subscriber
      PROVE  Names
  <2>1. \/ UNCHANGED quar
        \/ \E p \in Handler :
             /\ recover[p].pc # "idle"
             /\ RecordQuarantine(recover[p].seq, recover[p].id, recover[p].payload)
    BY <1>4 DEF RecoveryWorker, Subscriber, Handler, BeginPass, InspectItem,
       ReadPending, Record,
                PersistPending, SettleAdvisory, TakeNotice, storeVars
  <2> QED
    BY <1>1, <1>3, <2>1
<1>5. ASSUME Operator \/ Retention
      PROVE  Names
  <2>1. quar \in [Key -> Row]
    BY DEF ConsumerInv, StoreInv, StoreTypeOK
  <2>2. \A x \in Key : quar'[x].status # "none" =>
          quar[x].status # "none" /\ quar'[x].batch = quar[x].batch
    <3>1. CASE UNCHANGED storeVars
      BY <3>1 DEF storeVars
    <3>2. CASE \E k \in Key : ReplayQuarantineRecord(k) \/ DiscardQuarantineRecord(k)
      <4>1. PICK k \in Key, status \in Terminal :
              quar[k].status = "quarantined" /\ quar' = [quar EXCEPT ![k].status = status]
        BY <3>2 DEF ReplayQuarantineRecord, CanReplay, DiscardQuarantineRecord, Active,
           Terminal
      <4> QED
        BY <2>1, <4>1 DEF Row
    <3>3. CASE \E S \in SUBSET payloads : PruneTelemetryPayloads(S)
      BY <3>3 DEF PruneTelemetryPayloads
    <3>4. CASE \E S \in SUBSET Key : PruneQuarantinePayloads(S)
      BY <2>1, <3>4 DEF PruneQuarantinePayloads, Row
    <3> QED
      BY <1>5, <3>1, <3>2, <3>3, <3>4 DEF Operator, BeginRequest, CommitRequest,
         Retention
  <2> QED
    BY <2>2 DEF ConsumerInv, RowsNameTheirMessage
<1>6. ASSUME ConsumeLoop, ~QuarantineMessage
      PROVE  UNCHANGED quar
  BY <1>6 DEF ConsumeLoop, Fetch, ProcessMessage, IngestBatch, Acknowledge, RecordBatch,
     storeVars
<1>7. ASSUME \/ \E m \in Message : Publish(m)
             \/ Broker \/ Restart \/ UNCHANGED vars
             \/ \E b \in Batch : IngestHTTP(b)
             \/ \E n \in Node : RegisterNode(n) /\ UNCHANGED storeOnly
      PROVE  UNCHANGED quar
  BY <1>7 DEF Publish, Broker, AckWaitExpires, MaxDeliverReached, Restart, vars,
     storeVars,
              IngestHTTP, RecordBatch, RegisterNode
<1>8. ASSUME ~(\E m \in Message : Publish(m))
      PROVE  UNCHANGED stream
  BY <1>8 DEF Next, Broker, AckWaitExpires, MaxDeliverReached, ConsumeLoop, Fetch,
              ProcessMessage, IngestBatch, QuarantineMessage, Acknowledge, RecoveryWorker,
              BeginPass, InspectItem, ReadPending, Record, PersistPending, SettleAdvisory,
              Subscriber, TakeNotice, IngestHTTP, Operator, BeginRequest, CommitRequest,
              Retention, Restart, storeOnly, brokerVars, vars
<1>9. Names
  BY <1>1, <1>2, <1>3, <1>4, <1>5, <1>6, <1>7 DEF Next, ConsumerInv,
     RowsNameTheirMessage
<1>10. \A x \in Published : x \in Published' /\ stream'[x] = stream[x]
  BY <1>8, PublishTypes DEF ConsumerInv, Published
<1> QED
  BY <1>9, <1>10 DEF RowsNameTheirMessage

(* The invariant holds initially.                                          *)
LEMMA ConsumerInitInv == Init => ConsumerInv
<1> SUFFICES ASSUME Init
             PROVE  ConsumerInv
  OBVIOUS
<1>1. StoreInv
  BY StoreInitInv DEF Init
<1>2. /\ stream = <<>> /\ stream \in Seq(Message) /\ Len(stream) = 0
      /\ Published = {}
  BY DEF Init, Published
<1>3. recover \in [Handler -> HandlerState] /\ \A p \in Handler : recover[p].pc = "idle"
  BY DEF Init, VolatileInit, RecoverIdle, HandlerState, Identity, Payload
<1>4. loop \in [pc : {"idle"}, seq : 0 .. MaxStream, count : 0 .. MaxDeliver]
  BY DEF Init, VolatileInit, LoopIdle
<1>5. ControlTypeOK
  BY <1>2, <1>3, <1>4 DEF ControlTypeOK, Init, VolatileInit, HandlerState
<1>6. HeldByLoop /\ HeldByRecovery
  BY <1>3, <1>4 DEF HeldByLoop, HeldByRecovery, HeldByHandler, Init, VolatileInit
<1>7. RowsNameTheirMessage
  BY DEF RowsNameTheirMessage, Init, StoreInit, NoRow
<1> QED
  BY <1>1, <1>5, <1>6, <1>7 DEF ConsumerInv

(* Every step keeps the types of the control state and what the handlers   *)
(* hold.                                                                   *)
LEMMA ControlStep ==
  ConsumerInv /\ [Next]_vars => ControlTypeOK' /\ HeldByLoop' /\ HeldByRecovery'
<1> SUFFICES ASSUME ConsumerInv, [Next]_vars
             PROVE  ControlTypeOK' /\ HeldByLoop' /\ HeldByRecovery'
  OBVIOUS
<1> USE DEF ConsumerInv
<1>1. CASE \E m \in Message : Publish(m)
  <2>1. PICK m \in Message : Publish(m)
    BY <1>1
  <2>2. /\ ControlTypeOK'
        /\ \A s \in Published : s \in Published' /\ stream'[s] = stream[s]
    BY <2>1, PublishTypes
  <2>3. UNCHANGED <<advisory, loop, pending, todo, recover>>
    BY <2>1 DEF Publish, recoveryVars
  <2>4. HeldByLoop'
    BY <2>2, <2>3 DEF HeldByLoop, Body
  <2>5. \A p \in Handler : HeldByHandler(recover[p])'
    BY <2>2, <2>3 DEF HeldByRecovery, HeldByHandler, Body
  <2> QED
    BY <2>2, <2>3, <2>4, <2>5 DEF HeldByRecovery
<1>2. CASE Broker
  <2>1. ControlTypeOK'
    BY <1>2, BrokerTypes
  <2>2. UNCHANGED <<stream, loop, pending, todo, recover>>
    BY <1>2 DEF Broker, AckWaitExpires, MaxDeliverReached, recoveryVars
  <2>3. \A x \in Key : advisory'[x] # "none" => advisory[x] # "none" \/ x \in Published
    <3>1. PICK s \in Key : AckWaitExpires(s) \/ MaxDeliverReached(s)
      BY <1>2 DEF Broker
    <3>2. CASE AckWaitExpires(s)
      BY <3>2 DEF AckWaitExpires
    <3>3. CASE MaxDeliverReached(s)
      BY <3>1, <3>3 DEF MaxDeliverReached, ControlTypeOK, Published
    <3> QED
      BY <3>1, <3>2, <3>3
  <2> QED
    BY <2>1, <2>2, <2>3 DEF HeldByLoop, HeldByRecovery, HeldByHandler, Published, Body
<1>3. CASE ConsumeLoop
  BY <1>3, ConsumeLoopTypes, ConsumeLoopHolds
<1>4. CASE RecoveryWorker \/ Subscriber
  <2>1. UNCHANGED stream
    BY <1>4 DEF RecoveryWorker, Subscriber, BeginPass, InspectItem, ReadPending, Record,
                PersistPending, SettleAdvisory, TakeNotice, brokerVars
  <2>2. UNCHANGED loop
    BY <1>4 DEF RecoveryWorker, Subscriber, BeginPass, InspectItem, ReadPending, Record,
                PersistPending, SettleAdvisory, TakeNotice
  <2>3. HeldByLoop'
    BY <2>1, <2>2 DEF HeldByLoop, Published, Body
  <2> QED
    BY <1>4, <2>3, RecoveryTypes
<1>5. CASE \/ \E b \in Batch : IngestHTTP(b)
           \/ \E n \in Node : RegisterNode(n) /\ UNCHANGED storeOnly
           \/ Operator \/ Retention \/ Restart \/ UNCHANGED vars
  BY <1>5, OtherTypes
<1> QED
  BY <1>1, <1>2, <1>3, <1>4, <1>5 DEF Next

(* The inductive step of the consumer's invariant.                         *)
LEMMA ConsumerNextInv == ConsumerInv /\ [Next]_vars => ConsumerInv'
<1>1. ConsumerInv /\ [Next]_vars => StoreInv'
  BY NextStore, StoreNextInv DEF ConsumerInv
<1> QED
  BY <1>1, NamesStep, ControlStep DEF ConsumerInv

(* The invariant of the consumer holds in every behaviour.                 *)
THEOREM ConsumerInvariance == Spec => []ConsumerInv
BY ConsumerInitInv, ConsumerNextInv, PTL DEF Spec

(* The types of the whole state, for any bounds.                           *)
THEOREM TypeTheorem == Spec => []TypeOK
<1>1. ConsumerInv => TypeOK
  BY DEF ConsumerInv, StoreInv, TypeOK
<1> QED
  BY <1>1, ConsumerInvariance, PTL

(* Whatever the three goroutines, HTTP ingestion, the operator and the     *)
(* retention passes do, they use the store as its specification says.      *)
THEOREM UsesStoreTheorem == Spec => StoreSpec
<1>1. Init => StoreInit
  BY DEF Init
<1> QED
  BY <1>1, NextStore, ConsumerInvariance, PTL DEF Spec, StoreSpec

(* So no interleaving of them leaves a batch both ingested and actively    *)
(* quarantined, and each batch lives as BatchDisposition says.             *)
THEOREM ConsumerExclusionTheorem == Spec => []NeverIngestedAndQuarantined
BY UsesStoreTheorem, ExclusionTheorem, PTL

(* The consumer, the HTTP server, the operator and retention together      *)
(* implement BatchDisposition: their transactions are moves of one batch.  *)
THEOREM ConsumerDispositionTheorem == Spec => DispositionSpec
BY UsesStoreTheorem, DispositionTheorem, PTL

-----------------------------------------------------------------------------
(***************************************************************************)
(* Two safety properties of the consumer.                                  *)
(*                                                                         *)
(* In-flight protection needs an invariant about what every goroutine      *)
(* holds: whatever is treated as exhausted was delivered MaxDeliver times. *)
(* That no message is lost needs one about what each has secured before it *)
(* acknowledges, and holds when reads of the stream do not fail while the  *)
(* pending pass completes an item (see ActiveRowsKeepPayload).             *)
(***************************************************************************)
AtLimit(s) == deliveries[s] = MaxDeliver

(* Copies carry a delivery count no higher than the broker's; all evidence *)
(* of exhaustion is of sequences delivered MaxDeliver times.               *)
LoopAtLimit ==
  /\ \A c \in fetched : c.count <= deliveries[c.seq]
  /\ loop.pc # "idle" => loop.count <= deliveries[loop.seq]
  /\ loop.pc = "exhausted" => loop.count >= MaxDeliver
  /\ loop.pc = "poison" => Body(loop.seq) \notin Batch

MayRecord(p, r) ==
  /\ r.pc \in {"record", "persist"} /\ (Body(r.seq) \in Batch \/ FromAdvisory(p)) =>
       AtLimit(r.seq)
  /\ r.pc = "settle" => AtLimit(r.seq)

EvidenceAtLimit ==
  /\ \A s \in Key :
       s \in exhausted \/ pending[s] # "none" \/ advisory[s] # "none" \/ s \in notice =>
         AtLimit(s)
  /\ phase # "scan" => \A i \in todo : AtLimit(i.seq)
  /\ \A p \in Handler : MayRecord(p, recover[p])

LimitInv == LoopAtLimit /\ EvidenceAtLimit /\ InFlightProtected

(* Delivery counts only grow, up to the limit.                             *)
LEMMA DeliveriesGrow ==
  ASSUME ConsumerInv, [Next]_vars
  PROVE  /\ \A s \in Key : deliveries'[s] >= deliveries[s]
         /\ \A s \in Key : AtLimit(s) => deliveries'[s] = MaxDeliver
         /\ \A s \in Published : /\ s \in Key /\ s \in Published'
                                 /\ Body(s)' = Body(s) /\ stream'[s] = stream[s]
<1>1. deliveries \in [Key -> 0 .. MaxDeliver] /\ deliveries' \in [Key -> 0 .. MaxDeliver]
  BY ControlStep DEF ConsumerInv, ControlTypeOK
<1>2. \A s \in Key : deliveries'[s] >= deliveries[s]
  <2>1. CASE \E S \in SUBSET Published : Fetch(S)
    BY <1>1, <2>1 DEF Fetch
  <2>2. CASE UNCHANGED deliveries
    BY <1>1, <2>2
  <2>3. UNCHANGED deliveries \/ \E S \in SUBSET Published : Fetch(S)
    BY DEF Next, Publish, Broker, AckWaitExpires, MaxDeliverReached, ConsumeLoop,
           ProcessMessage, IngestBatch, QuarantineMessage, Acknowledge, RecoveryWorker,
           BeginPass, InspectItem, ReadPending, Record, PersistPending, SettleAdvisory,
           Subscriber, TakeNotice, IngestHTTP, Operator, BeginRequest, CommitRequest,
           Retention, Restart, storeOnly, brokerVars, vars
  <2> QED
    BY <2>1, <2>2, <2>3
<1>3. UNCHANGED stream \/ \E m \in Message : Publish(m)
  BY DEF Next, Broker, AckWaitExpires, MaxDeliverReached, ConsumeLoop, Fetch,
         ProcessMessage, IngestBatch, QuarantineMessage, Acknowledge, RecoveryWorker,
         BeginPass, InspectItem, ReadPending, Record, PersistPending, SettleAdvisory,
         Subscriber, TakeNotice, IngestHTTP, Operator, BeginRequest, CommitRequest,
         Retention, Restart, storeOnly, brokerVars, vars
<1>4. \A s \in Published : s \in Key /\ s \in Published' /\ stream'[s] = stream[s]
  BY <1>3, PublishTypes, PublishedFacts DEF ConsumerInv, Published
<1> QED
  BY <1>1, <1>2, <1>4 DEF AtLimit, Body

(* A new row is written by the consume loop or a handler, with the bytes   *)
(* that one holds.                                                         *)
LEMMA RowOrigin ==
  ASSUME StoreTypeOK, NEW k \in Key, NEW id \in Identity, NEW p \in Payload,
         RecordQuarantine(k, id, p), NEW x \in Key,
         quar[x].status = "none", quar'[x].status # "none"
  PROVE  x = k /\ quar'[x].payload = p
<1>1. quar \in [Key -> Row]
  BY DEF StoreTypeOK
<1>2. quar'[x] = IF x = k THEN QuarantineRow(k, id, p) ELSE quar[x]
  BY <1>1 DEF RecordQuarantine
<1> QED
  BY <1>2, QuarantineRowFacts DEF Active

(* A key gets its row from the handler that works on it: the consume loop  *)
(* at its last delivery, or a recovery handler past its inspection.        *)
LEMMA NewRows ==
  ASSUME ConsumerInv, [Next]_vars, NEW x \in Key,
         quar[x].status = "none", quar'[x].status # "none"
  PROVE  \/ QuarantineMessage /\ x = loop.seq /\ quar'[x].payload = Body(x)
         \/ \E p \in Handler : /\ recover[p].pc \in {"record", "persist"}
                               /\ x = recover[p].seq
                               /\ quar'[x].payload = recover[p].payload
<1>1. StoreTypeOK
  BY DEF ConsumerInv, StoreInv
<1>2. CASE QuarantineMessage
  <2>1. loop.seq \in Published
    BY <1>2 DEF QuarantineMessage, ConsumerInv, HeldByLoop
  <2>2. \/ RecordQuarantine(loop.seq, IdentityOf(loop.seq), Body(loop.seq))
        \/ UNCHANGED quar
    BY <1>2 DEF QuarantineMessage, storeVars
  <2>3. /\ loop.seq \in Key /\ IdentityOf(loop.seq) \in Identity /\ Body(loop.seq) \in Payload
    BY <2>1, PublishedFacts DEF ConsumerInv
  <2> QED
    BY <1>1, <1>2, <2>2, <2>3, RowOrigin
<1>3. ASSUME NEW p \in Handler, recover[p].pc \in {"record", "persist"},
             RecordQuarantine(recover[p].seq, recover[p].id, recover[p].payload)
      PROVE  x = recover[p].seq /\ quar'[x].payload = recover[p].payload
  <2>1. /\ recover[p].seq \in Published
        /\ recover[p].id \in {NoBatch, stream[recover[p].seq].claim}
        /\ recover[p].payload \in {Empty, Body(recover[p].seq)}
    BY <1>3 DEF ConsumerInv, HeldByRecovery, HeldByHandler
  <2>2. /\ recover[p].seq \in Key
        /\ recover[p].id \in Identity /\ recover[p].payload \in Payload
    BY <2>1, PublishedFacts DEF ConsumerInv, Identity, Payload
  <2> QED
    BY <1>1, <1>3, <2>2, RowOrigin
<1>4. CASE RecoveryWorker \/ Subscriber
  <2>1. \E p \in Handler :
          /\ recover[p].pc \in {"record", "persist"}
          /\ RecordQuarantine(recover[p].seq, recover[p].id, recover[p].payload)
    BY <1>4 DEF RecoveryWorker, Subscriber, Handler, BeginPass, InspectItem,
       ReadPending, Record,
                PersistPending, SettleAdvisory, TakeNotice, storeVars
  <2> QED
    BY <1>3, <2>1
<1>5. CASE Operator \/ Retention
  <2>1. quar \in [Key -> Row]
    BY <1>1 DEF StoreTypeOK
  <2>2. \/ UNCHANGED quar
        \/ \E k \in Key, status \in Terminal :
             quar[k].status = "quarantined" /\ quar' = [quar EXCEPT ![k].status = status]
        \/ \E S \in SUBSET Key : PruneQuarantinePayloads(S)
    BY <1>5 DEF Operator, BeginRequest, CommitRequest, Retention, storeVars,
                ReplayQuarantineRecord, CanReplay, DiscardQuarantineRecord, Active, Terminal,
                PruneTelemetryPayloads
  <2> QED
    BY <2>1, <2>2 DEF PruneQuarantinePayloads, Row
<1>6. ASSUME \/ ConsumeLoop /\ ~QuarantineMessage
             \/ \E m \in Message : Publish(m)
             \/ Broker \/ Restart \/ UNCHANGED vars
             \/ \E b \in Batch : IngestHTTP(b)
             \/ \E n \in Node : RegisterNode(n) /\ UNCHANGED storeOnly
      PROVE  UNCHANGED quar
  BY <1>6 DEF ConsumeLoop, Fetch, ProcessMessage, IngestBatch, Acknowledge, RecordBatch,
              Publish, Broker, AckWaitExpires, MaxDeliverReached, Restart, vars, storeVars,
              IngestHTTP, RegisterNode
<1> QED
  BY <1>2, <1>4, <1>5, <1>6 DEF Next

-----------------------------------------------------------------------------
(* In-flight protection.                                                   *)

(* The consume loop claims exhaustion only for a copy of the last          *)
(* delivery: its steps keep LoopAtLimit.                                   *)
LEMMA LoopLimitStep ==
  ASSUME ConsumerInv, LoopAtLimit, [Next]_vars
  PROVE  LoopAtLimit'
<1>0. /\ deliveries \in [Key -> 0 .. MaxDeliver] /\ deliveries' \in [Key -> 0 .. MaxDeliver]
      /\ fetched \subseteq [seq : Published, count : 1 .. MaxDeliver]
      /\ loop \in [pc : {"idle", "ingest", "exhausted", "poison", "ack", "nak", "term"},
                   seq : 0 .. MaxStream, count : 0 .. MaxDeliver]
  BY ControlStep DEF ConsumerInv, ControlTypeOK
<1>1. CASE \E S \in SUBSET Published : Fetch(S)
  <2>1. PICK S \in SUBSET Published : Fetch(S)
    BY <1>1
  <2>2. /\ loop' = loop /\ loop.pc = "idle"
        /\ fetched' = {[seq |-> s, count |-> deliveries'[s]] : s \in S}
    BY <2>1 DEF Fetch
  <2>3. \A c \in fetched' : c.count <= deliveries'[c.seq]
    BY <1>0, <2>2, DeliveriesGrow
  <2> QED
    BY <2>2, <2>3 DEF LoopAtLimit
<1>2. ASSUME NEW c \in fetched, ProcessMessage(c)
      PROVE  LoopAtLimit'
  <2>1. /\ fetched' = fetched \ {c}
        /\ loop' = [pc |-> IF Body(c.seq) \in Batch THEN "ingest" ELSE "poison",
                    seq |-> c.seq, count |-> c.count]
        /\ UNCHANGED <<deliveries, stream>>
    BY <1>2 DEF ProcessMessage, brokerVars
  <2> QED
    BY <2>1 DEF LoopAtLimit, Body
<1>3. CASE IngestBatch
  <2>1. /\ UNCHANGED <<deliveries, stream, fetched>>
        /\ \E x \in {"exhausted", "nak", "ack"} :
             loop' = [loop EXCEPT !.pc = x] /\ (x = "exhausted" => loop.count >= MaxDeliver)
        /\ loop.pc # "idle"
    BY <1>3 DEF IngestBatch, Goto, brokerVars
  <2> QED
    BY <1>0, <2>1 DEF LoopAtLimit, Body
<1>4. CASE QuarantineMessage
  <2>1. /\ UNCHANGED <<deliveries, stream, fetched>>
        /\ \E x \in {"ack", "nak", "term"} : loop' = [loop EXCEPT !.pc = x]
        /\ loop.pc # "idle"
    BY <1>4 DEF QuarantineMessage, Goto, brokerVars
  <2> QED
    BY <1>0, <2>1 DEF LoopAtLimit, Body
<1>5. CASE Acknowledge \/ Restart
  <2>1. UNCHANGED <<deliveries, stream>> /\ loop'.pc = "idle" /\ fetched' \subseteq fetched
    BY <1>5 DEF Acknowledge, Restart, LoopIdle, brokerVars
  <2> QED
    BY <2>1 DEF LoopAtLimit
<1>6. ASSUME UNCHANGED <<fetched, loop>>
      PROVE  LoopAtLimit'
  <2>1. \A c \in fetched : c.seq \in Published /\ c.count \in Nat
    BY <1>0
  <2>2. \A c \in fetched : c.count <= deliveries'[c.seq]
    BY <1>0, <2>1, DeliveriesGrow DEF LoopAtLimit
  <2>3. loop.pc # "idle" => loop.seq \in Published
    BY DEF ConsumerInv, HeldByLoop
  <2>4. loop.pc # "idle" => loop.count <= deliveries'[loop.seq] /\ Body(loop.seq)' = Body(loop.seq)
    BY <1>0, <1>6, <2>3, DeliveriesGrow DEF LoopAtLimit, Body
  <2> QED
    BY <1>6, <2>2, <2>4 DEF LoopAtLimit, Body
<1>7. \/ UNCHANGED <<fetched, loop>>
      \/ ConsumeLoop \/ Restart
  BY DEF Next, Publish, Broker, AckWaitExpires, MaxDeliverReached, RecoveryWorker,
         BeginPass, InspectItem, ReadPending, Record, PersistPending, SettleAdvisory,
         Subscriber, TakeNotice, IngestHTTP, Operator, BeginRequest, CommitRequest,
         Retention, storeOnly, vars
<1> QED
  BY <1>1, <1>2, <1>3, <1>4, <1>5, <1>6, <1>7 DEF ConsumeLoop

(* A sequence at the limit may be put on the pending list.                 *)
LEMMA EnqueueLimit ==
  ASSUME ControlTypeOK, EvidenceAtLimit, NEW s \in Key, NEW kind \in {"full", "hollow"},
         (EnqueueRecovery(s, kind) /\ AtLimit(s)) \/ NoEnqueue
  PROVE  \A x \in Key : x \in exhausted' \/ pending'[x] # "none" => AtLimit(x)
<1>1. CASE NoEnqueue
  BY <1>1 DEF NoEnqueue, EvidenceAtLimit
<1>2. CASE EnqueueRecovery(s, kind) /\ AtLimit(s)
  <2>1. \A x \in Key : x # s => pending'[x] = pending[x]
    BY <1>2, EnqueueTypes
  <2>2. exhausted' = exhausted \cup {s}
    BY <1>2 DEF EnqueueRecovery
  <2> QED
    BY <1>2, <2>1, <2>2 DEF EvidenceAtLimit
<1> QED
  BY <1>1, <1>2

(* RecoverStreamSequence goes on to record a valid message only with       *)
(* evidence, so with a message at its limit.                               *)
LEMMA InspectLimit ==
  ASSUME ControlTypeOK, EvidenceAtLimit, NEW p \in Handler, NEW s \in Published,
         Inspect(p, s), FromAdvisory(p) => AtLimit(s)
  PROVE  /\ \A x \in Key : x \in exhausted' \/ pending'[x] # "none" => AtLimit(x)
         /\ \E r : recover' = [recover EXCEPT ![p] = r] /\ MayRecord(p, r)
<1>0. s \in Key /\ pending \in [Key -> {"none", "full", "hollow"}]
  BY PublishedFacts DEF ControlTypeOK
<1>1. CASE InspectFails(p, s)
  <2>1. /\ (EnqueueRecovery(s, "hollow") /\ AtLimit(s)) \/ NoEnqueue
        /\ recover' = [recover EXCEPT ![p] = RecoverIdle]
    BY <1>1 DEF InspectFails, GiveUp
  <2>2. MayRecord(p, RecoverIdle)
    BY DEF MayRecord, RecoverIdle
  <2> QED
    BY <1>0, <2>1, <2>2, EnqueueLimit
<1>2. CASE ~InspectFails(p, s)
  <2>1. /\ exhausted' = IF FromAdvisory(p) THEN exhausted \cup {s} ELSE exhausted
        /\ FoundIngested(p, s) \/ InFlight(p, s) \/ ToBeRecorded(p, s)
    BY <1>2 DEF Inspect
  <2>2. pending' = pending \/ pending' = [pending EXCEPT ![s] = "none"]
    BY <2>1 DEF FoundIngested, InFlight, ToBeRecorded
  <2>3. \A x \in Key : x \in exhausted' \/ pending'[x] # "none" => AtLimit(x)
    BY <1>0, <2>1, <2>2 DEF EvidenceAtLimit
  <2>4. CASE FoundIngested(p, s) \/ InFlight(p, s)
    <3>1. /\ \/ Done(p, s).pc = "idle"
             \/ Done(p, s).pc = "settle" /\ Done(p, s).seq = s /\ FromAdvisory(p)
          /\ RecoverIdle.pc = "idle"
      BY DEF Done, RecoverIdle, FromAdvisory
    <3>2. MayRecord(p, Done(p, s)) /\ MayRecord(p, RecoverIdle)
      BY <3>1 DEF MayRecord
    <3> QED
      BY <2>3, <2>4, <3>2 DEF FoundIngested, InFlight
  <2>5. CASE ToBeRecorded(p, s)
    <3> DEFINE r == [pc |-> "record", seq |-> s, id |-> IdentityOf(s), payload |-> Body(s)]
    <3>1. recover' = [recover EXCEPT ![p] = r] /\ (Body(s) \in Batch => Evidence(p, s))
      BY <2>5 DEF ToBeRecorded
    <3>2. MayRecord(p, r)
      BY <1>0, <3>1 DEF MayRecord, Evidence, EvidenceAtLimit
    <3> QED
      BY <2>3, <3>1, <3>2
  <2> QED
    BY <2>1, <2>4, <2>5
<1> QED
  BY <1>1, <1>2

(* The second half of RecoverStreamSequence adds nothing to the evidence   *)
(* but the sequence it held.                                               *)
LEMMA RecordLimit ==
  ASSUME ConsumerInv, EvidenceAtLimit, NEW p \in Handler, Record(p)
  PROVE  /\ \A x \in Key : x \in exhausted' \/ pending'[x] # "none" => AtLimit(x)
         /\ \E r : recover' = [recover EXCEPT ![p] = r] /\ MayRecord(p, r)
<1> USE DEF ConsumerInv
<1> DEFINE s == recover[p].seq
<1>1. s \in Published /\ s \in Key
  BY PublishedFacts DEF Record, HeldByRecovery, HeldByHandler
<1>2. FromAdvisory(p) => AtLimit(s)
  BY DEF EvidenceAtLimit, MayRecord, Record
<1>3. RecoverIdle.pc = "idle" /\ MayRecord(p, RecoverIdle)
  BY DEF RecoverIdle, MayRecord
<1>4. MayRecord(p, Done(p, s))
  <2>1. \/ Done(p, s).pc = "idle"
        \/ Done(p, s).pc = "settle" /\ Done(p, s).seq = s /\ FromAdvisory(p)
    BY DEF Done, RecoverIdle, FromAdvisory
  <2> HIDE DEF s
  <2> QED
    BY <1>2, <2>1 DEF MayRecord
<1>5. CASE StoreFault /\ GiveUp(p, s)
  <2>1. /\ (EnqueueRecovery(s, "hollow") /\ AtLimit(s)) \/ NoEnqueue
        /\ recover' = [recover EXCEPT ![p] = RecoverIdle]
    BY <1>2, <1>5 DEF GiveUp
  <2> HIDE DEF s
  <2> QED
    BY <1>1, <1>3, <2>1, EnqueueLimit
<1>6. CASE ~(StoreFault /\ GiveUp(p, s))
  <2>1. /\ UNCHANGED exhausted
        /\ pending' = pending \/ pending' = [pending EXCEPT ![s] = "none"]
        /\ recover' = [recover EXCEPT ![p] = Done(p, s)]
    BY <1>6 DEF Record
  <2> HIDE DEF s
  <2>2. \A x \in Key : x \in exhausted' \/ pending'[x] # "none" => AtLimit(x)
    BY <1>1, <2>1 DEF EvidenceAtLimit, ControlTypeOK
  <2> QED
    BY <1>4, <2>1, <2>2
<1> QED
  BY <1>5, <1>6

(* The evidence after a recovery step: such a step changes no count.       *)
LEMMA RecoveryLimit ==
  ASSUME ConsumerInv, EvidenceAtLimit, RecoveryWorker \/ Subscriber
  PROVE  EvidenceAtLimit'
<1> USE DEF ConsumerInv
<1>1. UNCHANGED <<stream, deliveries>> /\ notice' \subseteq notice
  BY DEF RecoveryWorker, Subscriber, BeginPass, InspectItem, ReadPending, Record,
         PersistPending, SettleAdvisory, TakeNotice, brokerVars
<1>2. \A x \in Key : advisory'[x] # "none" \/ x \in notice' => AtLimit(x)
  <2>1. CASE SettleAdvisory
    <3>1. /\ recover["worker"].seq \in Key
          /\ AtLimit(recover["worker"].seq)
      BY <2>1, PublishedFacts DEF SettleAdvisory, HeldByRecovery, HeldByHandler,
         Handler,
                                  EvidenceAtLimit, MayRecord
    <3>2. \/ advisory' = advisory
          \/ advisory' = [advisory EXCEPT ![recover["worker"].seq] = "acked"]
      BY <2>1 DEF SettleAdvisory
    <3> QED
      BY <1>1, <3>1, <3>2 DEF EvidenceAtLimit, ControlTypeOK
  <2>2. CASE ~SettleAdvisory
    <3>1. UNCHANGED advisory
      BY <2>2 DEF RecoveryWorker, Subscriber, BeginPass, InspectItem, ReadPending,
         Record,
                  PersistPending, TakeNotice, brokerVars
    <3> QED
      BY <1>1, <3>1 DEF EvidenceAtLimit
  <2> QED
    BY <2>1, <2>2
<1>3. \A x \in Key : AtLimit(x)' = AtLimit(x)
  BY <1>1 DEF AtLimit
<1> DEFINE Lists == \A x \in Key : x \in exhausted' \/ pending'[x] # "none" => AtLimit(x)
           Todo == phase' # "scan" => \A i \in todo' : AtLimit(i.seq)
           Handlers == \A p \in Handler : MayRecord(p, recover[p])'
<1>4. SUFFICES Lists /\ Todo /\ Handlers
  <2>1. \A i \in todo' : i.seq \in Key
    <3>1. todo' \subseteq Item
      BY ControlStep DEF ControlTypeOK, Next
    <3> QED
      BY <3>1 DEF Item
  <2> QED
    BY <1>1, <1>2, <1>3, <2>1 DEF EvidenceAtLimit, AtLimit
<1>5. ASSUME NEW p \in Handler, UNCHANGED phase, NEW r,
             recover' = [recover EXCEPT ![p] = r], MayRecord(p, r)
      PROVE  Handlers
  <2>1. \A q \in Handler : recover'[q] = recover[q] \/ (q = p /\ recover'[q] = r)
    BY <1>5 DEF ControlTypeOK
  <2>2. \A q \in Handler : MayRecord(q, recover'[q])
    BY <1>5, <2>1 DEF EvidenceAtLimit
  <2> QED
    BY <1>1, <1>5, <2>2 DEF MayRecord, AtLimit, FromAdvisory, Body
<1>6. CASE BeginPass
  <2>1. /\ phase' = NextPass[phase] /\ todo' = PassItems(phase')
        /\ recover["worker"].pc = "idle"
        /\ UNCHANGED <<exhausted, pending, recover>>
    BY <1>6 DEF BeginPass
  <2>2. Todo
    BY <2>1 DEF PassItems, EvidenceAtLimit, NextPass, ControlTypeOK
  <2>3. Handlers
    <3>1. \A p \in Handler : p # "worker" => FromAdvisory(p)' = FromAdvisory(p)
      BY DEF FromAdvisory, Handler
    <3> QED
      BY <1>1, <2>1, <3>1 DEF EvidenceAtLimit, MayRecord, AtLimit, Body
  <2> QED
    BY <2>1, <2>2, <2>3 DEF EvidenceAtLimit
<1>7. ASSUME NEW i \in todo, InspectItem(i)
      PROVE  Lists /\ Todo /\ Handlers
  <2>1. /\ Inspect("worker", i.seq) /\ todo' = todo \ {i}
        /\ UNCHANGED phase /\ phase # "pending" /\ i.seq \in Published
    BY <1>7 DEF InspectItem, Take, HeldByRecovery
  <2>2. FromAdvisory("worker") => AtLimit(i.seq)
    BY <2>1 DEF FromAdvisory, EvidenceAtLimit
  <2> QED
    BY <1>5, <2>1, <2>2, InspectLimit DEF Handler, EvidenceAtLimit
<1>8. ASSUME NEW s \in notice, TakeNotice(s)
      PROVE  Lists /\ Todo /\ Handlers
  <2>1. Inspect("subscriber", s) /\ UNCHANGED <<phase, todo>> /\ s \in Published
    BY <1>8 DEF TakeNotice, ControlTypeOK
  <2>2. AtLimit(s)
    BY <2>1, PublishedFacts DEF EvidenceAtLimit
  <2> QED
    BY <1>5, <2>1, <2>2, InspectLimit DEF Handler, EvidenceAtLimit
<1>9. ASSUME NEW p \in Handler, Record(p)
      PROVE  Lists /\ Todo /\ Handlers
  <2>1. UNCHANGED <<phase, todo>>
    BY <1>9 DEF Record
  <2> QED
    BY <1>5, <1>9, <2>1, RecordLimit DEF EvidenceAtLimit
<1>10. ASSUME NEW i \in todo, ReadPending(i)
       PROVE  Lists /\ Todo /\ Handlers
  <2>1. /\ phase = "pending" /\ todo' = todo \ {i}
        /\ UNCHANGED <<phase, exhausted, pending>>
    BY <1>10 DEF ReadPending, Take
  <2>4. \E r : recover' = [recover EXCEPT !["worker"] = r] /\ r.seq = i.seq /\ r.pc = "persist"
    <3>1. \E id, payload : recover' = [recover EXCEPT !["worker"] =
                             [pc |-> "persist", seq |-> i.seq, id |-> id, payload |-> payload]]
      <4>1. CASE i.data = "hollow"
        BY <1>10, <4>1 DEF ReadPending
      <4>2. CASE i.data # "hollow"
        BY <1>10, <4>2 DEF ReadPending
      <4> QED
        BY <4>1, <4>2
    <3>2. PICK id, payload : recover' = [recover EXCEPT !["worker"] =
                             [pc |-> "persist", seq |-> i.seq, id |-> id, payload |-> payload]]
      BY <3>1
    <3> DEFINE r == [pc |-> "persist", seq |-> i.seq, id |-> id, payload |-> payload]
    <3>3. recover' = [recover EXCEPT !["worker"] = r]
      BY <3>2
    <3>4. r.seq = i.seq /\ r.pc = "persist"
      OBVIOUS
    <3> HIDE DEF r
    <3> QED
      BY <3>3, <3>4
  <2>2. AtLimit(i.seq)
    BY <2>1 DEF EvidenceAtLimit
  <2>3. \E r : recover' = [recover EXCEPT !["worker"] = r] /\ MayRecord("worker", r)
    BY <2>2, <2>4 DEF MayRecord
  <2> QED
    BY <1>5, <2>1, <2>3 DEF EvidenceAtLimit, Handler
<1>11. CASE PersistPending \/ SettleAdvisory
  <2>1. /\ UNCHANGED <<phase, exhausted, todo>>
        /\ recover' = [recover EXCEPT !["worker"] = RecoverIdle]
        /\ \A x \in Key : pending'[x] # "none" => pending[x] # "none"
    BY <1>11 DEF PersistPending, SettleAdvisory, ControlTypeOK
  <2>2. MayRecord("worker", RecoverIdle)
    BY DEF MayRecord, RecoverIdle
  <2> QED
    BY <1>5, <2>1, <2>2 DEF EvidenceAtLimit, Handler
<1> QED
  BY <1>6, <1>7, <1>8, <1>9, <1>10, <1>11 DEF RecoveryWorker, Subscriber, Handler

(* The evidence after any other step: what was at the limit stays there.   *)
LEMMA OtherLimit ==
  ASSUME ConsumerInv, LoopAtLimit, EvidenceAtLimit, [Next]_vars,
         ~(RecoveryWorker \/ Subscriber)
  PROVE  EvidenceAtLimit'
<1>1. CASE QuarantineMessage
  <2>1. UNCHANGED <<deliveries, stream, advisory, notice, phase, todo, recover>>
    BY <1>1 DEF QuarantineMessage, brokerVars
  <2>2. loop.seq \in Key
    BY <1>1, PublishedFacts DEF QuarantineMessage, ConsumerInv, HeldByLoop
  <2>3. (EnqueueRecovery(loop.seq, "full") /\ loop.count >= MaxDeliver) \/ NoEnqueue
    BY <1>1 DEF QuarantineMessage, LoopAtLimit, ConsumerInv, ControlTypeOK
  <2>4. loop.count >= MaxDeliver => AtLimit(loop.seq)
    BY <1>1, <2>2 DEF QuarantineMessage, LoopAtLimit, AtLimit, ConsumerInv,
       ControlTypeOK
  <2>5. \A x \in Key : x \in exhausted' \/ pending'[x] # "none" => AtLimit(x)
    BY <2>2, <2>3, <2>4, EnqueueLimit DEF ConsumerInv
  <2> QED
    BY <2>1, <2>5 DEF EvidenceAtLimit, MayRecord, AtLimit, FromAdvisory, Body
<1>2. CASE ~QuarantineMessage
  <2>1. /\ exhausted' \subseteq exhausted /\ todo' \subseteq todo /\ phase' \in {phase, "scan"}
        /\ pending' = pending \/ pending' = [s \in Key |-> "none"]
        /\ \/ recover' = recover /\ phase' = phase
           \/ recover' = [p \in Handler |-> RecoverIdle]
    BY <1>2 DEF Next, Publish, Broker, AckWaitExpires, MaxDeliverReached, ConsumeLoop,
       Fetch,
                ProcessMessage, IngestBatch, Acknowledge, IngestHTTP, Operator, BeginRequest,
                CommitRequest, Retention, Restart, storeOnly, recoveryVars, vars
  <2>2. \A x \in Key : advisory'[x] # "none" \/ x \in notice' =>
          advisory[x] # "none" \/ x \in notice \/ AtLimit(x)
    <3>1. CASE \E s \in Key : MaxDeliverReached(s)
      BY <3>1 DEF MaxDeliverReached, AtLimit, ConsumerInv, ControlTypeOK
    <3>2. CASE ~\E s \in Key : MaxDeliverReached(s)
      <4>1. UNCHANGED advisory /\ notice' \subseteq notice
        BY <1>2, <3>2 DEF Next, Publish, Broker, AckWaitExpires, ConsumeLoop, Fetch,
             ProcessMessage, IngestBatch, Acknowledge, IngestHTTP, Operator, BeginRequest,
             CommitRequest, Retention, Restart, storeOnly, recoveryVars, brokerVars, vars
      <4> QED
        BY <4>1
    <3> QED
      BY <3>1, <3>2
  <2>3. \A x \in Key : AtLimit(x) => AtLimit(x)'
    BY DeliveriesGrow DEF AtLimit
  <2>4. \A s \in Key : s \in exhausted' \/ pending'[s] # "none" => AtLimit(s)'
    BY <2>1, <2>3 DEF EvidenceAtLimit
  <2>5. phase' # "scan" => \A i \in todo' : AtLimit(i.seq)'
    <3>1. \A i \in todo : i.seq \in Key
      BY DEF ConsumerInv, ControlTypeOK, Item
    <3> QED
      BY <2>1, <2>3, <3>1 DEF EvidenceAtLimit
  <2>6. ASSUME NEW p \in Handler
        PROVE  MayRecord(p, recover[p])'
    <3>1. CASE recover' = recover /\ phase' = phase
      <4>1. recover[p].pc # "idle" => recover[p].seq \in Published /\ recover[p].seq \in Key
        BY PublishedFacts DEF ConsumerInv, HeldByRecovery, HeldByHandler
      <4>2. recover[p].pc # "idle" => Body(recover[p].seq)' = Body(recover[p].seq)
        BY <3>1, <4>1, DeliveriesGrow DEF Body
      <4>3. FromAdvisory(p)' = FromAdvisory(p)
        BY <3>1 DEF FromAdvisory
      <4>4. recover[p].pc # "idle" => (AtLimit(recover[p].seq) => AtLimit(recover[p].seq)')
        BY <2>3, <3>1, <4>1 DEF AtLimit
      <4> QED
        BY <3>1, <4>2, <4>3, <4>4 DEF EvidenceAtLimit, MayRecord, Body, AtLimit
    <3>2. CASE recover' = [q \in Handler |-> RecoverIdle]
      <4>1. recover'[p].pc = "idle"
        BY <3>2 DEF RecoverIdle
      <4> QED
        BY <4>1 DEF MayRecord
    <3> QED
      BY <2>1, <3>1, <3>2
  <2> QED
    BY <2>2, <2>3, <2>4, <2>5, <2>6 DEF EvidenceAtLimit
<1> QED
  BY <1>1, <1>2

(* A valid message that gets its row was at the limit when it got it, and  *)
(* counts only grow.                                                       *)
LEMMA RowLimit ==
  ASSUME ConsumerInv, ConsumerInv', LimitInv, [Next]_vars
  PROVE  InFlightProtected'
<1>0. ControlTypeOK /\ ControlTypeOK'
  BY DEF ConsumerInv
<1> SUFFICES ASSUME NEW x \in Published', quar'[x].status # "none", Body(x)' \in Batch
             PROVE  deliveries'[x] = MaxDeliver
  BY DEF InFlightProtected
<1>1. x \in Key
  <2>1. Len(stream') \in Nat /\ Len(stream') <= MaxStream
    BY <1>0 DEF ControlTypeOK
  <2> QED
    BY <2>1 DEF Published
<1>2. CASE quar[x].status # "none"
  <2>1. x \in Published /\ Body(x) \in Batch
    BY <1>1, <1>2, DeliveriesGrow DEF ConsumerInv, RowsNameTheirMessage
  <2> QED
    BY <1>1, <1>2, <2>1, DeliveriesGrow DEF LimitInv, InFlightProtected, AtLimit
<1>3. CASE quar[x].status = "none"
  <2>1. CASE QuarantineMessage /\ x = loop.seq
    <3>1. /\ x \in Published /\ Body(x) \in Batch
      BY <2>1, DeliveriesGrow DEF QuarantineMessage, ConsumerInv, HeldByLoop
    <3>2. loop.count >= MaxDeliver /\ loop.count <= deliveries[x]
      BY <2>1, <3>1 DEF QuarantineMessage, LimitInv, LoopAtLimit
    <3>3. loop.count \in Nat /\ deliveries[x] \in 0 .. MaxDeliver
      BY <1>0, <1>1, ControlBounds
    <3>4. AtLimit(x)
      BY <3>2, <3>3 DEF AtLimit
    <3> QED
      BY <1>1, <3>4, DeliveriesGrow
  <2>2. ASSUME NEW p \in Handler, recover[p].pc \in {"record", "persist"}, x = recover[p].seq
        PROVE  deliveries'[x] = MaxDeliver
    <3>1. x \in Published /\ Body(x) \in Batch
      BY <2>2, DeliveriesGrow DEF ConsumerInv, HeldByRecovery, HeldByHandler
    <3>2. AtLimit(x)
      BY <2>2, <3>1 DEF LimitInv, EvidenceAtLimit, MayRecord
    <3> QED
      BY <1>1, <3>2, DeliveriesGrow
  <2> QED
    BY <1>1, <1>3, <2>1, <2>2, NewRows
<1> QED
  BY <1>2, <1>3

(* The inductive step of the limit invariant.                              *)
LEMMA LimitStep ==
  ASSUME ConsumerInv, ConsumerInv', LimitInv, [Next]_vars
  PROVE  LimitInv'
<1>1. LoopAtLimit'
  BY LoopLimitStep DEF LimitInv
<1>2. EvidenceAtLimit'
  BY RecoveryLimit, OtherLimit DEF LimitInv
<1>3. InFlightProtected'
  BY RowLimit
<1> QED
  BY <1>1, <1>2, <1>3 DEF LimitInv

(* In-flight protection: for every stream, delivery limit and number of    *)
(* faults, restarts and requests, a message that holds a valid batch gets  *)
(* a quarantine row only after the last of its deliveries.                 *)
THEOREM InFlightTheorem == Spec => []InFlightProtected
<1>1. Init => LimitInv
  <2> SUFFICES ASSUME Init PROVE LimitInv
    OBVIOUS
  <2>1. LoopAtLimit
    BY DEF Init, VolatileInit, LoopAtLimit, LoopIdle
  <2>2. \A p \in Handler : recover[p].pc = "idle"
    BY DEF Init, VolatileInit, RecoverIdle
  <2>3. EvidenceAtLimit
    BY <2>2 DEF Init, VolatileInit, EvidenceAtLimit, MayRecord
  <2>4. InFlightProtected
    BY DEF Init, InFlightProtected, Published
  <2> QED
    BY <2>1, <2>3, <2>4 DEF LimitInv
<1>2. ConsumerInv /\ ConsumerInv' /\ LimitInv /\ [Next]_vars => LimitInv'
  BY LimitStep
<1>3. LimitInv => InFlightProtected
  BY DEF LimitInv
<1> QED
  BY <1>1, <1>2, <1>3, ConsumerInvariance, PTL DEF Spec

-----------------------------------------------------------------------------
(* No message is lost.                                                     *)

(* The batch of s is ingested or the row of s is about the message at s.   *)
Saved(s) ==
  \/ stream[s].claim \in ingested
  \/ quar[s].status # "none" /\ RowIsFaithful(s)

FaithfulRows == \A s \in Published : quar[s].status # "none" => RowIsFaithful(s)

LoopSaved == loop.pc \in {"ack", "term"} => Saved(loop.seq)

HandlerSaved(r) ==
  /\ r.pc = "settle" => Saved(r.seq)
  /\ r.pc \in {"record", "persist"} => r.payload = Body(r.seq)

BrokerSaved ==
  \A s \in Published : /\ broker[s] = "settled" => Saved(s)
                       /\ broker[s] = "dead" => advisory[s] # "none"
                       /\ advisory[s] = "acked" => Saved(s)

CustodyInv ==
  /\ FaithfulRows
  /\ LoopSaved
  /\ \A p \in Handler : HandlerSaved(recover[p])
  /\ BrokerSaved

(* What is saved stays saved: a batch stays ingested, and the retention    *)
(* pass empties only resolved rows.                                        *)
LEMMA SavedStays ==
  ASSUME ConsumerInv, [Next]_vars, NEW s \in Published
  PROVE  /\ Saved(s) => Saved(s)'
         /\ quar[s].status # "none" /\ RowIsFaithful(s) => RowIsFaithful(s)'
<1>1. StoreTypeOK /\ [StoreNext]_storeVars
  BY NextStore DEF ConsumerInv, StoreInv
<1>2. s \in Key /\ stream'[s] = stream[s] /\ Body(s)' = Body(s)
  BY DeliveriesGrow
<1>3. ingested \subseteq ingested'
  BY <1>1, NothingDisappears
<1>4. quar[s].status # "none" =>
        /\ quar'[s].status # "none"
        /\ \/ quar'[s].payload = quar[s].payload
           \/ quar'[s].status \in Terminal /\ quar'[s].payload = Empty
  BY <1>1, <1>2, NothingDisappears
<1>5. quar[s].status \in Terminal => quar'[s].status = quar[s].status
  BY <1>1, <1>2, RowKeptStep DEF RowKept
<1>6. quar[s].status # "none" /\ RowIsFaithful(s) => RowIsFaithful(s)'
  BY <1>2, <1>4, <1>5 DEF RowIsFaithful
<1> QED
  BY <1>2, <1>3, <1>4, <1>6 DEF Saved

(* A quarantine call with a message's own bytes leaves it saved, whatever  *)
(* the call answers.                                                       *)
LEMMA RecordedIsSaved ==
  ASSUME ConsumerInv, FaithfulRows, NEW s \in Published,
         NEW id \in {NoBatch, stream[s].claim},
         RecordQuarantine(s, id, Body(s)), UNCHANGED stream
  PROVE  Saved(s)'
<1>1. /\ StoreTypeOK /\ quar \in [Key -> Row] /\ ingested \subseteq Batch
      /\ s \in Key /\ id \in Identity /\ Body(s) \in Payload
  BY PublishedFacts DEF ConsumerInv, StoreInv, StoreTypeOK, Identity
<1>2. quar'[s] = QuarantineRow(s, id, Body(s)) /\ ingested' = ingested
  BY <1>1 DEF RecordQuarantine
<1>3. CASE id \in ingested
  <2>1. id = stream[s].claim
    BY <1>1, <1>3
  <2> QED
    BY <1>2, <1>3, <2>1 DEF Saved
<1>4. CASE id \notin ingested
  <2>1. \/ quar[s].status # "none" /\ quar'[s].status = quar[s].status
           /\ quar'[s].payload = quar[s].payload
        \/ quar'[s].status = "quarantined" /\ quar'[s].payload = Body(s)
    BY <1>1, <1>2, <1>4 DEF QuarantineRow, QuarantineOutcome, Row
  <2> QED
    BY <2>1 DEF FaithfulRows, RowIsFaithful, Saved, Body
<1> QED
  BY <1>3, <1>4

(* A new row holds the bytes of its message.                               *)
LEMMA FaithfulStep ==
  ASSUME ConsumerInv, CustodyInv, [Next]_vars
  PROVE  FaithfulRows'
<1> SUFFICES ASSUME NEW x \in Published', quar'[x].status # "none"
             PROVE  RowIsFaithful(x)'
  BY DEF FaithfulRows
<1>1. x \in Key
  BY ControlStep DEF ControlTypeOK, Published
<1>2. CASE quar[x].status # "none"
  <2>1. x \in Published
    BY <1>1, <1>2 DEF ConsumerInv, RowsNameTheirMessage
  <2> QED
    BY <1>2, <2>1, SavedStays DEF CustodyInv, FaithfulRows
<1>3. CASE quar[x].status = "none"
  <2>1. CASE QuarantineMessage /\ x = loop.seq /\ quar'[x].payload = Body(x)
    <3>1. x \in Published
      BY <2>1 DEF QuarantineMessage, ConsumerInv, HeldByLoop
    <3> QED
      BY <2>1, <3>1, DeliveriesGrow DEF RowIsFaithful
  <2>2. ASSUME NEW p \in Handler, recover[p].pc \in {"record", "persist"},
               x = recover[p].seq, quar'[x].payload = recover[p].payload
        PROVE  RowIsFaithful(x)'
    <3>1. x \in Published
      BY <2>2 DEF ConsumerInv, HeldByRecovery, HeldByHandler
    <3>2. quar'[x].payload = Body(x)
      BY <2>2 DEF CustodyInv, HandlerSaved
    <3> QED
      BY <3>1, <3>2, DeliveriesGrow DEF RowIsFaithful
  <2> QED
    BY <1>1, <1>3, <2>1, <2>2, NewRows
<1> QED
  BY <1>2, <1>3

(* The loop acks or terms only what the store call has just saved.         *)
LEMMA LoopSavedStep ==
  ASSUME ConsumerInv, CustodyInv, [Next]_vars
  PROVE  LoopSaved'
<1>1. CASE IngestBatch
  <2>1. /\ loop.seq \in Published /\ Body(loop.seq) \in Batch
        /\ stream[loop.seq].claim = Body(loop.seq)
    BY <1>1, PublishedFacts DEF IngestBatch, ConsumerInv, HeldByLoop
  <2>2. UNCHANGED stream /\ loop'.seq = loop.seq
    BY <1>1 DEF IngestBatch, Goto, brokerVars, ConsumerInv, ControlTypeOK
  <2>3. loop'.pc \in {"ack", "term"} =>
          RecordBatch(Body(loop.seq)) /\ BatchOutcome(Body(loop.seq), {}) # "conflict"
    BY <1>1 DEF IngestBatch, Goto, ConsumerInv, ControlTypeOK
  <2>4. RecordBatch(Body(loop.seq)) /\ BatchOutcome(Body(loop.seq), {}) # "conflict" =>
          Body(loop.seq) \in ingested'
    BY DEF RecordBatch, BatchOutcome, InsertBatch
  <2> QED
    BY <2>1, <2>2, <2>3, <2>4 DEF LoopSaved, Saved
<1>2. CASE QuarantineMessage
  <2>1. /\ loop.seq \in Published
        /\ IdentityOf(loop.seq) \in {NoBatch, stream[loop.seq].claim}
    BY <1>2, PublishedFacts DEF QuarantineMessage, ConsumerInv, HeldByLoop
  <2>2. UNCHANGED stream /\ loop'.seq = loop.seq
    BY <1>2 DEF QuarantineMessage, Goto, brokerVars, ConsumerInv, ControlTypeOK
  <2>3. loop'.pc \in {"ack", "term"} =>
          RecordQuarantine(loop.seq, IdentityOf(loop.seq), Body(loop.seq))
    BY <1>2 DEF QuarantineMessage, Goto, ConsumerInv, ControlTypeOK
  <2>4. loop'.pc \in {"ack", "term"} => Saved(loop.seq)'
    BY <2>1, <2>2, <2>3, RecordedIsSaved DEF CustodyInv
  <2> QED
    BY <2>2, <2>4 DEF LoopSaved, Saved, RowIsFaithful, Body
<1>3. CASE loop' = loop
  <2>1. loop.pc # "idle" => loop.seq \in Published
    BY DEF ConsumerInv, HeldByLoop
  <2>2. loop.pc \in {"ack", "term"} => Saved(loop.seq)'
    BY <1>3, <2>1, SavedStays DEF CustodyInv, LoopSaved
  <2> QED
    BY <1>3, <2>2 DEF LoopSaved, Saved, RowIsFaithful, Body
<1>4. CASE loop'.pc \notin {"ack", "term"}
  BY <1>4 DEF LoopSaved
<1>5. IngestBatch \/ QuarantineMessage \/ loop' = loop \/ loop'.pc \notin {"ack", "term"}
  <2>1. CASE ConsumeLoop
    <3>1. ASSUME NEW c \in fetched, ProcessMessage(c)
          PROVE  loop'.pc \notin {"ack", "term"}
      BY <3>1 DEF ProcessMessage
    <3> QED
      BY <2>1, <3>1 DEF ConsumeLoop, Fetch, Acknowledge, LoopIdle
  <2>2. CASE Restart
    BY <2>2 DEF Restart, LoopIdle
  <2>3. CASE ~ConsumeLoop /\ ~Restart
    BY <2>3 DEF Next, Publish, Broker, AckWaitExpires, MaxDeliverReached,
       RecoveryWorker,
         BeginPass, InspectItem, ReadPending, Record, PersistPending, SettleAdvisory,
         Subscriber, TakeNotice, IngestHTTP, Operator, BeginRequest, CommitRequest,
         Retention, storeOnly, vars
  <2> QED
    BY <2>1, <2>2, <2>3
<1> QED
  BY <1>1, <1>2, <1>3, <1>4, <1>5

(* What a handler holds after it has looked at s.                          *)
LEMMA InspectSaves ==
  ASSUME ConsumerInv, NEW p \in Handler, NEW s \in Published, Inspect(p, s),
         UNCHANGED <<stream, storeVars>>
  PROVE  HandlerSaved(recover[p])'
<1>1. recover \in [Handler -> [pc : {"idle", "record", "persist", "settle"},
                               seq : 0 .. MaxStream, id : Identity, payload : Payload]]
  BY DEF ConsumerInv, ControlTypeOK
<1>2. CASE FoundIngested(p, s)
  <2>1. /\ recover'[p] = Done(p, s)
        /\ Done(p, s).pc \in {"idle", "settle"} /\ (Done(p, s).pc = "settle" => Done(p, s).seq = s)
    BY <1>1, <1>2 DEF FoundIngested, Done, RecoverIdle
  <2>2. stream[s].claim \in ingested'
    BY <1>2, PublishedFacts
       DEF FoundIngested, ConsumerInv, StoreInv, StoreTypeOK, storeVars
  <2>3. recover'[p].pc \in {"idle", "settle"} /\ (recover'[p].pc = "settle" => recover'[p].seq = s)
    BY <2>1
  <2> QED
    BY <2>2, <2>3 DEF HandlerSaved, Saved
<1>3. CASE InspectFails(p, s) \/ InFlight(p, s)
  <2>1. recover'[p].pc = "idle"
    BY <1>1, <1>3 DEF InspectFails, InFlight, GiveUp, RecoverIdle
  <2> QED
    BY <2>1 DEF HandlerSaved
<1>4. CASE ToBeRecorded(p, s)
  <2>1. recover'[p] = [pc |-> "record", seq |-> s, id |-> IdentityOf(s), payload |-> Body(s)]
    BY <1>1, <1>4 DEF ToBeRecorded
  <2> QED
    BY <2>1 DEF HandlerSaved, Body
<1> QED
  BY <1>2, <1>3, <1>4 DEF Inspect

(* What a handler holds after its store call.                              *)
LEMMA RecordSaves ==
  ASSUME ConsumerInv, CustodyInv, NEW p \in Handler, Record(p)
  PROVE  HandlerSaved(recover[p])'
<1>1. recover \in [Handler -> [pc : {"idle", "record", "persist", "settle"},
                               seq : 0 .. MaxStream, id : Identity, payload : Payload]]
  BY DEF ConsumerInv, ControlTypeOK
<1>2. PICK s \in Published : s = recover[p].seq
  BY DEF Record, ConsumerInv, HeldByRecovery, HeldByHandler
<1>3. PICK id \in {NoBatch, stream[s].claim} : id = recover[p].id
  BY <1>2 DEF Record, ConsumerInv, HeldByRecovery, HeldByHandler
<1>4. recover[p].payload = Body(s) /\ UNCHANGED stream
  BY <1>2 DEF Record, CustodyInv, HandlerSaved, brokerVars
<1>5. \/ RecordQuarantine(s, id, Body(s)) /\ recover'[p] = Done(p, s)
      \/ recover'[p] = RecoverIdle
  BY <1>1, <1>2, <1>3, <1>4 DEF Record, GiveUp
<1>6. CASE RecordQuarantine(s, id, Body(s)) /\ recover'[p] = Done(p, s)
  <2>1. Saved(s)'
    BY <1>4, <1>6, RecordedIsSaved DEF CustodyInv
  <2>2. recover'[p].pc \in {"idle", "settle"} /\ (recover'[p].pc = "settle" => recover'[p].seq = s)
    BY <1>6 DEF Done, RecoverIdle
  <2> QED
    BY <2>1, <2>2 DEF HandlerSaved, Saved, RowIsFaithful, Body
<1>7. CASE recover'[p] = RecoverIdle
  BY <1>7 DEF RecoverIdle, HandlerSaved
<1> QED
  BY <1>5, <1>6, <1>7

(* A handler that does not move keeps what it holds.                       *)
LEMMA HeldIsSaved ==
  ASSUME ConsumerInv, CustodyInv, [Next]_vars, NEW p \in Handler, recover'[p] = recover[p]
  PROVE  HandlerSaved(recover[p])'
<1>1. recover[p].pc # "idle" => recover[p].seq \in Published
  BY DEF ConsumerInv, HeldByRecovery, HeldByHandler
<1>2. CASE recover[p].pc # "idle"
  <2>1. PICK s \in Published : s = recover[p].seq
    BY <1>1, <1>2
  <2>2. recover[p].pc = "settle" => Saved(s)
    BY <2>1 DEF CustodyInv, HandlerSaved
  <2>3. recover[p].pc \in {"record", "persist"} => recover[p].payload = Body(s)
    BY <2>1 DEF CustodyInv, HandlerSaved
  <2>4. recover'[p].seq = s /\ recover'[p].pc = recover[p].pc
        /\ recover'[p].payload = recover[p].payload
    BY <2>1
  <2>5. (Saved(s) => Saved(s)') /\ Body(s)' = Body(s)
    BY SavedStays, DeliveriesGrow
  <2> QED
    BY <2>2, <2>3, <2>4, <2>5 DEF HandlerSaved, Saved, RowIsFaithful, Body
<1>3. CASE recover[p].pc = "idle"
  BY <1>3 DEF HandlerSaved
<1> QED
  BY <1>2, <1>3

(* What every handler holds after any step, when reads of the stream work. *)
LEMMA HandlersSavedStep ==
  ASSUME MaxReadFaults = 0, ConsumerInv, CustodyInv, [Next]_vars, NEW p \in Handler
  PROVE  HandlerSaved(recover[p])'
<1>1. /\ recover \in [Handler -> [pc : {"idle", "record", "persist", "settle"},
                                 seq : 0 .. MaxStream, id : Identity, payload : Payload]]
      /\ readFaults \in 0 .. MaxReadFaults /\ \A s \in notice : s \in Published
  BY DEF ConsumerInv, ControlTypeOK
<1>2. ASSUME NEW q \in Handler, recover' = [recover EXCEPT ![q] = recover'[q]],
             HandlerSaved(recover[q])'
      PROVE  HandlerSaved(recover[p])'
  <2>1. CASE p = q
    BY <1>2, <2>1
  <2>2. CASE p # q
    <3>1. recover'[p] = recover[p]
      BY <1>1, <1>2, <2>2
    <3> QED
      BY <3>1, HeldIsSaved
  <2> QED
    BY <2>1, <2>2
<1>3. ASSUME NEW q \in Handler, Record(q)
      PROVE  HandlerSaved(recover[p])'
  <2>1. recover' = [recover EXCEPT ![q] = recover'[q]]
    BY <1>1, <1>3 DEF Record, GiveUp
  <2> QED
    BY <1>2, <1>3, <2>1, RecordSaves
<1>4. ASSUME NEW q \in Handler, NEW s \in Published, Inspect(q, s),
             UNCHANGED <<stream, storeVars>>
      PROVE  HandlerSaved(recover[p])'
  <2>1. recover' = [recover EXCEPT ![q] = recover'[q]]
    BY <1>1, <1>4 DEF Inspect, InspectFails, FoundIngested, InFlight, ToBeRecorded,
       GiveUp
  <2> QED
    BY <1>2, <1>4, <2>1, InspectSaves
<1>5. ASSUME NEW i \in todo, ReadPending(i)
      PROVE  HandlerSaved(recover[p])'
  <2>1. ~ReadFault
    BY <1>1 DEF ReadFault
  <2>2. i.data = "hollow" \/ IdentityOf(i.seq) = NoBatch
        \/ (i.data # "hollow" /\ IdentityOf(i.seq) # NoBatch)
    OBVIOUS
  <2>3. \E id : recover' = [recover EXCEPT !["worker"] =
                   [pc |-> "persist", seq |-> i.seq, id |-> id, payload |-> Body(i.seq)]]
    BY <1>5, <2>1, <2>2 DEF ReadPending
  <2>4. PICK id : recover' = [recover EXCEPT !["worker"] =
                   [pc |-> "persist", seq |-> i.seq, id |-> id, payload |-> Body(i.seq)]]
    BY <2>3
  <2>5. /\ recover'["worker"] =
             [pc |-> "persist", seq |-> i.seq, id |-> id, payload |-> Body(i.seq)]
        /\ recover' = [recover EXCEPT !["worker"] = recover'["worker"]]
    BY <1>1, <2>4 DEF Handler
  <2>6. UNCHANGED stream
    BY <1>5 DEF ReadPending, brokerVars
  <2>7. HandlerSaved(recover["worker"])'
    BY <2>5, <2>6 DEF HandlerSaved, Body
  <2> QED
    BY <1>2, <2>5, <2>7 DEF Handler
<1>6. CASE PersistPending \/ SettleAdvisory
  <2>1. recover' = [recover EXCEPT !["worker"] = RecoverIdle]
    BY <1>6 DEF PersistPending, SettleAdvisory
  <2>2. /\ recover' = [recover EXCEPT !["worker"] = recover'["worker"]]
        /\ recover'["worker"].pc = "idle"
    BY <1>1, <2>1 DEF RecoverIdle, Handler
  <2>3. HandlerSaved(recover["worker"])'
    BY <2>2 DEF HandlerSaved
  <2> QED
    BY <1>2, <2>2, <2>3 DEF Handler
<1>7. CASE Restart
  <2>1. recover'[p].pc = "idle"
    BY <1>7 DEF Restart, RecoverIdle
  <2> QED
    BY <2>1 DEF HandlerSaved
<1>8. CASE recover' = recover
  BY <1>8, HeldIsSaved
<1>9. \/ \E q \in Handler : Record(q)
      \/ \E q \in Handler, s \in Published : Inspect(q, s) /\ UNCHANGED <<stream, storeVars>>
      \/ \E i \in todo : ReadPending(i)
      \/ PersistPending \/ SettleAdvisory \/ Restart \/ recover' = recover
  <2>1. ASSUME NEW i \in todo, InspectItem(i)
        PROVE  \E q \in Handler, s \in Published :
                 Inspect(q, s) /\ UNCHANGED <<stream, storeVars>>
    BY <2>1 DEF InspectItem, Handler, ConsumerInv, HeldByRecovery, brokerVars
  <2>2. ASSUME NEW s \in notice, TakeNotice(s)
        PROVE  \E q \in Handler, x \in Published :
                 Inspect(q, x) /\ UNCHANGED <<stream, storeVars>>
    BY <1>1, <2>2 DEF TakeNotice, Handler, brokerVars
  <2>3. CASE RecoveryWorker \/ Subscriber
    BY <2>1, <2>2, <2>3 DEF RecoveryWorker, Subscriber, BeginPass, Handler
  <2>4. CASE ~(RecoveryWorker \/ Subscriber)
    BY <2>4 DEF Next, Publish, Broker, AckWaitExpires, MaxDeliverReached, ConsumeLoop,
       Fetch,
         ProcessMessage, IngestBatch, QuarantineMessage, Acknowledge, IngestHTTP, Operator,
         BeginRequest, CommitRequest, Retention, storeOnly, recoveryVars, vars
  <2> QED
    BY <2>3, <2>4
<1> QED
  BY <1>3, <1>4, <1>5, <1>6, <1>7, <1>8, <1>9

(* The broker lets go of a message only when it is saved or announced, and *)
(* an advisory is acknowledged only when its message is saved.             *)
LEMMA BrokerSavedStep ==
  ASSUME ConsumerInv, CustodyInv, [Next]_vars
  PROVE  BrokerSaved'
<1> SUFFICES ASSUME NEW s \in Published'
             PROVE  /\ broker'[s] = "settled" => Saved(s)'
                    /\ broker'[s] = "dead" => advisory'[s] # "none"
                    /\ advisory'[s] = "acked" => Saved(s)'
  BY DEF BrokerSaved
<1>1. /\ s \in Key /\ stream' \in Seq(Message)
      /\ broker \in [Key -> {"none", "ready", "out", "settled", "dead"}]
      /\ advisory \in [Key -> {"none", "queued", "acked"}]
      /\ \A x \in Key : broker[x] = "none" <=> x > Len(stream)
  <2>1. ControlTypeOK'
    BY ControlStep
  <2>2. stream' \in Seq(Message) /\ Len(stream') <= MaxStream
    BY <2>1 DEF ControlTypeOK
  <2>3. s \in Key
    BY <2>2 DEF Published
  <2> QED
    BY <2>2, <2>3 DEF ConsumerInv, ControlTypeOK
<1>2. CASE s \in Published
  <2>1. Saved(s) => Saved(s)'
    BY <1>2, SavedStays
  <2>2. /\ broker[s] = "settled" => Saved(s)
        /\ broker[s] = "dead" => advisory[s] # "none"
        /\ advisory[s] = "acked" => Saved(s)
    BY <1>2 DEF CustodyInv, BrokerSaved
  <2>3. CASE UNCHANGED <<broker, advisory>>
    BY <2>1, <2>2, <2>3
  <2>4. CASE \E m \in Message : Publish(m)
    <3>1. broker'[s] \in {broker[s], "ready"} /\ advisory' = advisory
      BY <1>1, <2>4 DEF Publish
    <3> QED
      BY <2>1, <2>2, <3>1
  <2>5. ASSUME NEW x \in Key, AckWaitExpires(x) \/ MaxDeliverReached(x)
        PROVE  /\ broker'[s] = "settled" => Saved(s)'
               /\ broker'[s] = "dead" => advisory'[s] # "none"
               /\ advisory'[s] = "acked" => Saved(s)'
    <3>1. /\ broker'[s] = broker[s] \/ broker'[s] = "ready" \/ (broker'[s] = "dead" /\ x = s)
          /\ advisory'[s] = advisory[s] \/ advisory'[s] = "queued"
          /\ broker'[s] = "dead" /\ broker[s] # "dead" => advisory'[s] = "queued"
      BY <1>1, <2>5 DEF AckWaitExpires, MaxDeliverReached
    <3> QED
      BY <2>1, <2>2, <3>1
  <2>6. CASE \E S \in SUBSET Published : Fetch(S)
    <3>1. broker'[s] \in {broker[s], "out"} /\ advisory' = advisory
      BY <1>1, <2>6 DEF Fetch
    <3> QED
      BY <2>1, <2>2, <3>1
  <2>7. CASE Acknowledge
    <3>1. /\ advisory' = advisory
          /\ \/ broker'[s] = broker[s] \/ broker'[s] = "ready"
             \/ broker'[s] = "settled" /\ s = loop.seq /\ loop.pc \in {"ack", "term"}
      BY <1>1, <2>7, AcknowledgeTypes DEF Acknowledge, ConsumerInv
    <3> QED
      BY <2>1, <2>2, <3>1 DEF CustodyInv, LoopSaved
  <2>8. CASE SettleAdvisory
    <3>1. /\ broker' = broker
          /\ \/ advisory'[s] = advisory[s]
             \/ /\ advisory'[s] = "acked" /\ s = recover["worker"].seq
                /\ recover["worker"].pc = "settle"
      BY <1>1, <2>8 DEF SettleAdvisory
    <3>2. s = recover["worker"].seq /\ recover["worker"].pc = "settle" => Saved(s)
      BY DEF CustodyInv, HandlerSaved, Handler
    <3> QED
      BY <2>1, <2>2, <3>1, <3>2
  <2>9. \/ UNCHANGED <<broker, advisory>> \/ Acknowledge \/ SettleAdvisory
        \/ \E m \in Message : Publish(m)
        \/ \E x \in Key : AckWaitExpires(x) \/ MaxDeliverReached(x)
        \/ \E S \in SUBSET Published : Fetch(S)
    BY DEF Next, Broker, ConsumeLoop, ProcessMessage, IngestBatch, QuarantineMessage,
           RecoveryWorker, BeginPass, InspectItem, ReadPending, Record, PersistPending,
           Subscriber, TakeNotice, IngestHTTP, Operator, BeginRequest, CommitRequest,
           Retention, Restart, storeOnly, brokerVars, vars
  <2> QED
    BY <2>3, <2>4, <2>5, <2>6, <2>7, <2>8, <2>9
<1>3. CASE s \notin Published
  <2>1. PICK m \in Message : Publish(m)
    <3>1. stream' # stream
      BY <1>3 DEF Published
    <3> QED
      BY <3>1 DEF Next, Broker, AckWaitExpires, MaxDeliverReached, ConsumeLoop, Fetch,
         ProcessMessage, IngestBatch, QuarantineMessage, Acknowledge, RecoveryWorker,
         BeginPass, InspectItem, ReadPending, Record, PersistPending, SettleAdvisory,
         Subscriber, TakeNotice, IngestHTTP, Operator, BeginRequest, CommitRequest,
         Retention, Restart, storeOnly, brokerVars, vars
  <2>2. /\ stream \in Seq(Message) /\ stream' = Append(stream, m)
        /\ broker' = [broker EXCEPT ![Len(stream) + 1] = "ready"] /\ advisory' = advisory
    BY <2>1 DEF Publish, ConsumerInv, ControlTypeOK
  <2>3. s = Len(stream) + 1
    BY <1>3, <2>2 DEF Published
  <2>4. advisory[s] = "none"
    BY <1>1, <1>3 DEF ConsumerInv, HeldByRecovery
  <2> QED
    BY <1>1, <2>2, <2>3, <2>4
<1> QED
  BY <1>2, <1>3

(* No message is lost: when reads of the stream do not fail, then whatever *)
(* the crashes, failed store calls, missed notifications, lost and late    *)
(* acknowledgements and operator requests, every published message is      *)
(* still to be delivered, announced by an unacknowledged advisory,         *)
(* ingested, or in a quarantine row of its own.                            *)
THEOREM NoLossTheorem ==
  ASSUME MaxReadFaults = 0
  PROVE  Spec => []NoMessageLost
<1>1. Init => CustodyInv
  <2> SUFFICES ASSUME Init PROVE CustodyInv
    OBVIOUS
  <2>1. Published = {}
    BY DEF Init, Published
  <2> QED
    BY <2>1 DEF Init, VolatileInit, CustodyInv, FaithfulRows, LoopSaved, LoopIdle,
                HandlerSaved, RecoverIdle, BrokerSaved
<1>2. ConsumerInv /\ CustodyInv /\ [Next]_vars => CustodyInv'
  <2> SUFFICES ASSUME ConsumerInv, CustodyInv, [Next]_vars PROVE CustodyInv'
    OBVIOUS
  <2> QED
    BY FaithfulStep, LoopSavedStep, HandlersSavedStep, BrokerSavedStep DEF CustodyInv
<1>3. ConsumerInv /\ CustodyInv => NoMessageLost
  <2> SUFFICES ASSUME ConsumerInv, CustodyInv, NEW s \in Published
               PROVE  InCustody(s)
    BY DEF NoMessageLost
  <2>1. broker[s] \in {"ready", "out", "settled", "dead"}
    BY PublishedFacts DEF ConsumerInv, ControlTypeOK, Published
  <2>2. advisory[s] \in {"none", "queued", "acked"}
    BY PublishedFacts DEF ConsumerInv, ControlTypeOK
  <2> QED
    BY <2>1, <2>2 DEF CustodyInv, BrokerSaved, InCustody, Saved
<1> QED
  BY <1>1, <1>2, <1>3, ConsumerInvariance, PTL DEF Spec

-----------------------------------------------------------------------------
(***************************************************************************)
(* The pipeline, from the outbox to the store.                             *)
(***************************************************************************)

(* The theorems of the outbox, about this outbox.                          *)
Outbox == INSTANCE EdgeOutbox_proofs
            WITH restarts <- edgeRestarts, MaxRestarts <- MaxEdgeRestarts

(* EdgeOutbox is instantiated twice, in TelemetryPipeline and through its  *)
(* proofs: the two instances define the same behaviours and properties.    *)
LEMMA SameOutbox ==
  /\ Edge!Spec <=> Outbox!Spec
  /\ Edge!NoBatchLost <=> Outbox!NoBatchLost
  /\ Edge!OrderedUnlessSetAside <=> Outbox!OrderedUnlessSetAside
<1>1. Edge!Init <=> Outbox!Init
  BY DEF Edge!Init, Outbox!Init, Edge!Id, Outbox!Id, Edge!NoRow, Outbox!NoRow
<1>2. /\ Edge!Collect <=> Outbox!Collect
      /\ Edge!BeginCycle <=> Outbox!BeginCycle
  <2>1. Edge!Collect <=> Outbox!Collect
    BY DEF Edge!Collect, Outbox!Collect, Edge!Fault, Outbox!Fault, Edge!NoFault,
       Outbox!NoFault, Edge!wireVars, Outbox!wireVars
  <2>2. Edge!Pending = Outbox!Pending
    BY DEF Edge!Pending, Outbox!Pending, Edge!Having, Outbox!Having, Edge!Id, Outbox!Id
  <2>3. ASSUME NEW S PROVE Edge!FirstPending(S) <=> Outbox!FirstPending(S)
    <3>1. Edge!Cardinality(S) = Outbox!Cardinality(S)
      BY DEF Edge!Cardinality, Outbox!Cardinality
    <3> QED  BY <2>2, <3>1 DEF Edge!FirstPending, Outbox!FirstPending
  <2>4. Edge!BeginCycle <=> Outbox!BeginCycle
    BY <2>2, <2>3 DEF Edge!BeginCycle, Outbox!BeginCycle, Edge!Fault, Outbox!Fault,
       Edge!NoFault, Outbox!NoFault, Edge!wireVars, Outbox!wireVars
  <2> QED  BY <2>1, <2>4
<1>3. ASSUME NEW i
      PROVE  /\ Edge!Transmit(i) <=> Outbox!Transmit(i)
             /\ Edge!MarkDelivered(i) <=> Outbox!MarkDelivered(i)
             /\ Edge!MarkQuarantined(i) <=> Outbox!MarkQuarantined(i)
             /\ Edge!RecordSyncAttempt(i) <=> Outbox!RecordSyncAttempt(i)
  <2>1. Edge!Current(i) <=> Outbox!Current(i)
    BY DEF Edge!Current, Outbox!Current
  <2>2. Edge!Transmit(i) <=> Outbox!Transmit(i)
    BY <2>1 DEF Edge!Transmit, Outbox!Transmit, Edge!LastAttempt, Outbox!LastAttempt,
       Edge!countVars, Outbox!countVars
  <2>3. Edge!MarkDelivered(i) <=> Outbox!MarkDelivered(i)
    BY <2>1 DEF Edge!MarkDelivered, Outbox!MarkDelivered, Edge!SetStatus,
       Outbox!SetStatus, Edge!GoOn, Outbox!GoOn, Edge!Halt, Outbox!Halt, Edge!Fault,
       Outbox!Fault, Edge!NoFault, Outbox!NoFault, Edge!wireVars, Outbox!wireVars
  <2>4. Edge!MarkQuarantined(i) <=> Outbox!MarkQuarantined(i)
    BY <2>1 DEF Edge!MarkQuarantined, Outbox!MarkQuarantined, Edge!SetStatus,
       Outbox!SetStatus, Edge!GoOn, Outbox!GoOn, Edge!Halt, Outbox!Halt, Edge!Fault,
       Outbox!Fault, Edge!NoFault, Outbox!NoFault, Edge!wireVars, Outbox!wireVars
  <2>5. Edge!RecordSyncAttempt(i) <=> Outbox!RecordSyncAttempt(i)
    BY <2>1 DEF Edge!RecordSyncAttempt, Outbox!RecordSyncAttempt, Edge!Halt,
       Outbox!Halt, Edge!Fault, Outbox!Fault, Edge!NoFault, Outbox!NoFault,
       Edge!wireVars, Outbox!wireVars
  <2> QED  BY <2>2, <2>3, <2>4, <2>5
<1>4. Edge!Id = Outbox!Id /\ \A S : Edge!Having(rows, S) = Outbox!Having(rows, S)
  BY DEF Edge!Id, Outbox!Id, Edge!Having, Outbox!Having
<1>5. /\ \A S : Edge!PruneCompletedBatches(S) <=> Outbox!PruneCompletedBatches(S)
      /\ \A n : Edge!RequeueQuarantinedBatch(n) <=> Outbox!RequeueQuarantinedBatch(n)
      /\ \A n : Edge!Arrive(n) <=> Outbox!Arrive(n)
  <2>1. \A S : Edge!PruneCompletedBatches(S) <=> Outbox!PruneCompletedBatches(S)
    BY <1>4 DEF Edge!PruneCompletedBatches, Outbox!PruneCompletedBatches, Edge!InTable,
       Outbox!InTable, Edge!Id, Outbox!Id, Edge!Having, Outbox!Having, Edge!agentVars,
       Outbox!agentVars, Edge!wireVars, Outbox!wireVars, Edge!countVars,
       Outbox!countVars
  <2>2. \A n : Edge!RequeueQuarantinedBatch(n) <=> Outbox!RequeueQuarantinedBatch(n)
    BY DEF Edge!RequeueQuarantinedBatch, Outbox!RequeueQuarantinedBatch, Edge!agentVars,
       Outbox!agentVars, Edge!wireVars, Outbox!wireVars
  <2>3. \A n : Edge!Arrive(n) <=> Outbox!Arrive(n)
    BY DEF Edge!Arrive, Outbox!Arrive, Edge!agentVars, Outbox!agentVars, Edge!countVars,
       Outbox!countVars
  <2> QED  BY <2>1, <2>2, <2>3
<1>6. /\ Edge!Restart <=> Outbox!Restart
      /\ Edge!Checkpoint <=> Outbox!Checkpoint
      /\ Edge!PowerLoss <=> Outbox!PowerLoss
  <2>1. ASSUME NEW table PROVE Edge!StartOn(table) <=> Outbox!StartOn(table)
    <3>1. Edge!InTable(table) = Outbox!InTable(table)
      BY DEF Edge!InTable, Outbox!InTable, Edge!Having, Outbox!Having, Edge!Id,
         Outbox!Id
    <3>2. Edge!NextAfter(table) = Outbox!NextAfter(table)
      BY <3>1 DEF Edge!NextAfter, Outbox!NextAfter
    <3> QED  BY <3>2 DEF Edge!StartOn, Outbox!StartOn
  <2>2. Edge!Restart <=> Outbox!Restart
    BY <2>1 DEF Edge!Restart, Outbox!Restart, Edge!wireVars, Outbox!wireVars
  <2>3. Edge!Checkpoint <=> Outbox!Checkpoint
    BY DEF Edge!Checkpoint, Outbox!Checkpoint, Edge!agentVars, Outbox!agentVars,
       Edge!wireVars, Outbox!wireVars, Edge!countVars, Outbox!countVars
  <2>4. Edge!PowerLoss <=> Outbox!PowerLoss
    BY <2>1 DEF Edge!PowerLoss, Outbox!PowerLoss, Edge!wireVars, Outbox!wireVars
  <2> QED  BY <2>2, <2>3, <2>4
<1>7. Edge!vars = Outbox!vars /\ (Edge!vars' = Edge!vars <=> Outbox!vars' = Outbox!vars)
  BY DEF Edge!vars, Outbox!vars, Edge!agentVars, Outbox!agentVars, Edge!wireVars,
     Outbox!wireVars, Edge!countVars, Outbox!countVars
<1>8. [Edge!Next]_Edge!vars <=> [Outbox!Next]_Outbox!vars
  BY <1>2, <1>3, <1>4, <1>5, <1>6, <1>7 DEF Edge!Next, Outbox!Next, Edge!Cycle,
     Outbox!Cycle
<1>9. Edge!NoBatchLost <=> Outbox!NoBatchLost
  BY DEF Edge!NoBatchLost, Outbox!NoBatchLost
<1>10. [\A b \in arrived' \ arrived, c \in Edge!Known :
          b \in Edge!Known /\ rows[c].seq < rows[b].seq
            => c \in arrived \cup setAside]_Edge!vars
       <=> [\A b \in arrived' \ arrived, c \in Outbox!Known :
              b \in Outbox!Known /\ rows[c].seq < rows[b].seq
                => c \in arrived \cup setAside]_Outbox!vars
  <2>1. Edge!Known = Outbox!Known
    BY <1>4 DEF Edge!Known, Outbox!Known
  <2> QED  BY <1>7, <2>1
<1>11. Edge!Spec <=> Outbox!Spec
  BY <1>1, <1>8, PTL DEF Edge!Spec, Outbox!Spec
<1>12. Edge!OrderedUnlessSetAside <=> Outbox!OrderedUnlessSetAside
  BY <1>10, PTL DEF Edge!OrderedUnlessSetAside, Outbox!OrderedUnlessSetAside
<1> QED
  BY <1>9, <1>11, <1>12

(* What EdgeOutbox_proofs says of the outbox of the pipeline.              *)
LEMMA OutboxTheorems ==
  ASSUME PipelineAssumption
  PROVE  /\ Edge!Spec => [](Edge!NoBatchLost /\ arrived \subseteq Edge!Id)
         /\ Edge!Spec => Edge!OrderedUnlessSetAside
<1>1. Outbox!OutboxAssumption
  BY DEF PipelineAssumption, Edge!OutboxAssumption, Outbox!OutboxAssumption
<1>2. Outbox!Spec => []Outbox!NoBatchLost /\ []Outbox!TypeOK
  BY <1>1, Outbox!NoBatchLostTheorem, Outbox!OutboxTypeTheorem
<1>3. Outbox!Spec => Outbox!OrderedUnlessSetAside
  BY <1>1, Outbox!OrderTheorem
<1>4. Outbox!TypeOK => arrived \subseteq Edge!Id
  BY DEF Outbox!TypeOK, Outbox!Id, Edge!Id
<1> QED
  BY <1>2, <1>3, <1>4, SameOutbox, PTL

-----------------------------------------------------------------------------
(* What the pipeline does is what its two parts do.                        *)

(* A step of the control plane alone leaves the outbox as it is.           *)
LEMMA EdgeStays == UNCHANGED edgeVars => UNCHANGED Edge!vars
BY DEF edgeVars, Edge!vars, Edge!agentVars, Edge!wireVars, Edge!countVars

(* The message of a transmission.                                          *)
LEMMA OwnMessage ==
  ASSUME PipelineAssumption, NEW n \in Edge!Id
  PROVE  /\ BatchOf[n] \in Batch
         /\ [body |-> BatchOf[n], claim |-> BatchOf[n]] \in Message
BY DEF PipelineAssumption, Message, Identity

(* Every step of the pipeline is one of the outbox and one of the consumer,*)
(* or leaves that part alone.                                              *)
LEMMA PipelineStep ==
  ASSUME PipelineAssumption, [PipelineNext]_pipelineVars
  PROVE  [Edge!Next]_Edge!vars /\ [Next]_vars
<1>1. CASE EdgeAlone
  <2>1. Edge!Next
    BY <1>1 DEF EdgeAlone, Edge!Next, Edge!Cycle
  <2> QED
    BY <1>1, <2>1 DEF EdgeAlone
<1>2. ASSUME NEW n \in Edge!Id, Reach(n)
      PROVE  Edge!Next /\ [Next]_vars
  <2>1. Edge!Next
    BY <1>2 DEF Reach, Edge!Next, Edge!Cycle, Edge!Arrive
  <2>2. [Next]_vars
    BY <1>2, OwnMessage DEF Reach, Accept, Next
  <2> QED
    BY <2>1, <2>2
<1>3. CASE ControlPlaneAlone
  <2>1. Next
    BY <1>3 DEF ControlPlaneAlone, Next
  <2> QED
    BY <1>3, <2>1, EdgeStays DEF ControlPlaneAlone
<1>4. CASE UNCHANGED pipelineVars
  BY <1>4, EdgeStays DEF pipelineVars
<1> QED
  BY <1>1, <1>2, <1>3, <1>4 DEF PipelineNext

(* The agent behaves as EdgeOutbox says, whatever the control plane does,  *)
(* so that every property of EdgeOutbox holds of it.                       *)
THEOREM PipelineEdgeTheorem ==
  ASSUME PipelineAssumption
  PROVE  PipelineSpec => Edge!Spec
<1>1. PipelineInit => Edge!Init
  BY DEF PipelineInit
<1>2. [PipelineNext]_pipelineVars => [Edge!Next]_Edge!vars
  BY PipelineStep
<1> QED
  BY <1>1, <1>2, PTL DEF PipelineSpec, Edge!Spec

(* The control plane behaves as TelemetryConsumer says: an agent is one of *)
(* the publishers and callers it allows for.                               *)
THEOREM PipelineConsumerTheorem ==
  ASSUME PipelineAssumption
  PROVE  PipelineSpec => Spec
<1>1. PipelineInit => Init
  BY DEF PipelineInit
<1>2. [PipelineNext]_pipelineVars => [Next]_vars
  BY PipelineStep
<1> QED
  BY <1>1, <1>2, PTL DEF PipelineSpec, Spec

-----------------------------------------------------------------------------
(* A row holds the bytes of its message, or none: what is replayed is what *)
(* was published, whatever identity a message claims.                      *)
RowsHoldTheirMessage ==
  \A s \in Key : quar[s].status # "none" => quar[s].payload \in {Empty, Body(s)}

(* RowsHoldTheirMessage is kept: a new row has the payload its writer read *)
(* from the stream, and an old one keeps its payload or loses it.          *)
LEMMA HoldStep ==
  ASSUME ConsumerInv, RowsHoldTheirMessage, [Next]_vars
  PROVE  RowsHoldTheirMessage'
<1> SUFFICES ASSUME NEW x \in Key, quar'[x].status # "none"
             PROVE  quar'[x].payload \in {Empty, Body(x)'}
  BY DEF RowsHoldTheirMessage
<1>1. CASE quar[x].status # "none"
  <2>1. x \in Published
    BY <1>1 DEF ConsumerInv, RowsNameTheirMessage
  <2>2. StoreTypeOK /\ [StoreNext]_storeVars
    BY NextStore DEF ConsumerInv, StoreInv
  <2>3. quar'[x].payload = quar[x].payload \/ quar'[x].payload = Empty
    BY <1>1, <2>2, NothingDisappears
  <2> QED
    BY <1>1, <2>1, <2>3, DeliveriesGrow DEF RowsHoldTheirMessage
<1>2. CASE quar[x].status = "none"
  <2>1. CASE QuarantineMessage /\ x = loop.seq /\ quar'[x].payload = Body(x)
    <3>1. x \in Published
      BY <2>1 DEF QuarantineMessage, ConsumerInv, HeldByLoop
    <3> QED
      BY <2>1, <3>1, DeliveriesGrow
  <2>2. ASSUME NEW p \in Handler, recover[p].pc \in {"record", "persist"},
               x = recover[p].seq, quar'[x].payload = recover[p].payload
        PROVE  quar'[x].payload \in {Empty, Body(x)'}
    <3>1. x \in Published /\ recover[p].payload \in {Empty, Body(x)}
      BY <2>2 DEF ConsumerInv, HeldByRecovery, HeldByHandler
    <3> QED
      BY <2>2, <3>1, DeliveriesGrow
  <2> QED
    BY <1>2, <2>1, <2>2, NewRows
<1> QED
  BY <1>1, <1>2

(* RowsHoldTheirMessage is an invariant of the consumer.                   *)
LEMMA HoldInvariant == Spec => []RowsHoldTheirMessage
<1>1. Init => RowsHoldTheirMessage
  BY DEF Init, StoreInit, NoRow, RowsHoldTheirMessage
<1>2. ConsumerInv /\ RowsHoldTheirMessage /\ [Next]_vars => RowsHoldTheirMessage'
  BY HoldStep
<1> QED
  BY <1>1, <1>2, ConsumerInvariance, PTL DEF Spec

(* What the consumer and the operator do by themselves.                    *)
Inside ==
  \/ \E n \in Node : RegisterNode(n) /\ UNCHANGED storeOnly
  \/ Broker \/ ConsumeLoop \/ RecoveryWorker \/ Subscriber
  \/ Operator \/ Retention \/ Restart

(* They ingest only what is in the stream.                                 *)
LEMMA IngestOrigin ==
  ASSUME ConsumerInv, RowsHoldTheirMessage, Inside, NEW b \in ingested' \ ingested
  PROVE  InStream(b)
<1>1. CASE IngestBatch
  <2>1. loop.seq \in Published
    BY <1>1 DEF IngestBatch, ConsumerInv, HeldByLoop
  <2>2. b = Body(loop.seq)
    BY <1>1 DEF IngestBatch, RecordBatch, InsertBatch, storeVars
  <2> QED
    BY <2>1, <2>2 DEF InStream
<1>2. ASSUME NEW k \in Key, ReplayQuarantineRecord(k)
      PROVE  InStream(b)
  <2>1. Active(k) /\ quar[k].payload \in Batch /\ quar[k].payload = quar[k].batch
    BY <1>2 DEF ReplayQuarantineRecord, CanReplay
  <2>2. b = quar[k].batch
    BY <1>2 DEF ReplayQuarantineRecord, InsertBatch
  <2>3. k \in Published
    BY <2>1 DEF Active, ConsumerInv, RowsNameTheirMessage
  <2>4. quar[k].payload = Body(k)
    BY <2>1 DEF Active, RowsHoldTheirMessage
  <2> QED
    BY <2>1, <2>2, <2>3, <2>4 DEF InStream
<1>3. IngestBatch \/ \E k \in Key : ReplayQuarantineRecord(k)
  BY DEF Inside, Broker, AckWaitExpires, MaxDeliverReached, ConsumeLoop, Fetch,
         ProcessMessage, QuarantineMessage, Acknowledge, RecoveryWorker, BeginPass,
         InspectItem, ReadPending, Record, PersistPending, SettleAdvisory, Subscriber,
         TakeNotice, Operator, BeginRequest, CommitRequest, Retention, Restart,
         RecordQuarantine, DiscardQuarantineRecord, PruneTelemetryPayloads,
         PruneQuarantinePayloads, RegisterNode, storeVars
<1> QED
  BY <1>1, <1>2, <1>3

(* They add nothing to the stream.                                         *)
LEMMA InsideStream == Inside => UNCHANGED stream
BY DEF Inside, Broker, AckWaitExpires, MaxDeliverReached, ConsumeLoop, Fetch,
       ProcessMessage, IngestBatch, QuarantineMessage, Acknowledge, RecoveryWorker,
       BeginPass, InspectItem, ReadPending, Record, PersistPending, SettleAdvisory,
       Subscriber, TakeNotice, Operator, BeginRequest, CommitRequest, Retention, Restart,
       storeOnly, brokerVars

(* A publication adds the body of its message to the stream.               *)
LEMMA PublishedBatches ==
  ASSUME ControlTypeOK, NEW m \in Message, Publish(m), NEW b
  PROVE  InStream(b)' <=> InStream(b) \/ b = m.body
<1>1. /\ stream \in Seq(Message) /\ stream' = Append(stream, m)
  BY DEF ControlTypeOK, Publish
<1>2. /\ Published' = Published \cup {Len(stream) + 1}
      /\ stream'[Len(stream) + 1] = m
      /\ \A s \in Published : stream'[s] = stream[s]
  BY <1>1 DEF Published
<1> QED
  BY <1>2 DEF InStream, Body

(* A request over HTTP adds its batch, unless the batch is quarantined.    *)
LEMMA RecordedBatch ==
  ASSUME NEW b \in Batch, IngestHTTP(b)
  PROVE  /\ ingested' \in {ingested, ingested \cup {b}}
         /\ BatchOutcome(b, {}) # "conflict" => ingested' = ingested \cup {b}
         /\ UNCHANGED stream
BY DEF IngestHTTP, RecordBatch, InsertBatch, BatchOutcome, storeOnly, brokerVars

-----------------------------------------------------------------------------
(* What each part of the pipeline adds to the batches the control plane    *)
(* has.                                                                    *)
LEMMA AcceptAdds ==
  ASSUME PipelineAssumption, ConsumerInv, NEW n \in Edge!Id, Accept(BatchOf[n]), NEW b
  PROVE  AtControlPlane(b)' <=> AtControlPlane(b) \/ b = BatchOf[n]
<1>1. CASE Publish([body |-> BatchOf[n], claim |-> BatchOf[n]])
  <2>1. UNCHANGED ingested
    BY <1>1 DEF Publish, storeVars
  <2>2. InStream(b)' <=> InStream(b) \/ b = BatchOf[n]
    BY <1>1, OwnMessage, PublishedBatches DEF ConsumerInv
  <2> QED
    BY <2>1, <2>2 DEF AtControlPlane
<1>2. CASE InStream(BatchOf[n]) /\ UNCHANGED vars
  BY <1>2 DEF AtControlPlane, InStream, Published, Body, vars, storeVars, brokerVars
<1>3. CASE BatchOutcome(BatchOf[n], {}) # "conflict" /\ IngestHTTP(BatchOf[n])
  <2>1. ingested' = ingested \cup {BatchOf[n]} /\ UNCHANGED stream
    BY <1>3, OwnMessage, RecordedBatch
  <2> QED
    BY <2>1 DEF AtControlPlane, InStream, Published, Body
<1> QED
  BY <1>1, <1>2, <1>3 DEF Accept

(* The control plane by itself adds none of the node's batches.            *)
LEMMA AloneAdds ==
  ASSUME PipelineAssumption, ConsumerInv, RowsHoldTheirMessage, ControlPlaneAlone,
         NEW n \in Edge!Id
  PROVE  AtControlPlane(BatchOf[n])' <=> AtControlPlane(BatchOf[n])
<1> DEFINE b == BatchOf[n]
<1>1. b \in Own
  BY DEF Own
<1>2. ASSUME NEW m \in Message, m.body \notin Own, Publish(m)
      PROVE  AtControlPlane(b)' <=> AtControlPlane(b)
  <2>1. UNCHANGED ingested
    BY <1>2 DEF Publish, storeVars
  <2>2. InStream(b)' <=> InStream(b)
    BY <1>1, <1>2, PublishedBatches DEF ConsumerInv
  <2> QED
    BY <2>1, <2>2 DEF AtControlPlane
<1>3. ASSUME NEW c \in Batch \ Own, IngestHTTP(c)
      PROVE  AtControlPlane(b)' <=> AtControlPlane(b)
  <2>1. (b \in ingested' <=> b \in ingested) /\ UNCHANGED stream
    BY <1>1, <1>3, RecordedBatch
  <2> QED
    BY <2>1 DEF AtControlPlane, InStream, Published, Body
<1>4. CASE Inside
  <2>1. InStream(b)' <=> InStream(b)
    BY <1>4, InsideStream DEF InStream, Published, Body
  <2>2. b \in ingested' => b \in ingested \/ InStream(b)
    BY <1>4, IngestOrigin
  <2>3. Next
    BY <1>4 DEF Inside, Next
  <2>4. ingested \subseteq ingested'
    BY <2>3, NextStore, NothingDisappears DEF ConsumerInv, StoreInv
  <2> QED
    BY <2>1, <2>2, <2>4 DEF AtControlPlane
<1> QED
  BY <1>2, <1>3, <1>4 DEF ControlPlaneAlone, Inside

(* ExactlyTransmitted is kept by every step of the pipeline.               *)
LEMMA ExactStep ==
  ASSUME PipelineAssumption, ConsumerInv, RowsHoldTheirMessage, ExactlyTransmitted,
         [PipelineNext]_pipelineVars
  PROVE  ExactlyTransmitted'
<1> SUFFICES ASSUME NEW n \in Edge!Id
             PROVE  AtControlPlane(BatchOf[n])' <=> n \in arrived'
  BY DEF ExactlyTransmitted, Edge!Id
<1>1. AtControlPlane(BatchOf[n]) <=> n \in arrived
  BY DEF ExactlyTransmitted
<1>2. CASE EdgeAlone
  <2>1. UNCHANGED arrived
    BY <1>2 DEF EdgeAlone, Edge!Collect, Edge!BeginCycle, Edge!Transmit,
       Edge!LastAttempt,
       Edge!MarkDelivered, Edge!MarkQuarantined, Edge!RecordSyncAttempt,
       Edge!PruneCompletedBatches, Edge!RequeueQuarantinedBatch, Edge!Restart,
       Edge!Checkpoint, Edge!PowerLoss, Edge!wireVars
  <2>2. UNCHANGED <<ingested, stream>>
    BY <1>2 DEF EdgeAlone, vars, storeVars, brokerVars
  <2> QED
    BY <1>1, <2>1, <2>2 DEF AtControlPlane, InStream, Published, Body
<1>3. ASSUME NEW m \in Edge!Id, Reach(m)
      PROVE  AtControlPlane(BatchOf[n])' <=> n \in arrived'
  <2>1. arrived' = arrived \cup {m}
    BY <1>3 DEF Reach, Edge!Transmit, Edge!Arrive
  <2>2. AtControlPlane(BatchOf[n])' <=> AtControlPlane(BatchOf[n]) \/ BatchOf[n] = BatchOf[m]
    BY <1>3, AcceptAdds DEF Reach
  <2> QED
    BY <1>1, <2>1, <2>2 DEF PipelineAssumption
<1>4. CASE ControlPlaneAlone
  <2>1. UNCHANGED arrived
    BY <1>4 DEF ControlPlaneAlone, edgeVars
  <2> QED
    BY <1>1, <1>4, <2>1, AloneAdds
<1>5. CASE UNCHANGED pipelineVars
  BY <1>1, <1>5 DEF AtControlPlane, InStream, Published, Body, pipelineVars, vars,
     storeVars, brokerVars, edgeVars
<1> QED
  BY <1>2, <1>3, <1>4, <1>5 DEF PipelineNext

(* The control plane has exactly the batches that transmissions brought.   *)
(* The steps are over ConsumerInv and RowsHoldTheirMessage: what a replay  *)
(* ingests is the body of a published message.                             *)
THEOREM ExactlyTheorem ==
  ASSUME PipelineAssumption
  PROVE  PipelineSpec => []ExactlyTransmitted
<1>1. PipelineInit => ExactlyTransmitted
  BY DEF PipelineInit, Init, StoreInit, Edge!Init, ExactlyTransmitted, AtControlPlane,
     InStream, Published
<1>2. ConsumerInv /\ RowsHoldTheirMessage /\ ExactlyTransmitted /\ [PipelineNext]_pipelineVars
        => ExactlyTransmitted'
  BY ExactStep
<1> QED
  BY <1>1, <1>2, PipelineConsumerTheorem, ConsumerInvariance, HoldInvariant, PTL
     DEF PipelineSpec

(* No batch the agent collected is lost on its way into the store, if      *)
(* reads of the stream do not fail: the outbox's promise up to the         *)
(* transmission, the consumer's from there, and ExactlyTransmitted         *)
(* between them.                                                           *)
THEOREM EndToEndTheorem ==
  ASSUME PipelineAssumption, MaxReadFaults = 0
  PROVE  PipelineSpec => []NothingLostEndToEnd
<1>1. ASSUME Edge!NoBatchLost, arrived \subseteq Edge!Id, ExactlyTransmitted, NoMessageLost
      PROVE  NothingLostEndToEnd
  BY <1>1 DEF Edge!NoBatchLost, ExactlyTransmitted, AtControlPlane, InStream,
     NoMessageLost, NothingLostEndToEnd
<1>2. PipelineSpec => [](Edge!NoBatchLost /\ arrived \subseteq Edge!Id)
  BY PipelineEdgeTheorem, OutboxTheorems, PTL
<1>3. PipelineSpec => []NoMessageLost
  BY PipelineConsumerTheorem, NoLossTheorem, PTL
<1> QED
  BY <1>1, <1>2, <1>3, ExactlyTheorem, PTL

(* Batches reach the control plane in the order of their numbers, except   *)
(* behind those that were set aside: the outbox's order, carried over by   *)
(* ExactlyTransmitted before and after the step.                           *)
THEOREM InOrderTheorem ==
  ASSUME PipelineAssumption
  PROVE  PipelineSpec => ReachesInOrder
<1> DEFINE Ordered == \A b \in arrived' \ arrived, c \in Edge!Known :
             b \in Edge!Known /\ rows[c].seq < rows[b].seq => c \in arrived \cup setAside
           InOrder == \A n, c \in Edge!Known :
             /\ ~AtControlPlane(BatchOf[n]) /\ AtControlPlane(BatchOf[n])'
             /\ rows[c].seq < rows[n].seq
             => AtControlPlane(BatchOf[c]) \/ c \in setAside
<1>1. ASSUME ExactlyTransmitted, ExactlyTransmitted', [Ordered]_Edge!vars PROVE InOrder
  <2>1. \A n \in Edge!Known : /\ n \in Edge!Id
                              /\ AtControlPlane(BatchOf[n]) <=> n \in arrived
                              /\ AtControlPlane(BatchOf[n])' <=> n \in arrived'
    BY <1>1 DEF ExactlyTransmitted, Edge!Known, Edge!Id
  <2>2. CASE Ordered
    BY <2>1, <2>2
  <2>3. CASE UNCHANGED Edge!vars
    BY <2>1, <2>3 DEF Edge!vars, Edge!wireVars
  <2> QED
    BY <1>1, <2>2, <2>3
<1>2. ExactlyTransmitted /\ ExactlyTransmitted' /\ [Ordered]_Edge!vars
        => [InOrder]_pipelineVars
  BY <1>1
<1>3. PipelineSpec => [][Ordered]_Edge!vars
  BY PipelineEdgeTheorem, OutboxTheorems, PTL DEF Edge!OrderedUnlessSetAside
<1>4. PipelineSpec => [][InOrder]_pipelineVars
  <2> HIDE DEF Ordered, InOrder
  <2> QED
    BY <1>2, <1>3, ExactlyTheorem, PTL
<1> QED
  BY <1>4 DEF ReachesInOrder

=============================================================================
