------------------------- MODULE ControlPlaneStore -------------------------
(***************************************************************************)
(* The control plane's durable store (storage/sqlite.go): the tables of    *)
(* ingested batches, telemetry payloads, quarantined messages and nodes.   *)
(* The store keeps one connection (SetMaxOpenConns(1)), so transactions    *)
(* are serialised and every one is a single step here.  A transaction that *)
(* rolls back leaves the state as it was.                                  *)
(*                                                                         *)
(* Timestamps, reasons, categories and attempt counters are left out: no   *)
(* branch of a transaction below depends on them, except the age limit of  *)
(* the two retention passes, which may pick any set of eligible rows.      *)
(***************************************************************************)
EXTENDS Integers, FiniteSets

CONSTANTS
  Batch,    \* identities (node_id, batch_id) of telemetry batches; a batch
            \* also stands for its own bytes when it is a payload
  Node,     \* node identifiers
  NodeOf,   \* the node of a batch
  SeqOf,    \* the sequence number of a batch
  Key,      \* deduplication keys of the quarantine table
  Junk,     \* payload bytes from which no valid batch can be decoded
  Empty,    \* the empty payload
  NoBatch   \* the identity of a message whose node or batch id is unknown

ASSUME StoreAssumption ==
  /\ NodeOf \in [Batch -> Node]
  /\ SeqOf \in [Batch -> Nat]
  /\ NoBatch \notin Batch
  /\ Empty \notin Batch \cup Junk
  /\ Batch \cap Junk = {}

VARIABLES
  ingested,   \* cp_ingested_batches: the primary keys present
  payloads,   \* cp_telemetry_payloads: the primary keys present
  quar,       \* cp_telemetry_quarantine by dedup_key
  nodeSeq     \* cp_nodes.sequence_number, Unregistered without a row

storeVars == <<ingested, payloads, quar, nodeSeq>>

Unregistered == -1

Terminal == {"replayed", "discarded"}
Identity == Batch \cup {NoBatch}
Payload == Batch \cup Junk \cup {Empty}
Row == [status : {"none", "quarantined"} \cup Terminal,
        batch : Identity, payload : Payload]
NoRow == [status |-> "none", batch |-> NoBatch, payload |-> Empty]

Active(k) == quar[k].status = "quarantined"
ActiveFor(b) == {k \in Key : Active(k) /\ quar[k].batch = b}

StoreInit ==
  /\ ingested = {}
  /\ payloads = {}
  /\ quar = [k \in Key |-> NoRow]
  /\ nodeSeq = [n \in Node |-> Unregistered]

(* Variant: a quarantined batch is taken for new.                          *)
BatchOutcomeBlind(b, allowed) == IF b \in ingested THEN "duplicate" ELSE "new"

(* recordBatchTx: what the transaction answers for batch b when the rows   *)
(* in allowed are not counted as an active quarantine of b.                *)
BatchOutcome(b, allowed) ==
  IF ActiveFor(b) \ allowed # {} THEN "conflict"
  ELSE IF b \in ingested THEN "duplicate"
  ELSE "new"

(* Variants: no idempotency row; the sequence number of the latest write.  *)
InsertPayloadOnly(b) == payloads' = payloads \cup {b} /\ UNCHANGED <<ingested, nodeSeq>>
InsertUnordered(b) ==
  /\ ingested' = ingested \cup {b} /\ payloads' = payloads \cup {b}
  /\ nodeSeq' = [nodeSeq EXCEPT ![NodeOf[b]] = IF @ # Unregistered THEN SeqOf[b] ELSE @]

(* The rows written for a new batch: the idempotency row, the payload, and *)
(* the sequence number of the node when it is registered and lower.        *)
InsertBatch(b) ==
  /\ ingested' = ingested \cup {b}
  /\ payloads' = payloads \cup {b}
  /\ nodeSeq' = [nodeSeq EXCEPT ![NodeOf[b]] =
                   IF @ # Unregistered /\ @ < SeqOf[b] THEN SeqOf[b] ELSE @]

RecordBatch(b) ==
  /\ IF BatchOutcome(b, {}) = "new"
     THEN InsertBatch(b)
     ELSE UNCHANGED <<ingested, payloads, nodeSeq>>
  /\ UNCHANGED quar

(* RecordQuarantine: the answer for a message with key k, identity id and  *)
(* payload p.                                                              *)
QuarantineOutcome(k, id, p) ==
  IF id \in ingested THEN "ingested"
  ELSE IF quar[k].status = "none" THEN "inserted"
  ELSE IF quar[k].payload # p THEN "mismatch"
  ELSE "updated"

(* Variant: the row is replaced by every call.                             *)
QuarantineRowReplaced(k, id, p) == [status |-> "quarantined", batch |-> id, payload |-> p]

(* A terminal row keeps its disposition and identity; an active one takes  *)
(* a non-empty identity.                                                   *)
QuarantineRow(k, id, p) ==
  CASE QuarantineOutcome(k, id, p) = "inserted" ->
         [status |-> "quarantined", batch |-> id, payload |-> p]
    [] QuarantineOutcome(k, id, p) = "updated" /\ Active(k) /\ id # NoBatch ->
         [quar[k] EXCEPT !.batch = id]
    [] OTHER -> quar[k]

RecordQuarantine(k, id, p) ==
  /\ quar' = [quar EXCEPT ![k] = QuarantineRow(k, id, p)]
  /\ UNCHANGED <<ingested, payloads, nodeSeq>>

(* ReplayQuarantineRecord: the row must be active, its payload must decode *)
(* to the batch the row names, and no other active row may name it.        *)
CanReplay(k) ==
  /\ Active(k)
  /\ quar[k].payload \in Batch
  /\ quar[k].payload = quar[k].batch
  /\ quar[k].batch \in ingested \/ BatchOutcome(quar[k].batch, {k}) # "conflict"

ReplayQuarantineRecord(k) ==
  /\ CanReplay(k)
  /\ IF quar[k].batch \in ingested
     THEN UNCHANGED <<ingested, payloads, nodeSeq>>
     ELSE InsertBatch(quar[k].batch)
  /\ quar' = [quar EXCEPT ![k].status = "replayed"]

(* Variant: the update does not check the status again.                    *)
DiscardUnchecked(k) ==
  /\ quar[k].status # "none"
  /\ quar' = [quar EXCEPT ![k].status = "discarded"]
  /\ UNCHANGED <<ingested, payloads, nodeSeq>>

DiscardQuarantineRecord(k) ==
  /\ Active(k)
  /\ quar' = [quar EXCEPT ![k].status = "discarded"]
  /\ UNCHANGED <<ingested, payloads, nodeSeq>>

(* The retention passes: S is the set of rows old enough, at most a limit. *)
PruneTelemetryPayloads(S) ==
  /\ S \subseteq payloads
  /\ \A b \in S : ActiveFor(b) = {}
  /\ payloads' = payloads \ S
  /\ UNCHANGED <<ingested, quar, nodeSeq>>

PruneQuarantinePayloads(S) ==
  /\ \A k \in S : quar[k].status \in Terminal /\ quar[k].payload # Empty
  /\ quar' = [k \in Key |-> IF k \in S THEN [quar[k] EXCEPT !.payload = Empty]
                            ELSE quar[k]]
  /\ UNCHANGED <<ingested, payloads, nodeSeq>>

(* RegisterNode inserts the row with sequence number 0; a repeated         *)
(* registration never lowers it.                                           *)
RegisterNode(n) ==
  /\ nodeSeq' = [nodeSeq EXCEPT ![n] = IF @ = Unregistered THEN 0 ELSE @]
  /\ UNCHANGED <<ingested, payloads, quar>>

(* The callers derive the identity of a message from its bytes, which the  *)
(* key determines: a second call for a key gives the same identity or none.*)
SameIdentity(k, id) ==
  quar[k].status # "none" /\ quar[k].batch # NoBatch => id \in {NoBatch, quar[k].batch}

StoreNext ==
  \/ \E b \in Batch : RecordBatch(b)
  \/ \E k \in Key, id \in Identity, p \in Payload :
       SameIdentity(k, id) /\ RecordQuarantine(k, id, p)
  \/ \E k \in Key : ReplayQuarantineRecord(k) \/ DiscardQuarantineRecord(k)
  \/ \E S \in SUBSET Batch : PruneTelemetryPayloads(S)
  \/ \E S \in SUBSET Key : PruneQuarantinePayloads(S)
  \/ \E n \in Node : RegisterNode(n)

StoreSpec == StoreInit /\ [][StoreNext]_storeVars

-----------------------------------------------------------------------------
(* The types of the tables, and payload rows only beside idempotency rows. *)
StoreTypeOK ==
  /\ ingested \subseteq Batch
  /\ payloads \subseteq ingested
  /\ quar \in [Key -> Row]
  /\ nodeSeq \in [Node -> Nat \cup {Unregistered}]

(* "A batch committed to cp_ingested_batches must never be quarantined,    *)
(* preventing contradictory durable state between ingestion and            *)
(* quarantine": no batch is both ingested and actively quarantined.  The   *)
(* two checks that keep it are in different transactions.                  *)
NeverIngestedAndQuarantined == \A b \in ingested : ActiveFor(b) = {}

(* A row marked replayed names a batch that is ingested: the replay        *)
(* transaction writes both or neither.                                     *)
ReplayedIsIngested ==
  \A k \in Key : quar[k].status = "replayed" => quar[k].batch \in ingested

(* No call takes back a disposition or changes what a resolved row names,  *)
(* and an active row keeps the payload it was inserted with (the evidence  *)
(* an operator needs) and, once known, its identity.                       *)
RowKept(k) ==
  /\ quar[k].status \in Terminal =>
       quar'[k].status = quar[k].status /\ quar'[k].batch = quar[k].batch
  /\ Active(k) => /\ quar'[k].status # "none"
                  /\ quar'[k].payload = quar[k].payload
                  /\ quar[k].batch # NoBatch => quar'[k].batch = quar[k].batch
RowsAreMonotone == [][\A k \in Key : RowKept(k)]_storeVars

(* Batches arrive and are replayed out of order, yet the sequence number   *)
(* of a registered node never goes back and covers each batch as it is     *)
(* ingested.                                                               *)
NodeStep ==
  /\ \A n \in Node : nodeSeq'[n] >= nodeSeq[n]
  /\ \A b \in ingested' \ ingested :
       nodeSeq[NodeOf[b]] # Unregistered => nodeSeq'[NodeOf[b]] >= SeqOf[b]
NodeSequenceNeverRegresses == [][NodeStep]_storeVars

-----------------------------------------------------------------------------
(* What the store promises about one batch: the abstract disposition.      *)
Disposition ==
  [b \in Batch |->
     IF b \in ingested THEN "ingested"
     ELSE IF ActiveFor(b) # {} THEN "quarantined"
     ELSE IF \E k \in Key : quar[k].status = "discarded" /\ quar[k].batch = b
       THEN "discarded"
     ELSE "open"]

D == INSTANCE BatchDisposition WITH disposition <- Disposition
DispositionSpec == D!Spec
=============================================================================
