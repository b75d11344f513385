----------------------------- MODULE EdgeOutbox -----------------------------
(***************************************************************************)
(* The edge agent's telemetry path for its node: the generator's sequence  *)
(* counter, the durable outbox (storage/sqlite.go), the syncer and the     *)
(* operator's requeue command, which is another process on the same        *)
(* database.                                                               *)
(*                                                                         *)
(* The agent's loop (main.go) runs collection, synchronisation and pruning *)
(* one at a time.  A synchronisation cycle works on the batches it read at *)
(* its start and leaves the database between reading them, transmitting    *)
(* each one and recording the outcome, so each of these is a step here.    *)
(***************************************************************************)
EXTENDS Integers, FiniteSets

CONSTANTS
  MaxAttempts,     \* Syncer.maxAttempts
  Limit,           \* limitPerNode: batches read by one cycle
  Delivered,       \* PUBLISHED on the NATS transport, SYNCED on HTTP
  MaxBatches,      \* bound: batches persisted
  MaxFaults,       \* bound: failed database calls
  MaxRequeues,     \* bound: operator requeues
  MaxRestarts,     \* bound: stops and crashes of the agent
  MaxPowerLosses   \* bound: losses of power

ASSUME OutboxAssumption ==
  /\ {MaxAttempts, Limit} \subseteq Nat \ {0}
  /\ Delivered \in {"PUBLISHED", "SYNCED"}
  /\ {MaxBatches, MaxFaults, MaxRequeues, MaxRestarts, MaxPowerLosses} \subseteq Nat

VARIABLES
  rows,       \* telemetry_batches, by the order in which batches were made
  disk,       \* what of them a loss of power leaves
  nextSeq,    \* the generator's counter
  pc, queue,  \* the cycle: where it is, the batches it has still to handle
  born,       \* how many batches were persisted
  sent,       \* transmissions without an answer that may still take effect
  arrived,    \* the batches the control plane has got
  setAside,   \* the batches that were ever FAILED
  faults, requeues, restarts, powerLosses

agentVars == <<nextSeq, pc, queue>>
wireVars == <<sent, arrived>>
countVars == <<faults, requeues, restarts, powerLosses>>
vars == <<rows, disk, agentVars, born, wireVars, setAside, countVars>>

Id == 1 .. MaxBatches
NoRow == [status |-> "none", seq |-> 0, attempt |-> 0]

Having(table, status) == {b \in Id : table[b].status \in status}
InTable(table) == Having(table, {"PENDING", "FAILED", Delivered})
Pending == Having(rows, {"PENDING"})

(* Variant: the counter resumes with the number it used last.              *)
NextAfterRepeats(table) ==
  IF InTable(table) = {} THEN 0
  ELSE CHOOSE n \in {table[b].seq : b \in InTable(table)} :
         \A b \in InTable(table) : table[b].seq <= n

(* GetLatestSequenceNumber + 1; the generator starts at 0 without rows.    *)
NextAfter(table) ==
  IF InTable(table) = {} THEN 0
  ELSE 1 + (CHOOSE n \in {table[b].seq : b \in InTable(table)} :
              \A b \in InTable(table) : table[b].seq <= n)

SetStatus(b, status) == rows' = [rows EXCEPT ![b].status = status]
Fault == faults < MaxFaults /\ faults' = faults + 1
NoFault == UNCHANGED faults

Init ==
  /\ rows = [b \in Id |-> NoRow]
  /\ disk = rows
  /\ nextSeq = 0
  /\ pc = "idle" /\ queue = {}
  /\ born = 0
  /\ sent = {} /\ arrived = {} /\ setAside = {}
  /\ faults = 0 /\ requeues = 0 /\ restarts = 0 /\ powerLosses = 0

-----------------------------------------------------------------------------
(* runCollectionStep: the generator takes a sequence number, the batch is  *)
(* persisted and read back; a cycle follows when both succeed.             *)
Collect ==
  /\ pc = "idle"
  /\ born < MaxBatches
  /\ nextSeq' = nextSeq + 1
  /\ \/ /\ born' = born + 1
        /\ rows' = [rows EXCEPT ![born'] =
                      [status |-> "PENDING", seq |-> nextSeq, attempt |-> 0]]
        /\ \/ pc' = "begin" /\ NoFault
           \/ pc' = "idle" /\ Fault
     \/ Fault /\ UNCHANGED <<rows, born, pc>>
  /\ UNCHANGED <<disk, queue, wireVars, setAside, requeues, restarts, powerLosses>>

(* The cycle reads the Limit lowest pending batches with their attempts.   *)
FirstPending(S) ==
  /\ S \subseteq Pending
  /\ S # Pending => Cardinality(S) = Limit
  /\ Cardinality(S) <= Limit
  /\ \A b \in S, c \in Pending \ S : rows[b].seq <= rows[c].seq

BeginCycle ==
  /\ pc \in {"idle", "begin"}
  /\ \/ \E S \in SUBSET Pending :
          /\ FirstPending(S)
          /\ queue' = {[batch |-> b, attempt |-> rows[b].attempt] : b \in S}
          /\ pc' = IF S = {} THEN "idle" ELSE "transmit"
          /\ NoFault
     \/ Fault /\ pc' = "idle" /\ UNCHANGED queue
  /\ UNCHANGED <<rows, disk, nextSeq, born, wireVars, setAside, requeues, restarts,
                 powerLosses>>

(* Variant: the batches are handled in any order.                          *)
CurrentAny(i) == i \in queue

(* The batch the cycle is at: the lowest it has not handled.               *)
Current(i) == i \in queue /\ \A j \in queue : rows[i.batch].seq <= rows[j.batch].seq

LastAttempt(i) == i.attempt + 1 >= MaxAttempts

(* Variant: a publication without acknowledgement.                         *)
TransmitUnacknowledged(i) ==
  /\ pc = "transmit" /\ Current(i)
  /\ sent' = sent \cup {i.batch} /\ pc' = "mark"
  /\ UNCHANGED <<rows, disk, nextSeq, queue, born, arrived, setAside, countVars>>

(* PublishBatch or SyncBatch.  Success is answered only after the control  *)
(* side has the batch; after an error, it may have it or get it yet.       *)
Transmit(i) ==
  /\ pc = "transmit" /\ Current(i)
  /\ \/ /\ arrived' = arrived \cup {i.batch}
        /\ pc' = "mark"
        /\ UNCHANGED sent
     \/ /\ sent' \in {sent, sent \cup {i.batch}}
        /\ \/ pc' = "quarantine"                      \* a permanent error
           \/ pc' = IF LastAttempt(i) THEN "quarantine" ELSE "retry"
        /\ UNCHANGED arrived
  /\ UNCHANGED <<rows, disk, nextSeq, queue, born, setAside, countVars>>

GoOn(i) ==
  /\ queue' = queue \ {i}
  /\ pc' = IF queue' = {} THEN "idle" ELSE "transmit"

(* Variant: the cycle stops and keeps its batches.                         *)
HaltKeeping == pc' = "idle" /\ UNCHANGED queue

Halt == queue' = {} /\ pc' = "idle"

(* MarkBatchPublished, MarkBatchSynced.                                    *)
MarkDelivered(i) ==
  /\ pc = "mark" /\ Current(i)
  /\ \/ SetStatus(i.batch, Delivered) /\ GoOn(i) /\ NoFault
     \/ Fault /\ Halt /\ UNCHANGED rows
  /\ UNCHANGED <<disk, nextSeq, born, wireVars, setAside, requeues, restarts, powerLosses>>

(* A permanent failure or the last attempt: the batch is set aside and the *)
(* cycle goes on with the node's next batch.                               *)
MarkQuarantined(i) ==
  /\ pc = "quarantine" /\ Current(i)
  /\ \/ /\ rows[i.batch].status = "PENDING"
        /\ SetStatus(i.batch, "FAILED")
        /\ setAside' = setAside \cup {i.batch}
        /\ GoOn(i) /\ NoFault
     \/ Fault /\ Halt /\ UNCHANGED <<rows, setAside>>
  /\ UNCHANGED <<disk, nextSeq, born, wireVars, requeues, restarts, powerLosses>>

(* Variant: the failed attempt is not counted.                             *)
RecordSyncAttemptUncounted(i) ==
  /\ pc = "retry" /\ Current(i) /\ Halt
  /\ UNCHANGED <<rows, disk, nextSeq, born, wireVars, setAside, countVars>>

(* RecordSyncAttempt; its error is only logged.                            *)
RecordSyncAttempt(i) ==
  /\ pc = "retry" /\ Current(i)
  /\ \/ rows' = [rows EXCEPT ![i.batch].attempt = @ + 1] /\ NoFault
     \/ Fault /\ UNCHANGED rows
  /\ Halt
  /\ UNCHANGED <<disk, nextSeq, born, wireVars, setAside, requeues, restarts, powerLosses>>

Cycle ==
  \/ BeginCycle
  \/ \E i \in queue : \/ Transmit(i) \/ MarkDelivered(i)
                      \/ MarkQuarantined(i) \/ RecordSyncAttempt(i)

(* PruneCompletedBatches: any set of delivered rows may be old enough; the *)
(* node's highest sequence number stays.                                   *)
PruneCompletedBatches(S) ==
  /\ pc = "idle"
  /\ S \subseteq Having(rows, {Delivered})
  /\ \A b \in S : \E c \in InTable(rows) : rows[b].seq < rows[c].seq
  /\ rows' = [b \in Id |-> IF b \in S THEN [rows[b] EXCEPT !.status = "pruned"]
                           ELSE rows[b]]
  /\ UNCHANGED <<disk, agentVars, born, wireVars, setAside, countVars>>

-----------------------------------------------------------------------------
(* RequeueQuarantinedBatch, from the operator's command.                   *)
RequeueQuarantinedBatch(b) ==
  /\ requeues < MaxRequeues
  /\ rows[b].status = "FAILED"
  /\ rows' = [rows EXCEPT ![b].status = "PENDING", ![b].attempt = 0]
  /\ requeues' = requeues + 1
  /\ UNCHANGED <<disk, agentVars, born, wireVars, setAside, faults, restarts, powerLosses>>

Arrive(b) ==
  /\ b \in sent
  /\ sent' = sent \ {b}
  /\ arrived' = arrived \cup {b}
  /\ UNCHANGED <<rows, disk, agentVars, born, setAside, countVars>>

(* The agent starts on the table it finds.                                 *)
StartOn(table) ==
  /\ nextSeq' = NextAfter(table)
  /\ pc' = "idle" /\ queue' = {}

Restart ==
  /\ restarts < MaxRestarts
  /\ restarts' = restarts + 1
  /\ StartOn(rows)
  /\ UNCHANGED <<rows, disk, born, wireVars, setAside, faults, requeues, powerLosses>>

(* PRAGMA synchronous=NORMAL: a commit reaches the disk with the next      *)
(* checkpoint, and a loss of power takes back what was committed since.    *)
Checkpoint ==
  /\ powerLosses < MaxPowerLosses
  /\ disk' = rows
  /\ UNCHANGED <<rows, agentVars, born, wireVars, setAside, countVars>>

PowerLoss ==
  /\ powerLosses < MaxPowerLosses
  /\ powerLosses' = powerLosses + 1
  /\ rows' = disk
  /\ StartOn(disk)
  /\ UNCHANGED <<disk, born, wireVars, setAside, faults, requeues, restarts>>

Next ==
  \/ Collect
  \/ Cycle
  \/ \E S \in SUBSET Having(rows, {Delivered}) : PruneCompletedBatches(S)
  \/ \E b \in Id : RequeueQuarantinedBatch(b)
  \/ \E b \in sent : Arrive(b)
  \/ Restart
  \/ Checkpoint
  \/ PowerLoss

Spec == Init /\ [][Next]_vars

(* The synchronisation ticker keeps firing and a cycle runs to its end: no *)
(* call it makes blocks for ever (every transport call has a timeout).     *)
FairSpec == Spec /\ WF_vars(Cycle)

-----------------------------------------------------------------------------
Row == [status : {"none", "pruned", "PENDING", "FAILED", Delivered},
        seq : Nat, attempt : 0 .. MaxAttempts]

(* The types of the state; the cycle holds batches that are still pending, *)
(* and these have attempts left: the failure that uses the last one sets a *)
(* batch aside in the same cycle, also when an earlier count was lost.     *)
TypeOK ==
  /\ rows \in [Id -> Row]
  /\ disk \in [Id -> Row]
  /\ nextSeq \in Nat
  /\ pc \in {"idle", "begin", "transmit", "mark", "quarantine", "retry"}
  /\ queue \subseteq [batch : Id, attempt : 0 .. MaxAttempts]
  /\ pc \in {"idle", "begin"} <=> queue = {}
  /\ \A b \in Pending : rows[b].attempt < MaxAttempts
  /\ born \in 0 .. MaxBatches
  /\ sent \subseteq Id /\ arrived \subseteq Id /\ setAside \subseteq Id
  /\ faults \in 0 .. MaxFaults /\ requeues \in 0 .. MaxRequeues
  /\ restarts \in 0 .. MaxRestarts /\ powerLosses \in 0 .. MaxPowerLosses

(* "strict monotonicity across restarts": of two batches persisted, the    *)
(* later one has the higher sequence number, whatever was pruned and       *)
(* however often the counter was reset from the table; and the counter is  *)
(* ahead of all of them.  (A batch taken back by a loss of power is gone.) *)
Known == {b \in Id : rows[b].status # "none"}
SequencesIncrease ==
  /\ \A b, c \in Known : b < c => rows[b].seq < rows[c].seq
  /\ \A b \in Known : rows[b].seq < nextSeq

(* A batch is marked delivered, and so can be pruned, only after the       *)
(* control side has it; any other batch persisted waits in the table, or   *)
(* was taken back by a loss of power.                                      *)
NoBatchLost ==
  \A b \in 1 .. born :
    \/ rows[b].status \in {"PENDING", "FAILED"}
    \/ rows[b].status = "none" /\ powerLosses > 0
    \/ b \in arrived

(* A batch reaches the control plane for the first time only after every   *)
(* batch of the node with a lower sequence number, except those an error   *)
(* or the operator took out of the order.                                  *)
OrderedUnlessSetAside ==
  [][\A b \in arrived' \ arrived, c \in Known :
       b \in Known /\ rows[c].seq < rows[b].seq => c \in arrived \cup setAside]_vars

(* No batch keeps the node's queue waiting for ever, whatever its          *)
(* transmissions come to: it is delivered or set aside.                    *)
NothingPendsForever == \A b \in Id : b \in Pending ~> b \notin Pending

=============================================================================
