# AegisEdge: TLA+ verification project

AegisEdge is a Go system of two programs.  An **edge agent** on each node
collects telemetry, stores it in a local outbox and sends it on; a **control
plane** ingests it exactly once, over HTTP or from a NATS JetStream stream,
and sets aside what it cannot ingest.  The agent also detects anomalies,
opens incidents, executes mitigations for them, verifies and escalates these,
and keeps the models its detector uses.  This directory holds TLA+ models of
the telemetry path of both programs, of the registry of nodes, of the chain
from an incident to its end and of model activation, the TLC runs that check
them on small instances and the TLAPS proofs of their main properties.

Contents:

1. the system (inventory)
2. the modules and how they correspond to the code
3. the runs: what each shows, bounds, fairness
4. the proofs
5. disagreements between the code and its documents
6. what is not modelled, and the plan

## 1. The system

### Components and their state

| Component | Source | State | Operations |
|---|---|---|---|
| Control plane store | `services/control-plane/storage/sqlite.go`, `store.go` | SQLite tables `cp_ingested_batches` (idempotency keys), `cp_telemetry_payloads`, `cp_telemetry_quarantine` (by `dedup_key`), `cp_nodes` | `RecordBatch`, `RecordQuarantine`, `ReplayQuarantineRecord`, `UpdateQuarantineStatus`/discard, two retention passes, `RegisterNode`, `UpdateNodeHeartbeat`, `UpdateNodeTelemetryActivity` |
| NATS consumer | `services/control-plane/nats/consumer.go` | in memory: `exhaustedSeqs`, `pendingExhausted`, `pendingScanRetries`, `recoveryCursor`, stalled sequences; at the broker: deliveries, acknowledgements, advisories | consume loop, recovery worker (advisories, pending items, scan), core advisory callback |
| HTTP server | `services/control-plane/server/server.go` | map of nodes, history ring, per-node locks | register, heartbeat, ingest, quarantine list / inspect / replay / discard, readiness, prune loop |
| Authentication | `services/control-plane/server/auth.go` | nonce cache | HMAC check, replay check |
| Edge outbox | `edge/agent/storage/sqlite.go` | `telemetry_batches`: status, attempts, sequence number | save, list pending, mark published / synced / quarantined, record attempt, requeue, prune |
| Telemetry generator | `edge/agent/telemetry/generator.go` | sequence counter | next batch |
| Syncer, HTTP client, NATS publisher | `edge/agent/sync/` | the batches of the cycle in progress | one synchronisation cycle |
| Agent loop | `edge/agent/main.go` | tickers | collect, synchronise, prune, start-up, shutdown |
| Detectors | `edge/agent/detector/` | hysteresis, window, cool-down | detect |
| Incident engine | `edge/agent/incident/engine.go`, two tables in `edge/agent/storage/sqlite.go` | per node and metric: active incident, recent observations, seen anomalies; `incident_records`, `incident_observations` | process signal, transition, close, recover |
| Response | `edge/agent/response/executor.go`, `validator.go`, `approval*.go`, two tables in `storage/sqlite.go` | `history`, `inFlight`, the cooldown of targets; `mitigation_records`, `approval_records` | `Execute`, `ExecuteValidated`, `ExecuteWithApproval`, request / approve / reject / cancel / expire / consume an approval, recover mitigations in flight |
| Verification | `edge/agent/verification/engine.go` | `byID`, `activeStreams`; `verification_records` | start, process a sample, cancel, fail, reconcile timeouts, recover |
| Escalation | `edge/agent/escalation/` | `escalation_records`, circuit states (it has no timers) | evaluate a failure, can-retry, reset the circuit breaker |
| Orchestrator, recovery manager | `edge/agent/orchestrator/`, `edge/agent/recovery/` | `inFlight`, `history` of results; the rows of the four tables above | orchestrate an incident, process telemetry, recover after a restart |
| Coordination | `edge/agent/coordination/` | registration, state of the connection, heartbeat number | register, heartbeat, stop |
| Lifecycle, health | `edge/agent/lifecycle/`, `edge/agent/health/` | phase, component status | start, drain, stop, report |
| Model store, activation | `edge/agent/modelstore/`, `edge/agent/modelactivation/` | a model file and its metadata in `candidate/`, `active/` and `previous/`; active and previous in memory | stage, clear, activate, roll back, start |
| Metrics, audit, configuration, training | `*/metrics`, `edge/agent/audit`, `edge/agent/config`, `services/control-plane/training` | counters, files | observers and offline tools |

### How they interact

```
generator -> outbox -> syncer --HTTP--------------------> server ----+
               ^          \                                          v
   requeue CLI-+           +--NATS--> JetStream --> consume loop --> store
                                         |  \                        ^ ^ ^
                             advisories  |   +-> recovery worker ----+ | |
                                         +-----> subscriber callback --+ |
                                                    operator (HTTP) -----+
                                                    retention loop ------+

coordinator --register, heartbeat--> server: node lock, cp_nodes, then its map

signals -> incident engine -> orchestrator -> policy, validator, approvals
                                  |  ^            |
                                  |  +-- executor-+ (mitigation_records)
       telemetry -> verification -+-> escalation (circuit, retry, ceiling)
```

The control plane's store is shared by the consume loop, the recovery worker,
the advisory callback, HTTP handlers and the prune loop.  It opens one
connection (`SetMaxOpenConns(1)`), so transactions are serialised, but a
handler makes several of them, reads the stream in between and acknowledges
afterwards.  The edge outbox is shared by the agent's loop, which does one
thing at a time, and the operator's command line, which is another process.
The orchestrator calls the engines of an incident one after the other while
telemetry and operators call the same engines.

### What is hard

- *Two dispositions of one batch.*  The check that a batch is not ingested and
  the check that it is not quarantined are made by different goroutines, in
  different transactions, on different tables, and the same batch may be in
  the stream more than once and come by HTTP as well.
- *A message that is nowhere.*  After `MaxDeliver` deliveries the broker gives
  up.  What then remembers the message is an advisory in its own stream, lists
  in memory, and the range of unacknowledged sequences; each is lost by
  something (an acknowledgement, a restart, a later acknowledgement).
- *A message set aside too early.*  The scan walks sequences that the consume
  loop is working on.
- *An operator's request beside all of these*, with its status check outside
  the transaction.
- *Numbering and order at the edge* across restarts, pruning, requeues, lost
  database calls and lost power.
- *Memory beside a table.*  The incident engine decides from memory and records
  in SQLite; a failed write or a restart between the two must not leave an
  incident that one knows and the other does not.
- *Files beside memory.*  An activation or rollback replaces up to four files,
  each by a removal and a rename, ignores most errors and then switches memory.

- *An action that must not run twice.*  Several goroutines execute the same
  decision; its answer may be in memory, in a row, or with the one that is at
  it; the row's write may fail without anyone noticing, and a crash leaves a
  row that says EXECUTING.
- *An approval that is valid when it is looked at* and withdrawn, overdue or
  used when the action begins.
- *Limits that count different things.*  Retry budget, breaker, window and
  ceiling see the same failures with different lifetimes, and only some of them
  survive a restart or a reset.
- *Verdicts of late samples*, of a verification whose timeout has passed in one
  place and not in another, or whose update was lost.
- *Requests that overtake each other* on the way to the server, which keeps a
  map beside its table.

`PROJECT.json` lists each hazard at the line where it bites.

### What makes each component correct

| Component | Properties |
|---|---|
| Store | a batch is never both ingested and actively quarantined; a replayed row names an ingested batch; dispositions are not taken back; a node's sequence number never regresses; each batch lives as `BatchDisposition` says |
| Consumer | no published message is lost; none that may still be delivered is quarantined; every message is in the end ingested or quarantined; the store is used as its specification demands |
| Outbox | sequence numbers are never reused; a batch leaves the table only when the control plane has it; batches arrive in order unless one was set aside; nothing is pending for ever |
| Node registry | map and table agree when no handler is at work; nothing shown of a node goes back, whatever comes late; a running node is registered and connected in the end |
| Incident engine | one active incident, the same in memory and table, also after restarts; incidents open exactly on M fresh observations within the window; a restart loses no progress |
| Response | one dispatch for a decision; an approval is spent before the action, once; what a crash left unknown stays so; nobody is told EXECUTED of an action that did not run |
| Verification | RECOVERED rests on consecutive healthy samples of its own window; memory and table give one verdict, and a stored verdict stands |
| Orchestrator with escalation | an absolute ceiling of actions for an incident; none after an unknown outcome; none by a cycle that begins after the incident was closed |
| Model activation | disk and memory agree on what serves and what a rollback returns to; a model stays on disk at every moment; a rollback is an exchange; metadata never blocks it |

## 2. The modules

| Module | Role |
|---|---|
| `BatchDisposition` | abstract: the life of one batch (open, ingested, quarantined, discarded) |
| `ControlPlaneStore` | the store's transactions; refines `BatchDisposition` |
| `MCControlPlaneStore` | instance for TLC |
| `TelemetryConsumer` | EXTENDS the store: broker, consume loop, recovery worker, subscriber, HTTP ingestion, operator, retention, restarts |
| `TelemetryPipeline` | EXTENDS the consumer and INSTANCEs the outbox: one node's telemetry from end to end |
| `TelemetryPipeline_proofs` | the theorems of the store, of the consumer that uses it, and of the pipeline |
| `MCTelemetryConsumer` | instance for TLC |
| `EdgeOutbox` | the agent's outbox, syncer, generator, requeue command and power |
| `EdgeOutbox_proofs` | its theorems |
| `IncidentEngine`, `MCIncidentEngine` | the incident engine on its tables; instance for TLC |
| `IncidentEngine_proofs` | its theorems |
| `ModelActivation`, `MCModelActivation` | the model store and the activation manager; instance for TLC |
| `ModelActivation_proofs` | its theorems |
| `NodeRegistry` | the edge's coordinator, the requests under way, the server's handlers, map and `cp_nodes` |
| `NodeRegistry_proofs` | its theorems |
| `Response`, `MCResponse` | executor, validator and approvals on their tables; symmetry of the callers for TLC |
| `Response_proofs` | its theorems |
| `Verification`, `MCVerification` | the verification engine of one stream; instance for TLC |
| `Verification_proofs` | its theorems |
| `Orchestrator` | a cycle with the escalation engine, telemetry and operators, for one incident |
| `Orchestrator_proofs` | its theorems |

A definition whose comment begins with "Variant" is the form a definition
below it would have with a plausible bug.  Nothing uses it in the
specification; `PROJECT.json` ("mutants") says which property each one breaks.

### ControlPlaneStore

A batch is an identity `(node_id, batch_id)`.  It also stands for its own
bytes as a payload: two payloads differ exactly when their bytes do.  `Junk`
are bytes from which no valid batch decodes.

| Variable | Code |
|---|---|
| `ingested` | primary keys of `cp_ingested_batches` |
| `payloads` | primary keys of `cp_telemetry_payloads` |
| `quar` | rows of `cp_telemetry_quarantine` by `dedup_key`: status, identity, payload |
| `nodeSeq` | `cp_nodes.sequence_number` |

One action is one transaction.  `BatchOutcome` is the decision of
`recordBatchTx` (conflict with an active row, duplicate, new) and
`QuarantineOutcome` that of `RecordQuarantine` (already ingested, inserted,
payload mismatch, updated).  `SameIdentity` is the one condition on callers:
the key of a message determines its bytes, so a later call for the same key
names the same batch or none.  That the consumer meets it is proved
(`UsesStoreTheorem`), not assumed.

### TelemetryConsumer

| Variable | Code |
|---|---|
| `stream`, `deliveries`, `broker` | the stream and the durable consumer (external): message, `NumDelivered`, delivery state |
| `advisory`, `notice` | the max-deliveries advisory in the advisory stream, and on its way to the core subscription |
| `fetched`, `loop` | `consumeLoop`: copies of the last `Fetch`; where `processMessage` is |
| `exhausted`, `pending`, `scanRetries` | `exhaustedSeqs`, `pendingExhausted` (with or without data), `pendingScanRetries` |
| `phase`, `todo` | the pass of `recoveryWorkerLoop` and the items it took at its start |
| `recover` | for the worker and the subscriber, where `RecoverStreamSequence` or the pending pass is, and the record it has built |
| `requests` | HTTP replay and discard requests past their status check |

A handler is cut where it leaves the process: at a store transaction, a read
of the stream, an acknowledgement.  So `RecoverStreamSequence` is `Inspect`
(read the message, `HasBatch`, evidence) and `Record` (the transaction and
what follows it), and between them anything may happen.  An acknowledgement's
error is ignored by the code, so it may have no effect.  The dedup key of a
consumed message is `stream:<name>:<seq>`, so `Key` is the set of sequences.

`Incomplete` is the junk (a nil payload) for which `processMessage` and
`RecoverStreamSequence` leave the batch id empty while the pending pass takes
it from the `Nats-Msg-Id` header.

Abstractions: the back-off of items only delays; one scan covers the whole
range from the first unacknowledged sequence to the last delivered
(`MaxRecoveryBatch` is larger than the model's stream, so `recoveryCursor`
stays at its start); the scan's retry obligation is kept (the code drops it
after 15 failures, more than the runs' fault bounds allow); the stream does not
expire messages, so `ErrMsgNotFound` does not occur; stalled-sequence
diagnostics, counters and health gauges are observers.

### EdgeOutbox

| Variable | Code |
|---|---|
| `rows` | `telemetry_batches` in order of creation: status, sequence number, attempts |
| `disk` | what a loss of power leaves of it (`synchronous=NORMAL`) |
| `nextSeq` | the generator's counter |
| `pc`, `queue` | `SyncPendingBatches`: its place, and the batches with the attempt counts it read at its start |
| `sent`, `arrived` | transmissions without an answer that may still take effect; what the control plane has |
| `setAside` | history: batches that were ever `FAILED` |

The agent's loop runs one thing at a time; the requeue command, power and
late arrivals interleave with every step.  A failed database call leaves the
table as it was.  `Delivered` is `PUBLISHED` (NATS) or `SYNCED` (HTTP).

### TelemetryPipeline

| Definition | Code |
|---|---|
| `Reach` | a transmission that takes effect: the call in `SyncPendingBatches` and what it does on the other side, in one step; its answer may be lost or late (`Edge!Arrive`) |
| `Accept` | JetStream stores the message or knows its `Nats-Msg-Id`; on HTTP `handleIngestBatch` records the batch |
| `EdgeAlone` | the agent's loop, the requeue command and power, without effect on the control plane |
| `ControlPlaneAlone` | everything of `TelemetryConsumer`, and publishers and callers other than this node |

A batch of the outbox is the batch `BatchOf` names in the store.  The steps are
those of the two modules: `Reach` is the conjunction of one of each, all others
leave one side alone.  A request that the server refuses is a failed
transmission of `EdgeOutbox`, as on the wire.  Its
properties (`NothingLostEndToEnd`, `ExactlyTransmitted`, `ReachesInOrder`) are
proved (section 4) and are in no run: TLC agrees with them on instances with
one batch and one message, over both transports and with a loss of power (up to
some 640,000 states), but the product of the two state spaces is beyond it at
two batches, where order begins to matter.

### IncidentEngine

| Variable | Code |
|---|---|
| `records`, `stored` | `incident_records` (status and `triggered_at`), `incident_observations` |
| `active`, `status`, `observations`, `seen` | `streamState` of one node and metric |
| `now` | the latest time a signal or a restart has shown |

Streams share nothing but the load limit of a recovery, so one is modelled.  A
call holds the engine's mutex throughout and makes one transaction before it
changes memory, so it is one step; a crash inside it leaves what a crash before
or after the transaction leaves.  Only in `CloseActiveIncident` does memory
change before the transaction: its failure is the action `CloseFails`.
`Process` is `Repeat`, `Correlate`, `Observe` or `Open`; a stale signal changes
nothing.  Signals come in any order, as `engine.go:279` provides for.
`RegisterIncident` with a store only ever fails for a new incident
(`PersistIncidentEvaluation` refuses its nil observation, `sqlite.go:1437`), so
it is no action.

### ModelActivation

| Variable | Code |
|---|---|
| `disk` | the model and the metadata in each of the three directories |
| `job`, `writer` | the file replacements the store call under way has still to make, and whose call it is |
| `mem` | `DefaultManager.active` (with its detector) and `.previous` |
| `pc`, `target` | the activation or rollback under way |
| `staged` | history: what `StageModel` last answered to have staged |

`safeWriteReplace` is two steps, `Remove` and `Rename`, and either may fail
(`FailWrite`) or be the last before a crash (`Start`).  A store call holds the
store's mutex for its whole job; the manager makes two of them in an
activation, one in a rollback, and other callers stage and clear in between.
Metadata is known by the model whose checksum it carries.

### NodeRegistry

| Variable | Code |
|---|---|
| `edge` | the coordinator: registered, state, `seqNumber`, being stopped; `incarnation` stands for the attributes the process registers |
| `call`, `answer` | the request the coordinator waits for, and what has come back |
| `requests` | sent and not yet handled: also those whose caller has given up |
| `jobs` | handlers that hold the node's lock, between their transaction and the map |
| `db`, `mem` | the node's row of `cp_nodes` and its record in the server's map |
| `ingested`, `replayed` | batches in the database; whether one was replayed since the start |

`Registered`, `Beaten` and `Active` are the rules of `RegisterNode`,
`UpdateNodeHeartbeat` and `UpdateNodeTelemetryActivity`; the server applies the
same rules to its map, in the second half of the handler (`Reconciled`).  Both
kinds of database are covered: after `ServerRestart` it is what it was, or
empty.

### Response

| Variable | Code |
|---|---|
| `rows`, `approval` | `mitigation_records` and `approval_records`: the status by `decision_id` |
| `overdue` | approvals whose `expires_at` has passed |
| `history`, `flight`, `cooling` | `executor.history`, `executor.inFlight`, the target's cooldown |
| `call` | for each goroutine its step, decision, entry, the value it read or will answer, and whether its `now` is late |
| `acted`, `answered` | history: dispatched actions, answers given |

A step ends where others may see or change what the call uses: at the
executor's lock, at a call of the store, at the action.  `Save` is a write of
`mitigation_records` whose error the executor ignores.

### Verification

| Variable | Code |
|---|---|
| `request` | what is fixed at the start: `incident_id`, `started_at` |
| `byID`, `active` | `engine.byID` (status, `consecutiveHealthy`, `seenSamples`), the entry of `engine.activeStreams` |
| `rows` | `verification_records` |
| `incident` | the stream's active incident in the incident engine |
| `heard`, `resolved` | history: the samples evaluated, the incidents resolved |

A call holds the engine's mutex to its end, so it is one step; its update of
the table may be lost, as the code ignores the error.

### Orchestrator

| Variable | Code |
|---|---|
| `mitigations`, `verification`, `escalations`, `circuit` | the incident's rows in the four tables |
| `incident`, `approval` | its status in the incident engine; the approval of the policy's decision |
| `leader` | `executeCycle`: the step, the attempt and the status in the caller's copy of the incident |
| `telemetry` | where `ProcessTelemetry` is |
| `result`, `executed`, `coolUntil` | `orchestrator.history`, the executor's history, the target's cooldown |
| `seen` | the copies of the incident that callers may hold |
| `acted` | history: dispatched actions |

`Response` and `Verification` have the insides of the executor and of the
verification engine; here each has one of its outcomes.

## 3. The runs

| Run | Shows |
|---|---|
| `store` | all orders of the store's transactions over two batches of one node and two keys |
| `consumer_faults` | one message, valid, malformed or with nil payload, two failed store calls, a restart, retention, two concurrent operator requests: nothing is lost, nothing is quarantined early, the store is used as specified |
| `consumer_liveness` | every message is resolved, with two failed store calls, a failed read, a restart, an operator request |
| `outbox` | two batches with a database fault, a requeue, a restart and a loss of power: numbering, order, no loss; every pending batch is delivered or set aside |
| `registry` | late, lost and overtaken registrations and heartbeats, batches, a replay, a restart of either side: map and row agree, nothing goes back, the node returns |
| `incident` | five signals in any order, transitions, a cleanup, a failed closure, two restarts |
| `response` | two goroutines, an automatic and a gated decision, the three entries, approvals that change meanwhile, a lost write, a crash anywhere: one dispatch, one approval, no repetition |
| `verification` | two verifications, four samples in any order and repetition, timeouts, withdrawals, a lost update, a restart: evidence, agreement, final verdicts |
| `orchestrator` | cycles of one incident beside telemetry and operators, two crashes, a reset of the breaker: ceiling, unknown outcomes, closed incidents |
| `activation` | three artifacts of two versions, a failed file replacement, two crashes or restarts (also with an initial manifest), a clearing call |
| `hollow_row`, `incident_failed_closure` | the disagreements of section 5 |

Where a property holds only as long as some fault has not occurred, the
property says so itself (`faults = 0 => ...`, `lost = 0 => ...`), so that one
run covers the behaviours with and without the fault.

**Bounds.**  `MaxDeliver = 2` is the smallest number with a delivery that is
not the last.  Two store faults are enough to fail both the ingestion and the
quarantine of the same delivery, which is what puts a message on the pending
list.  Two requests are enough for a replay and a discard of the same row to
pass their status check together.  Two keys and two batches are enough for a
batch in two rows and a row of another batch; the store's run has the same
batch come by HTTP and under both keys, which a stream with a repeated batch
comes to.  In the outbox two batches
are one that is set aside and one that overtakes it, and `MaxAttempts = 2` has
a first and a last attempt.  The five signals lie so that neighbours are within
the window, two pairs exactly at its edge, and the first and the last are not;
two restarts put one before and one after an incident.  Activation needs a
second artifact of the first version (`m1b`), which `StageModel` and `Activate`
must tell from it.  Two goroutines are a leader and a follower, or a call before
and after a change; one crash is enough since a call does not outlive it, and
one lost write separates a row from what was done.  Of four samples three are
healthy and one lies exactly at the deadline; two verifications are one of an
earlier incident and its successor.  In the orchestrator the clock of three
ticks exceeds the window (2) and both cooldowns (1), one automatic retry under a
threshold of 3 lets the budget, the breaker and the ceiling (3 instead of the
code's 4, which only shortens the run) each be the one that stops a cycle, and
two crashes with a reset let attempts outlive every limit but the ceiling.  In the registry two incarnations
of the edge and two heartbeat numbers are what a late request can confuse.
Where a run leaves out failed reads of the stream (`MaxReadFaults = 0`),
section 5 says what they do.

**Deadlock** is checked in every run but `verification`, `orchestrator` and
`registry`: in these the bounded clock and the bounded faults run out, and a
node that is stopped, or a closed incident, has nothing left to do.

**Fairness.**  `consumer_liveness`: weak fairness of the broker's timers
(AckWait and the delivery limit are the server's), of the consume loop (a
goroutine whose fetch returns after a bounded wait) and of the recovery worker
(a ticker).  The subscriber, HTTP, the operator and retention get none.  Faults
and restarts are bounded by number, which is the assumption that they stop in
the end.  `outbox`: weak fairness of the synchronisation cycle only
(the ticker fires and every transport call has a timeout); transmissions may
fail for ever.  `registry`: weak fairness of the coordinator's loop (its timer
fires, and a call ends by an answer or by its timeout) and of the server's
handlers.  Response, verification and the orchestrator have safety properties
only: the code's callers decide whether a decision is ever tried again.

## 4. The proofs

Everything below is proved for every value of the constants, from the
assumptions `StoreAssumption`, `ConsumerAssumption`, `OutboxAssumption`,
`RegistryAssumption`, `IncidentAssumption`, `ResponseAssumption`,
`VerificationAssumption`, `OrchestratorAssumption` and `ActivationAssumption`
of the modules.  Every invariant and action property of a run that passes is a
theorem.  Each module has one inductive invariant, with a lemma for each step
of the component, and every theorem follows from it.

**TelemetryPipeline_proofs, the store.**  The inductive invariant is
`StoreInv`: types, `NeverIngestedAndQuarantined` and `ReplayedIsIngested`.  The
first is inductive only with the second half of each decision: an insertion
requires that no active row names the batch, a row for an ingested batch is
refused, and a replay makes its own row terminal in the transaction that
ingests.  From it: `StoreTypeTheorem`, `ExclusionTheorem`, `ReplayTheorem`, the
action properties `MonotoneTheorem` and `SequenceTheorem`, and
`DispositionTheorem`: under the mapping `Disposition` each transaction is one
abstract move of one batch or a stutter (`OneMove` is the lemma all cases use).

**TelemetryPipeline_proofs, the consumer.**  `ConsumerInv` adds the types of
the control state, what the loop and the recovery handlers hold (always a
published message's identity and bytes, or none), and that each row is named
after the batch its message claims.  The last is what `SameIdentity` needs, so
`UsesStoreTheorem` follows: the whole system implements `StoreSpec`, and every
theorem about the store holds of it (`ConsumerExclusionTheorem`,
`ConsumerDispositionTheorem`).  Two further invariants give:

- `InFlightTheorem`.  `LimitInv` says that all evidence of exhaustion
  (`exhausted`, `pending`, advisories, notifications, what a handler holds, a
  loop at its last copy) is about a sequence whose deliveries have reached
  `MaxDeliver`.  Evidence is only created at the limit and delivery counts do
  not go back, so a row for a valid message is never early, whatever fails.
- `NoLossTheorem`, for `MaxReadFaults = 0`.  `CustodyInv` says that a sequence
  the broker has settled or given up is in custody elsewhere: the loop settles
  only what is recorded (`LoopSaved`), the worker acknowledges an advisory only
  of a message that is (`HandlerSaved`), a dead message without a queued
  advisory is saved (`BrokerSaved`), and rows stay faithful to their message
  (`FaithfulRows`).  The assumption on reads is needed: with two failed reads
  the row exists without the bytes (section 5).

**TelemetryPipeline_proofs, the pipeline.**  `PipelineAssumption` is the
outbox's assumption and that batches have different identifiers (the generator
draws UUIDs).  Every step of `PipelineNext` is a step of `EdgeOutbox` or a
stutter of it, and a step of `TelemetryConsumer` or a stutter (`PipelineStep`),
so the pipeline implements both (`PipelineEdgeTheorem`,
`PipelineConsumerTheorem`) and every theorem about either part holds in it.
What joins the parts is `ExactlyTheorem`: a batch of the node is ingested or in
the stream if and only if a transmission brought it.  Its step needs
`ConsumerInv` and one more invariant, `RowsHoldTheirMessage` (a quarantine row
holds the bytes of its own message or none), since a replay ingests what its
row holds.  With it the guarantees compose:

- `EndToEndTheorem`, for `MaxReadFaults = 0`: every batch that was collected
  is in the outbox, was undone by a loss of power before it was sent for good,
  is ingested, or is in the care of the stream and the quarantine table with
  its bytes.  The outbox keeps what was not transmitted (`NoBatchLost`),
  `ExactlyTransmitted` hands over, and `NoMessageLost` goes on from there; the
  conclusion does not follow from either half.
- `InOrderTheorem`: the outbox's order is the order in which batches become
  known to the control plane.

**IncidentEngine_proofs.**  The inductive invariant
`IncidentInv` adds to the types that memory agrees with the row of its incident
until a closure fails (`RowAgrees`), that no other row is active until a stream
is cleaned up (`MemoryMirrorsStore`), and that the observations in memory lie
within `Window` of each other.  `IncidentTypeTheorem` and `MirrorTheorem` are
its conjuncts; `FSMTheorem` follows from `RowAgrees`, since every write starts
from the status in memory; `EvidenceTheorem` takes the observations an opening
counted as the witness, and needs the third part and the refusal of stale
signals to place them in one window.

What the signals pay for is in `EvidenceInv`.  `EvidencePaid`: until a restart
or a failed closure, the stored signals cover `M` for each incident and the
observations not yet used beside; an opening turns `M` of the second kind into
an incident.  `StoredApart`: before the first incident, where two signals are
enough, the stored ones are pairwise more than `Window` apart, and the latest is
in memory, so that a new one near any of them meets it.  `RecentRemembered`:
before the first incident the stored signals of the last `Window` are all in
memory and fewer than `M`, hence within the limit of a load.  The first two give
`ExactTheorem` (`EvidenceIsExact`); the third gives `ProgressTheorem`
(`ProgressSurvives`), whose reload counts the same set again.

**Response_proofs.**  For any decisions, goroutines, crashes and lost writes.
The inductive invariant `RInv` has, besides the types, `OneLeader` (`inFlight`
is exactly the set of decisions with a leading call, each with one), and for
each call what it may rely on at its step (`CallerInv`): a leader before the
action knows that nothing was dispatched (without lost writes: from its claim on;
for a gated decision, always: its approval is consumed and was not before); a
call that read no row and finds no history, although the action ran, has a
leader beside it that is going to write the history (`HasActed`), which is why
the second look at the history under the lock is needed; and no call that
passed the lookup works on an UNKNOWN row.  `ResponseTypeTheorem`,
`ActuatedOnceTheorem` and `ApprovalTheorem` follow from it, and
`UnconfirmedTheorem` by a case for each step.  The lemmas `MoveKeeps` (a step
in memory) and `LeadKeeps` (a leader's step in the tables) are shared by most
actions.

**Orchestrator_proofs.**  The inductive invariant `OInv`: types, `Counted`
(actions never exceed rows, rows never exceed the ceiling, and a step between
the row and the action has one action less), `Approved` (a missing approval
keeps a cycle from its action, a spent one stands for one), `Surveyed` (past its
survey a cycle works beside no UNKNOWN row: only a restart makes one, and ends
the cycle), `ClosureKnown` (a closed incident has a cached result or is about to,
or every caller's copy says that it is closed) and `LateIsHarmless` (so a cycle
that begins late is refused by the validator).
`OrchestratorTypeTheorem`, `CeilingTheorem`, `UnknownTheorem` and
`ClosedTheorem` state the run's four properties.

**EdgeOutbox_proofs.**  The inductive invariant `OutboxInv`:

- `Kept`, which holds of the table *and* of the version of it on disk, each with
  its own rows: sequence numbers increase with the order of collection, a
  delivered or pruned batch has arrived, a FAILED one was set aside, and the
  latest batch is never pruned.  A loss of power puts the second in the place
  of the first, which is why both must have it; the last clause is why the
  counter resumes above every number that was given out (`CounterAhead`,
  `DiskOlder`).
- `NoneLost`: only a loss of power makes a batch unknown.
- `CycleInv`: the copies the cycle works on are those of the table (a requeue
  touches FAILED rows only, so the agent's command cannot invalidate one), and
  the step it is at has its reason (`mark` only after an arrival, `retry` only
  before the last attempt).
- `TurnInv`: a pending batch before one of the cycle's is in the cycle too, or
  was set aside once; a transmission that may still take effect was in its turn.

`OutboxTypeTheorem`, `SequencesTheorem` and `NoBatchLostTheorem` follow from the
first two parts.  `OrderTheorem` (`OrderedUnlessSetAside`) needs all of them: a
late effect of an old transmission is in order since `InTurn` never turns false.

**NodeRegistry_proofs.**  The inductive invariant `RegistryInv`: types;
`Proper` of the row (no timestamp of a part is later than `lastSeen`);
`MirrorInv`, of the record in the map: it never tells more than the row
(`Behind`), and the handler past its transaction is going to bring it exactly to
the row (`JobInv`, through `Reconciled`), which is where the two halves of a
handler are shown to apply one rule; and `StampInv`, over all pairs of a time and
an incarnation in the system (requests under way, the row, the running agent): a
later time is never that of an earlier incarnation.  `RegistryTypeTheorem` and
`MirrorTheorem` are its conjuncts.  `ForwardTheorem` (`NothingRegresses`) needs
`StampInv`: metadata is compared by time only, and the theorem speaks of
incarnations too.

**Verification_proofs.**  The inductive invariant `VerificationInv`: types (the
active verification is PENDING in memory); `HistoryInv` (samples were evaluated
within the verification's own time; a RECOVERED state, also one that a lost
update left behind, and every resolution of an incident rests on a healthy
sample); `VerdictsAgree` itself, which is inductive beside these; and
`RowsFaithful`, while no update was lost: the row says which samples were heard,
each once, and as many of the last as its streak counts were healthy.
`VerificationTypeTheorem`, `VerdictsAgreeTheorem` and `EvidenceTheorem`
(`RecoveredOnEvidence`) follow; `VerdictTheorem` (`VerdictIsFinal`) is a case for
each step: an update leaves a row with another verdict alone (`WrittenFacts`), and
a start takes a row that is not in use (`HistoryInv`).

**ModelActivation_proofs.**  A call replaces its files one at a time and may be
cut between any two, so the invariant speaks of what a file is once the job
under way is done (`Ends`); a single replacement keeps that.  `ActivationInv`:
types; `ControlInv`; `FilesFollow` (while nothing disturbed the files: at each
point of an activation or rollback, what `active/` and `previous/` end as, in
terms of the two models in memory and the target); `ActiveFirst` (the job
replaces the model in `active/` first, and only when `previous/` has one, or
`active/` none); and `Paired` (without failed replacements and crashes each
metadata file ends as that of the model beside it).  `ActivationTypeTheorem`;
`DiskTheorem` (`DiskMirrorsMemory`) is `FilesFollow` with an empty job;
`MetadataTheorem` (`MetadataNeverBlocks`) is `Paired`; `SurvivalTheorem`
(`AModelSurvives`) takes `ActiveFirst`; `RollbackTheorem` (`RollbackExchanges`)
takes `FilesFollow` at `exchange`.

**Only model-checked**: the three liveness properties, `EveryMessageResolved`,
`NothingPendsForever` and `NodeReturns`: they rest on fairness, so on `ENABLED`,
which is out of the prover's reach.  The two runs that show a violation have
nothing to prove.  `ReplayedIsIngested`, the type of the consumer and
`RecordsFollowFSM` are theorems that no run repeats.

## 5. Disagreements

1. **Hollow row** (`hollow_row`, code).  `processPendingRecoveryPass` ignores
   the error of the read that completes an item without data
   (`consumer.go:1001`) and records the row all the same.  Two failed reads,
   one in `RecoverStreamSequence` and one here, leave an active row with an
   empty payload: it cannot be replayed, and every later attempt to record the
   message fails with a payload mismatch.
2. **Failed closure** (`incident_failed_closure`, code).  `CloseActiveIncident`
   changes the incident in memory before it stores the change.  If that fails,
   memory says RECOVERED, the row is active, the next breach opens a second
   incident beside it, and a retry of the closure answers success without
   writing the row.

Observed while modelling, without a run of their own.  Telemetry and registry:

- ADR-0005:34 and ADR-0008:241 promise that a node's batches arrive in
  sequence; the cycle goes on behind a batch it sets aside (`syncer.go:300`).
  `OrderedUnlessSetAside` is what does hold.
- A replay refused because *another* active row names the batch is answered
  "record is already in a terminal state" (`server.go:2285`).
- `telemetry-quarantine.md:137` says FAILED survives a loss of power; with
  `synchronous=NORMAL` the last commits may not.  (`PowerLoss` models it.)
- A replay advances `cp_nodes` and not the server's map (`server.go:2308`);
  hence `~replayed` in `RegistryMirrorsDatabase`.
- A batch ingested meanwhile moves `last_seen` past a heartbeat under way, whose
  status is then dropped (`sqlite.go:1377-1388`).
- After `Stop` the coordinator's loop may still set CONNECTED or DEGRADED from a
  call that ends (`coordinator.go:175-200`, `300-316`).

Models and incidents:

- `Activate` drops the error of `RotateActiveToPrevious`
  (`manager.go:429`), so `previous/` may keep the model before last, and
  `Rollback` prefers it to the snapshot it retained (`manager.go:475`); hence the
  condition on faults in `RollbackExchanges`.
- If `StageModel` replaces the model and fails to write its metadata, staging
  the same artifact again answers `ReusedExisting` and `Activate` refuses it.
- `ClearPrevious` removes files whose model memory retains: a rollback after it
  cannot swap the files, and disk and memory part; hence `clears = 0` in
  `Undisturbed`.
- Without `active/` a start restores nothing, also when `previous/` has a model.
- Closing an ANOMALY_DETECTED incident leaves its row active, and a restart
  brings it back; hence `cleanups = 0` in `MemoryMirrorsStore`.
- A recovery empties the window in memory but a restart loads its observations
  again, so that one new breach may reopen; `EvidenceIsExact` says for which
  histories that is excluded.

Response, verification, escalation, orchestrator:

- Calls for one decision may be answered differently (`executor.go:190`, `247`):
  a row is an answer with any status, and what was read is put into the history
  over a later one.  `ActuatedOnce` therefore speaks of EXECUTED only.
- A FAILED or SKIPPED row answers every later call of its decision, also when an
  approval has been granted since; a crash after `ConsumeApproval` spends the
  approval; `ConsumeApproval` gets the time from before the validation; and a
  context that ends before the action leaves the row EXECUTING until a restart.
- `CancelApproval` withdraws an APPROVED approval, which
  `ApprovalStatus.CanTransitionTo` (`types.go:282-303`) does not list.
- The orchestrator updates the row of a failed execution by the executor's id,
  which is not the row's (`orchestrator.go:924-946`): the row stays EXECUTING and
  is UNKNOWN after a restart.
- A blocked recovery leaves pending and timed-out verifications unreconciled
  (`recovery/manager.go:156-216`).
- After a restart or a cancelled cycle the next cycle retries without a new
  decision of the escalation engine (ADR-0012:745, `orchestrator.go:601-616`).
- An escalation's id is computed from the attempt; when earlier failures have
  aged out of the window it repeats, is taken for the same and starts no
  cooldown (`engine.go:334-363`).  The ceiling is what still holds.
- With the defaults (`policy.go:32-36`) the breaker trips with the third failure
  and the budget is never what stops a retry.
- If the list of verifications cannot be read at the begin of a cycle, the error
  is skipped (`orchestrator.go:534-536`).  The model assumes that it can be:
  otherwise a cycle with an old copy of the incident may act on one that has
  recovered.

## 6. Not modelled, and the plan

| Part | Why not |
|---|---|
| Authentication, nonce cache | security checks in front of the handlers; the models begin with a request that passed them |
| Detectors | sequential arithmetic on one sample and a window in memory; their output reaches the incident engine as signals in any order |
| Policy rules | sequential matching; the orchestrator's model has every outcome |
| Lifecycle, health | one mutex around a phase, and flags that are reported; no decision modelled here reads them |
| Audit, metrics | observers; their failures are ignored by all others |
| Recovery manager's checkpoints, identity | records of its progress that nothing reads to resume a cycle |
| Configuration, training, log and JSON formats | start-up code or offline tools |
| Listings, readiness, the ring of recent batches, process shutdown | reads, or observers |

Planned, in this order:

1. An abstract specification of one batch from the generator to its end at the
   control plane, implemented by `TelemetryPipeline` under one mapping.
   `ExactlyTransmitted` and `DispositionTheorem` are its two halves.
2. Refinements for the shorter chains, where an abstract machine says more than
   the properties: a decision (open, dispatched, answered) for `Response`, and a
   verification (pending, one verdict) for `Verification`.

New theorems go into the proof modules that exist; the runs are kept few, one
for each question.
