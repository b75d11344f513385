-------------------------- MODULE BatchDisposition --------------------------
(***************************************************************************)
(* What the control plane promises about one telemetry batch, whatever     *)
(* order deliveries, recoveries and operator actions take: a batch is      *)
(* open until it is ingested or set aside; a batch set aside becomes       *)
(* ingested by a replay or discarded by an operator; a discarded batch may *)
(* still arrive again; an ingested batch is ingested for good.             *)
(***************************************************************************)
CONSTANT Batch
VARIABLE disposition

Init == disposition = [b \in Batch |-> "open"]

Move(b, from, to) ==
  /\ disposition[b] \in from
  /\ disposition' = [disposition EXCEPT ![b] = to]

Ingest(b) == Move(b, {"open", "discarded"}, "ingested")
Quarantine(b) == Move(b, {"open", "discarded"}, "quarantined")
Replay(b) == Move(b, {"quarantined"}, "ingested")
Discard(b) == Move(b, {"quarantined"}, "discarded")

Next == \E b \in Batch : Ingest(b) \/ Quarantine(b) \/ Replay(b) \/ Discard(b)

Spec == Init /\ [][Next]_disposition
=============================================================================
