------------------------ MODULE MCTelemetryConsumer ------------------------
(* One batch of one node, which any number of messages may carry.          *)
EXTENDS TelemetryConsumer

CONSTANTS b1, n1, malformed, nilPayload

OneBatch == {b1}
MCNode == {n1}
MCNodeOf == [b \in Batch |-> n1]
MCSeqOf == [b \in Batch |-> 1]
MCKey == 1 .. MaxStream
=============================================================================
