------------------------ MODULE MCControlPlaneStore ------------------------
(* Two batches of one node, with sequence numbers 1 and 2, and two keys.   *)
EXTENDS ControlPlaneStore

CONSTANTS b1, b2, n1, junk

MCBatch == {b1, b2}
MCNode == {n1}
MCJunk == {junk}
MCNodeOf == [b \in MCBatch |-> n1]
MCSeqOf == [b \in MCBatch |-> IF b = b1 THEN 1 ELSE 2]
=============================================================================
