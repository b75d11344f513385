------------------------- MODULE MCModelActivation -------------------------
(* Two versions, the first with two artifacts of different checksums.      *)
EXTENDS ModelActivation

CONSTANTS m1, m1b, m2

MCVersion(m) == IF m \in {m1, m1b} THEN 1 ELSE 2

=============================================================================
