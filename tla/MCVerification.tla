--------------------------- MODULE MCVerification ---------------------------
(* Three healthy samples and an unhealthy one; the last healthy sample is  *)
(* at the deadline of a verification started at 0.                         *)
EXTENDS Verification

MCSampleAt == <<0, 1, 1, 2>>

=============================================================================
