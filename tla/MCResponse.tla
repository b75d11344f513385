----------------------------- MODULE MCResponse -----------------------------
(* Two goroutines, a decision of each class, a crash and a lost write.     *)
EXTENDS Response, TLC

Callers == Permutations(Caller)

=============================================================================
