-------------------------- MODULE MCIncidentEngine --------------------------
(* Five signals: with a window of 3, neighbours are together, the first    *)
(* and the last are not, and the fourth is just within reach of the third. *)
EXTENDS IncidentEngine

MCDetectedAt == <<1, 2, 4, 7, 8>>

=============================================================================
