----------------------------- MODULE MCSourceSync -----------------------------
(* An instance of SourceSync for TLC: consumers and callers are model values, *)
(* not interchangeable since liveness is checked, and anything may fail.      *)
EXTENDS SourceSync

MCFaultKinds == AllFaults
=============================================================================
