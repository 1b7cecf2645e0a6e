----------------------------- MODULE MCEventLog ------------------------------
(* The event log with three concurrent appends.                            *)
EXTENDS EventLog, TLC

Symmetry == Permutations(Calls) \cup Permutations(SigningKeys)
=============================================================================
