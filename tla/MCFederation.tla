---------------------------- MODULE MCFederation ------------------------------
(* A seed and one replica on a few nodes and events.                       *)
EXTENDS Federation, TLC

Symmetry == Permutations(Nodes) \cup Permutations(SigningKeys) \cup Permutations(Handlers)
=============================================================================
