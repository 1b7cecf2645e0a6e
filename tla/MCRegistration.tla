--------------------------- MODULE MCRegistration ---------------------------
(***************************************************************************)
(* Instances of Registration: a node that two operators claim, with and    *)
(* without a manifest and a name, and that somebody moves.  In strict mode *)
(* an operator's node needs proof, and a node without one is probed.       *)
(***************************************************************************)
EXTENDS Registration, TLC

CONSTANTS n1, e1, e2, k1, k2, x, c

Ask(endpoint, cx, key, manifest, name) ==
  [node |-> n1, endpoint |-> endpoint, cx |-> cx, key |-> key, manifest |-> manifest, name |-> name]

MCAsks == {Ask(e1, None, k1, k1, x), Ask(e1, None, k2, None, x), Ask(e2, c, None, None, None)}
\* At most two requests are under way at once: two registrations only before the first
\* challenge, and a registration only before the second.
Busy(slots, all) == Cardinality({i \in all : slots[i] # Idle})
Bound == /\ Busy(reg, Handlers) + Busy(desk, Desks) <= 2
         /\ Busy(reg, Handlers) + issued <= 2
Symmetry == Permutations(Handlers) \cup Permutations(Desks)
=============================================================================
