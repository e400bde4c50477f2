----------------------------- MODULE MCUpstream ------------------------------
(* Small instances of Upstream for TLC. *)
EXTENDS Upstream, TLC

CONSTANTS r1, r2

Symmetry == Permutations(Requests)

EvenWeights == [b \in Nodes |-> 1]
SkewedWeights == [b \in Nodes |-> IF b = 1 THEN 2 ELSE 1]
SameClient == [r \in Requests |-> 1]
TwoClients == [r \in Requests |-> IF r = r1 THEN 1 ELSE 2]
==============================================================================
