------------------------------ MODULE MCStorage ------------------------------
(* A small instance of Storage for TLC: two of three clients share an address. *)
EXTENDS Storage, TLC

CONSTANTS c1, c2, c3, here, there

MCIpOf == [c \in Clients |-> IF c = c3 THEN there ELSE here]

Mates == Permutations({c1, c2})
=============================================================================
