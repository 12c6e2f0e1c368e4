---------------------------- MODULE MCSocketQueue ----------------------------
(* A ring of four cells and the three identifiers it can hold at most.     *)
EXTENDS SocketQueue, TLC

CONSTANTS p1, p2, c1, c2, w1, w2

Symmetry == Permutations(Producers) \cup Permutations(Consumers)
              \cup Permutations(Pollers)
=============================================================================
