------------------------------ MODULE MCServer ------------------------------
(* Two workers and a plugin thread; identifier 1 is the listener's.        *)
EXTENDS Server, TLC

CONSTANTS w1, w2, p

Symmetry == Permutations(Workers)
=============================================================================
