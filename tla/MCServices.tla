----------------------------- MODULE MCServices -----------------------------
(* The parts of the server on small instances.                             *)
EXTENDS Services, TLC

CONSTANTS s1, s2, s3, pathA, pathB

(* Structures of sockets are alike, and so are paths.                      *)
Symmetry == Permutations({s1, s2, s3}) \cup Permutations({pathA, pathB})

=============================================================================
