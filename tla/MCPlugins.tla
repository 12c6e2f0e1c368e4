----------------------------- MODULE MCPlugins -----------------------------
(* The plugins on small instances.                                         *)
EXTENDS Plugins, TLC

CONSTANTS t1, t2

(* What a socket sends when one thread runs, and when two do.              *)
TwoAlone == [a \in BOOLEAN |-> IF a THEN 2 ELSE 1]
OneEach == [a \in BOOLEAN |-> 1]

(* Pipelines of bodies that are streamed or not, and may hold HTTP.        *)
UpTo(n, S) == UNION {[1 .. k -> S] : k \in 0 .. n}
Body(n) == [j \in 1 .. n |-> "byte"]
Holding(n, p) == [Body(n) EXCEPT ![p] = "word"]
Bodies == {Body(n) : n \in 0 .. 4} \cup {Holding(2, 1), Holding(2, 2), Holding(4, 3)}
Pipelines == (UpTo(2, Bodies) \ {<<>>}) \cup [1 .. 3 -> {Body(0), Body(2), Body(3)}]

(* The two threads are alike.                                              *)
Symmetry == Permutations({t1, t2})
=============================================================================
