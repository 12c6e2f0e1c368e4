-------------------------- MODULE WorkQueue_proofs --------------------------
(***************************************************************************)
(* Proofs about WorkQueue, for every set of threads, items and nodes: the  *)
(* list is sound, and it implements the deque of WorkDeque.  They lean on  *)
(* one fact after the other: the path from the head exists and is unique;  *)
(* a step changes it in a known way; the last node stays the tail or the   *)
(* node about to become it.                                                *)
(***************************************************************************)
EXTENDS WorkQueue, FiniteSetTheorems, SequenceTheorems, WellFoundedInduction, TLAPS

-----------------------------------------------------------------------------
(* Paths: the recursive function has a value, and only one.                *)

IsPath(f, h, links) ==
  /\ f = [k \in Steps |-> f[k]]
  /\ f[0] = h
  /\ \A k \in Steps : k > 0 =>
       f[k] = IF f[k - 1] = None THEN None ELSE links[f[k - 1]]

LEMMA StepsType == /\ Cardinality(Nodes) \in Nat
                   /\ Steps = 0 .. Cardinality(Nodes)
  BY DummyAssumption, FS_CardinalityType DEF Steps

LEMMA LeastNat ==
  ASSUME NEW T \in SUBSET Nat, T # {}
  PROVE  \E n \in T : \A m \in T : n <= m
<1>1. PICK n \in T : \A m \in T : ~ (<<m, n>> \in OpToRel(<, Nat))
  BY WFMin, NatLessThanWellFounded
<1>2. \A m \in T : ~ (m < n)
  BY <1>1 DEF OpToRel
<1>3. QED
  BY <1>2

LEMMA PathFromIs ==
  ASSUME NEW h, NEW links
  PROVE  IsPath(PathFrom(h, links), h, links)
<1> DEFINE Body(f, S) == [k \in S |-> IF k = 0 THEN h
                            ELSE IF f[k - 1] = None THEN None ELSE links[f[k - 1]]]
           T == {n \in Nat : ~ \E f : f = Body(f, 0 .. n)}
<1>1. T = {}
  <2> SUFFICES ASSUME T # {} PROVE FALSE
    OBVIOUS
  <2>1. PICK n \in T : \A m \in T : n <= m
    BY LeastNat
  <2>2. n # 0
    <3>1. [k \in 0 .. 0 |-> h] = Body([k \in 0 .. 0 |-> h], 0 .. 0)
      OBVIOUS
    <3>2. QED
      BY <3>1
  <2>3. n - 1 \in Nat /\ n - 1 \notin T
    BY <2>1, <2>2
  <2>4. PICK f : f = Body(f, 0 .. n - 1)
    BY <2>3
  <2> DEFINE g == [k \in 0 .. n |-> IF k < n THEN f[k] ELSE
                     IF f[n - 1] = None THEN None ELSE links[f[n - 1]]]
  <2>5. ASSUME NEW k \in 0 .. n PROVE g[k] = Body(g, 0 .. n)[k]
    <3>1. CASE k = 0
      BY <3>1, <2>2, <2>4
    <3>2. CASE k > 0 /\ k < n
      <4>1. k \in 0 .. n - 1 /\ k - 1 \in 0 .. n
        BY <3>2, <2>3
      <4>2. g[k] = f[k] /\ g[k - 1] = f[k - 1]
        BY <4>1, <3>2
      <4>3. f[k] = IF f[k - 1] = None THEN None ELSE links[f[k - 1]]
        BY <2>4, <4>1, <3>2
      <4>4. QED
        BY <4>2, <4>3, <3>2
    <3>3. CASE k = n
      <4>1. g[n - 1] = f[n - 1]
        BY <2>3
      <4>2. QED
        BY <3>3, <4>1, <2>2
    <3>4. QED
      BY <3>1, <3>2, <3>3, <2>1
  <2>6. g = Body(g, 0 .. n)
    BY <2>5
  <2>7. QED
    BY <2>1, <2>6
<1>2. PICK f : f = Body(f, Steps)
  BY <1>1, StepsType
<1>3. PathFrom(h, links) = Body(PathFrom(h, links), Steps)
  BY <1>2 DEF PathFrom
<1>4. QED
  BY <1>3, StepsType DEF IsPath

LEMMA PathUnique ==
  ASSUME NEW f, NEW h, NEW links, IsPath(f, h, links)
  PROVE  f = PathFrom(h, links)
<1> DEFINE g == PathFrom(h, links)
           T == {k \in Steps : f[k] # g[k]}
<1> HIDE DEF g
<1>1. IsPath(g, h, links)
  BY PathFromIs DEF g
<1>2. T = {}
  <2> SUFFICES ASSUME T # {} PROVE FALSE
    OBVIOUS
  <2>a. T \in SUBSET Nat
    BY StepsType
  <2>1. PICK n \in T : \A m \in T : n <= m
    BY LeastNat, <2>a
  <2>2. n # 0
    BY <1>1 DEF IsPath
  <2>3. n - 1 \in Steps /\ n - 1 \notin T
    BY <2>1, <2>2, StepsType
  <2>4. f[n - 1] = g[n - 1]
    BY <2>3
  <2>5. n \in Steps /\ n > 0
    BY <2>2, StepsType
  <2>6. f[n] = g[n]
    BY <2>4, <2>5, <1>1 DEF IsPath
  <2>7. QED
    BY <2>6
<1>3. f = g
  BY <1>1, <1>2 DEF IsPath
<1>4. QED
  BY <1>3 DEF g

(* The nodes of a list leave room for the node that is not in it.          *)
LEMMA Room ==
  ASSUME NEW m \in Nat, NEW f, NEW n \in Nodes,
         \A k \in 0 .. m : f[k] \in Nodes \ {n},
         \A j, k \in 0 .. m : f[j] = f[k] => j = k
  PROVE  m + 2 \in Steps
<1> DEFINE g == [k \in 0 .. m + 1 |-> IF k <= m THEN f[k] ELSE n]
<1>1. g \in [0 .. m + 1 -> Nodes]
  OBVIOUS
<1>2. IsFiniteSet(0 .. m + 1) /\ Cardinality(0 .. m + 1) = m + 2
  BY FS_Interval
<1>3. \A j, k \in 0 .. m + 1 : g[j] = g[k] => j = k
  <2> SUFFICES ASSUME NEW j \in 0 .. m + 1, NEW k \in 0 .. m + 1, g[j] = g[k]
               PROVE  j = k
    OBVIOUS
  <2>1. CASE j <= m /\ k <= m
    BY <2>1
  <2>2. CASE j = m + 1 \/ k = m + 1
    BY <2>2
  <2>3. QED
    BY <2>1, <2>2
<1>4. ~ (Cardinality(Nodes) < m + 2)
  <2> SUFFICES ASSUME Cardinality(Nodes) < m + 2 PROVE FALSE
    OBVIOUS
  <2> HIDE DEF g
  <2>1. \E j, k \in 0 .. m + 1 : j # k /\ g[j] = g[k]
    BY <1>1, <1>2, FS_PigeonHole, DummyAssumption
  <2>2. QED
    BY <2>1, <1>3
<1>5. QED
  BY <1>4, StepsType

-----------------------------------------------------------------------------
(* What the invariant says of the list.                                    *)

LEMMA PathIs == IsPath(Path, head, next)
  BY PathFromIs DEF Path

LEMMA InChain == \A k \in Steps : Path[k] # None => Path[k] \in Chain
  BY DEF Chain

LEMMA LastFacts ==
  ASSUME TypeOK, NEW m \in Steps, m + 1 \in Steps, LastIs(m)
  PROVE  /\ m \in Nat /\ 0 .. m \subseteq Steps
         /\ \A k \in 0 .. m : Path[k] \in Chain /\ Path[k] \in allocated /\ Path[k] \in Nodes
         /\ \A k \in Steps : k > m => Path[k] = None
         /\ Path[0] = head
         /\ \A k \in 0 .. m : k + 1 \in Steps /\ Path[k + 1] = next[Path[k]]
         /\ next[Path[m]] = None
         /\ Chain = {Path[k] : k \in 0 .. m}
         /\ {k \in Steps : k > 0 /\ Path[k] # None} = 1 .. m
<1>1. m \in Nat /\ 0 .. m \subseteq Steps
  BY StepsType
<1>2. \A k \in 0 .. m : Path[k] \in allocated /\ Path[k] \in Nodes /\ Path[k] # None
  BY <1>1, DummyAssumption DEF LastIs, TypeOK
<1>3. \A k \in Steps : k > m => Path[k] = None
  BY <1>1, StepsType DEF LastIs
<1>4. Path[0] = head
  BY PathIs DEF IsPath
<1>5. \A k \in 0 .. m : k + 1 \in Steps /\ Path[k + 1] = next[Path[k]]
  <2> SUFFICES ASSUME NEW k \in 0 .. m
               PROVE  k + 1 \in Steps /\ Path[k + 1] = next[Path[k]]
    OBVIOUS
  <2>1. k + 1 \in Steps /\ k + 1 > 0 /\ (k + 1) - 1 = k
    BY <1>1, StepsType
  <2>2. Path[k + 1] = IF Path[(k + 1) - 1] = None THEN None ELSE next[Path[(k + 1) - 1]]
    BY <2>1, PathIs DEF IsPath
  <2>3. QED
    BY <2>1, <2>2, <1>2
<1>6. next[Path[m]] = None
  BY <1>1, <1>3, <1>5
<1>7. Chain = {Path[k] : k \in 0 .. m}
  <2>1. ASSUME NEW k \in Steps, Path[k] # None PROVE k \in 0 .. m
    BY <2>1, <1>3, <1>1, StepsType
  <2>2. QED
    BY <2>1, <1>1, <1>2 DEF Chain
<1>8. {k \in Steps : k > 0 /\ Path[k] # None} = 1 .. m
  <2>1. ASSUME NEW k \in Steps, k > 0, Path[k] # None PROVE k \in 1 .. m
    BY <2>1, <1>3, <1>1, StepsType
  <2>2. ASSUME NEW k \in 1 .. m PROVE k \in Steps /\ k > 0 /\ Path[k] # None
    BY <2>2, <1>1, <1>2
  <2>3. QED
    BY <2>1, <2>2
<1>9. QED
  BY <1>1, <1>2, <1>3, <1>4, <1>5, <1>6, <1>7, <1>8, InChain

LEMMA ContentsIs ==
  ASSUME TypeOK, NEW m \in Steps, m + 1 \in Steps, LastIs(m)
  PROVE  Contents = [k \in 1 .. m |-> data[Path[k]]]
  BY LastFacts DEF Contents

(* A step that leaves the links of the list alone leaves the path alone.   *)
LEMMA PathSame ==
  ASSUME head' = head, \A n \in Chain : next'[n] = next[n]
  PROVE  Path' = Path /\ Chain' = Chain
<1>1. IsPath(Path, head', next')
  <2>1. ASSUME NEW k \in Steps, k > 0
        PROVE Path[k] = IF Path[k - 1] = None THEN None ELSE next'[Path[k - 1]]
    <3>1. k - 1 \in Steps
      BY <2>1, StepsType
    <3>2. Path[k] = IF Path[k - 1] = None THEN None ELSE next[Path[k - 1]]
      BY <2>1, PathIs DEF IsPath
    <3>3. QED
      BY <3>1, <3>2, InChain
  <2>2. QED
    BY <2>1, PathIs DEF IsPath
<1>2. Path = PathFrom(head', next')
  BY <1>1, PathUnique
<1>3. Path' = Path
  BY <1>2 DEF Path
<1>4. QED
  BY <1>3 DEF Chain

(* queue_add's first link puts its node after the last one.                *)
LEMMA AddLinkPath ==
  ASSUME IInv, NEW t \in Threads, AddLink(t), NEW m \in Steps, m + 1 \in Steps, LastIs(m)
  PROVE  /\ tail = Path[m]
         /\ m + 2 \in Steps
         /\ Path' = [k \in Steps |-> IF k <= m THEN Path[k]
                                     ELSE IF k = m + 1 THEN node[t] ELSE None]
         /\ Chain' = Chain \cup {node[t]}
<1> USE DEF IInv
<1> DEFINE f == [k \in Steps |-> IF k <= m THEN Path[k]
                                 ELSE IF k = m + 1 THEN node[t] ELSE None]
<1>1. tail = Path[m]
  BY DEF AddLink, ThreadInv, LastIs
<1>2. node[t] \in Nodes /\ node[t] \in allocated \ Chain /\ next[node[t]] = None
  BY DummyAssumption DEF AddLink, ThreadInv, Carrying, TypeOK
<1>3. m + 2 \in Steps
  <2>1. \A k \in 0 .. m : Path[k] \in Nodes \ {node[t]}
    BY <1>2, LastFacts
  <2>2. \A j, k \in 0 .. m : Path[j] = Path[k] => j = k
    BY DEF LastIs
  <2>3. m \in Nat
    BY LastFacts
  <2>4. QED
    BY <2>1, <2>2, <2>3, <1>2, Room
<1>4. next' = [next EXCEPT ![tail] = node[t]] /\ head' = head
  BY DEF AddLink
<1>5. tail \in Nodes /\ tail # node[t] /\ next \in [Nodes -> Nodes \cup {None}]
  BY <1>1, <1>2, LastFacts DEF TypeOK
<1>6. ASSUME NEW k \in Steps, k > 0
      PROVE f[k] = IF f[k - 1] = None THEN None ELSE next'[f[k - 1]]
  <2>1. CASE k <= m
    <3>1. k - 1 \in 0 .. m /\ k \in 0 .. m /\ k - 1 \in Steps
      BY <2>1, <1>6, StepsType
    <3>2. f[k] = Path[k] /\ f[k - 1] = Path[k - 1]
      BY <3>1, <2>1
    <3>3. Path[k] = next[Path[k - 1]] /\ Path[k - 1] \in Nodes
      <4>1. (k - 1) + 1 = k
        BY StepsType
      <4>2. QED
        BY <4>1, <3>1, LastFacts
    <3>4. Path[k - 1] # tail
      BY <1>1, <3>1, <2>1, StepsType DEF LastIs
    <3>5. QED
      BY <3>2, <3>3, <3>4, <1>4, <1>5, DummyAssumption
  <2>2. CASE k = m + 1
    BY <2>2, <1>1, <1>4, <1>5, DummyAssumption, LastFacts
  <2>3. CASE k = m + 2
    <3>1. k - 1 = m + 1 /\ m \in Nat
      BY <2>3, LastFacts
    <3>2. f[k - 1] = node[t] /\ f[k] = None
      BY <3>1, <2>3
    <3>3. QED
      BY <3>2, <1>2, <1>4, <1>5
  <2>4. CASE k > m + 2
    <3>1. k - 1 \in Steps /\ m \in Nat /\ k \in Nat
      BY <1>6, StepsType
    <3>2. f[k - 1] = None /\ f[k] = None
      BY <3>1, <2>4
    <3>3. QED
      BY <3>2
  <2>5. QED
    BY <2>1, <2>2, <2>3, <2>4, StepsType
<1>7. f[0] = head
  BY LastFacts, StepsType
<1>8. IsPath(f, head', next')
  BY <1>4, <1>6, <1>7 DEF IsPath
<1>9. f = PathFrom(head', next')
  BY <1>8, PathUnique
<1>10. Path' = f
  BY <1>9 DEF Path
<1> HIDE DEF f
<1>11. Chain' = Chain \cup {node[t]}
  <2>1. Chain' = {f[k] : k \in Steps} \ {None}
    BY <1>10 DEF Chain
  <2>2. \A k \in 0 .. m : k \in Steps /\ f[k] = Path[k] /\ f[k] # None
    BY LastFacts, DummyAssumption DEF f
  <2>3. f[m + 1] = node[t] /\ node[t] # None
    BY <1>2, DummyAssumption, LastFacts DEF f
  <2>4. \A k \in Steps : k \in 0 .. m \/ k = m + 1 \/ f[k] = None
    BY StepsType DEF f
  <2>5. Chain = {Path[k] : k \in 0 .. m}
    BY LastFacts
  <2>6. QED
    BY <2>1, <2>2, <2>3, <2>4, <2>5
<1>12. QED
  BY <1>1, <1>3, <1>10, <1>11 DEF f

(* queue_push puts its node before the first one.                          *)
LEMMA PushLinkPath ==
  ASSUME IInv, NEW t \in Threads, PushLink(t), NEW m \in Steps, m + 1 \in Steps, LastIs(m)
  PROVE  /\ m + 2 \in Steps
         /\ Path' = [k \in Steps |-> IF k = 0 THEN node[t] ELSE Path[k - 1]]
         /\ Chain' = Chain \cup {node[t]}
<1> USE DEF IInv
<1> DEFINE f == [k \in Steps |-> IF k = 0 THEN node[t] ELSE Path[k - 1]]
<1>2. node[t] \in Nodes /\ node[t] \in allocated \ Chain /\ node[t] # None
  BY DummyAssumption DEF PushLink, ThreadInv, Carrying, TypeOK
<1>3. m + 2 \in Steps
  <2>1. \A k \in 0 .. m : Path[k] \in Nodes \ {node[t]}
    BY <1>2, LastFacts
  <2>2. \A j, k \in 0 .. m : Path[j] = Path[k] => j = k
    BY DEF LastIs
  <2>3. m \in Nat
    BY LastFacts
  <2>4. QED
    BY <2>1, <2>2, <2>3, <1>2, Room
<1>4. next' = [next EXCEPT ![node[t]] = head] /\ head' = node[t]
  BY DEF PushLink
<1>5. next \in [Nodes -> Nodes \cup {None}]
  BY DEF TypeOK
<1>6. ASSUME NEW k \in Steps, k > 0
      PROVE f[k] = IF f[k - 1] = None THEN None ELSE next'[f[k - 1]]
  <2>1. CASE k = 1
    <3>1. f[k] = head /\ f[k - 1] = node[t]
      BY <2>1, LastFacts, StepsType
    <3>2. QED
      BY <3>1, <1>2, <1>4, <1>5
  <2>2. CASE k > 1
    <3>1. k - 1 \in Steps /\ k - 1 > 0 /\ (k - 1) - 1 \in Steps
      BY <2>2, StepsType
    <3>2. f[k] = Path[k - 1] /\ f[k - 1] = Path[(k - 1) - 1]
      BY <3>1, <2>2
    <3>3. Path[k - 1] = IF Path[(k - 1) - 1] = None THEN None ELSE next[Path[(k - 1) - 1]]
      BY <3>1, PathIs DEF IsPath
    <3>4. Path[(k - 1) - 1] # node[t]
      BY <3>1, <1>2, InChain
    <3>5. next'[Path[(k - 1) - 1]] = next[Path[(k - 1) - 1]] \/ Path[(k - 1) - 1] = None
      <4>1. Path[(k - 1) - 1] \in Nodes \cup {None}
        BY <3>1, LastFacts DEF LastIs, TypeOK
      <4>2. QED
        BY <4>1, <3>4, <1>4, <1>5
    <3>6. QED
      BY <3>2, <3>3, <3>5
  <2>3. QED
    BY <2>1, <2>2, <1>6, StepsType
<1>7. f[0] = head'
  BY <1>4, StepsType
<1>8. IsPath(f, head', next')
  BY <1>6, <1>7 DEF IsPath
<1>9. f = PathFrom(head', next')
  BY <1>8, PathUnique
<1>10. Path' = f
  BY <1>9 DEF Path
<1> HIDE DEF f
<1>11. Chain' = Chain \cup {node[t]}
  <2>1. Chain' = {f[k] : k \in Steps} \ {None}
    BY <1>10 DEF Chain
  <2>2. \A k \in 0 .. m : k + 1 \in Steps /\ f[k + 1] = Path[k] /\ f[k + 1] # None
    <3>1. \A k \in 0 .. m : k + 1 \in Steps /\ (k + 1) - 1 = k /\ k + 1 # 0
      BY StepsType
    <3>2. QED
      BY <3>1, LastFacts, DummyAssumption DEF f
  <2>3. f[0] = node[t] /\ 0 \in Steps
    BY StepsType DEF f
  <2>4. \A k \in Steps : k = 0 \/ f[k] = None \/ \E j \in 0 .. m : f[k] = Path[j]
    <3> SUFFICES ASSUME NEW k \in Steps, k # 0
                 PROVE  f[k] = None \/ \E j \in 0 .. m : f[k] = Path[j]
      OBVIOUS
    <3>1. k - 1 \in Steps /\ f[k] = Path[k - 1]
      BY StepsType DEF f
    <3>2. k - 1 \in 0 .. m \/ k - 1 > m
      BY StepsType
    <3>3. QED
      BY <3>1, <3>2, LastFacts
  <2>5. Chain = {Path[k] : k \in 0 .. m}
    BY LastFacts
  <2>6. QED
    BY <2>1, <2>2, <2>3, <2>4, <2>5, <1>2
<1>12. QED
  BY <1>3, <1>10, <1>11 DEF f

(* queue_get takes the first node off.                                     *)
LEMMA GetPopPath ==
  ASSUME IInv, NEW t \in Threads, GetPop(t), NEW m \in Steps, m + 1 \in Steps, LastIs(m)
  PROVE  /\ m > 0
         /\ Path' = [k \in Steps |-> IF k <= m THEN Path[k + 1] ELSE None]
         /\ Chain' = Chain \ {head}
<1> USE DEF IInv
<1> DEFINE f == [k \in Steps |-> IF k <= m THEN Path[k + 1] ELSE None]
<1>1. m > 0
  BY LastFacts DEF GetPop
<1>2. head' = Path[1] /\ next' = [next EXCEPT ![head] = None] /\ head = Path[0]
  BY LastFacts DEF GetPop
<1>3. next \in [Nodes -> Nodes \cup {None}]
  BY DEF TypeOK
<1>4. \A k \in 1 .. m : next'[Path[k]] = next[Path[k]]
  <2>1. \A k \in 1 .. m : Path[k] # head /\ Path[k] \in Nodes
    <3>1. \A k \in 1 .. m : Path[k] # Path[0]
      BY StepsType DEF LastIs
    <3>2. QED
      BY <3>1, <1>2, LastFacts
  <2>2. QED
    BY <2>1, <1>2, <1>3
<1>6. ASSUME NEW k \in Steps, k > 0
      PROVE f[k] = IF f[k - 1] = None THEN None ELSE next'[f[k - 1]]
  <2>1. CASE k < m
    <3>1. k \in 1 .. m /\ k - 1 \in Steps /\ k - 1 <= m /\ (k - 1) + 1 = k /\ k <= m
      BY <2>1, <1>6, StepsType
    <3>2. f[k] = Path[k + 1] /\ f[k - 1] = Path[k]
      BY <3>1
    <3>3. Path[k + 1] = next[Path[k]] /\ Path[k] # None
      BY <3>1, LastFacts, DummyAssumption
    <3>4. QED
      BY <3>1, <3>2, <3>3, <1>4
  <2>2. CASE k = m
    <3>1. k \in 1 .. m /\ k - 1 \in Steps /\ k - 1 <= m /\ (k - 1) + 1 = k /\ k <= m
      BY <2>2, <1>6, StepsType
    <3>2. f[k] = Path[m + 1] /\ f[k - 1] = Path[m]
      BY <3>1, <2>2
    <3>3. Path[m + 1] = next[Path[m]]
      BY LastFacts, StepsType
    <3>4. QED
      BY <3>1, <3>2, <3>3, <1>4, <2>2, DummyAssumption, LastFacts
  <2>3. CASE k > m
    <3>1. k - 1 \in Steps /\ k - 1 >= m /\ ~ (k <= m)
      BY <2>3, <1>6, StepsType
    <3>2. f[k] = None
      BY <3>1
    <3>3. f[k - 1] = None
      <4>1. CASE k - 1 = m
        BY <4>1, <3>1, LastFacts
      <4>2. CASE k - 1 > m
        BY <4>2, <3>1, StepsType
      <4>3. QED
        BY <4>1, <4>2, <3>1, StepsType
    <3>4. QED
      BY <3>2, <3>3
  <2>4. QED
    BY <2>1, <2>2, <2>3, StepsType
<1>7. f[0] = head'
  BY <1>2, LastFacts, StepsType
<1>8. IsPath(f, head', next')
  BY <1>6, <1>7 DEF IsPath
<1>9. f = PathFrom(head', next')
  BY <1>8, PathUnique
<1>10. Path' = f
  BY <1>9 DEF Path
<1> HIDE DEF f
<1>11. Chain' = Chain \ {head}
  <2>1. Chain' = {f[k] : k \in Steps} \ {None}
    BY <1>10 DEF Chain
  <2>2. \A k \in 1 .. m : k - 1 \in Steps /\ f[k - 1] = Path[k] /\ f[k - 1] # None
    <3>1. \A k \in 1 .. m : k - 1 \in Steps /\ k - 1 <= m /\ (k - 1) + 1 = k
      BY StepsType
    <3>2. QED
      BY <3>1, LastFacts, DummyAssumption DEF f
  <2>3. \A k \in Steps : f[k] = None \/ \E j \in 1 .. m : f[k] = Path[j]
    <3> SUFFICES ASSUME NEW k \in Steps, f[k] # None
                 PROVE  \E j \in 1 .. m : f[k] = Path[j]
      OBVIOUS
    <3>1. k <= m /\ f[k] = Path[k + 1]
      BY DEF f
    <3>2. k + 1 \in Steps
      BY <3>1, StepsType
    <3>3. ~ (k + 1 > m)
      BY <3>1, <3>2, LastFacts
    <3>4. k + 1 \in 1 .. m
      BY <3>3, StepsType
    <3>5. QED
      BY <3>1, <3>4
  <2>4. Chain = {Path[k] : k \in 0 .. m} /\ head = Path[0]
    BY LastFacts
  <2>5. \A k \in 1 .. m : Path[k] # Path[0]
    BY StepsType DEF LastIs
  <2>6. \A k \in 0 .. m : k = 0 \/ k \in 1 .. m
    BY StepsType
  <2>7. Chain \ {head} = {Path[k] : k \in 1 .. m}
    BY <2>4, <2>5, <2>6
  <2>8. {f[k] : k \in Steps} \ {None} = {Path[k] : k \in 1 .. m}
    BY <2>2, <2>3
  <2>9. QED
    BY <2>1, <2>7, <2>8
<1>12. QED
  BY <1>1, <1>10, <1>11 DEF f

-----------------------------------------------------------------------------
(* The invariant is kept, one lemma per kind of step.                      *)

LEMMA Signals ==
  ASSUME TypeOK, NEW t \in Threads, NEW label \in Labels,
         SignalAndGoto(t, label), pc[t] # "asleep"
  PROVE  /\ pc' \in [Threads -> Labels]
         /\ pc'[t] = label
         /\ \A u \in Threads \ {t} :
              pc'[u] = pc[u] \/ (pc[u] = "asleep" /\ pc'[u] = "woken")
  BY DEF SignalAndGoto, Goto, TypeOK, Labels

LEMMA AddAllocStep ==
  ASSUME IInv, NEW t \in Threads, NEW x \in Items, AddAlloc(t, x)
  PROVE  IInv'
<1> USE DEF IInv
<1>1. PICK n \in Nodes \ allocated :
        /\ allocated' = allocated \cup {n}
        /\ node' = [node EXCEPT ![t] = n]
        /\ data' = [data EXCEPT ![n] = x]
        /\ next' = [next EXCEPT ![n] = None]
  BY DEF AddAlloc, Malloc
<1>2. /\ pc[t] = "idle" /\ x \in held /\ held' = held \ {x}
      /\ arg' = [arg EXCEPT ![t] = x] /\ pc' = [pc EXCEPT ![t] = "add"]
      /\ UNCHANGED <<head, tail, tailLock, ret>>
  BY DEF AddAlloc, Goto
<1>3. PICK m \in Steps : m + 1 \in Steps /\ LastIs(m)
  BY DEF ListInv
<1>4. n \notin Chain /\ Chain \subseteq allocated
  BY <1>1, <1>3, LastFacts
<1>5. Path' = Path /\ Chain' = Chain
  <2>1. \A k \in Chain : next'[k] = next[k]
    BY <1>1, <1>3, <1>4, LastFacts DEF TypeOK
  <2>2. QED
    BY <2>1, <1>2, PathSame
<1>6. TypeOK'
  BY <1>1, <1>2 DEF TypeOK, Labels
<1>7. ~ Carrying(t) /\ Carrying(t)' /\ \A u \in Threads \ {t} : Carrying(u)' <=> Carrying(u)
  BY <1>2 DEF Carrying, TypeOK
<1>8. \A u \in Threads \ {t} : node'[u] = node[u] /\ arg'[u] = arg[u] /\ pc'[u] = pc[u]
  BY <1>1, <1>2 DEF TypeOK
<1>9. node'[t] = n /\ arg'[t] = x /\ pc'[t] = "add" /\ x # None /\ data'[n] = x /\ next'[n] = None
  BY <1>1, <1>2, NoneAssumption DEF TypeOK
<1>10. \A k \in Nodes \ {n} : data'[k] = data[k] /\ next'[k] = next[k]
  BY <1>1 DEF TypeOK
<1>11. \A k \in Steps : Path[k] # None => data'[Path[k]] = data[Path[k]]
  BY <1>4, <1>10, InChain, <1>3 DEF LastIs, TypeOK
<1>12. \A u \in Threads : Carrying(u) => node[u] # n /\ node[u] \in Nodes
  BY <1>1 DEF ThreadInv, TypeOK
<1>13. Owned'
  BY <1>1, <1>5, <1>7, <1>8, <1>9 DEF Owned
<1>14. ThreadInv'
  <2>1. ASSUME NEW u \in Threads \ {t}
        PROVE  /\ Carrying(u)' => node'[u] \in allocated' \ Chain' /\ arg'[u] # None
               /\ pc'[u] \in {"add", "add_link"} => next'[node'[u]] = None /\ data'[node'[u]] = arg'[u]
               /\ ~ Carrying(u)' => arg'[u] = None
               /\ pc'[u] = "add_swing" => node'[u] \in Nodes
               /\ tailLock' = u <=> pc'[u] \in {"add_link", "add_swing", "wait_check", "wait_sleep"}
    BY <1>1, <1>2, <1>5, <1>7, <1>8, <1>10, <1>12 DEF ThreadInv, Carrying
  <2>2. /\ Carrying(t)' => node'[t] \in allocated' \ Chain' /\ arg'[t] # None
        /\ pc'[t] \in {"add", "add_link"} => next'[node'[t]] = None /\ data'[node'[t]] = arg'[t]
        /\ ~ Carrying(t)' => arg'[t] = None
        /\ pc'[t] = "add_swing" => node'[t] \in Nodes
        /\ tailLock' = t <=> pc'[t] \in {"add_link", "add_swing", "wait_check", "wait_sleep"}
    BY <1>1, <1>2, <1>4, <1>5, <1>7, <1>9 DEF ThreadInv
  <2>3. QED
    BY <2>1, <2>2 DEF ThreadInv
<1>15. Apart'
  <2>1. \A u \in Threads : Carrying(u) => arg[u] # x
    BY <1>2 DEF ItemInv
  <2>2. QED
    BY <2>1, <1>7, <1>8, <1>9, <1>12 DEF Apart
<1>16. ListInv'
  <2>1. LastIs(m)'
    <3>1. \A k \in Steps : Path'[k] \in IF k <= m THEN allocated' ELSE {None}
      BY <1>1, <1>3, <1>5 DEF LastIs
    <3>2. \A j, k \in 0 .. m : Path'[j] = Path'[k] => j = k
      BY <1>3, <1>5 DEF LastIs
    <3>3. \A j, k \in 1 .. m : data'[Path'[j]] = data'[Path'[k]] => j = k
      <4>1. \A k \in 1 .. m : k \in Steps /\ Path[k] # None
        BY <1>3, LastFacts, DummyAssumption
      <4>2. QED
        BY <4>1, <1>3, <1>5, <1>11 DEF LastIs
    <3>4. \A u \in Threads : pc'[u] = "add_swing" => node'[u] = Path'[m]
      BY <1>3, <1>5, <1>8, <1>9 DEF LastIs
    <3>5. (\A u \in Threads : pc'[u] # "add_swing") => tail' = Path'[m]
      BY <1>2, <1>3, <1>5, <1>8 DEF LastIs
    <3>6. QED
      BY <3>1, <3>2, <3>3, <3>4, <3>5 DEF LastIs
  <2>2. QED
    BY <1>3, <2>1 DEF ListInv
<1>17. ItemInv'
  <2>1. \A u \in Threads : arg'[u] \notin held'
    BY <1>2, <1>8, <1>9 DEF ItemInv
  <2>2. \A k \in Steps : k > 0 /\ Path'[k] # None =>
          /\ data'[Path'[k]] \in Items \ held'
          /\ \A u \in Threads : data'[Path'[k]] # arg'[u]
    BY <1>2, <1>5, <1>8, <1>9, <1>11 DEF ItemInv
  <2>3. QED
    BY <2>1, <2>2 DEF ItemInv
<1>18. QED
  BY <1>6, <1>13, <1>14, <1>15, <1>16, <1>17

LEMMA PushAllocStep ==
  ASSUME IInv, NEW t \in Threads, NEW x \in Items, PushAlloc(t, x)
  PROVE  IInv'
<1> USE DEF IInv
<1>1. PICK n \in Nodes \ allocated :
        /\ allocated' = allocated \cup {n}
        /\ node' = [node EXCEPT ![t] = n]
        /\ data' = [data EXCEPT ![n] = None]
  BY DEF PushAlloc, Malloc
<1>2. /\ pc[t] = "idle" /\ x \in held /\ held' = held \ {x}
      /\ arg' = [arg EXCEPT ![t] = x] /\ pc' = [pc EXCEPT ![t] = "push"]
      /\ UNCHANGED <<next, head, tail, tailLock, ret>>
  BY DEF PushAlloc, Goto
<1>3. PICK m \in Steps : m + 1 \in Steps /\ LastIs(m)
  BY DEF ListInv
<1>4. n \notin Chain /\ Chain \subseteq allocated
  BY <1>1, <1>3, LastFacts
<1>5. Path' = Path /\ Chain' = Chain
  BY <1>2, PathSame
<1>6. TypeOK'
  BY <1>1, <1>2 DEF TypeOK, Labels
<1>7. ~ Carrying(t) /\ Carrying(t)' /\ \A u \in Threads \ {t} : Carrying(u)' <=> Carrying(u)
  BY <1>2 DEF Carrying, TypeOK
<1>8. \A u \in Threads \ {t} : node'[u] = node[u] /\ arg'[u] = arg[u] /\ pc'[u] = pc[u]
  BY <1>1, <1>2 DEF TypeOK
<1>9. node'[t] = n /\ arg'[t] = x /\ pc'[t] = "push" /\ x # None
  BY <1>1, <1>2, NoneAssumption DEF TypeOK
<1>10. \A k \in Nodes \ {n} : data'[k] = data[k]
  BY <1>1 DEF TypeOK
<1>11. \A k \in Steps : Path[k] # None => data'[Path[k]] = data[Path[k]]
  BY <1>4, <1>10, InChain, <1>3 DEF LastIs, TypeOK
<1>12. \A u \in Threads : Carrying(u) => node[u] # n /\ node[u] \in Nodes
  BY <1>1 DEF ThreadInv, TypeOK
<1>13. Owned'
  BY <1>1, <1>5, <1>7, <1>8, <1>9 DEF Owned
<1>14. ThreadInv'
  <2>1. ASSUME NEW u \in Threads \ {t}
        PROVE  /\ Carrying(u)' => node'[u] \in allocated' \ Chain' /\ arg'[u] # None
               /\ pc'[u] \in {"add", "add_link"} => next'[node'[u]] = None /\ data'[node'[u]] = arg'[u]
               /\ ~ Carrying(u)' => arg'[u] = None
               /\ pc'[u] = "add_swing" => node'[u] \in Nodes
               /\ tailLock' = u <=> pc'[u] \in {"add_link", "add_swing", "wait_check", "wait_sleep"}
    BY <1>1, <1>2, <1>5, <1>7, <1>8, <1>10, <1>12 DEF ThreadInv, Carrying
  <2>2. /\ Carrying(t)' => node'[t] \in allocated' \ Chain' /\ arg'[t] # None
        /\ pc'[t] \in {"add", "add_link"} => next'[node'[t]] = None /\ data'[node'[t]] = arg'[t]
        /\ ~ Carrying(t)' => arg'[t] = None
        /\ pc'[t] = "add_swing" => node'[t] \in Nodes
        /\ tailLock' = t <=> pc'[t] \in {"add_link", "add_swing", "wait_check", "wait_sleep"}
    BY <1>1, <1>2, <1>4, <1>5, <1>7, <1>9 DEF ThreadInv
  <2>3. QED
    BY <2>1, <2>2 DEF ThreadInv
<1>15. Apart'
  <2>1. \A u \in Threads : Carrying(u) => arg[u] # x
    BY <1>2 DEF ItemInv
  <2>2. QED
    BY <2>1, <1>7, <1>8, <1>9, <1>12 DEF Apart
<1>16. ListInv'
  <2>1. LastIs(m)'
    <3>1. \A k \in Steps : Path'[k] \in IF k <= m THEN allocated' ELSE {None}
      BY <1>1, <1>3, <1>5 DEF LastIs
    <3>2. \A j, k \in 0 .. m : Path'[j] = Path'[k] => j = k
      BY <1>3, <1>5 DEF LastIs
    <3>3. \A j, k \in 1 .. m : data'[Path'[j]] = data'[Path'[k]] => j = k
      <4>1. \A k \in 1 .. m : k \in Steps /\ Path[k] # None
        BY <1>3, LastFacts, DummyAssumption
      <4>2. QED
        BY <4>1, <1>3, <1>5, <1>11 DEF LastIs
    <3>4. \A u \in Threads : pc'[u] = "add_swing" => node'[u] = Path'[m]
      BY <1>3, <1>5, <1>8, <1>9 DEF LastIs
    <3>5. (\A u \in Threads : pc'[u] # "add_swing") => tail' = Path'[m]
      BY <1>2, <1>3, <1>5, <1>8 DEF LastIs
    <3>6. QED
      BY <3>1, <3>2, <3>3, <3>4, <3>5 DEF LastIs
  <2>2. QED
    BY <1>3, <2>1 DEF ListInv
<1>17. ItemInv'
  <2>1. \A u \in Threads : arg'[u] \notin held'
    BY <1>2, <1>8, <1>9 DEF ItemInv
  <2>2. \A k \in Steps : k > 0 /\ Path'[k] # None =>
          /\ data'[Path'[k]] \in Items \ held'
          /\ \A u \in Threads : data'[Path'[k]] # arg'[u]
    BY <1>2, <1>5, <1>8, <1>9, <1>11 DEF ItemInv
  <2>3. QED
    BY <2>1, <2>2 DEF ItemInv
<1>18. QED
  BY <1>6, <1>13, <1>14, <1>15, <1>16, <1>17

LEMMA AddLinkStep ==
  ASSUME IInv, NEW t \in Threads, AddLink(t)
  PROVE  IInv'
<1> USE DEF IInv
<1>1. PICK m \in Steps : m + 1 \in Steps /\ LastIs(m)
  BY DEF ListInv
<1>2. /\ tail = Path[m] /\ m + 2 \in Steps
      /\ Path' = [k \in Steps |-> IF k <= m THEN Path[k] ELSE IF k = m + 1 THEN node[t] ELSE None]
      /\ Chain' = Chain \cup {node[t]}
  BY <1>1, AddLinkPath
<1>3. /\ pc[t] = "add_link" /\ next' = [next EXCEPT ![tail] = node[t]]
      /\ arg' = [arg EXCEPT ![t] = None] /\ pc' = [pc EXCEPT ![t] = "add_swing"]
      /\ UNCHANGED <<data, allocated, head, tail, tailLock, node, held, ret>>
  BY DEF AddLink, Goto
<1>4. /\ Carrying(t) /\ ~ Carrying(t)' /\ \A u \in Threads \ {t} : Carrying(u)' <=> Carrying(u)
  BY <1>3 DEF Carrying, TypeOK
<1>5. \A u \in Threads \ {t} : arg'[u] = arg[u] /\ pc'[u] = pc[u]
  BY <1>3 DEF TypeOK
<1>6. arg'[t] = None /\ pc'[t] = "add_swing"
  BY <1>3 DEF TypeOK
<1>7. /\ node[t] \in allocated \ Chain /\ node[t] \in Nodes /\ node[t] # None
      /\ next[node[t]] = None /\ data[node[t]] = arg[t] /\ arg[t] # None /\ arg[t] \in Items
  BY <1>3, <1>4, DummyAssumption DEF ThreadInv, TypeOK
<1>8. tail \in Chain /\ tail \in Nodes /\ m \in Nat
  BY <1>1, <1>2, LastFacts
<1>9. \A k \in Nodes \ {tail} : next'[k] = next[k]
  BY <1>3 DEF TypeOK
<1>10. TypeOK'
  BY <1>3, <1>7 DEF TypeOK, Labels
<1>11. Owned'
  BY <1>2, <1>3, <1>4, <1>7 DEF Owned
<1>12. \A u \in Threads \ {t} : pc[u] # "add_link" /\ pc[u] # "add_swing"
  BY <1>3 DEF ThreadInv
<1>13. ThreadInv'
  <2>1. ASSUME NEW u \in Threads \ {t}
        PROVE  /\ Carrying(u)' => node'[u] \in allocated' \ Chain' /\ arg'[u] # None
               /\ pc'[u] \in {"add", "add_link"} => next'[node'[u]] = None /\ data'[node'[u]] = arg'[u]
               /\ ~ Carrying(u)' => arg'[u] = None
               /\ pc'[u] = "add_swing" => node'[u] \in Nodes
               /\ tailLock' = u <=> pc'[u] \in {"add_link", "add_swing", "wait_check", "wait_sleep"}
    <3>1. Carrying(u) => node[u] # node[t] /\ node[u] \in allocated \ Chain /\ node[u] \in Nodes
      BY <1>4 DEF Apart, ThreadInv, TypeOK
    <3>2. Carrying(u) => next'[node[u]] = next[node[u]]
      BY <3>1, <1>8, <1>9
    <3>3. pc[u] \in {"add", "add_link"} => Carrying(u)
      BY DEF Carrying
    <3>4. QED
      BY <3>1, <3>2, <3>3, <1>2, <1>3, <1>4, <1>5 DEF ThreadInv
  <2>2. /\ Carrying(t)' => node'[t] \in allocated' \ Chain' /\ arg'[t] # None
        /\ pc'[t] \in {"add", "add_link"} => next'[node'[t]] = None /\ data'[node'[t]] = arg'[t]
        /\ ~ Carrying(t)' => arg'[t] = None
        /\ pc'[t] = "add_swing" => node'[t] \in Nodes
        /\ tailLock' = t <=> pc'[t] \in {"add_link", "add_swing", "wait_check", "wait_sleep"}
    BY <1>3, <1>4, <1>6, <1>7 DEF ThreadInv
  <2>3. QED
    BY <2>1, <2>2 DEF ThreadInv
<1>14. Apart'
  BY <1>3, <1>4, <1>5 DEF Apart
<1>15. \A k \in 0 .. m : k \in Steps /\ Path'[k] = Path[k]
  BY <1>2, <1>8, StepsType
<1>16. Path'[m + 1] = node[t] /\ m + 1 \in Steps
  BY <1>1, <1>2, <1>8
<1>17. \A k \in Steps : k \in 0 .. m \/ k = m + 1 \/ (k > m + 1 /\ Path'[k] = None)
  BY <1>2, <1>8, StepsType
<1>18. ListInv'
  <2>1. LastIs(m + 1)'
    <3>1. \A k \in Steps : Path'[k] \in IF k <= m + 1 THEN allocated' ELSE {None}
      <4>1. \A k \in 0 .. m : Path[k] \in allocated
        BY <1>1, LastFacts
      <4>2. QED
        BY <4>1, <1>3, <1>7, <1>8, <1>15, <1>16, <1>17, StepsType
    <3>2. \A j, k \in 0 .. m + 1 : Path'[j] = Path'[k] => j = k
      <4>1. \A k \in 0 .. m : Path[k] # node[t]
        BY <1>1, <1>7, LastFacts
      <4>2. \A k \in 0 .. m + 1 : k \in 0 .. m \/ k = m + 1
        BY <1>8
      <4>3. \A j, k \in 0 .. m : Path[j] = Path[k] => j = k
        BY <1>1 DEF LastIs
      <4>4. QED
        BY <4>1, <4>2, <4>3, <1>15, <1>16
    <3>3. \A j, k \in 1 .. m + 1 : data'[Path'[j]] = data'[Path'[k]] => j = k
      <4>1. \A k \in 1 .. m : data[Path[k]] # arg[t]
        <5>1. \A k \in 1 .. m : k \in Steps /\ k > 0 /\ Path[k] # None
          BY <1>1, LastFacts, DummyAssumption
        <5>2. QED
          BY <5>1 DEF ItemInv
      <4>2. \A k \in 1 .. m + 1 : k \in 1 .. m \/ k = m + 1
        BY <1>8
      <4>3. \A j, k \in 1 .. m : data[Path[j]] = data[Path[k]] => j = k
        BY <1>1 DEF LastIs
      <4>4. 1 .. m \subseteq 0 .. m
        BY <1>8
      <4>5. QED
        BY <4>1, <4>2, <4>3, <4>4, <1>3, <1>7, <1>15, <1>16
    <3>4. \A u \in Threads : pc'[u] = "add_swing" => node'[u] = Path'[m + 1]
      BY <1>3, <1>5, <1>6, <1>12, <1>16
    <3>5. (\A u \in Threads : pc'[u] # "add_swing") => tail' = Path'[m + 1]
      BY <1>6
    <3>6. QED
      BY <3>1, <3>2, <3>3, <3>4, <3>5 DEF LastIs
  <2>2. (m + 1) + 1 \in Steps /\ m + 1 \in Steps
    BY <1>1, <1>2, <1>8
  <2>3. QED
    BY <2>1, <2>2 DEF ListInv
<1>19. ItemInv'
  <2>1. \A u \in Threads : arg'[u] \notin held'
    BY <1>3, <1>5, <1>6, NoneAssumption DEF ItemInv, TypeOK
  <2>2. ASSUME NEW k \in Steps, k > 0, Path'[k] # None
        PROVE  /\ data'[Path'[k]] \in Items \ held'
               /\ \A u \in Threads : data'[Path'[k]] # arg'[u]
    <3>1. CASE k \in 0 .. m
      <4>1. Path'[k] = Path[k] /\ Path[k] # None
        BY <2>2, <3>1, <1>15
      <4>2. data[Path[k]] \in Items \ held /\ \A u \in Threads : data[Path[k]] # arg[u]
        BY <2>2, <4>1 DEF ItemInv
      <4>3. QED
        BY <4>1, <4>2, <1>3, <1>5, <1>6, NoneAssumption
    <3>2. CASE k = m + 1
      <4>1. data'[Path'[k]] = arg[t] /\ arg[t] \notin held
        BY <3>2, <1>3, <1>7, <1>16 DEF ItemInv
      <4>2. \A u \in Threads \ {t} : arg[u] # arg[t]
        BY <1>4, <1>7 DEF Apart, ThreadInv
      <4>3. QED
        BY <4>1, <4>2, <1>3, <1>5, <1>6, <1>7
    <3>3. QED
      BY <2>2, <3>1, <3>2, <1>17
  <2>3. QED
    BY <2>1, <2>2 DEF ItemInv
<1>20. QED
  BY <1>10, <1>11, <1>13, <1>14, <1>18, <1>19

LEMMA AddSwingStep ==
  ASSUME IInv, NEW t \in Threads, AddSwing(t)
  PROVE  IInv'
<1> USE DEF IInv
<1>1. PICK m \in Steps : m + 1 \in Steps /\ LastIs(m)
  BY DEF ListInv
<1>2. /\ pc[t] = "add_swing" /\ tail' = node[t] /\ node' = [node EXCEPT ![t] = None]
      /\ tailLock' = None
      /\ UNCHANGED <<next, data, allocated, head, arg, held, ret>>
  BY DEF AddSwing
<1>3. Path' = Path /\ Chain' = Chain
  BY <1>2, PathSame
<1>4. /\ pc' \in [Threads -> Labels] /\ pc'[t] = "idle"
      /\ \A u \in Threads \ {t} : pc'[u] = pc[u] \/ (pc[u] = "asleep" /\ pc'[u] = "woken")
  BY <1>2, Signals DEF AddSwing, Labels
<1>5. \A u \in Threads \ {t} : node'[u] = node[u]
  BY <1>2 DEF TypeOK
<1>6. ~ Carrying(t) /\ ~ Carrying(t)' /\ \A u \in Threads \ {t} : Carrying(u)' <=> Carrying(u)
  BY <1>2, <1>4 DEF Carrying
<1>7. node[t] = Path[m] /\ node[t] \in Nodes
  BY <1>1, <1>2 DEF LastIs, ThreadInv
<1>8. tailLock = t /\ t # None
  BY <1>2, NoneAssumption DEF ThreadInv
<1>9. \A u \in Threads \ {t} : pc'[u] \notin {"add_link", "add_swing", "wait_check", "wait_sleep"}
  BY <1>4, <1>8 DEF ThreadInv
<1>10. TypeOK'
  BY <1>2, <1>4, <1>7 DEF TypeOK
<1>11. Owned'
  BY <1>2, <1>3, <1>5, <1>6 DEF Owned
<1>12. ThreadInv'
  <2>1. ASSUME NEW u \in Threads \ {t}
        PROVE  /\ Carrying(u)' => node'[u] \in allocated' \ Chain' /\ arg'[u] # None
               /\ pc'[u] \in {"add", "add_link"} => next'[node'[u]] = None /\ data'[node'[u]] = arg'[u]
               /\ ~ Carrying(u)' => arg'[u] = None
               /\ pc'[u] = "add_swing" => node'[u] \in Nodes
               /\ tailLock' = u <=> pc'[u] \in {"add_link", "add_swing", "wait_check", "wait_sleep"}
    <3>1. tailLock' # u
      BY <1>2, NoneAssumption
    <3>2. QED
      BY <3>1, <1>2, <1>3, <1>4, <1>5, <1>6, <1>9 DEF ThreadInv
  <2>2. /\ Carrying(t)' => node'[t] \in allocated' \ Chain' /\ arg'[t] # None
        /\ pc'[t] \in {"add", "add_link"} => next'[node'[t]] = None /\ data'[node'[t]] = arg'[t]
        /\ ~ Carrying(t)' => arg'[t] = None
        /\ pc'[t] = "add_swing" => node'[t] \in Nodes
        /\ tailLock' = t <=> pc'[t] \in {"add_link", "add_swing", "wait_check", "wait_sleep"}
    BY <1>2, <1>4, <1>6, <1>8 DEF ThreadInv
  <2>3. QED
    BY <2>1, <2>2 DEF ThreadInv
<1>13. Apart'
  BY <1>2, <1>5, <1>6 DEF Apart
<1>14. ListInv'
  <2>1. \A u \in Threads : pc'[u] # "add_swing"
    BY <1>4, <1>9
  <2>2. LastIs(m)'
    BY <1>1, <1>2, <1>3, <1>7, <2>1 DEF LastIs
  <2>3. QED
    BY <1>1, <2>2 DEF ListInv
<1>15. ItemInv'
  BY <1>2, <1>3 DEF ItemInv
<1>16. QED
  BY <1>10, <1>11, <1>12, <1>13, <1>14, <1>15

LEMMA PushLinkStep ==
  ASSUME IInv, NEW t \in Threads, PushLink(t)
  PROVE  IInv'
<1> USE DEF IInv
<1>1. PICK m \in Steps : m + 1 \in Steps /\ LastIs(m)
  BY DEF ListInv
<1>2. /\ m + 2 \in Steps
      /\ Path' = [k \in Steps |-> IF k = 0 THEN node[t] ELSE Path[k - 1]]
      /\ Chain' = Chain \cup {node[t]}
  BY <1>1, PushLinkPath
<1>3. /\ pc[t] = "push" /\ data' = [data EXCEPT ![head] = arg[t]]
      /\ next' = [next EXCEPT ![node[t]] = head] /\ head' = node[t]
      /\ node' = [node EXCEPT ![t] = None] /\ arg' = [arg EXCEPT ![t] = None]
      /\ UNCHANGED <<allocated, tail, tailLock, held, ret>>
  BY DEF PushLink
<1>4. /\ pc' \in [Threads -> Labels] /\ pc'[t] = "idle"
      /\ \A u \in Threads \ {t} : pc'[u] = pc[u] \/ (pc[u] = "asleep" /\ pc'[u] = "woken")
  BY <1>3, Signals DEF PushLink, Labels
<1>5. \A u \in Threads \ {t} : node'[u] = node[u] /\ arg'[u] = arg[u]
  BY <1>3 DEF TypeOK
<1>6. arg'[t] = None /\ node'[t] = None
  BY <1>3 DEF TypeOK
<1>7. Carrying(t) /\ ~ Carrying(t)' /\ \A u \in Threads \ {t} : Carrying(u)' <=> Carrying(u)
  BY <1>3, <1>4 DEF Carrying
<1>8. /\ node[t] \in allocated \ Chain /\ node[t] \in Nodes /\ node[t] # None
      /\ arg[t] # None /\ arg[t] \in Items
  BY <1>7, DummyAssumption DEF ThreadInv, TypeOK
<1>9. head = Path[0] /\ head \in Nodes /\ head \in Chain /\ m \in Nat
  BY <1>1, LastFacts
<1>10. TypeOK'
  BY <1>3, <1>4, <1>8 DEF TypeOK
<1>11. Owned'
  <2>1. ASSUME NEW n \in Nodes
        PROVE  n \in allocated' <=> n \in Chain' \/ \E u \in Threads : Carrying(u)' /\ node'[u] = n
    <3>1. CASE n = node[t]
      BY <3>1, <1>2, <1>3, <1>8
    <3>2. CASE n # node[t]
      BY <3>2, <1>2, <1>3, <1>5, <1>7 DEF Owned
    <3>3. QED
      BY <3>1, <3>2
  <2>2. QED
    BY <2>1 DEF Owned
<1>12. \A u \in Threads \ {t} : Carrying(u) => /\ node[u] # node[t] /\ node[u] # head
                                               /\ node[u] \in allocated \ Chain /\ node[u] \in Nodes
  BY <1>7, <1>9 DEF Apart, ThreadInv, TypeOK
<1>13. \A u \in Threads \ {t} : Carrying(u) =>
         next'[node[u]] = next[node[u]] /\ data'[node[u]] = data[node[u]]
  BY <1>3, <1>12 DEF TypeOK
<1>14. ThreadInv'
  <2>1. ASSUME NEW u \in Threads \ {t}
        PROVE  /\ Carrying(u)' => node'[u] \in allocated' \ Chain' /\ arg'[u] # None
               /\ pc'[u] \in {"add", "add_link"} => next'[node'[u]] = None /\ data'[node'[u]] = arg'[u]
               /\ ~ Carrying(u)' => arg'[u] = None
               /\ pc'[u] = "add_swing" => node'[u] \in Nodes
               /\ tailLock' = u <=> pc'[u] \in {"add_link", "add_swing", "wait_check", "wait_sleep"}
    <3>1. Carrying(u)' => node'[u] \in allocated' \ Chain' /\ arg'[u] # None
      BY <1>2, <1>3, <1>5, <1>7, <1>12 DEF ThreadInv
    <3>2. pc'[u] \in {"add", "add_link"} => next'[node'[u]] = None /\ data'[node'[u]] = arg'[u]
      <4>1. pc'[u] \in {"add", "add_link"} => pc[u] \in {"add", "add_link"} /\ Carrying(u)
        BY <1>4 DEF Carrying
      <4>2. QED
        BY <4>1, <1>5, <1>13 DEF ThreadInv
    <3>3. ~ Carrying(u)' => arg'[u] = None
      BY <1>5, <1>7 DEF ThreadInv
    <3>4. QED
      BY <3>1, <3>2, <3>3, <1>3, <1>4, <1>5 DEF ThreadInv
  <2>2. /\ Carrying(t)' => node'[t] \in allocated' \ Chain' /\ arg'[t] # None
        /\ pc'[t] \in {"add", "add_link"} => next'[node'[t]] = None /\ data'[node'[t]] = arg'[t]
        /\ ~ Carrying(t)' => arg'[t] = None
        /\ pc'[t] = "add_swing" => node'[t] \in Nodes
        /\ tailLock' = t <=> pc'[t] \in {"add_link", "add_swing", "wait_check", "wait_sleep"}
    BY <1>3, <1>4, <1>6, <1>7 DEF ThreadInv
  <2>3. QED
    BY <2>1, <2>2 DEF ThreadInv
<1>15. Apart'
  BY <1>5, <1>7 DEF Apart
<1>16. \A k \in 0 .. m : k + 1 \in Steps /\ Path'[k + 1] = Path[k]
  BY <1>1, <1>2, <1>9, StepsType
<1>17. Path'[0] = node[t] /\ 0 \in Steps
  BY <1>2, StepsType
<1>18. \A k \in Steps : k = 0 \/ (k > 0 /\ k - 1 \in 0 .. m)
                          \/ (k > m + 1 /\ Path'[k] = None)
  <2>1. ASSUME NEW k \in Steps, k > m + 1 PROVE Path'[k] = None
    <3>1. k - 1 \in Steps /\ k - 1 > m
      BY <2>1, <1>9, StepsType
    <3>2. Path'[k] = Path[k - 1]
      BY <2>1, <1>2, <1>9, StepsType
    <3>3. QED
      BY <3>1, <3>2, <1>1, LastFacts
  <2>2. \A k \in Steps : k = 0 \/ (k > 0 /\ k - 1 \in 0 .. m) \/ k > m + 1
    BY <1>9, StepsType
  <2>3. QED
    BY <2>1, <2>2
<1>19. \A k \in 1 .. m : Path[k] # head /\ Path[k] \in Nodes /\ k \in Steps /\ k > 0 /\ Path[k] # None
  <2>1. \A k \in 1 .. m : k \in 0 .. m /\ k # 0 /\ k > 0
    BY <1>9
  <2>2. \A k \in 1 .. m : Path[k] # Path[0]
    BY <2>1, <1>1, <1>9 DEF LastIs
  <2>3. QED
    BY <2>1, <2>2, <1>1, <1>9, LastFacts, DummyAssumption
<1>20. /\ data'[Path[0]] = arg[t]
       /\ \A k \in 1 .. m : data'[Path[k]] = data[Path[k]]
  BY <1>3, <1>9, <1>19 DEF TypeOK
<1>21. \A k \in 0 .. m : k = 0 \/ k \in 1 .. m
  BY <1>9
<1>22. ListInv'
  <2>1. LastIs(m + 1)'
    <3>1. \A k \in Steps : Path'[k] \in IF k <= m + 1 THEN allocated' ELSE {None}
      <4>1. \A k \in 0 .. m : Path[k] \in allocated
        BY <1>1, LastFacts
      <4>2. ASSUME NEW k \in Steps PROVE Path'[k] \in IF k <= m + 1 THEN allocated' ELSE {None}
        <5>1. CASE k = 0
          BY <5>1, <1>3, <1>8, <1>9, <1>17
        <5>2. CASE k > 0 /\ k - 1 \in 0 .. m
          <6>1. (k - 1) + 1 = k /\ k <= m + 1
            BY <5>2, <1>9, StepsType
          <6>2. Path'[k] = Path[k - 1]
            BY <6>1, <5>2, <1>16
          <6>3. QED
            BY <6>1, <6>2, <5>2, <4>1, <1>3
        <5>3. CASE k > m + 1 /\ Path'[k] = None
          BY <5>3, <1>9, StepsType
        <5>4. QED
          BY <5>1, <5>2, <5>3, <1>18
      <4>3. QED
        BY <4>2
    <3>2. \A j, k \in 0 .. m + 1 : Path'[j] = Path'[k] => j = k
      <4>1. \A k \in 0 .. m : Path[k] # node[t]
        BY <1>1, <1>8, LastFacts
      <4>2. \A k \in 0 .. m + 1 : k = 0 \/ (k - 1 \in 0 .. m /\ Path'[k] = Path[k - 1])
        <5>1. \A k \in 0 .. m + 1 : k = 0 \/ (k - 1 \in 0 .. m /\ (k - 1) + 1 = k)
          BY <1>9
        <5>2. QED
          BY <5>1, <1>16
      <4>3. \A j, k \in 0 .. m : Path[j] = Path[k] => j = k
        BY <1>1 DEF LastIs
      <4>4. \A j, k \in 0 .. m + 1 : j - 1 = k - 1 => j = k
        BY <1>9
      <4>5. QED
        BY <4>1, <4>2, <4>3, <4>4, <1>17
    <3>3. \A j, k \in 1 .. m + 1 : data'[Path'[j]] = data'[Path'[k]] => j = k
      <4>1. \A k \in 1 .. m : data[Path[k]] # arg[t]
        BY <1>19 DEF ItemInv
      <4>2. \A k \in 1 .. m + 1 : k - 1 \in 0 .. m /\ Path'[k] = Path[k - 1]
        <5>1. \A k \in 1 .. m + 1 : k - 1 \in 0 .. m /\ (k - 1) + 1 = k
          BY <1>9
        <5>2. QED
          BY <5>1, <1>16
      <4>3. \A j, k \in 1 .. m : data[Path[j]] = data[Path[k]] => j = k
        BY <1>1 DEF LastIs
      <4>4. \A j, k \in 0 .. m : data'[Path[j]] = data'[Path[k]] => j = k
        BY <4>1, <4>3, <1>20, <1>21
      <4>5. \A j, k \in 1 .. m + 1 : j - 1 = k - 1 => j = k
        BY <1>9
      <4>6. QED
        BY <4>2, <4>4, <4>5
    <3>4. \A u \in Threads : pc'[u] = "add_swing" => node'[u] = Path'[m + 1]
      <4>1. Path'[m + 1] = Path[m]
        BY <1>9, <1>16
      <4>2. QED
        BY <4>1, <1>1, <1>4, <1>5 DEF LastIs
    <3>5. (\A u \in Threads : pc'[u] # "add_swing") => tail' = Path'[m + 1]
      <4>1. Path'[m + 1] = Path[m]
        BY <1>9, <1>16
      <4>2. (\A u \in Threads : pc'[u] # "add_swing") => \A u \in Threads : pc[u] # "add_swing"
        BY <1>3, <1>4
      <4>3. QED
        BY <4>1, <4>2, <1>1, <1>3 DEF LastIs
    <3>6. QED
      BY <3>1, <3>2, <3>3, <3>4, <3>5 DEF LastIs
  <2>2. (m + 1) + 1 \in Steps /\ m + 1 \in Steps
    BY <1>1, <1>2, <1>9
  <2>3. QED
    BY <2>1, <2>2 DEF ListInv
<1>23. ItemInv'
  <2>1. \A u \in Threads : arg'[u] \notin held'
    BY <1>3, <1>5, <1>6, NoneAssumption DEF ItemInv, TypeOK
  <2>2. ASSUME NEW k \in Steps, k > 0, Path'[k] # None
        PROVE  /\ data'[Path'[k]] \in Items \ held'
               /\ \A u \in Threads : data'[Path'[k]] # arg'[u]
    <3>1. k - 1 \in 0 .. m /\ (k - 1) + 1 = k
      BY <2>2, <1>18, StepsType
    <3>2. Path'[k] = Path[k - 1]
      BY <3>1, <1>16
    <3>3. CASE k - 1 = 0
      <4>1. data'[Path'[k]] = arg[t] /\ arg[t] \notin held
        BY <3>2, <3>3, <1>20 DEF ItemInv
      <4>2. \A u \in Threads \ {t} : arg[u] # arg[t]
        BY <1>7, <1>8 DEF Apart, ThreadInv
      <4>3. QED
        BY <4>1, <4>2, <1>3, <1>5, <1>6, <1>8
    <3>4. CASE k - 1 \in 1 .. m
      <4>1. data'[Path'[k]] = data[Path[k - 1]]
        BY <3>2, <3>4, <1>20
      <4>2. /\ data[Path[k - 1]] \in Items \ held
            /\ \A u \in Threads : data[Path[k - 1]] # arg[u]
        BY <3>4, <1>19 DEF ItemInv
      <4>3. QED
        BY <4>1, <4>2, <1>3, <1>5, <1>6, NoneAssumption
    <3>5. QED
      BY <3>1, <3>3, <3>4, <1>21
  <2>3. QED
    BY <2>1, <2>2 DEF ItemInv
<1>24. QED
  BY <1>10, <1>11, <1>14, <1>15, <1>22, <1>23

LEMMA GetPopStep ==
  ASSUME IInv, NEW t \in Threads, GetPop(t)
  PROVE  IInv'
<1> USE DEF IInv
<1>1. PICK m \in Steps : m + 1 \in Steps /\ LastIs(m)
  BY DEF ListInv
<1>2. /\ m > 0 /\ m \in Nat
      /\ Path' = [k \in Steps |-> IF k <= m THEN Path[k + 1] ELSE None]
      /\ Chain' = Chain \ {head}
  BY <1>1, GetPopPath, LastFacts
<1>3. head = Path[0] /\ next[head] = Path[1] /\ 0 \in 0 .. m /\ 1 \in 0 .. m /\ 1 \in 1 .. m
  BY <1>1, <1>2, LastFacts
<1>4. /\ ret' = data[Path[1]] /\ held' = held \cup {data[Path[1]]} /\ head' = Path[1]
      /\ allocated' = allocated \ {head}
      /\ data' = [data EXCEPT ![Path[1]] = None] /\ next' = [next EXCEPT ![head] = None]
      /\ UNCHANGED <<tail, tailLock, pc, node, arg>>
  BY <1>3 DEF GetPop
<1>5. \A k \in 0 .. m : /\ k \in Steps /\ Path[k] \in Nodes /\ Path[k] # None
                        /\ Path[k] \in Chain /\ Path[k] \in allocated
  BY <1>1, LastFacts, DummyAssumption
<1>6. \A k \in 1 .. m : k \in 0 .. m /\ k > 0 /\ k # 0
  BY <1>2
<1>7. \A k \in 1 .. m : data[Path[k]] \in Items \ held /\ \A u \in Threads : data[Path[k]] # arg[u]
  BY <1>5, <1>6 DEF ItemInv
<1>8. \A j, k \in 1 .. m : data[Path[j]] = data[Path[k]] => j = k
  BY <1>1 DEF LastIs
<1>9. \A j, k \in 0 .. m : Path[j] = Path[k] => j = k
  BY <1>1 DEF LastIs
<1>10. \A u \in Threads : Carrying(u)' <=> Carrying(u)
  BY <1>4 DEF Carrying
<1>11. \A u \in Threads : Carrying(u) =>
         /\ node[u] \in allocated' \ Chain' /\ node[u] \in Nodes
         /\ next'[node[u]] = next[node[u]] /\ data'[node[u]] = data[node[u]]
  <2>1. \A u \in Threads : Carrying(u) => node[u] \in allocated \ Chain /\ node[u] \in Nodes
    BY DEF ThreadInv, TypeOK
  <2>2. head \in Chain /\ Path[1] \in Chain
    BY <1>3, <1>5
  <2>3. QED
    BY <2>1, <2>2, <1>2, <1>4 DEF TypeOK
<1>12. TypeOK'
  BY <1>3, <1>4, <1>5, <1>7 DEF TypeOK
<1>13. Owned'
  BY <1>2, <1>4, <1>10, <1>11 DEF Owned
<1>14. ThreadInv'
  <2>1. \A u \in Threads : pc[u] \in {"add", "add_link"} => Carrying(u)
    BY DEF Carrying
  <2>2. QED
    BY <2>1, <1>4, <1>10, <1>11 DEF ThreadInv
<1>15. Apart'
  BY <1>4, <1>10 DEF Apart
<1>16. \A k \in 0 .. m - 1 : k + 1 \in 1 .. m /\ k \in Steps /\ Path'[k] = Path[k + 1]
  <2>1. \A k \in 0 .. m - 1 : k + 1 \in 1 .. m /\ k \in 0 .. m /\ k <= m
    BY <1>2
  <2>2. QED
    BY <2>1, <1>2, <1>5
<1>17. \A k \in Steps : k \in 0 .. m - 1 \/ (k > m - 1 /\ Path'[k] = None)
  <2>1. ASSUME NEW k \in Steps, k > m - 1 PROVE Path'[k] = None
    <3>1. CASE k = m
      BY <3>1, <1>1, <1>2, LastFacts, StepsType
    <3>2. CASE k > m
      BY <3>2, <1>2, StepsType
    <3>3. QED
      BY <2>1, <3>1, <3>2, <1>2, StepsType
  <2>2. \A k \in Steps : k \in 0 .. m - 1 \/ k > m - 1
    BY <1>2, StepsType
  <2>3. QED
    BY <2>1, <2>2
<1>18. \A k \in 1 .. m - 1 : k + 1 \in 1 .. m /\ k + 1 # 1 /\ k \in 0 .. m - 1
  BY <1>2
<1>19. \A k \in 1 .. m - 1 : data'[Path'[k]] = data[Path[k + 1]]
  <2>1. \A k \in 1 .. m - 1 : Path[k + 1] # Path[1] /\ Path[k + 1] \in Nodes
    BY <1>18, <1>9, <1>6, <1>5, <1>3
  <2>2. QED
    BY <2>1, <1>4, <1>16, <1>18 DEF TypeOK
<1>20. ListInv'
  <2>1. LastIs(m - 1)'
    <3>1. \A k \in Steps : Path'[k] \in IF k <= m - 1 THEN allocated' ELSE {None}
      <4>1. \A k \in 1 .. m : Path[k] \in allocated'
        <5>1. \A k \in 1 .. m : Path[k] # Path[0]
          BY <1>3, <1>6, <1>9
        <5>2. QED
          BY <5>1, <1>3, <1>4, <1>5, <1>6
      <4>2. QED
        BY <4>1, <1>2, <1>16, <1>17, StepsType
    <3>2. \A j, k \in 0 .. m - 1 : Path'[j] = Path'[k] => j = k
      <4>1. \A j, k \in 0 .. m - 1 : j + 1 = k + 1 => j = k
        BY <1>2
      <4>2. QED
        BY <4>1, <1>6, <1>9, <1>16
    <3>3. \A j, k \in 1 .. m - 1 : data'[Path'[j]] = data'[Path'[k]] => j = k
      <4>1. \A j, k \in 1 .. m - 1 : j + 1 = k + 1 => j = k
        BY <1>2
      <4>2. QED
        BY <4>1, <1>8, <1>18, <1>19
    <3>4. Path'[m - 1] = Path[m]
      BY <1>2, <1>16
    <3>5. \A u \in Threads : pc'[u] = "add_swing" => node'[u] = Path'[m - 1]
      BY <3>4, <1>1, <1>4 DEF LastIs
    <3>6. (\A u \in Threads : pc'[u] # "add_swing") => tail' = Path'[m - 1]
      BY <3>4, <1>1, <1>4 DEF LastIs
    <3>7. QED
      BY <3>1, <3>2, <3>3, <3>5, <3>6 DEF LastIs
  <2>2. m - 1 \in Steps /\ (m - 1) + 1 \in Steps
    BY <1>2, StepsType
  <2>3. QED
    BY <2>1, <2>2 DEF ListInv
<1>21. ItemInv'
  <2>1. \A u \in Threads : arg'[u] \notin held'
    BY <1>3, <1>4, <1>7 DEF ItemInv
  <2>2. ASSUME NEW k \in Steps, k > 0, Path'[k] # None
        PROVE  /\ data'[Path'[k]] \in Items \ held'
               /\ \A u \in Threads : data'[Path'[k]] # arg'[u]
    <3>1. k \in 1 .. m - 1
      BY <2>2, <1>2, <1>17, StepsType
    <3>2. data'[Path'[k]] = data[Path[k + 1]] /\ k + 1 \in 1 .. m /\ k + 1 # 1
      BY <3>1, <1>18, <1>19
    <3>3. data[Path[k + 1]] # data[Path[1]]
      BY <3>2, <1>3, <1>8
    <3>4. QED
      BY <3>2, <3>3, <1>4, <1>7
  <2>3. QED
    BY <2>1, <2>2 DEF ItemInv
<1>22. QED
  BY <1>12, <1>13, <1>14, <1>15, <1>20, <1>21

(* The steps that only move a thread, take or give up _tail_lock.          *)
LEMMA FrameStep ==
  ASSUME IInv, UNCHANGED <<next, data, allocated, head, tail, node, arg, held>>,
         pc' \in [Threads -> Labels], tailLock' \in Threads \cup {None},
         ret' \in Items \cup {None},
         \A u \in Threads :
           /\ pc'[u] # pc[u] => \/ pc[u] = "add" /\ pc'[u] = "add_link"
                                \/ /\ pc[u] \notin {"add", "add_link", "push", "add_swing"}
                                   /\ pc'[u] \notin {"add", "add_link", "push", "add_swing"}
           /\ tailLock' = u <=> pc'[u] \in {"add_link", "add_swing", "wait_check", "wait_sleep"}
  PROVE  IInv'
<1> USE DEF IInv
<1>1. Path' = Path /\ Chain' = Chain
  BY PathSame
<1>2. TypeOK'
  BY DEF TypeOK
<1>3. \A u \in Threads : /\ Carrying(u)' <=> Carrying(u)
                         /\ pc'[u] \in {"add", "add_link"} <=> pc[u] \in {"add", "add_link"}
                         /\ pc'[u] = "add_swing" <=> pc[u] = "add_swing"
  BY DEF Carrying
<1>4. Owned' /\ Apart' /\ ItemInv'
  BY <1>1, <1>3 DEF Owned, Apart, ItemInv
<1>5. ThreadInv'
  BY <1>1, <1>3 DEF ThreadInv
<1>6. ListInv'
  <2>1. PICK m \in Steps : m + 1 \in Steps /\ LastIs(m)
    BY DEF ListInv
  <2>2. LastIs(m)'
    BY <2>1, <1>1, <1>3 DEF LastIs
  <2>3. QED
    BY <2>1, <2>2 DEF ListInv
<1>7. QED
  BY <1>2, <1>4, <1>5, <1>6

LEMMA InvStep ==
  ASSUME IInv, [Next]_vars
  PROVE  IInv'
<1>t. TypeOK /\ ThreadInv
  BY DEF IInv
<1>0. CASE UNCHANGED vars
  BY <1>0, <1>t, FrameStep DEF vars, TypeOK, ThreadInv
<1>1. ASSUME NEW t \in Threads, Add(t) PROVE IInv'
  <2>1. CASE \E x \in Items : AddAlloc(t, x)
    BY <2>1, AddAllocStep
  <2>2. CASE AddLock(t)
    <3>1. /\ UNCHANGED <<next, data, allocated, head, tail, node, arg, held, ret>>
          /\ tailLock = None /\ tailLock' = t /\ pc[t] = "add"
          /\ pc' = [pc EXCEPT ![t] = "add_link"]
      BY <2>2 DEF AddLock, Goto
    <3>2. /\ pc' \in [Threads -> Labels] /\ pc'[t] = "add_link"
          /\ \A u \in Threads \ {t} : pc'[u] = pc[u]
      BY <3>1, <1>t DEF TypeOK, Labels
    <3>3. \A u \in Threads : tailLock' = u <=>
             pc'[u] \in {"add_link", "add_swing", "wait_check", "wait_sleep"}
      BY <3>1, <3>2, <1>t, NoneAssumption DEF ThreadInv
    <3>4. QED
      BY <3>1, <3>2, <3>3, <1>t, FrameStep DEF TypeOK
  <2>3. CASE AddLink(t)
    BY <2>3, AddLinkStep
  <2>4. CASE AddSwing(t)
    BY <2>4, AddSwingStep
  <2>5. QED
    BY <1>1, <2>1, <2>2, <2>3, <2>4 DEF Add
<1>2. ASSUME NEW t \in Pushers, Push(t) PROVE IInv'
  BY <1>2, PushAllocStep, PushLinkStep, RolesAssumption DEF Push
<1>3. ASSUME NEW t \in Threads, Get(t) PROVE IInv'
  <2>1. CASE GetPop(t)
    BY <2>1, GetPopStep
  <2>2. CASE GetNothing(t)
    <3>1. UNCHANGED <<next, data, allocated, head, tail, node, arg, held, pc, tailLock>> /\ ret' = None
      BY <2>2 DEF GetNothing
    <3>2. QED
      BY <3>1, <1>t, FrameStep DEF TypeOK, ThreadInv
  <2>3. QED
    BY <1>3, <2>1, <2>2 DEF Get
<1>4. ASSUME NEW t \in Waiters, Wait(t) PROVE IInv'
  <2>0. t \in Threads /\ t # None
    BY RolesAssumption, NoneAssumption
  <2> DEFINE Owning == {"add_link", "add_swing", "wait_check", "wait_sleep"}
  <2>1. PICK label \in {"idle", "wait_check", "wait_sleep", "asleep", "woken"} :
          /\ pc' = [pc EXCEPT ![t] = label]
          /\ pc[t] \in {"idle", "wait_check", "wait_sleep", "asleep", "woken"}
          /\ \/ tailLock' = None /\ label \notin Owning /\ pc[t] \in Owning
             \/ tailLock = None /\ tailLock' = t /\ label \in Owning
             \/ tailLock' = tailLock /\ (label \in Owning <=> pc[t] \in Owning)
    BY <1>4 DEF Wait, WaitLock, WaitCheck, WaitSleep, WaitTimeout, WaitReturn, Goto
  <2>2. UNCHANGED <<next, data, allocated, head, tail, node, arg, held, ret>>
    BY <1>4 DEF Wait, WaitLock, WaitCheck, WaitSleep, WaitTimeout, WaitReturn
  <2>3. /\ pc' \in [Threads -> Labels] /\ pc'[t] = label
        /\ \A u \in Threads \ {t} : pc'[u] = pc[u]
    BY <2>0, <2>1, <1>t DEF TypeOK, Labels
  <2>4. \A u \in Threads : tailLock = u <=> pc[u] \in Owning
    BY <1>t DEF ThreadInv
  <2>5. tailLock' \in Threads \cup {None}
    BY <2>0, <2>1, <1>t DEF TypeOK
  <2>6. \A u \in Threads : tailLock' = u <=> pc'[u] \in Owning
    BY <2>0, <2>1, <2>3, <2>4, NoneAssumption
  <2>7. \A u \in Threads : pc'[u] # pc[u] =>
           /\ pc[u] \notin {"add", "add_link", "push", "add_swing"}
           /\ pc'[u] \notin {"add", "add_link", "push", "add_swing"}
    BY <2>1, <2>3
  <2>8. QED
    BY <2>2, <2>3, <2>5, <2>6, <2>7, <1>t, FrameStep DEF TypeOK
<1>5. QED
  BY <1>0, <1>1, <1>2, <1>3, <1>4 DEF Next

LEMMA InvInit == Init => IInv
<1> SUFFICES ASSUME Init PROVE IInv
  OBVIOUS
<1>1. TypeOK
  BY DummyAssumption DEF Init, TypeOK, Labels
<1>2. Cardinality(Nodes) > 0
  <2>1. Cardinality(Nodes) # 0
    BY DummyAssumption, FS_EmptySet
  <2>2. QED
    BY <2>1, StepsType
<1>3. 0 \in Steps /\ 1 \in Steps
  BY <1>2, StepsType
<1>4. Path[0] = Dummy
  BY PathIs DEF IsPath, Init
<1>5. \A k \in Steps : k > 0 => Path[k] = None
  <2> SUFFICES ASSUME NEW k \in Steps, k > 0 PROVE Path[k] = None
    OBVIOUS
  <2>1. Path[k] = IF Path[k - 1] = None THEN None ELSE next[Path[k - 1]]
    BY PathIs DEF IsPath
  <2> DEFINE T == {j \in Steps : j > 0 /\ Path[j] # None}
  <2>2. T = {}
    <3> SUFFICES ASSUME T # {} PROVE FALSE
      OBVIOUS
    <3>1. T \in SUBSET Nat
      BY StepsType
    <3>2. PICK n \in T : \A j \in T : n <= j
      BY <3>1, LeastNat
    <3>3. n \in Steps /\ n > 0 /\ n - 1 \in Steps /\ Path[n] # None
      BY <3>2, StepsType
    <3>4. Path[n] = IF Path[n - 1] = None THEN None ELSE next[Path[n - 1]]
      BY <3>3, PathIs DEF IsPath
    <3>5. n - 1 = 0 \/ n - 1 \notin T
      BY <3>2, <3>3, StepsType
    <3>6. n - 1 = 0 \/ Path[n - 1] = None
      BY <3>3, <3>5, StepsType
    <3>7. next[Dummy] = None
      BY DummyAssumption DEF Init
    <3>8. QED
      BY <3>3, <3>4, <3>6, <3>7, <1>4
  <2>3. QED
    BY <2>2
<1>6. Chain = {Dummy}
  <2>1. \A k \in Steps : k = 0 \/ k > 0
    BY StepsType
  <2>2. QED
    BY <2>1, <1>3, <1>4, <1>5, DummyAssumption DEF Chain
<1>7. LastIs(0)
  <2>1. \A k \in Steps : Path[k] \in IF k <= 0 THEN allocated ELSE {None}
    <3>1. \A k \in Steps : k = 0 \/ (k > 0 /\ ~ (k <= 0))
      BY StepsType
    <3>2. QED
      BY <3>1, <1>4, <1>5 DEF Init
  <2>2. tail = Path[0] /\ \A t \in Threads : pc[t] # "add_swing"
    BY <1>4 DEF Init
  <2>3. QED
    BY <2>1, <2>2 DEF LastIs
<1>8. ListInv
  BY <1>3, <1>7 DEF ListInv
<1>9. Owned
  BY <1>6 DEF Init, Owned, Carrying
<1>10. ThreadInv /\ Apart
  BY NoneAssumption DEF Init, ThreadInv, Apart, Carrying
<1>11. ItemInv
  BY <1>5, NoneAssumption DEF Init, ItemInv
<1>12. QED
  BY <1>1, <1>8, <1>9, <1>10, <1>11 DEF IInv

-----------------------------------------------------------------------------
(* The list has a last node, which is the tail or the node the owner of    *)
(* _tail_lock has just linked to it; every allocated node is in the list   *)
(* or carried by one thread; every item is at one place: the state of      *)
(* m_queue.c between any two steps of any number of threads.               *)
THEOREM QueueListInvariant == Spec => []IInv
  BY InvInit, InvStep, PTL DEF Spec

LEMMA InvImpliesSafe == IInv => QueueSafe
<1> SUFFICES ASSUME IInv PROVE QueueSafe
  OBVIOUS
<1> USE DEF IInv
<1>1. PICK m \in Steps : m + 1 \in Steps /\ LastIs(m)
  BY DEF ListInv
<1>2. Path[m] \in Chain /\ next[Path[m]] = None /\ Path[m] \in allocated
  <2>1. m \in 0 .. m
    BY <1>1, LastFacts
  <2>2. QED
    BY <2>1, <1>1, LastFacts
<1>3. Chain \subseteq allocated
  BY <1>1, LastFacts
<1>4. \A t \in Threads : pc[t] = "add_swing" => node[t] \in allocated /\ node[t] \in Chain
  BY <1>1, <1>2 DEF LastIs
<1>5. LiveChain
  BY <1>1, <1>2, <1>3, <1>4 DEF LiveChain, LastIs
<1>6. NoLeak
  <2>1. {t \in Threads : pc[t] \in {"add", "add_link", "push"}} = {t \in Threads : Carrying(t)}
    BY DEF Carrying
  <2>2. allocated = Chain \cup {node[t] : t \in {t \in Threads : Carrying(t)}}
    BY <1>3 DEF Owned, ThreadInv, TypeOK
  <2>3. {node[t] : t \in {t \in Threads : pc[t] = "add_swing" /\ node[t] \in allocated}}
          \subseteq Chain
    BY <1>4
  <2>4. QED
    BY <2>1, <2>2, <2>3 DEF NoLeak
<1>7. QED
  BY <1>5, <1>6 DEF QueueSafe

(* Whatever the threads do, no thread writes through a pointer to a node   *)
(* queue_get has freed, the list ends at the tail, and no node leaks.      *)
THEOREM QueueIsSafe == Spec => []QueueSafe
  BY QueueListInvariant, InvImpliesSafe, PTL

-----------------------------------------------------------------------------
(* The queue implements the deque: the first link of queue_add, the one    *)
(* section of queue_push and that of queue_get are its operations, every   *)
(* other step leaves what the deque shows alone.                           *)

InHands == held \cup {arg[t] : t \in {t \in Threads : arg[t] # None}}

LEMMA ContentsType ==
  ASSUME IInv, NEW m \in Steps, m + 1 \in Steps, LastIs(m)
  PROVE  /\ Contents = [k \in 1 .. m |-> data[Path[k]]]
         /\ \A k \in 1 .. m : data[Path[k]] \in Items
         /\ Contents \in Seq(Items) /\ Len(Contents) = m
<1> USE DEF IInv
<1>1. Contents = [k \in 1 .. m |-> data[Path[k]]]
  BY ContentsIs
<1>2. \A k \in 1 .. m : k \in Steps /\ k > 0 /\ Path[k] # None
  BY LastFacts, DummyAssumption
<1>3. \A k \in 1 .. m : data[Path[k]] \in Items
  BY <1>2 DEF ItemInv
<1>4. QED
  BY <1>1, <1>3, LastFacts

LEMMA DequeStutter ==
  ASSUME UNCHANGED <<head, next, data, arg, held, ret>>
  PROVE  UNCHANGED <<Contents, InHands, ret>>
<1>1. Path' = Path
  BY PathSame
<1>2. QED
  BY <1>1 DEF Contents, InHands

(* Allocating a node hides the item but does not move it.                  *)
LEMMA DequeAlloc ==
  ASSUME IInv, NEW t \in Threads, NEW x \in Items, AddAlloc(t, x) \/ PushAlloc(t, x)
  PROVE  UNCHANGED <<Contents, InHands, ret>>
<1> USE DEF IInv
<1>1. PICK m \in Steps : m + 1 \in Steps /\ LastIs(m)
  BY DEF ListInv
<1>2. PICK n \in Nodes \ allocated :
        /\ \A k \in Nodes \ {n} : data'[k] = data[k] /\ next'[k] = next[k]
  BY DEF AddAlloc, PushAlloc, Malloc, TypeOK
<1>3. /\ x \in held /\ held' = held \ {x} /\ arg' = [arg EXCEPT ![t] = x]
      /\ pc[t] = "idle" /\ head' = head /\ ret' = ret
  BY DEF AddAlloc, PushAlloc
<1>4. Chain \subseteq allocated /\ Chain \subseteq Nodes
  BY <1>1, LastFacts
<1>5. Path' = Path
  BY <1>2, <1>3, <1>4, PathSame
<1>6. \A k \in Steps : Path[k] # None => data'[Path[k]] = data[Path[k]]
  BY <1>2, <1>4, InChain
<1>7. Contents' = Contents
  <2> DEFINE D == {k \in Steps : k > 0 /\ Path[k] # None}
  <2>1. Contents = [k \in D |-> data[Path[k]]] /\ Contents' = [k \in D |-> data'[Path[k]]]
    BY <1>5 DEF Contents
  <2>2. \A k \in D : data'[Path[k]] = data[Path[k]]
    BY <1>6
  <2> HIDE DEF D
  <2>3. QED
    BY <2>1, <2>2
<1>8. InHands' = InHands
  <2>1. arg[t] = None /\ arg'[t] = x /\ x # None /\ \A u \in Threads \ {t} : arg'[u] = arg[u]
    BY <1>3, NoneAssumption DEF ThreadInv, Carrying, TypeOK
  <2>2. \A y : y \in InHands <=> y \in held \/ \E u \in Threads : arg[u] # None /\ arg[u] = y
    BY DEF InHands
  <2>3. \A y : y \in InHands' <=> y \in held' \/ \E u \in Threads : arg'[u] # None /\ arg'[u] = y
    BY DEF InHands
  <2>4. \A y : y \in InHands' <=> y \in InHands
    BY <2>1, <2>2, <2>3, <1>3
  <2>5. QED
    BY <2>4
<1>9. QED
  BY <1>3, <1>7, <1>8

(* What a caller gives the queue leaves its hands.                         *)
LEMMA DequeGive ==
  ASSUME IInv, NEW t \in Threads, Carrying(t), arg' = [arg EXCEPT ![t] = None], held' = held
  PROVE  /\ arg[t] \in Items /\ arg[t] \in InHands
         /\ InHands' = InHands \ {arg[t]}
<1> USE DEF IInv
<1>1. arg[t] # None /\ arg[t] \in Items /\ arg[t] \notin held
  BY DEF ThreadInv, TypeOK, ItemInv
<1>2. arg'[t] = None /\ \A u \in Threads \ {t} : arg'[u] = arg[u]
  BY DEF TypeOK
<1>3. \A u \in Threads \ {t} : arg[u] # arg[t]
  BY <1>1 DEF Apart, ThreadInv
<1>4. \A y : y \in InHands <=> y \in held \/ \E u \in Threads : arg[u] # None /\ arg[u] = y
  BY DEF InHands
<1>5. \A y : y \in InHands' <=> y \in held' \/ \E u \in Threads : arg'[u] # None /\ arg'[u] = y
  BY DEF InHands
<1>6. \A y : y \in InHands' <=> y \in InHands \ {arg[t]}
  BY <1>1, <1>2, <1>3, <1>4, <1>5
<1>7. QED
  BY <1>1, <1>4, <1>6

LEMMA DequeAdd ==
  ASSUME IInv, NEW t \in Threads, AddLink(t)
  PROVE  /\ arg[t] \in InHands /\ arg[t] \in Items
         /\ Contents' = Append(Contents, arg[t])
         /\ InHands' = InHands \ {arg[t]} /\ ret' = ret
<1> USE DEF IInv
<1>1. PICK m \in Steps : m + 1 \in Steps /\ LastIs(m)
  BY DEF ListInv
<1>2. Carrying(t) /\ data[node[t]] = arg[t] /\ node[t] # None
  BY DummyAssumption DEF AddLink, ThreadInv, Carrying, TypeOK
<1>3. /\ arg' = [arg EXCEPT ![t] = None] /\ held' = held /\ data' = data /\ ret' = ret
  BY DEF AddLink
<1>4. Contents' = [k \in 1 .. m + 1 |-> data[Path'[k]]]
  <2>1. {k \in Steps : k > 0 /\ Path'[k] # None} = 1 .. m + 1
    <3>1. \A k \in Steps : Path'[k] # None <=> k <= m + 1
      BY <1>1, <1>2, AddLinkPath, LastFacts, DummyAssumption, StepsType
    <3>2. QED
      BY <3>1, <1>1, StepsType
  <2>2. Contents' = [k \in {k \in Steps : k > 0 /\ Path'[k] # None} |-> data[Path'[k]]]
    BY <1>3 DEF Contents
  <2>3. QED
    BY <2>1, <2>2
<1>5. \A k \in 1 .. m : Path'[k] = Path[k]
  BY <1>1, AddLinkPath, LastFacts, StepsType
<1>6. Path'[m + 1] = node[t] /\ m \in Nat
  BY <1>1, AddLinkPath, LastFacts
<1>7. Contents' = Append(Contents, arg[t])
  <2>1. /\ Contents \in Seq(Items) /\ Len(Contents) = m
        /\ \A k \in 1 .. m : Contents[k] = data[Path[k]]
    BY <1>1, ContentsType
  <2>2. Append(Contents, arg[t]) =
          [k \in 1 .. m + 1 |-> IF k = m + 1 THEN arg[t] ELSE Contents[k]]
    BY <2>1, <1>2, DequeGive, <1>3
  <2>3. \A k \in 1 .. m + 1 : data[Path'[k]] = IF k = m + 1 THEN arg[t] ELSE Contents[k]
    <3>1. \A k \in 1 .. m + 1 : k = m + 1 \/ k \in 1 .. m
      BY <1>6
    <3>2. QED
      BY <3>1, <2>1, <1>2, <1>5, <1>6
  <2>4. QED
    BY <2>2, <2>3, <1>4
<1>8. QED
  BY <1>2, <1>3, <1>7, DequeGive

LEMMA DequePush ==
  ASSUME IInv, NEW t \in Threads, PushLink(t)
  PROVE  /\ arg[t] \in InHands /\ arg[t] \in Items
         /\ Contents' = <<arg[t]>> \o Contents
         /\ InHands' = InHands \ {arg[t]} /\ ret' = ret
<1> USE DEF IInv
<1>1. PICK m \in Steps : m + 1 \in Steps /\ LastIs(m)
  BY DEF ListInv
<1>2. Carrying(t) /\ node[t] # None
  BY DummyAssumption DEF PushLink, ThreadInv, Carrying, TypeOK
<1>3. /\ arg' = [arg EXCEPT ![t] = None] /\ held' = held /\ data' = [data EXCEPT ![head] = arg[t]]
      /\ ret' = ret
  BY DEF PushLink
<1>4. m \in Nat /\ head = Path[0] /\ head \in Nodes /\ arg[t] \in Items
  <2>1. arg[t] \in Items
    BY <1>2, <1>3, DequeGive
  <2>2. m \in Nat /\ head = Path[0] /\ head \in Nodes
    BY <1>1, LastFacts DEF TypeOK
  <2>3. QED
    BY <2>1, <2>2
<1>5. \A k \in 1 .. m + 1 : k \in Steps /\ Path'[k] = Path[k - 1]
  BY <1>1, <1>4, PushLinkPath, StepsType
<1>6. Contents' = [k \in 1 .. m + 1 |-> data'[Path'[k]]]
  <2>1. \A k \in Steps : Path'[k] # None <=> k <= m + 1
    <3> SUFFICES ASSUME NEW k \in Steps PROVE Path'[k] # None <=> k <= m + 1
      OBVIOUS
    <3>1. CASE k = 0
      BY <3>1, <1>1, <1>2, <1>4, PushLinkPath
    <3>2. CASE k # 0
      <4>1. k - 1 \in Steps /\ Path'[k] = Path[k - 1]
        BY <3>2, <1>1, PushLinkPath, StepsType
      <4>2. Path[k - 1] # None <=> k - 1 <= m
        <5>1. k - 1 \in 0 .. m \/ k - 1 > m
          BY <4>1, <1>4, StepsType
        <5>2. k - 1 \in 0 .. m => k - 1 <= m
          BY <1>4
        <5>3. k - 1 > m => ~ (k - 1 <= m)
          BY <1>4, StepsType
        <5>4. QED
          BY <5>1, <5>2, <5>3, <4>1, <1>1, LastFacts, DummyAssumption
      <4>3. QED
        BY <4>1, <4>2, <1>4, StepsType
    <3>3. QED
      BY <3>1, <3>2
  <2>2. {k \in Steps : k > 0 /\ Path'[k] # None} = 1 .. m + 1
    BY <2>1, <1>1, <1>4, StepsType
  <2>3. Contents' = [k \in {k \in Steps : k > 0 /\ Path'[k] # None} |-> data'[Path'[k]]]
    BY DEF Contents
  <2>4. QED
    BY <2>2, <2>3
<1>7. Contents' = <<arg[t]>> \o Contents
  <2>1. /\ Contents \in Seq(Items) /\ Len(Contents) = m
        /\ \A k \in 1 .. m : Contents[k] = data[Path[k]]
    BY <1>1, ContentsType
  <2>2. <<arg[t]>> \o Contents =
          [k \in 1 .. m + 1 |-> IF k <= 1 THEN arg[t] ELSE Contents[k - 1]]
    BY <2>1, <1>4
  <2>3. \A k \in 1 .. m : data'[Path[k]] = data[Path[k]]
    <3>1. \A k \in 1 .. m : k \in 0 .. m /\ k # 0
      BY <1>4
    <3>2. \A k \in 1 .. m : Path[k] \in Nodes /\ Path[k] # Path[0]
      BY <3>1, <1>1, <1>4, LastFacts DEF LastIs
    <3>3. QED
      BY <3>2, <1>3, <1>4 DEF TypeOK
  <2>4. data'[Path[0]] = arg[t]
    BY <1>3, <1>4 DEF TypeOK
  <2>5. \A k \in 1 .. m + 1 : data'[Path'[k]] = IF k <= 1 THEN arg[t] ELSE Contents[k - 1]
    <3>1. \A k \in 1 .. m + 1 : (k = 1 /\ k - 1 = 0) \/ (~ (k <= 1) /\ k - 1 \in 1 .. m)
      BY <1>4
    <3>2. QED
      BY <3>1, <2>1, <2>3, <2>4, <1>5
  <2>6. QED
    BY <2>2, <2>5, <1>6
<1>8. QED
  BY <1>2, <1>3, <1>7, DequeGive

LEMMA DequeGet ==
  ASSUME IInv, NEW t \in Threads, GetPop(t)
  PROVE  /\ Contents # <<>> /\ Contents' = Tail(Contents)
         /\ InHands' = InHands \cup {Head(Contents)} /\ ret' = Head(Contents)
<1> USE DEF IInv
<1>1. PICK m \in Steps : m + 1 \in Steps /\ LastIs(m)
  BY DEF ListInv
<1>2. m \in Nat /\ m > 0 /\ next[head] = Path[1]
  BY <1>1, GetPopPath, LastFacts
<1>3. /\ Contents \in Seq(Items) /\ Len(Contents) = m
      /\ \A k \in 1 .. m : Contents[k] = data[Path[k]]
  BY <1>1, ContentsType
<1>4. /\ ret' = data[Path[1]] /\ held' = held \cup {data[Path[1]]} /\ arg' = arg
      /\ data' = [data EXCEPT ![Path[1]] = None]
  BY <1>2 DEF GetPop
<1>5. Contents # <<>> /\ Head(Contents) = data[Path[1]]
  BY <1>2, <1>3
<1>6. \A k \in 1 .. m - 1 : k \in Steps /\ Path'[k] = Path[k + 1]
  BY <1>1, <1>2, GetPopPath, StepsType
<1>7. {k \in Steps : k > 0 /\ Path'[k] # None} = 1 .. m - 1
  <2> SUFFICES ASSUME NEW k \in Steps PROVE k > 0 /\ Path'[k] # None <=> k \in 1 .. m - 1
    BY <1>6
  <2>1. CASE k \in 0 .. m - 1
    <3>1. k + 1 \in 0 .. m /\ Path'[k] = Path[k + 1]
      BY <2>1, <1>1, <1>2, GetPopPath
    <3>2. Path'[k] # None
      BY <3>1, <1>1, LastFacts, DummyAssumption
    <3>3. QED
      BY <3>2, <2>1, <1>2
  <2>2. CASE k = m
    BY <2>2, <1>1, <1>2, GetPopPath, LastFacts, StepsType
  <2>3. CASE k > m
    BY <2>3, <1>1, <1>2, GetPopPath, StepsType
  <2>4. QED
    BY <2>1, <2>2, <2>3, <1>2, StepsType
<1>8. Contents' = [k \in 1 .. m - 1 |-> data'[Path'[k]]]
  <2>1. Contents' = [k \in {k \in Steps : k > 0 /\ Path'[k] # None} |-> data'[Path'[k]]]
    BY DEF Contents
  <2>2. QED
    BY <2>1, <1>7
<1>9. Contents' = Tail(Contents)
  <2>1. Tail(Contents) = [k \in 1 .. m - 1 |-> Contents[k + 1]]
    <3>1. Tail(Contents) \in Seq(Items) /\ Len(Tail(Contents)) = m - 1
      BY <1>3, <1>5, HeadTailProperties
    <3>2. \A s \in Seq(Items) : s = [k \in 1 .. Len(s) |-> s[k]]
      OBVIOUS
    <3>3. \A k \in 1 .. m - 1 : Tail(Contents)[k] = Contents[k + 1]
      BY <1>2, <1>3, <1>5
    <3> DEFINE s == Tail(Contents)
    <3> HIDE DEF s
    <3>4. s = [k \in 1 .. m - 1 |-> s[k]] /\ \A k \in 1 .. m - 1 : s[k] = Contents[k + 1]
      BY <3>1, <3>2, <3>3 DEF s
    <3>5. s = [k \in 1 .. m - 1 |-> Contents[k + 1]]
      BY <3>4
    <3>6. QED
      BY <3>5 DEF s
  <2>2. \A k \in 1 .. m - 1 : data'[Path'[k]] = Contents[k + 1]
    <3>1. \A k \in 1 .. m - 1 : k + 1 \in 1 .. m /\ k + 1 \in 0 .. m /\ k + 1 # 1 /\ 1 \in 0 .. m
      BY <1>2
    <3>2. \A k \in 1 .. m - 1 : Path[k + 1] # Path[1] /\ Path[k + 1] \in Nodes
      BY <3>1, <1>1, LastFacts DEF LastIs
    <3>3. QED
      BY <3>1, <3>2, <1>3, <1>4, <1>6 DEF TypeOK
  <2>3. QED
    BY <2>1, <2>2, <1>8
<1>10. InHands' = InHands \cup {Head(Contents)}
  BY <1>4, <1>5 DEF InHands
<1>11. QED
  BY <1>4, <1>5, <1>9, <1>10

LEMMA DequeGetNothing ==
  ASSUME IInv, NEW t \in Threads, GetNothing(t)
  PROVE  Contents = <<>> /\ ret' = None /\ UNCHANGED <<Contents, InHands>>
<1> USE DEF IInv
<1>1. PICK m \in Steps : m + 1 \in Steps /\ LastIs(m)
  BY DEF ListInv
<1>2. m = 0
  <2>1. m > 0 => 1 \in 0 .. m /\ next[head] = Path[1]
    BY <1>1, LastFacts
  <2>2. m > 0 => next[head] # None
    BY <2>1, <1>1, LastFacts, DummyAssumption
  <2>3. QED
    BY <2>2, <1>1, LastFacts DEF GetNothing
<1>3. Contents = <<>>
  BY <1>1, <1>2, ContentsType
<1>4. ret' = None /\ UNCHANGED <<head, next, data, arg, held>>
  BY DEF GetNothing
<1>5. Path' = Path
  BY <1>4, PathSame
<1>6. QED
  BY <1>3, <1>4, <1>5 DEF Contents, InHands

LEMMA DequeStep ==
  ASSUME IInv, [Next]_vars
  PROVE  [Deque!Next]_<<Contents, InHands, ret>>
<1> USE DEF Deque!Next
<1>0. CASE UNCHANGED vars
  BY <1>0, DequeStutter DEF vars
<1>1. ASSUME NEW t \in Threads, Add(t) PROVE [Deque!Next]_<<Contents, InHands, ret>>
  <2>1. CASE \E x \in Items : AddAlloc(t, x)
    BY <2>1, DequeAlloc
  <2>2. CASE AddLock(t) \/ AddSwing(t)
    BY <2>2, DequeStutter DEF AddLock, AddSwing
  <2>3. CASE AddLink(t)
    <3>1. PICK x \in Items : x = arg[t]
      BY <2>3, DequeAdd
    <3>2. Deque!Add(x)
      BY <3>1, <2>3, DequeAdd DEF Deque!Add, InHands
    <3>3. QED
      BY <3>2
  <2>4. QED
    BY <1>1, <2>1, <2>2, <2>3 DEF Add
<1>2. ASSUME NEW t \in Pushers, Push(t) PROVE [Deque!Next]_<<Contents, InHands, ret>>
  <2>1. t \in Threads
    BY RolesAssumption
  <2>2. CASE \E x \in Items : PushAlloc(t, x)
    BY <2>1, <2>2, DequeAlloc
  <2>3. CASE PushLink(t)
    <3>1. PICK x \in Items : x = arg[t]
      BY <2>1, <2>3, DequePush
    <3>2. Deque!Push(x)
      BY <3>1, <2>1, <2>3, DequePush DEF Deque!Push, InHands
    <3>3. QED
      BY <3>2
  <2>4. QED
    BY <1>2, <2>2, <2>3 DEF Push
<1>3. ASSUME NEW t \in Threads, Get(t) PROVE [Deque!Next]_<<Contents, InHands, ret>>
  <2>1. CASE GetPop(t)
    BY <2>1, DequeGet DEF Deque!Get, InHands
  <2>2. CASE GetNothing(t)
    BY <2>2, DequeGetNothing DEF Deque!GetNothing, InHands
  <2>3. QED
    BY <1>3, <2>1, <2>2 DEF Get
<1>4. ASSUME NEW t \in Waiters, Wait(t) PROVE [Deque!Next]_<<Contents, InHands, ret>>
  BY <1>4, DequeStutter DEF Wait, WaitLock, WaitCheck, WaitSleep, WaitTimeout, WaitReturn
<1>5. QED
  BY <1>0, <1>1, <1>2, <1>3, <1>4 DEF Next

LEMMA DequeInit == Init => Deque!Init
<1> SUFFICES ASSUME Init PROVE Deque!Init
  OBVIOUS
<1>1. IInv
  BY InvInit
<1>2. PICK m \in Steps : m + 1 \in Steps /\ LastIs(m)
  BY <1>1 DEF IInv, ListInv
<1>3. m = 0
  <2>1. m > 0 => 1 \in 0 .. m /\ next[head] = Path[1]
    BY <1>1, <1>2, LastFacts DEF IInv
  <2>2. m > 0 => next[head] # None
    BY <2>1, <1>1, <1>2, LastFacts, DummyAssumption DEF IInv
  <2>3. next[head] = None
    BY DummyAssumption DEF Init
  <2>4. QED
    BY <2>2, <2>3, <1>1, <1>2, LastFacts DEF IInv
<1>4. Contents = <<>>
  BY <1>1, <1>2, <1>3, ContentsType
<1>5. InHands = Items
  BY DEF Init, InHands
<1>6. QED
  BY <1>4, <1>5 DEF Deque!Init, InHands, Init

(* Every behaviour of the two-lock queue, for any number of threads adding *)
(* at the tail, pushing at the head and taking from the head at once, is a *)
(* behaviour of the deque lib/m_queue.h promises.                          *)
THEOREM QueueImplementsDeque == Spec => DequeSpec
<1>1. IInv /\ [Next]_vars => [Deque!Next]_<<Contents, InHands, ret>>
  BY DequeStep
<1>2. QED
  BY <1>1, DequeInit, QueueListInvariant, PTL DEF Spec, DequeSpec, Deque!Spec, InHands
=============================================================================
