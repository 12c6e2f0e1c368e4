--------------------------- MODULE Replies_proofs ---------------------------
(***************************************************************************)
(* Proofs about Replies, for every set of replies, threads and queues:     *)
(* each reply is in one place, whatever the threads do; and when one       *)
(* thread sends, replies are written whole, in order and to the socket     *)
(* they were meant for.                                                    *)
(***************************************************************************)
EXTENDS Replies, FiniteSetTheorems, SequenceTheorems, WellFoundedInduction, TLAPS

-----------------------------------------------------------------------------
(* Sequences.                                                              *)

Elems(s) == {s[k] : k \in 1 .. Len(s)}

LEMMA AppendFacts ==
  ASSUME NEW S, NEW s \in Seq(S), NEW x \in S
  PROVE  /\ Append(s, x) \in Seq(S) /\ Append(s, x) # <<>>
         /\ Elems(Append(s, x)) = Elems(s) \cup {x}
         /\ x \notin Elems(s) /\ Distinct(s) => Distinct(Append(s, x))
         /\ Head(Append(s, x)) = IF s = <<>> THEN x ELSE Head(s)
<1>1. /\ Append(s, x) \in Seq(S) /\ Append(s, x) # <<>> /\ Len(Append(s, x)) = Len(s) + 1
      /\ \A k \in 1 .. Len(s) : Append(s, x)[k] = s[k]
      /\ Append(s, x)[Len(s) + 1] = x
  BY AppendProperties
<1>2. \A k \in 1 .. Len(s) + 1 : k \in 1 .. Len(s) \/ k = Len(s) + 1
  OBVIOUS
<1>3. 1 .. Len(s) \subseteq 1 .. Len(s) + 1 /\ Len(s) + 1 \in 1 .. Len(s) + 1
  OBVIOUS
<1> DEFINE a == Append(s, x)
<1> HIDE DEF a
<1>4. /\ Len(a) = Len(s) + 1 /\ a[Len(s) + 1] = x
      /\ \A k \in 1 .. Len(s) : a[k] = s[k]
  BY <1>1 DEF a
<1>5. Elems(a) = Elems(s) \cup {x}
  BY <1>2, <1>3, <1>4 DEF Elems
<1>6. x \notin Elems(s) /\ Distinct(s) => Distinct(a)
  BY <1>2, <1>3, <1>4 DEF Elems, Distinct
<1>7. Head(Append(s, x)) = IF s = <<>> THEN x ELSE Head(s)
  BY HeadTailAppend
<1>8. QED
  BY <1>1, <1>5, <1>6, <1>7 DEF a

LEMMA PushFacts ==
  ASSUME NEW S, NEW s \in Seq(S), NEW x \in S
  PROVE  /\ <<x>> \o s \in Seq(S) /\ <<x>> \o s # <<>> /\ Len(<<x>> \o s) = Len(s) + 1
         /\ (<<x>> \o s)[1] = x /\ Head(<<x>> \o s) = x
         /\ \A k \in 1 .. Len(s) : (<<x>> \o s)[k + 1] = s[k]
         /\ Elems(<<x>> \o s) = Elems(s) \cup {x}
         /\ x \notin Elems(s) /\ Distinct(s) => Distinct(<<x>> \o s)
<1> DEFINE a == <<x>> \o s
<1>1. /\ a \in Seq(S) /\ a # <<>> /\ Len(a) = Len(s) + 1 /\ a[1] = x /\ Head(a) = x
      /\ \A k \in 1 .. Len(s) : a[k + 1] = s[k]
  OBVIOUS
<1> HIDE DEF a
<1>2. \A k \in 1 .. Len(s) + 1 : k = 1 \/ (k - 1 \in 1 .. Len(s) /\ (k - 1) + 1 = k)
  OBVIOUS
<1>3. \A k \in 1 .. Len(s) + 1 : k = 1 \/ \E j \in 1 .. Len(s) : k = j + 1 /\ a[k] = s[j]
  BY <1>1, <1>2
<1>4. \A k \in 1 .. Len(s) : k + 1 \in 1 .. Len(s) + 1
  OBVIOUS
<1>5. 1 \in 1 .. Len(s) + 1
  OBVIOUS
<1>6. Elems(a) = Elems(s) \cup {x}
  <2>1. ASSUME NEW y \in Elems(a) PROVE y \in Elems(s) \cup {x}
    <3>1. PICK k \in 1 .. Len(s) + 1 : y = a[k]
      BY <2>1, <1>1 DEF Elems
    <3>2. QED
      BY <3>1, <1>1, <1>3 DEF Elems
  <2>2. \A y \in Elems(s) : y \in Elems(a)
    BY <1>1, <1>4 DEF Elems
  <2>3. x \in Elems(a)
    BY <1>1, <1>5 DEF Elems
  <2>4. QED
    BY <2>1, <2>2, <2>3
<1>7. ASSUME x \notin Elems(s), Distinct(s) PROVE Distinct(a)
  <2>1. \A k \in 1 .. Len(s) : s[k] # x
    BY <1>7 DEF Elems
  <2> SUFFICES ASSUME NEW j \in 1 .. Len(s) + 1, NEW k \in 1 .. Len(s) + 1, a[j] = a[k]
               PROVE  j = k
    BY <1>1 DEF Distinct
  <2>2. CASE j = 1 \/ k = 1
    <3>1. \A i \in 1 .. Len(s) + 1 : i # 1 => a[i] # a[1]
      BY <2>1, <1>1, <1>3
    <3>2. QED
      BY <2>2, <3>1
  <2>3. CASE j # 1 /\ k # 1
    <3>1. PICK i \in 1 .. Len(s), l \in 1 .. Len(s) :
            j = i + 1 /\ a[j] = s[i] /\ k = l + 1 /\ a[k] = s[l]
      BY <2>3, <1>3
    <3>2. QED
      BY <3>1, <1>7 DEF Distinct
  <2>4. QED
    BY <2>2, <2>3
<1>8. QED
  BY <1>1, <1>6, <1>7 DEF a

LEMMA TailFacts ==
  ASSUME NEW S, NEW s \in Seq(S), s # <<>>
  PROVE  /\ Tail(s) \in Seq(S) /\ Head(s) \in S /\ Head(s) \in Elems(s) /\ Head(s) = s[1]
         /\ Len(Tail(s)) = Len(s) - 1
         /\ \A k \in 1 .. Len(s) - 1 : Tail(s)[k] = s[k + 1]
         /\ Distinct(s) => Distinct(Tail(s)) /\ Elems(Tail(s)) = Elems(s) \ {Head(s)}
<1> DEFINE a == Tail(s)
<1>1. a \in Seq(S) /\ Head(s) \in S /\ Len(a) = Len(s) - 1 /\ Len(s) \in Nat /\ Len(s) >= 1
  BY HeadTailProperties
<1>2. Head(s) = s[1] /\ \A k \in 1 .. Len(s) - 1 : a[k] = s[k + 1]
  OBVIOUS
<1> HIDE DEF a
<1>3. Head(s) \in Elems(s)
  BY <1>1, <1>2 DEF Elems
<1>4. /\ \A k \in 1 .. Len(s) - 1 : k + 1 \in 1 .. Len(s) /\ k + 1 # 1
      /\ \A k \in 1 .. Len(s) : k = 1 \/ (k - 1 \in 1 .. Len(s) - 1 /\ (k - 1) + 1 = k)
      /\ 1 \in 1 .. Len(s)
      /\ \A j, k \in 1 .. Len(s) - 1 : j + 1 = k + 1 => j = k
  BY <1>1
<1>5. \A k \in 1 .. Len(s) : k = 1 \/ \E j \in 1 .. Len(s) - 1 : a[j] = s[k]
  <2> SUFFICES ASSUME NEW k \in 1 .. Len(s), k # 1
               PROVE  \E j \in 1 .. Len(s) - 1 : a[j] = s[k]
    OBVIOUS
  <2>1. k - 1 \in 1 .. Len(s) - 1 /\ (k - 1) + 1 = k
    BY <1>4
  <2>2. a[k - 1] = s[k]
    BY <2>1, <1>2
  <2>3. QED
    BY <2>1, <2>2
<1>6. ASSUME Distinct(s) PROVE Distinct(a)
  BY <1>1, <1>2, <1>4, <1>6 DEF Distinct
<1>7. ASSUME Distinct(s) PROVE Elems(a) = Elems(s) \ {Head(s)}
  <2>1. \A k \in 1 .. Len(s) - 1 : s[k + 1] # s[1]
    BY <1>4, <1>7 DEF Distinct
  <2>2. \A y \in Elems(a) : y \in Elems(s) /\ y # Head(s)
    BY <2>1, <1>1, <1>2, <1>4 DEF Elems
  <2>3. ASSUME NEW y \in Elems(s) PROVE y = Head(s) \/ y \in Elems(a)
    <3>1. PICK k \in 1 .. Len(s) : y = s[k]
      BY <2>3 DEF Elems
    <3>2. QED
      BY <3>1, <1>1, <1>2, <1>5 DEF Elems
  <2>4. QED
    BY <2>2, <2>3
<1>8. QED
  BY <1>1, <1>2, <1>3, <1>6, <1>7 DEF a

LEMMA EmptyFacts == Elems(<<>>) = {} /\ Distinct(<<>>)
  BY DEF Elems, Distinct

LEMMA LeastNat ==
  ASSUME NEW T \in SUBSET Nat, T # {}
  PROVE  \E n \in T : \A m \in T : n <= m
<1>1. PICK n \in T : \A m \in T : ~ (<<m, n>> \in OpToRel(<, Nat))
  BY WFMin, NatLessThanWellFounded
<1>2. \A m \in T : ~ (m < n)
  BY <1>1 DEF OpToRel
<1>3. QED
  BY <1>2

LEMMA FirstAckedIs ==
  ASSUME NEW s \in Seq(Replies)
  PROVE  FirstAcked(s) = None \/ FirstAcked(s) \in Elems(s)
<1> DEFINE ks == {k \in 1 .. Len(s) : s[k] \in Acked}
<1>1. CASE ks = {}
  BY <1>1 DEF FirstAcked
<1>2. CASE ks # {}
  <2>1. ks \in SUBSET Nat
    OBVIOUS
  <2>2. \E k \in ks : \A j \in ks : k <= j
    <3> HIDE DEF ks
    <3>1. QED
      BY <1>2, <2>1, LeastNat
  <2>3. PICK k \in ks : FirstAcked(s) = s[k]
    BY <1>2, <2>2 DEF FirstAcked
  <2>4. QED
    BY <2>3 DEF Elems
<1>3. QED
  BY <1>1, <1>2

-----------------------------------------------------------------------------
(* What the bookkeeping of a step does.                                    *)

LEMMA CardType == Cardinality(Replies) \in Nat
  BY RepliesAssumption, FS_CardinalityType

LEMMA NoneIsNone == None \notin Replies /\ None \notin Queues /\ None \notin Senders
  BY NoneAssumption

LEMMA InIs == \A q : In(q) = Elems(items[q])
  BY DEF In, Elems

LEMMA SettleFacts ==
  ASSUME TypeOK, NEW f \in [Replies -> Fates], Settle(f)
  PROVE  /\ fate' = f
         /\ left' \in [Replies -> 0 .. Length]
         /\ place' \in [Replies -> 0 .. Cardinality(Replies)]
         /\ for' \in [Replies -> 0 .. Sockets]
         /\ \A r \in Replies : f[r] \in {"unsent", "pending"} =>
              left'[r] = left[r] /\ place'[r] = place[r] /\ for'[r] = for[r]
         /\ \A r \in Replies : f[r] \notin {"unsent", "pending"} =>
              left'[r] = 0 /\ place'[r] = 0 /\ for'[r] = 0
         /\ \A r \in Replies : place'[r] <= place[r]
<1>1. 0 \in 0 .. Length /\ 0 \in 0 .. Cardinality(Replies) /\ 0 \in 0 .. Sockets
  BY CardType, LengthAssumption, BoundsAssumption
<1>2. /\ left' = [r \in Replies |-> IF f[r] \in {"unsent", "pending"} THEN left[r] ELSE 0]
      /\ place' = [r \in Replies |-> IF f[r] \in {"unsent", "pending"} THEN place[r] ELSE 0]
      /\ for' = [r \in Replies |-> IF f[r] \in {"unsent", "pending"} THEN for[r] ELSE 0]
      /\ fate' = f
  BY DEF Settle
<1>3. /\ left' \in [Replies -> 0 .. Length]
      /\ place' \in [Replies -> 0 .. Cardinality(Replies)]
      /\ for' \in [Replies -> 0 .. Sockets]
  BY <1>1, <1>2 DEF TypeOK
<1>4. \A r \in Replies : place'[r] <= place[r]
  BY <1>2, CardType DEF TypeOK
<1>5. QED
  BY <1>2, <1>3, <1>4

LEMMA FinishFacts ==
  ASSUME TypeOK, NEW rs, NEW g \in Fates, Finish(rs, g)
  PROVE  /\ fate' \in [Replies -> Fates]
         /\ \A r \in Replies : fate'[r] = IF r \in rs THEN g ELSE fate[r]
         /\ left' \in [Replies -> 0 .. Length]
         /\ place' \in [Replies -> 0 .. Cardinality(Replies)]
         /\ for' \in [Replies -> 0 .. Sockets]
         /\ \A r \in Replies : fate'[r] \in {"unsent", "pending"} =>
              left'[r] = left[r] /\ place'[r] = place[r] /\ for'[r] = for[r]
         /\ \A r \in Replies : fate'[r] \notin {"unsent", "pending"} =>
              left'[r] = 0 /\ place'[r] = 0 /\ for'[r] = 0
         /\ \A r \in Replies : place'[r] <= place[r]
<1> DEFINE f == [r \in Replies |-> IF r \in rs THEN g ELSE fate[r]]
<1>1. f \in [Replies -> Fates] /\ Settle(f)
  BY DEF Finish, TypeOK
<1>2. \A r \in Replies : f[r] = IF r \in rs THEN g ELSE fate[r]
  OBVIOUS
<1> HIDE DEF f
<1>3. QED
  BY <1>1, <1>2, SettleFacts

LEMMA CountKept ==
  ASSUME TypeOK, CountInv, place' \in [Replies -> 0 .. Cardinality(Replies)],
         \A r \in Replies : fate[r] # "unsent" => fate'[r] # "unsent",
         \A r \in Replies : fate[r] # "unsent" /\ ~WithSender(r) => ~WithSender(r)',
         \A r \in Replies : place'[r] <= place[r]
  PROVE  \A r \in Replies : place'[r] <= Cardinality(Gone')
<1>1. Gone \subseteq Gone' /\ Gone' \subseteq Replies
  BY DEF Gone
<1>2. IsFiniteSet(Gone') /\ IsFiniteSet(Gone)
  BY <1>1, RepliesAssumption, FS_Subset DEF Gone
<1>3. Cardinality(Gone) <= Cardinality(Gone')
  BY <1>1, <1>2, FS_Subset
<1>4. Cardinality(Gone) \in Nat /\ Cardinality(Gone') \in Nat
  BY <1>2, FS_CardinalityType
<1>5. \A r \in Replies : place[r] <= Cardinality(Gone) /\ place[r] \in Nat /\ place'[r] \in Nat
  BY CardType DEF CountInv, TypeOK
<1>6. QED
  BY <1>3, <1>4, <1>5

(* The two clauses of CountInv after a step that disposes of replies, and  *)
(* after one that disposes of none.                                        *)
LEMMA CountSettled ==
  ASSUME TypeOK, CountInv, NEW f \in [Replies -> Fates], Settle(f),
         \A r \in Replies : fate[r] # "unsent" => f[r] # "unsent",
         \A r \in Replies : fate[r] # "unsent" /\ ~WithSender(r) => ~WithSender(r)'
  PROVE  CountInv'
<1>1. /\ fate' = f
      /\ place' \in [Replies -> 0 .. Cardinality(Replies)]
      /\ \A r \in Replies : f[r] \notin {"unsent", "pending"} =>
              left'[r] = 0 /\ place'[r] = 0 /\ for'[r] = 0
      /\ \A r \in Replies : place'[r] <= place[r]
  BY SettleFacts
<1>2. \A r \in Replies : place'[r] <= Cardinality(Gone')
  BY <1>1, CountKept
<1>3. QED
  BY <1>1, <1>2 DEF CountInv

LEMMA CountSame ==
  ASSUME TypeOK, CountInv, UNCHANGED <<fate, place, for>>,
         \A r \in Replies : fate[r] \notin {"unsent", "pending"} => left'[r] = left[r],
         \A r \in Replies : fate[r] # "unsent" /\ ~WithSender(r) => ~WithSender(r)'
  PROVE  CountInv'
<1>1. place' \in [Replies -> 0 .. Cardinality(Replies)]
  BY DEF TypeOK
<1>2. \A r \in Replies : place'[r] <= place[r] /\ (fate[r] # "unsent" => fate'[r] # "unsent")
  BY CardType DEF TypeOK
<1>3. \A r \in Replies : place'[r] <= Cardinality(Gone')
  BY <1>1, <1>2, CountKept
<1>4. QED
  BY <1>3 DEF CountInv

LEMMA SendersSame ==
  ASSUME UNCHANGED letter
  PROVE  \A r : WithSender(r)' <=> WithSender(r)
  BY DEF WithSender

-----------------------------------------------------------------------------
(* HomeInv in the terms the steps are written in.                          *)

Pending(r) ==
  \/ r = hand \/ r = kept
  \/ \E t \in Senders : letter[t] = r
  \/ \E q \in Queues : r \in Elems(items[q])
Plain ==
  /\ \A r \in Replies : fate[r] = "pending" <=> Pending(r)
  /\ hand # None => /\ hand # kept
                    /\ \A t \in Senders : letter[t] # hand
                    /\ \A q \in Queues : hand \notin Elems(items[q])
  /\ kept # None => /\ \A t \in Senders : letter[t] # kept
                    /\ \A q \in Queues : kept \notin Elems(items[q])
  /\ \A t \in Senders, q \in Queues : letter[t] # None => letter[t] \notin Elems(items[q])
  /\ \A t, u \in Senders : letter[t] = letter[u] /\ letter[t] # None => t = u
  /\ \A q, p \in Queues : \A r \in Elems(items[q]) : r \in Elems(items[p]) => q = p
  /\ \A q \in Queues : Distinct(items[q])

LEMMA HomeIsPlain == ASSUME TypeOK PROVE HomeInv <=> Plain
<1>1. \A q : In(q) = Elems(items[q])
  BY DEF In, Elems
<1>2. \A q, p \in Queues : In(q) \cap In(p) # {} <=>
        \E r \in Elems(items[q]) : r \in Elems(items[p])
  BY <1>1
<1>3. \A r : WithSender(r) <=> \E t \in Senders : letter[t] = r
  BY DEF WithSender
<1>4. \A r : InQueue(r) <=> \E q \in Queues : r \in Elems(items[q])
  BY <1>1 DEF InQueue
<1>5. \A t \in Senders : letter[t] \in Replies \/ letter[t] = None
  BY DEF TypeOK
<1>6. (\A r \in Replies : WithSender(r) => ~InQueue(r)) <=>
      (\A t \in Senders, q \in Queues : letter[t] # None => letter[t] \notin Elems(items[q]))
  BY <1>3, <1>4, <1>5, NoneIsNone
<1>7. QED
  BY <1>2, <1>3, <1>4, <1>6 DEF HomeInv, Plain, Pending

LEMMA HomeIsPlainNext == ASSUME TypeOK' PROVE HomeInv' <=> Plain'
<1>1. \A q : In(q)' = Elems(items'[q])
  BY DEF In, Elems
<1>2. \A q, p \in Queues : (In(q) \cap In(p) # {})' <=>
        \E r \in Elems(items'[q]) : r \in Elems(items'[p])
  BY <1>1
<1>3. \A r : WithSender(r)' <=> \E t \in Senders : letter'[t] = r
  BY DEF WithSender
<1>4. \A r : InQueue(r)' <=> \E q \in Queues : r \in Elems(items'[q])
  BY <1>1 DEF InQueue
<1>5. \A t \in Senders : letter'[t] \in Replies \/ letter'[t] = None
  BY DEF TypeOK
<1>6. (\A r \in Replies : WithSender(r)' => ~InQueue(r)') <=>
      (\A t \in Senders, q \in Queues : letter'[t] # None => letter'[t] \notin Elems(items'[q]))
  BY <1>3, <1>4, <1>5, NoneIsNone
<1>7. QED
  BY <1>2, <1>3, <1>4, <1>6 DEF HomeInv, Plain, Pending

(* Replies only leave the places they were in.                             *)
LEMMA PlainShrinks ==
  ASSUME Plain, hand' \in {hand, None}, kept' \in {kept, None},
         \A t \in Senders : letter'[t] \in {letter[t], None},
         \A q \in Queues : Distinct(items'[q]) /\ Elems(items'[q]) \subseteq Elems(items[q]),
         \A r \in Replies : fate'[r] = "pending" <=> Pending(r)'
  PROVE  Plain'
<1>1. hand' # None => hand' = hand
  OBVIOUS
<1>2. kept' # None => kept' = kept
  OBVIOUS
<1>3. \A t \in Senders : letter'[t] # None => letter'[t] = letter[t]
  OBVIOUS
<1>4. \A q \in Queues : \A r \in Elems(items'[q]) : r \in Elems(items[q])
  OBVIOUS
<1>5. hand' # None => /\ hand' # kept'
                      /\ \A t \in Senders : letter'[t] # hand'
                      /\ \A q \in Queues : hand' \notin Elems(items'[q])
  BY <1>1, <1>2, <1>3, <1>4 DEF Plain
<1>6. kept' # None => /\ \A t \in Senders : letter'[t] # kept'
                      /\ \A q \in Queues : kept' \notin Elems(items'[q])
  BY <1>2, <1>3, <1>4 DEF Plain
<1>7. \A t \in Senders, q \in Queues : letter'[t] # None => letter'[t] \notin Elems(items'[q])
  BY <1>3, <1>4 DEF Plain
<1>8. \A t, u \in Senders : letter'[t] = letter'[u] /\ letter'[t] # None => t = u
  BY <1>3 DEF Plain
<1>9. \A q, p \in Queues : \A r \in Elems(items'[q]) : r \in Elems(items'[p]) => q = p
  BY <1>4 DEF Plain
<1>10. QED
  BY <1>5, <1>6, <1>7, <1>8, <1>9 DEF Plain

(* No reply moves.                                                         *)
LEMMA PlainSame ==
  ASSUME Plain, UNCHANGED <<hand, kept, letter, items>>,
         \A r \in Replies : fate'[r] = "pending" <=> fate[r] = "pending"
  PROVE  Plain'
<1>1. \A r : Pending(r)' <=> Pending(r)
  BY DEF Pending
<1>2. QED
  BY <1>1 DEF Plain

(* A reply goes from a thread into a queue.                                *)
LEMMA PlainAdded ==
  ASSUME Plain, NEW t \in Senders, NEW q \in Queues, NEW x \in Replies, letter[t] = x,
         UNCHANGED <<hand, kept, fate>>,
         letter'[t] = None, \A u \in Senders \ {t} : letter'[u] = letter[u],
         Elems(items'[q]) = Elems(items[q]) \cup {x},
         \A p \in Queues \ {q} : items'[p] = items[p],
         Distinct(items'[q])
  PROVE  Plain'
<1>1. x # None
  BY NoneIsNone
<1>2. /\ x # hand /\ x # kept
      /\ \A u \in Senders \ {t} : letter[u] # x
      /\ \A p \in Queues : x \notin Elems(items[p])
  BY <1>1 DEF Plain
<1>3. \A p \in Queues : \A r : r \in Elems(items'[p]) <=>
         r \in Elems(items[p]) \/ (r = x /\ p = q)
  OBVIOUS
<1>4. \A r \in Replies : Pending(r)' <=> Pending(r)
  BY <1>1, <1>3, NoneIsNone DEF Pending
<1>5. hand' # None => /\ hand' # kept'
                      /\ \A u \in Senders : letter'[u] # hand'
                      /\ \A p \in Queues : hand' \notin Elems(items'[p])
  BY <1>2, <1>3 DEF Plain
<1>6. kept' # None => /\ \A u \in Senders : letter'[u] # kept'
                      /\ \A p \in Queues : kept' \notin Elems(items'[p])
  BY <1>2, <1>3 DEF Plain
<1>7. \A u \in Senders, p \in Queues : letter'[u] # None => letter'[u] \notin Elems(items'[p])
  BY <1>2, <1>3 DEF Plain
<1>8. \A v, u \in Senders : letter'[v] = letter'[u] /\ letter'[v] # None => v = u
  BY DEF Plain
<1>9. \A o, p \in Queues : \A r \in Elems(items'[o]) : r \in Elems(items'[p]) => o = p
  BY <1>2, <1>3 DEF Plain
<1>10. QED
  BY <1>4, <1>5, <1>6, <1>7, <1>8, <1>9 DEF Plain

(* A reply goes from a queue to the worker.                                *)
LEMMA PlainTaken ==
  ASSUME Plain, NEW q \in Queues, NEW x \in Replies, x \in Elems(items[q]),
         UNCHANGED <<kept, fate, letter>>,
         hand = None, hand' = x,
         Elems(items'[q]) = Elems(items[q]) \ {x},
         \A p \in Queues \ {q} : items'[p] = items[p],
         Distinct(items'[q])
  PROVE  Plain'
<1>1. x # None
  BY NoneIsNone
<1>2. /\ x # kept
      /\ \A u \in Senders : letter[u] # x
      /\ \A p \in Queues \ {q} : x \notin Elems(items[p])
  BY <1>1 DEF Plain
<1>3. \A p \in Queues : \A r : r \in Elems(items'[p]) <=>
         r \in Elems(items[p]) /\ r # x
  BY <1>2
<1>4. \A r \in Replies : Pending(r)' <=> Pending(r)
  BY <1>1, <1>3, NoneIsNone DEF Pending
<1>5. hand' # None => /\ hand' # kept'
                      /\ \A u \in Senders : letter'[u] # hand'
                      /\ \A p \in Queues : hand' \notin Elems(items'[p])
  BY <1>2, <1>3 DEF Plain
<1>6. kept' # None => /\ \A u \in Senders : letter'[u] # kept'
                      /\ \A p \in Queues : kept' \notin Elems(items'[p])
  BY <1>2, <1>3 DEF Plain
<1>7. \A u \in Senders, p \in Queues : letter'[u] # None => letter'[u] \notin Elems(items'[p])
  BY <1>2, <1>3 DEF Plain
<1>8. \A v, u \in Senders : letter'[v] = letter'[u] /\ letter'[v] # None => v = u
  BY DEF Plain
<1>9. \A o, p \in Queues : \A r \in Elems(items'[o]) : r \in Elems(items'[p]) => o = p
  BY <1>2, <1>3 DEF Plain
<1>10. QED
  BY <1>4, <1>5, <1>6, <1>7, <1>8, <1>9 DEF Plain

(* The worker puts its reply into a queue.                                 *)
LEMMA PlainPutBack ==
  ASSUME Plain, NEW q \in Queues, hand \in Replies,
         UNCHANGED <<kept, fate, letter>>, hand' = None,
         Elems(items'[q]) = Elems(items[q]) \cup {hand},
         \A p \in Queues \ {q} : items'[p] = items[p],
         Distinct(items'[q])
  PROVE  Plain'
<1>1. hand # None
  BY NoneIsNone
<1>2. /\ hand # kept
      /\ \A u \in Senders : letter[u] # hand
      /\ \A p \in Queues : hand \notin Elems(items[p])
  BY <1>1 DEF Plain
<1>3. \A p \in Queues : \A r : r \in Elems(items'[p]) <=>
         r \in Elems(items[p]) \/ (r = hand /\ p = q)
  OBVIOUS
<1>4. \A r \in Replies : Pending(r)' <=> Pending(r)
  BY <1>1, <1>3, NoneIsNone DEF Pending
<1>5. kept' # None => /\ \A u \in Senders : letter'[u] # kept'
                      /\ \A p \in Queues : kept' \notin Elems(items'[p])
  BY <1>2, <1>3 DEF Plain
<1>6. \A u \in Senders, p \in Queues : letter'[u] # None => letter'[u] \notin Elems(items'[p])
  BY <1>2, <1>3 DEF Plain
<1>7. \A v, u \in Senders : letter'[v] = letter'[u] /\ letter'[v] # None => v = u
  BY DEF Plain
<1>8. \A o, p \in Queues : \A r \in Elems(items'[o]) : r \in Elems(items'[p]) => o = p
  BY <1>2, <1>3 DEF Plain
<1>9. QED
  BY <1>4, <1>5, <1>6, <1>7, <1>8 DEF Plain

-----------------------------------------------------------------------------
(* Steps that move no reply.                                               *)

LEMMA QuietKept ==
  ASSUME IInv, UNCHANGED <<hand, kept, letter, items, fate, place, for>>,
         \A r \in Replies : fate[r] \notin {"unsent", "pending"} => left'[r] = left[r],
         TypeOK', QueueInv', WorkerInv'
  PROVE  IInv'
<1> USE DEF IInv
<1>1. HomeInv'
  BY HomeIsPlain, HomeIsPlainNext, PlainSame
<1>2. CountInv'
  BY CountSame, SendersSame
<1>3. QED
  BY <1>1, <1>2

-----------------------------------------------------------------------------
(* server_send_reply.                                                      *)

LEMMA SendInv ==
  ASSUME IInv, NEW t \in Senders, NEW r \in Replies, Send(t, r)
  PROVE  IInv'
<1> USE DEF IInv
<1>1. /\ at[t] = "idle" /\ fate[r] = "unsent"
      /\ UNCHANGED <<socket, queues, pc, hand, kept, ptr, elapsed>>
  BY DEF Send
<1>2. UNCHANGED <<gen, opened, mine, losses, work, items, live>>
  BY <1>1 DEF socket, queues
<1>3. WorkerInv'
  BY <1>1, <1>2 DEF WorkerInv
<1>4. CASE Finish({r}, "dropped") /\ UNCHANGED <<at, letter>>
  <2>1. "dropped" \in Fates
    BY DEF Fates
  <2>2. /\ fate' \in [Replies -> Fates]
        /\ \A u \in Replies : fate'[u] = IF u \in {r} THEN "dropped" ELSE fate[u]
        /\ left' \in [Replies -> 0 .. Length]
        /\ place' \in [Replies -> 0 .. Cardinality(Replies)]
        /\ for' \in [Replies -> 0 .. Sockets]
        /\ \A u \in Replies : fate'[u] \notin {"unsent", "pending"} =>
              left'[u] = 0 /\ place'[u] = 0 /\ for'[u] = 0
        /\ \A u \in Replies : place'[u] <= place[u]
    BY <1>4, <2>1, FinishFacts
  <2>3. TypeOK'
    BY <1>1, <1>2, <1>4, <2>2 DEF TypeOK
  <2>4. HomeInv'
    BY <1>1, <1>2, <1>4, <2>2, <2>3, HomeIsPlain, HomeIsPlainNext, PlainSame
  <2>5. QueueInv'
    BY <1>1, <1>2, <1>4 DEF QueueInv
  <2>6. CountInv'
    BY <1>4, <2>2, CountKept DEF CountInv, WithSender
  <2>7. QED
    BY <1>3, <2>3, <2>4, <2>5, <2>6
<1>5. CASE /\ Finish({r}, "pending") /\ SenderGoto(t, "alloc")
           /\ letter' = [letter EXCEPT ![t] = r]
  <2>1. "pending" \in Fates
    BY DEF Fates
  <2>2. /\ fate' \in [Replies -> Fates]
        /\ \A u \in Replies : fate'[u] = IF u \in {r} THEN "pending" ELSE fate[u]
        /\ left' \in [Replies -> 0 .. Length]
        /\ place' \in [Replies -> 0 .. Cardinality(Replies)]
        /\ for' \in [Replies -> 0 .. Sockets]
        /\ \A u \in Replies : fate'[u] \notin {"unsent", "pending"} =>
              left'[u] = 0 /\ place'[u] = 0 /\ for'[u] = 0
        /\ \A u \in Replies : place'[u] <= place[u]
    BY <1>5, <2>1, FinishFacts
  <2>3. /\ at' = [at EXCEPT ![t] = "alloc"] /\ letter[t] = None
        /\ letter'[t] = r /\ at'[t] = "alloc"
        /\ \A u \in Senders \ {t} : letter'[u] = letter[u] /\ at'[u] = at[u]
    BY <1>1, <1>5 DEF SenderGoto, TypeOK, QueueInv
  <2>4. TypeOK'
    BY <1>1, <1>2, <1>5, <2>2, <2>3 DEF TypeOK
  <2>5. \A u \in Replies : WithSender(u)' <=> WithSender(u) \/ u = r
    BY <2>3, NoneIsNone DEF WithSender
  <2>6. r # hand /\ r # kept /\ ~WithSender(r) /\ ~InQueue(r)
    BY <1>1 DEF HomeInv
  <2>7. HomeInv'
    <3>1. Plain /\ r \in Replies
      BY HomeIsPlain
    <3>2. ~Pending(r) /\ r # None
      BY <1>1, <3>1, NoneIsNone DEF Plain
    <3>3. \A u \in Replies : Pending(u)' <=> Pending(u) \/ u = r
      BY <1>1, <1>2, <2>3, NoneIsNone DEF Pending
    <3>4. \A u \in Replies : fate'[u] = "pending" <=> Pending(u)'
      BY <2>2, <3>1, <3>3 DEF Plain
    <3>5. /\ r # hand /\ r # kept /\ \A u \in Senders : letter[u] # r
          /\ \A q \in Queues : r \notin Elems(items[q])
      BY <3>2 DEF Pending
    <3>6. hand' = hand /\ kept' = kept /\ items' = items
      BY <1>1, <1>2
    <3>7. /\ hand # None => \A u \in Senders : letter'[u] # hand
          /\ kept # None => \A u \in Senders : letter'[u] # kept
      BY <2>3, <3>1, <3>5 DEF Plain
    <3>8. \A u \in Senders, q \in Queues : letter'[u] # None => letter'[u] \notin Elems(items[q])
      BY <2>3, <3>1, <3>5 DEF Plain
    <3>9. \A v, u \in Senders : letter'[v] = letter'[u] /\ letter'[v] # None => v = u
      BY <2>3, <3>1, <3>5 DEF Plain
    <3>10. Plain'
      BY <3>1, <3>4, <3>6, <3>7, <3>8, <3>9 DEF Plain
    <3>11. QED
      BY <2>4, <3>10, HomeIsPlainNext
  <2>8. QueueInv'
    BY <1>1, <1>2, <2>3, NoneIsNone DEF QueueInv
  <2>9. CountInv'
    <3>1. \A u \in Replies : fate[u] # "unsent" /\ ~WithSender(u) => ~WithSender(u)'
      BY <1>1, <2>5
    <3>2. \A u \in Replies : fate[u] # "unsent" => fate'[u] # "unsent"
      BY <2>2
    <3>3. \A u \in Replies : place'[u] <= Cardinality(Gone')
      BY <2>2, <3>1, <3>2, CountKept
    <3>4. QED
      BY <2>2, <3>3 DEF CountInv
  <2>10. QED
    BY <1>3, <2>4, <2>7, <2>8, <2>9
<1>6. QED
  BY <1>4, <1>5 DEF Send

LEMMA SendAllocInv ==
  ASSUME IInv, NEW t \in Senders, SendAlloc(t)
  PROVE  IInv'
<1> USE DEF IInv
<1>1. /\ at[t] = "alloc"
      /\ UNCHANGED <<gen, opened, mine, losses, work, pc, hand, kept, letter, left,
                     elapsed, fate, place, for>>
  BY DEF SendAlloc, socket, history
<1>2. WorkerInv'
  BY <1>1 DEF WorkerInv
<1>3. CASE work # None /\ SenderGoto(t, "fetch") /\ UNCHANGED <<live, items, ptr>>
  <2>1. TypeOK'
    BY <1>1, <1>3 DEF TypeOK, SenderGoto
  <2>2. QueueInv'
    BY <1>1, <1>3 DEF QueueInv, SenderGoto, TypeOK
  <2>3. QED
    BY <1>1, <1>2, <1>3, <2>1, <2>2, QuietKept
<1>4. CASE work = None /\ SenderGoto(t, "install") /\ \E q \in Queues \ live :
             /\ live' = live \cup {q}
             /\ items' = [items EXCEPT ![q] = <<>>]
             /\ ptr' = [ptr EXCEPT ![t] = q]
  <2>1. PICK q \in Queues \ live :
             /\ live' = live \cup {q}
             /\ items' = [items EXCEPT ![q] = <<>>]
             /\ ptr' = [ptr EXCEPT ![t] = q]
    BY <1>4
  <2>2. items' = items
    BY <2>1 DEF QueueInv, TypeOK
  <2>3. TypeOK'
    BY <1>1, <1>4, <2>1, <2>2 DEF TypeOK, SenderGoto
  <2>4. /\ ptr'[t] = q /\ at'[t] = "install"
        /\ \A u \in Senders \ {t} : ptr'[u] = ptr[u] /\ at'[u] = at[u]
    BY <1>4, <2>1 DEF SenderGoto, TypeOK
  <2>5. q # None /\ q \notin live /\ work' = None /\ work = None
    BY <1>1, <1>4, NoneIsNone
  <2>6. \A u \in Senders : at'[u] = "install" =>
          /\ ptr'[u] \in live' /\ ptr'[u] # work'
          /\ \A v \in Senders : at'[v] = "install" /\ ptr'[v] = ptr'[u] => v = u
    BY <2>1, <2>4, <2>5 DEF QueueInv
  <2>7. QueueInv'
    BY <1>1, <2>1, <2>2, <2>4, <2>5, <2>6 DEF QueueInv
  <2>8. QED
    BY <1>1, <1>2, <2>2, <2>3, <2>7, QuietKept
<1>5. QED
  BY <1>3, <1>4 DEF SendAlloc

LEMMA SendInstallInv ==
  ASSUME IInv, NEW t \in Senders, SendInstall(t)
  PROVE  IInv'
<1> USE DEF IInv
<1>1. /\ at[t] = "install" /\ work' = ptr[t] /\ at' = [at EXCEPT ![t] = "fetch"]
      /\ UNCHANGED <<gen, opened, mine, losses, items, live, pc, hand, kept, letter, ptr,
                     left, elapsed, fate, place, for>>
  BY DEF SendInstall, socket, history, SenderGoto
<1>2. WorkerInv'
  BY <1>1 DEF WorkerInv
<1>3. TypeOK'
  BY <1>1 DEF TypeOK
<1>4. /\ at'[t] = "fetch" /\ \A u \in Senders \ {t} : at'[u] = at[u]
      /\ ptr[t] \in live
      /\ \A u \in Senders \ {t} : at[u] = "install" => ptr[u] # ptr[t]
  BY <1>1 DEF QueueInv, TypeOK
<1>5. QueueInv'
  BY <1>1, <1>4 DEF QueueInv
<1>6. QED
  BY <1>1, <1>2, <1>3, <1>5, QuietKept

LEMMA SendFetchInv ==
  ASSUME IInv, NEW t \in Senders, SendFetch(t)
  PROVE  IInv'
<1> USE DEF IInv
<1>1. /\ at[t] = "fetch" /\ ptr' = [ptr EXCEPT ![t] = work] /\ at' = [at EXCEPT ![t] = "add"]
      /\ UNCHANGED <<gen, opened, mine, losses, work, items, live, pc, hand, kept, letter,
                     left, elapsed, fate, place, for>>
  BY DEF SendFetch, socket, queues, history, SenderGoto
<1>2. WorkerInv'
  BY <1>1 DEF WorkerInv
<1>3. TypeOK'
  BY <1>1 DEF TypeOK
<1>4. /\ at'[t] = "add"
      /\ \A u \in Senders \ {t} : at'[u] = at[u] /\ ptr'[u] = ptr[u]
  BY <1>1 DEF TypeOK
<1>5. QueueInv'
  BY <1>1, <1>4 DEF QueueInv
<1>6. QED
  BY <1>1, <1>2, <1>3, <1>5, QuietKept

(* The place a queued reply gets is the next one.                          *)
LEMMA LatestIs ==
  ASSUME TypeOK, CountInv
  PROVE  /\ Latest \in 0 .. Cardinality(Gone)
         /\ \A r \in Replies : place[r] <= Latest
<1> DEFINE T == {n \in Nat : \A r \in Replies : place[r] <= n}
<1>1. IsFiniteSet(Gone) /\ Gone \subseteq Replies
  BY RepliesAssumption, FS_Subset DEF Gone
<1>2. Cardinality(Gone) \in Nat /\ Cardinality(Gone) <= Cardinality(Replies)
  BY <1>1, RepliesAssumption, FS_CardinalityType, FS_Subset
<1>3. Cardinality(Gone) \in T
  BY <1>2 DEF CountInv
<1>4. \A r \in Replies : place[r] \in Nat
  BY CardType DEF TypeOK
<1>5. T \in SUBSET Nat /\ T # {}
  BY <1>3
<1>6. PICK n \in T : \A m \in T : n <= m
  <2> HIDE DEF T
  <2>1. QED
    BY <1>5, LeastNat
<1>7. n \in Nat /\ n <= Cardinality(Gone) /\ \A r \in Replies : place[r] <= n
  BY <1>3, <1>6
<1>8. n = 0 \/ \E r \in Replies : place[r] = n
  <2> SUFFICES ASSUME n # 0, \A r \in Replies : place[r] # n
               PROVE  FALSE
    OBVIOUS
  <2>1. n - 1 \in Nat
    BY <1>7
  <2>2. \A r \in Replies : place[r] <= n - 1
    BY <1>4, <1>7
  <2>3. n - 1 \in T
    BY <2>1, <2>2
  <2>4. n <= n - 1
    BY <1>6, <2>3
  <2>5. QED
    BY <1>7, <2>4
<1>9. n \in 0 .. Cardinality(Replies)
  BY <1>2, <1>7, CardType
<1>10. /\ Latest \in 0 .. Cardinality(Replies)
       /\ \A r \in Replies : place[r] <= Latest
       /\ Latest = 0 \/ \E r \in Replies : place[r] = Latest
  <2> DEFINE P(m) == (\A r \in Replies : place[r] <= m) /\ (m = 0 \/ \E r \in Replies : place[r] = m)
  <2>1. \E m \in 0 .. Cardinality(Replies) : P(m)
    BY <1>7, <1>8, <1>9
  <2>2. Latest = CHOOSE m \in 0 .. Cardinality(Replies) : P(m)
    BY DEF Latest
  <2> HIDE DEF P
  <2>3. Latest \in 0 .. Cardinality(Replies) /\ P(Latest)
    BY <2>1, <2>2
  <2>4. QED
    BY <2>3 DEF P
<1>11. Latest <= Cardinality(Gone)
  BY <1>2, <1>10 DEF CountInv
<1>12. QED
  BY <1>2, <1>10, <1>11

LEMMA SendAddInv ==
  ASSUME IInv, NEW t \in Senders, SendAdd(t)
  PROVE  IInv'
<1> USE DEF IInv
<1> DEFINE r == letter[t]
<1>1. /\ at[t] = "add" /\ at' = [at EXCEPT ![t] = "idle"]
      /\ letter' = [letter EXCEPT ![t] = None] /\ ptr' = [ptr EXCEPT ![t] = None]
      /\ UNCHANGED <<gen, opened, mine, losses, work, live, pc, hand, kept, elapsed>>
  BY DEF SendAdd, socket, SenderGoto
<1>2. WorkerInv'
  BY <1>1 DEF WorkerInv
<1>3. r \in Replies /\ r # None
  BY <1>1, NoneIsNone DEF QueueInv, TypeOK
<1>4. /\ at'[t] = "idle" /\ letter'[t] = None
      /\ \A u \in Senders \ {t} : at'[u] = at[u] /\ ptr'[u] = ptr[u] /\ letter'[u] = letter[u]
  BY <1>1 DEF TypeOK
<1>5. Plain /\ fate[r] = "pending"
  BY <1>3, HomeIsPlain DEF Plain, Pending
<1>6. \A u \in Replies : fate[u] # "unsent" /\ ~WithSender(u) => ~WithSender(u)'
  BY <1>4, NoneIsNone DEF WithSender
<1>7. CASE /\ ptr[t] \in live
           /\ items' = [items EXCEPT ![ptr[t]] = Append(@, r)]
           /\ place' = [place EXCEPT ![r] = 1 + Latest]
           /\ for' = [for EXCEPT ![r] = gen]
           /\ UNCHANGED <<fate, left>>
  <2>1. ptr[t] \in Queues /\ items[ptr[t]] \in Seq(Replies)
    BY <1>7 DEF TypeOK
  <2>2. /\ items'[ptr[t]] = Append(items[ptr[t]], r)
        /\ \A p \in Queues \ {ptr[t]} : items'[p] = items[p]
    BY <1>7, <2>1 DEF TypeOK
  <2>3. r \notin Elems(items[ptr[t]]) /\ Distinct(items[ptr[t]])
    BY <1>3, <1>5, <2>1 DEF Plain
  <2>4. /\ items'[ptr[t]] \in Seq(Replies)
        /\ Elems(items'[ptr[t]]) = Elems(items[ptr[t]]) \cup {r}
        /\ Distinct(items'[ptr[t]])
    BY <1>3, <2>1, <2>2, <2>3, AppendFacts
  <2>5. /\ Gone \subseteq Gone' /\ r \in Gone' /\ r \notin Gone /\ Gone' \subseteq Replies
    BY <1>3, <1>4, <1>5, <1>6, <1>7 DEF Gone, WithSender, Plain
  <2>6. IsFiniteSet(Gone') /\ IsFiniteSet(Gone) /\ IsFiniteSet(Gone \cup {r})
    BY <2>5, RepliesAssumption, FS_Subset
  <2>7. /\ Cardinality(Gone) \in Nat /\ Cardinality(Gone') \in Nat
        /\ Cardinality(Gone) + 1 <= Cardinality(Gone')
        /\ Cardinality(Gone') <= Cardinality(Replies)
    <3>1. Cardinality(Gone \cup {r}) = Cardinality(Gone) + 1
      BY <2>5, <2>6, FS_AddElement
    <3>2. Gone \cup {r} \subseteq Gone'
      BY <2>5
    <3>3. Cardinality(Gone \cup {r}) <= Cardinality(Gone')
      BY <2>6, <3>2, FS_Subset
    <3>4. Cardinality(Gone') <= Cardinality(Replies)
      BY <2>5, RepliesAssumption, FS_Subset
    <3>5. QED
      BY <2>6, <3>1, <3>3, <3>4, FS_CardinalityType
  <2>8. Latest \in 0 .. Cardinality(Gone) /\ \A u \in Replies : place[u] <= Latest
    BY LatestIs
  <2>9. 1 + Latest \in 0 .. Cardinality(Replies) /\ 1 + Latest <= Cardinality(Gone')
    BY <2>7, <2>8, CardType
  <2>10. /\ items' \in [Queues -> Seq(Replies)]
         /\ place' \in [Replies -> 0 .. Cardinality(Replies)]
         /\ for' \in [Replies -> 0 .. Sockets]
    BY <1>7, <2>1, <2>2, <2>4, <2>9 DEF TypeOK
  <2>11. TypeOK'
    BY <1>1, <1>7, <2>10 DEF TypeOK
  <2>12. Plain'
    <3>1. UNCHANGED <<hand, kept, fate>>
      BY <1>1, <1>7
    <3> HIDE DEF IInv, r
    <3>2. letter[t] = r
      BY DEF r
    <3>3. QED
      BY <1>3, <1>4, <1>5, <2>1, <2>2, <2>4, <3>1, <3>2, PlainAdded
  <2>13. QueueInv'
    BY <1>1, <1>3, <1>4, <2>1, <2>2, <1>7 DEF QueueInv
  <2>14. CountInv'
    <3>1. \A u \in Replies : place'[u] <= Cardinality(Gone')
      BY <1>7, <2>7, <2>8, <2>9, CardType DEF CountInv, TypeOK
    <3>2. QED
      BY <1>3, <1>5, <1>7, <3>1 DEF CountInv, TypeOK
  <2>15. QED
    BY <1>2, <2>11, <2>12, <2>13, <2>14, HomeIsPlainNext
<1>8. CASE Finish({r}, "lost") /\ UNCHANGED items
  <2>1. "lost" \in Fates
    BY DEF Fates
  <2>2. /\ fate' \in [Replies -> Fates]
        /\ \A u \in Replies : fate'[u] = IF u \in {r} THEN "lost" ELSE fate[u]
        /\ left' \in [Replies -> 0 .. Length]
        /\ place' \in [Replies -> 0 .. Cardinality(Replies)]
        /\ for' \in [Replies -> 0 .. Sockets]
        /\ \A u \in Replies : fate'[u] \notin {"unsent", "pending"} =>
              left'[u] = 0 /\ place'[u] = 0 /\ for'[u] = 0
        /\ \A u \in Replies : place'[u] <= place[u]
    BY <1>8, <2>1, FinishFacts
  <2>3. TypeOK'
    BY <1>1, <1>8, <2>2 DEF TypeOK
  <2>4. \A u \in Replies : Pending(u)' <=> Pending(u) /\ u # r
    <3>1. \A u \in Replies : (\E v \in Senders : letter'[v] = u) <=>
            (\E v \in Senders : letter[v] = u) /\ u # r
      BY <1>3, <1>4, <1>5, NoneIsNone DEF Plain
    <3>2. /\ r # hand /\ r # kept /\ \A q \in Queues : r \notin Elems(items[q])
      BY <1>3, <1>5 DEF Plain
    <3>3. QED
      BY <1>1, <1>8, <3>1, <3>2 DEF Pending
  <2>5. Plain'
    <3>1. \A u \in Replies : fate'[u] = "pending" <=> Pending(u)'
      BY <1>5, <2>2, <2>4 DEF Plain
    <3>2. \A q \in Queues : Distinct(items'[q]) /\ Elems(items'[q]) \subseteq Elems(items[q])
      BY <1>5, <1>8 DEF Plain
    <3>3. QED
      BY <1>1, <1>4, <1>5, <3>1, <3>2, PlainShrinks
  <2>6. QueueInv'
    BY <1>1, <1>3, <1>4, <1>8 DEF QueueInv
  <2>7. CountInv'
    <3>1. \A u \in Replies : fate[u] # "unsent" => fate'[u] # "unsent"
      BY <2>2
    <3>2. \A u \in Replies : place'[u] <= Cardinality(Gone')
      BY <1>6, <2>2, <3>1, CountKept
    <3>3. QED
      BY <2>2, <3>2 DEF CountInv
  <2>8. QED
    BY <1>2, <2>3, <2>5, <2>6, <2>7, HomeIsPlainNext
<1>9. QED
  BY <1>7, <1>8 DEF SendAdd

-----------------------------------------------------------------------------
(* _server_respond.                                                        *)

(* Some replies are disposed of: they leave the places they were in.       *)
LEMMA DisposedInv ==
  ASSUME IInv, NEW f \in [Replies -> Fates], Settle(f), UNCHANGED letter,
         hand' \in {hand, None}, kept' \in {kept, None},
         \A q \in Queues : Distinct(items'[q]) /\ Elems(items'[q]) \subseteq Elems(items[q]),
         \A r \in Replies : f[r] # fate[r] => f[r] \notin {"unsent", "pending"} /\ ~Pending(r)',
         \A r \in Replies : f[r] = fate[r] => (Pending(r)' <=> Pending(r))
  PROVE  Plain' /\ CountInv'
<1> USE DEF IInv
<1>1. Plain
  BY HomeIsPlain
<1>2. fate' = f
  BY SettleFacts
<1>3. \A r \in Replies : fate'[r] = "pending" <=> Pending(r)'
  BY <1>1, <1>2 DEF Plain
<1>4. \A t \in Senders : letter'[t] \in {letter[t], None}
  OBVIOUS
<1>5. Plain'
  BY <1>1, <1>3, <1>4, PlainShrinks
<1>6. \A r \in Replies : fate[r] # "unsent" => f[r] # "unsent"
  OBVIOUS
<1>7. CountInv'
  BY <1>6, CountSettled, SendersSame
<1>8. QED
  BY <1>5, <1>7

(* The same when it is the worker's reply alone.                           *)
LEMMA HandDisposed ==
  ASSUME IInv, NEW g \in Fates \ {"unsent", "pending"}, hand \in Replies, Finish({hand}, g),
         hand' = None, UNCHANGED <<gen, opened, mine, losses, work, items, live, kept, at,
         letter, ptr, elapsed>>, pc' \in {"away", "close", "get"}, kept = None
  PROVE  IInv'
<1> USE DEF IInv
<1> DEFINE f == [r \in Replies |-> IF r \in {hand} THEN g ELSE fate[r]]
<1>1. f \in [Replies -> Fates] /\ Settle(f)
  BY DEF Finish, TypeOK
<1>2. \A r \in Replies : f[r] = IF r = hand THEN g ELSE fate[r]
  OBVIOUS
<1> HIDE DEF f
<1>3. Plain /\ hand # None
  BY HomeIsPlain, NoneIsNone
<1>4. hand # kept /\ (\A t \in Senders : letter[t] # hand) /\ \A q \in Queues : hand \notin Elems(items[q])
  BY <1>3 DEF Plain
<1>5. \A r \in Replies : Pending(r)' <=> Pending(r) /\ r # hand
  BY <1>4, NoneIsNone DEF Pending
<1>6. fate[hand] = "pending"
  BY <1>3 DEF Plain, Pending
<1>7. Plain' /\ CountInv'
  <2>1. \A q \in Queues : Distinct(items'[q]) /\ Elems(items'[q]) \subseteq Elems(items[q])
    BY <1>3 DEF Plain
  <2>2. \A r \in Replies : f[r] # fate[r] => f[r] \notin {"unsent", "pending"} /\ ~Pending(r)'
    BY <1>2, <1>5
  <2>3. \A r \in Replies : f[r] = fate[r] => (Pending(r)' <=> Pending(r))
    BY <1>2, <1>5, <1>6
  <2> HIDE DEF IInv
  <2>4. QED
    BY <1>1, <2>1, <2>2, <2>3, DisposedInv
<1>8. /\ fate' = f
      /\ left' \in [Replies -> 0 .. Length]
      /\ place' \in [Replies -> 0 .. Cardinality(Replies)]
      /\ for' \in [Replies -> 0 .. Sockets]
  BY <1>1, SettleFacts
<1>9. TypeOK'
  BY <1>1, <1>8 DEF TypeOK
<1>10. QueueInv' /\ WorkerInv'
  BY <1>3, <1>9 DEF QueueInv, WorkerInv
<1>11. QED
  BY <1>7, <1>9, <1>10, HomeIsPlainNext

LEMMA WaitingType ==
  ASSUME TypeOK
  PROVE  /\ Waiting \in Seq(Replies)
         /\ Waiting # <<>> => work \in Queues /\ Waiting = items[work]
         /\ work # None => work \in Queues /\ Waiting = items[work]
  BY DEF TypeOK, Waiting

LEMMA GetInv == ASSUME IInv, Get PROVE IInv'
<1> USE DEF IInv
<1>1. /\ pc = "get" /\ pc' = "process" /\ Waiting # <<>> /\ hand' = Head(Waiting)
      /\ items' = [items EXCEPT ![work] = Tail(@)]
      /\ UNCHANGED <<gen, opened, mine, losses, work, live, kept, at, letter, ptr, left,
                     elapsed, fate, place, for>>
  BY DEF Get, Worker, socket, sender, history
<1>2. work \in Queues /\ Waiting = items[work] /\ items[work] \in Seq(Replies)
  BY <1>1, WaitingType DEF TypeOK
<1>3. /\ items'[work] = Tail(items[work])
      /\ \A q \in Queues \ {work} : items'[q] = items[q]
  BY <1>1, <1>2 DEF TypeOK
<1>4. Plain
  BY HomeIsPlain
<1>5. Distinct(items[work])
  BY <1>2, <1>4 DEF Plain
<1>6. /\ items'[work] \in Seq(Replies) /\ hand' \in Replies /\ hand' \in Elems(items[work])
      /\ Elems(items'[work]) = Elems(items[work]) \ {hand'}
      /\ Distinct(items'[work])
  BY <1>1, <1>2, <1>3, <1>5, TailFacts
<1>7. hand = None
  BY <1>1 DEF WorkerInv
<1>8. TypeOK'
  BY <1>1, <1>2, <1>3, <1>6 DEF TypeOK
<1>9. Plain'
  <2> HIDE DEF IInv
  <2>1. PICK x \in Replies : x = hand'
    BY <1>6
  <2>2. QED
    BY <1>1, <1>2, <1>3, <1>4, <1>6, <1>7, <2>1, PlainTaken
<1>10. WorkerInv'
  BY <1>1, <1>6, NoneIsNone DEF WorkerInv
<1>11. QueueInv'
  <2>1. work \in live
    BY <1>2, NoneIsNone DEF QueueInv
  <2>2. QED
    BY <1>1, <1>3, <2>1 DEF QueueInv
<1>12. CountInv'
  BY <1>1, CountSame, SendersSame
<1>13. QED
  BY <1>8, <1>9, <1>10, <1>11, <1>12, HomeIsPlainNext

LEMMA GoBackInv ==
  ASSUME IInv, NEW s, GoBack(s), hand \in Replies, pc' \in {"get", "away"}, kept = None,
         work # None => /\ s \in Seq(Replies) /\ Elems(s) = Elems(items[work]) \cup {hand}
                        /\ Distinct(s)
  PROVE  IInv'
<1> USE DEF IInv
<1>1. /\ hand' = None
      /\ UNCHANGED <<gen, opened, mine, losses, work, live, kept, at, letter, ptr, elapsed>>
  BY DEF GoBack, socket, sender
<1>2. CASE work = None /\ Finish({hand}, "lost") /\ UNCHANGED items
  <2>1. "lost" \in Fates \ {"unsent", "pending"}
    BY DEF Fates
  <2> HIDE DEF IInv
  <2>2. QED
    BY <1>1, <1>2, <2>1, HandDisposed
<1>3. CASE work # None /\ items' = [items EXCEPT ![work] = s] /\ UNCHANGED body
  <2>1. work \in Queues /\ work \in live
    BY <1>3 DEF QueueInv, TypeOK
  <2>2. /\ items'[work] = s
        /\ \A q \in Queues \ {work} : items'[q] = items[q]
    BY <1>3, <2>1 DEF TypeOK
  <2>3. UNCHANGED <<fate, left, place, for>>
    BY <1>3 DEF body, history
  <2>4. TypeOK'
    BY <1>1, <1>3, <2>1, <2>2, <2>3 DEF TypeOK
  <2>5. Plain
    BY HomeIsPlain
  <2>6. Plain'
    <3>1. /\ Elems(items'[work]) = Elems(items[work]) \cup {hand}
          /\ Distinct(items'[work])
      BY <1>3, <2>2
    <3> HIDE DEF IInv
    <3>2. QED
      BY <1>1, <2>1, <2>2, <2>3, <2>5, <3>1, PlainPutBack
  <2>7. QueueInv'
    BY <1>1, <2>1, <2>2 DEF QueueInv
  <2>8. WorkerInv'
    BY <1>1, NoneIsNone DEF WorkerInv
  <2>9. CountInv'
    BY <1>1, <2>3, CountSame, SendersSame
  <2>10. QED
    BY <2>4, <2>6, <2>7, <2>8, <2>9, HomeIsPlainNext
<1>4. QED
  BY <1>2, <1>3 DEF GoBack

LEMMA PutBackInv == ASSUME IInv, Requeue \/ PushBack PROVE IInv'
<1> USE DEF IInv
<1>1. /\ pc \in {"requeue", "requeue_last", "push"} /\ pc' \in {"get", "away"}
      /\ GoBack(Append(Waiting, hand)) \/ GoBack(<<hand>> \o Waiting)
  BY DEF Requeue, PushBack, Worker
<1>2. hand \in Replies /\ hand # None /\ kept = None
  BY <1>1 DEF WorkerInv, TypeOK
<1>3. ASSUME work # None
      PROVE  /\ Append(Waiting, hand) \in Seq(Replies) /\ <<hand>> \o Waiting \in Seq(Replies)
             /\ Elems(Append(Waiting, hand)) = Elems(items[work]) \cup {hand}
             /\ Elems(<<hand>> \o Waiting) = Elems(items[work]) \cup {hand}
             /\ Distinct(Append(Waiting, hand)) /\ Distinct(<<hand>> \o Waiting)
  <2>1. work \in Queues /\ Waiting = items[work] /\ Waiting \in Seq(Replies)
    BY <1>3, WaitingType
  <2>2. hand \notin Elems(Waiting) /\ Distinct(Waiting)
    BY <1>2, <2>1, HomeIsPlain DEF Plain
  <2>3. QED
    BY <1>2, <2>1, <2>2, AppendFacts, PushFacts
<1>4. CASE GoBack(Append(Waiting, hand))
  BY <1>1, <1>2, <1>3, <1>4, GoBackInv
<1>5. CASE GoBack(<<hand>> \o Waiting)
  BY <1>1, <1>2, <1>3, <1>5, GoBackInv
<1>6. QED
  BY <1>1, <1>4, <1>5

(* Steps that change where the worker is, or the socket.                   *)
LEMMA WorkerMoves ==
  ASSUME IInv, UNCHANGED <<work, items, live, hand, kept, at, letter, ptr, fate, place, for>>,
         \A r \in Replies : fate[r] \notin {"unsent", "pending"} => left'[r] = left[r],
         TypeOK', WorkerInv'
  PROVE  IInv'
<1>1. QueueInv'
  BY DEF IInv, QueueInv
<1>2. QED
  BY <1>1, QuietKept

LEMMA ProcessInv == ASSUME IInv, Process PROVE IInv'
<1> USE DEF IInv
<1>1. pc = "process" /\ hand \in Replies /\ hand # None /\ kept = None
  BY DEF Process, ProcessAlien, ProcessDelay, ProcessPart, ProcessAll, ProcessFatal, Worker,
         WorkerInv, TypeOK
<1>2. Plain /\ fate[hand] = "pending"
  BY <1>1, HomeIsPlain DEF Plain, Pending
<1>3. CASE ProcessAlien \/ ProcessAll
  <2>1. /\ hand' = None
        /\ Finish({hand}, "dropped") \/ Finish({hand}, "sent")
        /\ pc' \in {"away", "close", "get"}
        /\ UNCHANGED <<gen, opened, mine, losses, work, items, live, kept, at, letter, ptr,
                       elapsed>>
    BY <1>3 DEF ProcessAlien, ProcessAll, Worker, socket, queues, sender
  <2>2. {"dropped", "sent"} \subseteq Fates \ {"unsent", "pending"}
    BY DEF Fates
  <2> HIDE DEF IInv
  <2>3. QED
    <3>1. PICK g \in {"dropped", "sent"} : Finish({hand}, g)
      BY <2>1
    <3>2. g \in Fates \ {"unsent", "pending"}
      BY <2>2, <3>1
    <3>3. QED
      BY <1>1, <2>1, <3>1, <3>2, HandDisposed
<1>4. CASE ProcessDelay
  <2>1. /\ UNCHANGED <<gen, opened, mine, losses, work, items, live, hand, kept, at, letter,
                       ptr, left, elapsed, fate, place, for>>
        /\ pc' \in {"requeue", "requeue_last"}
    BY <1>4 DEF ProcessDelay, Worker, socket, queues, sender, history
  <2>2. TypeOK'
    BY <2>1 DEF TypeOK
  <2>3. WorkerInv'
    BY <1>1, <2>1 DEF WorkerInv
  <2>4. QED
    BY <2>1, <2>2, <2>3, WorkerMoves
<1>5. CASE ProcessPart \/ ProcessFatal
  <2>1. /\ UNCHANGED <<gen, opened, mine, losses, work, items, live, hand, kept, at, letter,
                       ptr, elapsed, fate, place, for>>
        /\ pc' \in {"push", "close", "reset"} /\ (pc' = "reset" => losses < Losses)
        /\ \/ UNCHANGED left
           \/ \E n \in 0 .. left[hand] - 1 : left' = [left EXCEPT ![hand] = @ - n]
    BY <1>5 DEF ProcessPart, ProcessFatal, Worker, socket, queues, sender, history
  <2>2. /\ left' \in [Replies -> 0 .. Length]
        /\ \A r \in Replies \ {hand} : left'[r] = left[r]
    <3>1. CASE UNCHANGED left
      BY <3>1 DEF TypeOK
    <3>2. ASSUME NEW n \in 0 .. left[hand] - 1, left' = [left EXCEPT ![hand] = @ - n]
          PROVE  /\ left' \in [Replies -> 0 .. Length]
                 /\ \A r \in Replies \ {hand} : left'[r] = left[r]
      <4>1. left[hand] \in 0 .. Length
        BY <1>1 DEF TypeOK
      <4>2. left[hand] - n \in 0 .. Length
        BY <4>1, LengthAssumption
      <4>3. QED
        BY <1>1, <3>2, <4>2 DEF TypeOK
    <3>3. QED
      BY <2>1, <3>1, <3>2
  <2>3. TypeOK'
    BY <2>1, <2>2 DEF TypeOK
  <2>4. WorkerInv'
    BY <1>1, <2>1 DEF WorkerInv
  <2>5. \A r \in Replies : fate[r] \notin {"unsent", "pending"} => left'[r] = left[r]
    BY <1>2, <2>2
  <2>6. QED
    BY <2>1, <2>3, <2>4, <2>5, WorkerMoves
<1>6. QED
  BY <1>3, <1>4, <1>5 DEF Process

-----------------------------------------------------------------------------
(* socket_close and socket_persist.                                        *)

LEMMA EasyInv ==
  ASSUME IInv, Take \/ GetNothing \/ ReadError \/ Dereg \/ Open \/ \E r \in Delayed : Elapse(r)
  PROVE  IInv'
<1> USE DEF IInv
<1>1. UNCHANGED <<work, items, live, hand, kept, at, letter, ptr, left, fate, place, for>>
  BY DEF Take, GetNothing, ReadError, Dereg, Open, Elapse, socket, queues, sender, history
<1>2. TypeOK' /\ WorkerInv'
  <2>1. CASE Take \/ GetNothing \/ ReadError
    <3>1. /\ UNCHANGED <<gen, opened, mine, losses, elapsed>>
          /\ pc = "get" \/ (pc = "away" /\ gen # 0)
          /\ pc' \in {"get", "away", "close", "reset"}
          /\ pc' = "reset" => losses < Losses
      BY <2>1 DEF Take, GetNothing, ReadError, Worker, socket
    <3>2. QED
      BY <1>1, <3>1 DEF TypeOK, WorkerInv
  <2>2. CASE Dereg
    <3>1. /\ UNCHANGED <<opened, mine, losses, elapsed>> /\ gen' = 0
          /\ pc = "close" /\ pc' = "drain"
      BY <2>2 DEF Dereg, Worker
    <3>2. QED
      BY <1>1, <3>1, BoundsAssumption DEF TypeOK, WorkerInv
  <2>3. CASE Open
    <3>1. /\ opened < Sockets /\ pc' = "away" /\ gen' = opened + 1 /\ opened' = opened + 1
          /\ mine' \in BOOLEAN /\ losses' = 0 /\ elapsed' = elapsed
          /\ pc = "closed" \/ opened = 0
      BY <2>3 DEF Open
    <3>2. hand = None /\ kept = None
      <4>1. CASE pc = "closed"
        BY <4>1 DEF WorkerInv
      <4>2. CASE opened = 0
        BY <4>2 DEF WorkerInv
      <4>3. QED
        BY <3>1, <4>1, <4>2
    <3>3. QED
      BY <1>1, <3>1, <3>2, BoundsAssumption DEF TypeOK, WorkerInv
  <2>4. CASE \E r \in Delayed : Elapse(r)
    <3>1. /\ UNCHANGED <<gen, opened, mine, losses, pc>> /\ elapsed' \subseteq Delayed
      BY <2>4 DEF Elapse, socket, TypeOK
    <3>2. QED
      BY <1>1, <3>1 DEF TypeOK, WorkerInv
  <2>5. QED
    BY <2>1, <2>2, <2>3, <2>4
<1>3. QED
  BY <1>1, <1>2, WorkerMoves

LEMMA FreeQueueIs ==
  ASSUME IInv, NEW done \in {hand, None}, FreeQueue(done)
  PROVE  \E f \in [Replies -> Fates] :
           /\ Settle(f) /\ fate' = f
           /\ left' \in [Replies -> 0 .. Length]
           /\ place' \in [Replies -> 0 .. Cardinality(Replies)]
           /\ for' \in [Replies -> 0 .. Sockets]
           /\ \A r \in Replies : f[r] =
                IF work # None /\ r \in Elems(items[work]) THEN "lost"
                ELSE IF r = done THEN "dropped" ELSE fate[r]
<1> USE DEF IInv
<1> DEFINE added == IF work = None THEN {} ELSE In(work)
           f == [r \in Replies |-> CASE r \in added -> "lost"
                                     [] r = done -> "dropped"
                                     [] OTHER -> fate[r]]
<1>1. \A r : r \in added <=> work # None /\ r \in Elems(items[work])
  BY InIs
<1>2. Settle(f)
  BY DEF FreeQueue
<1>0. \A r \in Replies : r \in added => r # done
  BY <1>1, HomeIsPlain, NoneIsNone DEF Plain, TypeOK
<1> HIDE DEF added
<1>3. ASSUME NEW r \in Replies
      PROVE  f[r] = IF r \in added THEN "lost" ELSE IF r = done THEN "dropped" ELSE fate[r]
  <2>1. f[r] = CASE r \in added -> "lost" [] r = done -> "dropped" [] OTHER -> fate[r]
    OBVIOUS
  <2> HIDE DEF f
  <2>2. CASE r \in added /\ r # done
    BY <2>1, <2>2
  <2>3. CASE r \notin added
    BY <2>1, <2>3
  <2>4. QED
    BY <1>0, <2>2, <2>3
<1>4. f \in [Replies -> Fates]
  <2>1. \A r \in Replies : f[r] \in Fates
    BY <1>3 DEF TypeOK, Fates
  <2>2. QED
    BY <2>1
<1> HIDE DEF f
<1>5. QED
  BY <1>1, <1>2, <1>3, <1>4, SettleFacts

(* The queue is freed, with what was added since it was emptied.           *)
LEMMA FreeQueueInv ==
  ASSUME IInv, NEW done \in {hand, None}, FreeQueue(done),
         UNCHANGED <<gen, opened, mine, losses, kept, at, letter, ptr, elapsed>>,
         hand' = IF done = None THEN hand ELSE None,
         pc \in {"free", "reset_free"}, pc' = IF pc = "free" THEN "closed" ELSE "notify",
         pc = "free" => done = hand
  PROVE  IInv'
<1> USE DEF IInv
<1>1. PICK f \in [Replies -> Fates] :
           /\ Settle(f) /\ fate' = f
           /\ left' \in [Replies -> 0 .. Length]
           /\ place' \in [Replies -> 0 .. Cardinality(Replies)]
           /\ for' \in [Replies -> 0 .. Sockets]
           /\ \A r \in Replies : f[r] =
                IF work # None /\ r \in Elems(items[work]) THEN "lost"
                ELSE IF r = done THEN "dropped" ELSE fate[r]
  BY FreeQueueIs
<1>2. /\ live' = live \ {work} /\ work' = None
      /\ items' = [q \in Queues |-> IF q = work THEN <<>> ELSE items[q]]
  BY DEF FreeQueue
<1>3. Plain /\ (work # None => work \in Queues)
  BY HomeIsPlain DEF TypeOK
<1>4. \A q \in Queues : Elems(items'[q]) = IF q = work THEN {} ELSE Elems(items[q])
  BY <1>2, EmptyFacts
<1>5. \A q \in Queues : Distinct(items'[q]) /\ Elems(items'[q]) \subseteq Elems(items[q])
  BY <1>2, <1>3, <1>4, EmptyFacts DEF Plain
<1>6. \A r \in Replies : work # None /\ r \in Elems(items[work]) =>
         /\ r # hand /\ r # kept /\ \A t \in Senders : letter[t] # r
         /\ \A q \in Queues \ {work} : r \notin Elems(items[q])
  BY <1>3, NoneIsNone DEF Plain
<1>7. hand # None => /\ hand # kept /\ \A t \in Senders : letter[t] # hand
                     /\ \A q \in Queues : hand \notin Elems(items[q])
  BY <1>3 DEF Plain
<1>8. \A r \in Replies : Pending(r)' <=>
        Pending(r) /\ r # done /\ ~(work # None /\ r \in Elems(items[work]))
  <2>1. \A r \in Replies : (\E q \in Queues : r \in Elems(items'[q])) <=>
          \E q \in Queues : q # work /\ r \in Elems(items[q])
    BY <1>4
  <2>2. ASSUME NEW r \in Replies, work # None, r \in Elems(items[work]) PROVE ~Pending(r)'
    BY <1>6, <2>1, <2>2, NoneIsNone DEF Pending
  <2>3. ASSUME NEW r \in Replies, r = done PROVE ~Pending(r)'
    <3>1. r = hand /\ hand # None /\ hand' = None /\ kept' = kept /\ letter' = letter
      BY <2>3, NoneIsNone
    <3>2. QED
      BY <1>7, <2>1, <3>1 DEF Pending
  <2>4. ASSUME NEW r \in Replies, r # done, ~(work # None /\ r \in Elems(items[work]))
        PROVE  Pending(r)' <=> Pending(r)
    <3>1. (\E q \in Queues : r \in Elems(items'[q])) <=> \E q \in Queues : r \in Elems(items[q])
      BY <1>3, <2>1, <2>4, NoneIsNone
    <3>2. r = hand' <=> r = hand
      BY <2>4, NoneIsNone
    <3>3. QED
      BY <3>1, <3>2 DEF Pending
  <2>5. QED
    BY <2>2, <2>3, <2>4
<1>9. Plain' /\ CountInv'
  <2>1. \A r \in Replies : f[r] # fate[r] => f[r] \notin {"unsent", "pending"} /\ ~Pending(r)'
    BY <1>1, <1>8
  <2>2. \A r \in Replies : f[r] = fate[r] => (Pending(r)' <=> Pending(r))
    <3>1. \A r \in Replies : Pending(r) => fate[r] = "pending"
      BY <1>3 DEF Plain
    <3>2. QED
      BY <1>1, <1>8, <3>1
  <2>3. hand' \in {hand, None} /\ kept' \in {kept, None}
    OBVIOUS
  <2> HIDE DEF IInv
  <2>4. QED
    BY <1>1, <1>5, <2>1, <2>2, <2>3, DisposedInv
<1>10. TypeOK'
  <2>1. items' \in [Queues -> Seq(Replies)]
    BY <1>2 DEF TypeOK
  <2>2. QED
    BY <1>1, <1>2, <2>1 DEF TypeOK
<1>11. QueueInv'
  BY <1>2, NoneIsNone DEF QueueInv, TypeOK
<1>12. WorkerInv'
  BY DEF WorkerInv
<1>13. QED
  BY <1>9, <1>10, <1>11, <1>12, HomeIsPlainNext

LEMMA DrainInv == ASSUME IInv, Drain PROVE IInv'
<1> USE DEF IInv
<1>1. /\ pc = "drain" /\ pc' = "free"
      /\ UNCHANGED <<gen, opened, mine, losses, work, live, hand, kept, at, letter, ptr, elapsed>>
  BY DEF Drain, Worker, socket, sender
<1>2. CASE work = None /\ UNCHANGED <<items, body>>
  <2>1. UNCHANGED <<items, fate, left, place, for>>
    BY <1>2 DEF body, history
  <2>2. TypeOK' /\ WorkerInv'
    BY <1>1, <2>1 DEF TypeOK, WorkerInv
  <2>3. QED
    BY <1>1, <2>1, <2>2, WorkerMoves
<1>3. CASE work # None /\ Finish(In(work), "dropped") /\ items' = [items EXCEPT ![work] = <<>>]
  <2> DEFINE f == [r \in Replies |-> IF r \in In(work) THEN "dropped" ELSE fate[r]]
  <2>1. f \in [Replies -> Fates] /\ Settle(f)
    BY <1>3 DEF Finish, TypeOK, Fates
  <2>2. \A r \in Replies : f[r] = IF r \in Elems(items[work]) THEN "dropped" ELSE fate[r]
    BY InIs
  <2> HIDE DEF f
  <2>3. Plain /\ work \in Queues /\ work \in live
    BY <1>3, HomeIsPlain DEF QueueInv, TypeOK
  <2>4. /\ items'[work] = <<>> /\ \A q \in Queues \ {work} : items'[q] = items[q]
    BY <1>3, <2>3 DEF TypeOK
  <2>5. \A q \in Queues : Elems(items'[q]) = IF q = work THEN {} ELSE Elems(items[q])
    BY <2>4, EmptyFacts
  <2>6. \A q \in Queues : Distinct(items'[q]) /\ Elems(items'[q]) \subseteq Elems(items[q])
    BY <2>3, <2>4, <2>5, EmptyFacts DEF Plain
  <2>7. \A r \in Replies : r \in Elems(items[work]) =>
         /\ r # hand /\ r # kept /\ \A t \in Senders : letter[t] # r
         /\ \A q \in Queues \ {work} : r \notin Elems(items[q])
    BY <2>3, NoneIsNone DEF Plain
  <2>8. \A r \in Replies : Pending(r)' <=> Pending(r) /\ r \notin Elems(items[work])
    BY <1>1, <2>3, <2>5, <2>7 DEF Pending
  <2>9. Plain' /\ CountInv'
    <3>1. \A r \in Replies : f[r] # fate[r] => f[r] \notin {"unsent", "pending"} /\ ~Pending(r)'
      BY <2>2, <2>8
    <3>2. \A r \in Replies : Pending(r) => fate[r] = "pending"
      BY <2>3 DEF Plain
    <3>3. \A r \in Replies : f[r] = fate[r] => (Pending(r)' <=> Pending(r))
      BY <2>2, <2>8, <3>2
    <3> HIDE DEF IInv
    <3>4. QED
      BY <1>1, <2>1, <2>6, <3>1, <3>3, DisposedInv
  <2>10. TypeOK'
    <3>1. items' \in [Queues -> Seq(Replies)]
      BY <1>3, <2>3 DEF TypeOK
    <3>2. /\ fate' = f /\ left' \in [Replies -> 0 .. Length]
          /\ place' \in [Replies -> 0 .. Cardinality(Replies)]
          /\ for' \in [Replies -> 0 .. Sockets]
      BY <2>1, SettleFacts
    <3>3. QED
      BY <1>1, <2>1, <3>1, <3>2 DEF TypeOK
  <2>11. QueueInv' /\ WorkerInv'
    BY <1>1, <2>3, <2>4 DEF QueueInv, WorkerInv
  <2>12. QED
    BY <2>9, <2>10, <2>11, HomeIsPlainNext
<1>4. QED
  BY <1>2, <1>3 DEF Drain

LEMMA CloseInv == ASSUME IInv, CloseEnd \/ ResetFree PROVE IInv'
<1>1. CASE CloseEnd
  <2>1. /\ pc = "free" /\ pc' = "closed" /\ FreeQueue(hand) /\ hand' = None
        /\ UNCHANGED <<gen, opened, mine, losses, kept, at, letter, ptr, elapsed>>
    BY <1>1 DEF CloseEnd, Worker, socket, sender
  <2>2. QED
    BY <2>1, FreeQueueInv
<1>2. CASE ResetFree
  <2>1. /\ pc = "reset_free" /\ pc' = "notify" /\ FreeQueue(None) /\ hand' = hand
        /\ UNCHANGED <<gen, opened, mine, losses, kept, at, letter, ptr, elapsed>>
    BY <1>2 DEF ResetFree, Worker, socket, sender
  <2>2. QED
    BY <2>1, FreeQueueInv
<1>3. QED
  BY <1>1, <1>2

(* The queue is emptied, but for one reply.                                *)
LEMMA PlainKept ==
  ASSUME Plain, NEW q \in Queues, kept = None,
         kept' = None \/ kept' \in Elems(items[q]),
         UNCHANGED <<hand, letter>>, items'[q] = <<>>,
         \A p \in Queues \ {q} : items'[p] = items[p],
         \A r \in Replies : fate'[r] = "pending" <=> Pending(r)'
  PROVE  Plain'
<1>1. Elems(items'[q]) = {} /\ Distinct(items'[q])
  BY EmptyFacts
<1>2. \A p \in Queues : Distinct(items'[p])
  BY <1>1 DEF Plain
<1>3. \A p \in Queues : \A r : r \in Elems(items'[p]) <=> r \in Elems(items[p]) /\ p # q
  BY <1>1
<1>4. hand' # None => /\ hand' # kept'
                      /\ \A u \in Senders : letter'[u] # hand'
                      /\ \A p \in Queues : hand' \notin Elems(items'[p])
  BY <1>3 DEF Plain
<1>5. kept' # None => /\ \A u \in Senders : letter'[u] # kept'
                      /\ \A p \in Queues : kept' \notin Elems(items'[p])
  BY <1>3 DEF Plain
<1>6. \A u \in Senders, p \in Queues : letter'[u] # None => letter'[u] \notin Elems(items'[p])
  BY <1>3 DEF Plain
<1>7. \A o, p \in Queues : \A r \in Elems(items'[o]) : r \in Elems(items'[p]) => o = p
  BY <1>3 DEF Plain
<1>8. \A v, u \in Senders : letter'[v] = letter'[u] /\ letter'[v] # None => v = u
  BY DEF Plain
<1>9. QED
  BY <1>2, <1>4, <1>5, <1>6, <1>7, <1>8 DEF Plain

LEMMA ResetDrainInv == ASSUME IInv, ResetDrain PROVE IInv'
<1> USE DEF IInv
<1>1. /\ pc = "reset" /\ pc' = "reset_free" /\ losses' = losses + 1
      /\ kept' = FirstAcked(Waiting)
      /\ UNCHANGED <<gen, opened, mine, work, live, hand, at, letter, ptr, elapsed>>
  BY DEF ResetDrain, Worker, sender
<1>2. kept = None
  BY <1>1 DEF WorkerInv
<1>3. Waiting \in Seq(Replies) /\ (kept' = None \/ kept' \in Elems(Waiting))
  BY <1>1, WaitingType, FirstAckedIs
<1>4. losses' \in 0 .. Losses
  BY <1>1, BoundsAssumption DEF TypeOK, WorkerInv
<1>5. \A r \in Elems(Waiting) : r \in Replies
  BY <1>3 DEF Elems
<1>6. CASE work = None /\ UNCHANGED <<items, body>>
  <2>1. UNCHANGED <<items, fate, left, place, for>>
    BY <1>6 DEF body, history
  <2>2. kept' = None
    BY <1>3, <1>6, EmptyFacts DEF Waiting
  <2>3. TypeOK' /\ WorkerInv'
    BY <1>1, <1>4, <2>1, <2>2 DEF TypeOK, WorkerInv
  <2>4. QED
    BY <1>1, <1>2, <2>1, <2>2, <2>3, WorkerMoves
<1>7. CASE /\ work # None /\ items' = [items EXCEPT ![work] = <<>>]
           /\ Finish(In(work) \ {FirstAcked(Waiting)}, "dropped")
  <2> DEFINE f == [r \in Replies |-> IF r \in In(work) \ {FirstAcked(Waiting)}
                                    THEN "dropped" ELSE fate[r]]
  <2>1. f \in [Replies -> Fates] /\ Settle(f)
    BY <1>7 DEF Finish, TypeOK, Fates
  <2>2. \A r \in Replies : f[r] = IF r \in Elems(items[work]) /\ r # kept'
                                  THEN "dropped" ELSE fate[r]
    BY <1>1, InIs
  <2> HIDE DEF f
  <2>3. Plain /\ work \in Queues /\ work \in live /\ Waiting = items[work]
    BY <1>7, HomeIsPlain DEF QueueInv, TypeOK, Waiting
  <2>4. /\ items'[work] = <<>> /\ \A q \in Queues \ {work} : items'[q] = items[q]
    BY <1>7, <2>3 DEF TypeOK
  <2>5. \A q \in Queues : Elems(items'[q]) = IF q = work THEN {} ELSE Elems(items[q])
    BY <2>4, EmptyFacts
  <2>6. \A r \in Replies : r \in Elems(items[work]) =>
         /\ r # hand /\ \A t \in Senders : letter[t] # r
         /\ \A q \in Queues \ {work} : r \notin Elems(items[q])
    BY <2>3, NoneIsNone DEF Plain
  <2>7. \A r \in Replies : Pending(r)' <=>
          Pending(r) /\ ~(r \in Elems(items[work]) /\ r # kept')
    <3>1. \A r \in Replies : r = kept' => r \in Elems(items[work])
      BY <1>3, <2>3, NoneIsNone
    <3>2. \A r \in Replies : r # kept
      BY <1>2, NoneIsNone
    <3>3. QED
      BY <1>1, <2>3, <2>5, <2>6, <3>1, <3>2 DEF Pending
  <2>8. fate' = f
    BY <2>1, SettleFacts
  <2>9. \A r \in Replies : Pending(r) => fate[r] = "pending"
    BY <2>3 DEF Plain
  <2>10. \A r \in Replies : fate'[r] = "pending" <=> Pending(r)'
    BY <2>2, <2>3, <2>7, <2>8 DEF Plain
  <2>11. Plain'
    <3> HIDE DEF IInv
    <3>1. QED
      BY <1>1, <1>2, <1>3, <2>3, <2>4, <2>10, PlainKept
  <2>12. \A r \in Replies : fate[r] # "unsent" => f[r] # "unsent"
    BY <2>2
  <2>13. CountInv'
    BY <1>1, <2>1, <2>12, CountSettled, SendersSame
  <2>14. TypeOK'
    <3>1. items' \in [Queues -> Seq(Replies)]
      BY <1>7, <2>3 DEF TypeOK
    <3>2. /\ left' \in [Replies -> 0 .. Length]
          /\ place' \in [Replies -> 0 .. Cardinality(Replies)]
          /\ for' \in [Replies -> 0 .. Sockets]
      BY <2>1, SettleFacts
    <3>3. kept' \in Replies \cup {None}
      BY <1>3, <1>5
    <3>4. QED
      BY <1>1, <1>4, <2>1, <2>8, <3>1, <3>2, <3>3 DEF TypeOK
  <2>15. QueueInv' /\ WorkerInv'
    BY <1>1, <2>3, <2>4 DEF QueueInv, WorkerInv
  <2>16. QED
    BY <2>11, <2>13, <2>14, <2>15, HomeIsPlainNext
<1>8. QED
  BY <1>6, <1>7 DEF ResetDrain

LEMMA NotifyInv == ASSUME IInv, Notify PROVE IInv'
<1> USE DEF IInv
<1>1. /\ pc = "notify" /\ pc' = IF hand = None THEN "away" ELSE "push"
      /\ Finish({kept} \ {None}, "returned") /\ kept' = None
      /\ UNCHANGED <<gen, opened, mine, losses, work, items, live, hand, at, letter, ptr, elapsed>>
  BY DEF Notify, Worker, socket, queues, sender
<1> DEFINE f == [r \in Replies |-> IF r \in {kept} \ {None} THEN "returned" ELSE fate[r]]
<1>2. f \in [Replies -> Fates] /\ Settle(f)
  BY <1>1 DEF Finish, TypeOK, Fates
<1>3. \A r \in Replies : f[r] = IF r = kept THEN "returned" ELSE fate[r]
  BY NoneIsNone
<1> HIDE DEF f
<1>4. Plain
  BY HomeIsPlain
<1>5. kept # None => /\ kept # hand /\ \A t \in Senders : letter[t] # kept
                     /\ \A q \in Queues : kept \notin Elems(items[q])
  BY <1>4 DEF Plain
<1>6. \A r \in Replies : Pending(r)' <=> Pending(r) /\ r # kept
  BY <1>1, <1>5, NoneIsNone DEF Pending
<1>7. Plain' /\ CountInv'
  <2>1. \A r \in Replies : f[r] # fate[r] => f[r] \notin {"unsent", "pending"} /\ ~Pending(r)'
    BY <1>3, <1>6
  <2>2. \A r \in Replies : Pending(r) => fate[r] = "pending"
    BY <1>4 DEF Plain
  <2>3. \A r \in Replies : f[r] = fate[r] => (Pending(r)' <=> Pending(r))
    BY <1>3, <1>6, <2>2
  <2>4. \A q \in Queues : Distinct(items'[q]) /\ Elems(items'[q]) \subseteq Elems(items[q])
    BY <1>1, <1>4 DEF Plain
  <2> HIDE DEF IInv
  <2>5. QED
    BY <1>1, <1>2, <2>1, <2>3, <2>4, DisposedInv
<1>8. TypeOK'
  <2>1. /\ fate' = f /\ left' \in [Replies -> 0 .. Length]
        /\ place' \in [Replies -> 0 .. Cardinality(Replies)]
        /\ for' \in [Replies -> 0 .. Sockets]
    BY <1>2, SettleFacts
  <2>2. QED
    BY <1>1, <1>2, <2>1 DEF TypeOK
<1>9. QueueInv' /\ WorkerInv'
  BY <1>1 DEF QueueInv, WorkerInv
<1>10. QED
  BY <1>7, <1>8, <1>9, HomeIsPlainNext

-----------------------------------------------------------------------------
LEMMA InitInv == ASSUME Init PROVE IInv
<1> USE DEF Init
<1>1. TypeOK
  <2>1. 0 \in 0 .. Cardinality(Replies) /\ 0 \in 0 .. Sockets /\ 0 \in 0 .. Losses
    BY CardType, BoundsAssumption
  <2>2. Length \in 0 .. Length
    BY LengthAssumption
  <2>3. QED
    BY <2>1, <2>2 DEF TypeOK, Fates
<1>2. Plain
  <2>1. \A q \in Queues : Elems(items[q]) = {} /\ Distinct(items[q])
    BY EmptyFacts
  <2>2. \A r \in Replies : ~Pending(r)
    BY <2>1, NoneIsNone DEF Pending
  <2>3. QED
    BY <2>1, <2>2 DEF Plain
<1>3. QueueInv
  BY DEF QueueInv
<1>4. WorkerInv
  BY DEF WorkerInv
<1>5. CountInv
  <2>1. IsFiniteSet(Gone)
    BY RepliesAssumption, FS_Subset DEF Gone
  <2>2. Cardinality(Gone) \in Nat
    BY <2>1, FS_CardinalityType
  <2>3. QED
    BY <2>2 DEF CountInv
<1>6. QED
  BY <1>1, <1>2, <1>3, <1>4, <1>5, HomeIsPlain DEF IInv

LEMMA StutterInv == ASSUME IInv, UNCHANGED vars PROVE IInv'
<1>1. UNCHANGED <<gen, opened, mine, losses, work, items, live, pc, hand, kept, at, letter,
                  ptr, left, elapsed, fate, place, for>>
  BY DEF vars, socket, queues, sender, history
<1>2. TypeOK' /\ WorkerInv'
  BY <1>1 DEF IInv, TypeOK, WorkerInv
<1>3. QED
  BY <1>1, <1>2, WorkerMoves

LEMMA StepInv == ASSUME IInv, [Next]_vars PROVE IInv'
<1>1. ASSUME NEW t \in Senders, SendStep(t) PROVE IInv'
  BY <1>1, SendAllocInv, SendInstallInv, SendFetchInv, SendAddInv DEF SendStep
<1>2. ASSUME NEW t \in Senders, NEW r \in Replies, Send(t, r) PROVE IInv'
  BY <1>2, SendInv
<1>3. CASE Respond
  BY <1>3, EasyInv, GetInv, ProcessInv, PutBackInv DEF Respond
<1>4. CASE Close
  BY <1>4, EasyInv, DrainInv, CloseInv DEF Close
<1>5. CASE Reset
  BY <1>5, ResetDrainInv, CloseInv, NotifyInv DEF Reset
<1>6. CASE ReadError \/ Open \/ \E r \in Delayed : Elapse(r)
  BY <1>6, EasyInv
<1>7. CASE UNCHANGED vars
  BY <1>7, StutterInv
<1>8. QED
  BY <1>1, <1>2, <1>3, <1>4, <1>5, <1>6, <1>7 DEF Next

(* The inductive invariant of the replies: each pending reply is with one  *)
(* thread, with the worker or in one queue, once; a freed queue is empty   *)
(* and nobody is about to install it; a reply that has been disposed of    *)
(* leaves no trace.                                                        *)
THEOREM RepliesInvariant == Spec => []IInv
<1>1. Init => IInv
  BY InitInv
<1>2. IInv /\ [Next]_vars => IInv'
  BY StepInv
<1>3. QED
  BY <1>1, <1>2, PTL DEF Spec

LEMMA HomesIs ==
  ASSUME IInv, NEW r \in Replies
  PROVE  /\ fate[r] = "pending" => \E h : Homes(r) = {h}
         /\ fate[r] # "pending" => Homes(r) = {}
<1> USE DEF IInv
<1> DEFINE S == {t \in Senders : letter[t] = r}
           A == {<<"sender", t>> : t \in S}
           W == {<<"worker", x>> : x \in {x \in {"hand"} : hand = r} \cup {x \in {"kept"} : kept = r}}
           Q(q) == {<<"queue", q, k>> : k \in {k \in 1 .. Len(items[q]) : items[q][k] = r}}
           U == UNION {Q(q) : q \in live}
<1>1. Homes(r) = A \cup W \cup U
  BY DEF Homes
<1>2. Plain /\ r # None /\ (fate[r] = "pending" <=> Pending(r))
  BY HomeIsPlain, NoneIsNone DEF Plain
<1>3. \A q \in live : Q(q) # {} => r \in Elems(items[q])
  BY DEF Elems
<1>4. live \subseteq Queues /\ \A q \in Queues \ live : Elems(items[q]) = {}
  BY EmptyFacts DEF TypeOK, QueueInv
<1>5. ASSUME NEW t \in Senders, letter[t] = r PROVE \E h : Homes(r) = {h}
  <2>1. S = {t}
    BY <1>2, <1>5 DEF Plain
  <2>2. hand # r /\ kept # r /\ \A q \in live : r \notin Elems(items[q])
    BY <1>2, <1>4, <1>5 DEF Plain
  <2>3. A = {<<"sender", t>>}
    BY <2>1
  <2>4. W = {}
    BY <2>2
  <2>5. U = {}
    BY <1>3, <2>2
  <2>6. QED
    BY <1>1, <2>3, <2>4, <2>5
<1>6. ASSUME r = hand \/ r = kept PROVE \E h : Homes(r) = {h}
  <2>1. S = {} /\ \A q \in live : r \notin Elems(items[q])
    BY <1>2, <1>4, <1>6 DEF Plain
  <2>2. hand # kept
    BY <1>2, <1>6 DEF Plain
  <2>3. A = {} /\ U = {}
    BY <1>3, <2>1
  <2> DEFINE w == <<"worker", IF r = hand THEN "hand" ELSE "kept">>
  <2>4. W = {w}
    BY <1>6, <2>2
  <2> HIDE DEF w, A, W, U
  <2>5. Homes(r) = {w}
    BY <1>1, <2>3, <2>4
  <2>6. QED
    BY <2>5
<1>7. ASSUME NEW q \in Queues, r \in Elems(items[q]) PROVE \E h : Homes(r) = {h}
  <2>1. q \in live
    BY <1>4, <1>7
  <2>2. S = {} /\ hand # r /\ kept # r
    BY <1>2, <1>7 DEF Plain
  <2>3. \A p \in live : p # q => r \notin Elems(items[p])
    BY <1>2, <1>4, <1>7 DEF Plain
  <2>4. PICK k \in 1 .. Len(items[q]) : items[q][k] = r
    BY <1>7 DEF Elems
  <2>5. {j \in 1 .. Len(items[q]) : items[q][j] = r} = {k}
    BY <1>2, <2>4 DEF Plain, Distinct
  <2>6. Q(q) = {<<"queue", q, k>>}
    BY <2>5
  <2>7. \A p \in live : p # q => Q(p) = {}
    BY <1>3, <2>3
  <2> HIDE DEF Q
  <2>8. U = Q(q)
    BY <2>1, <2>7
  <2>9. A = {} /\ W = {}
    BY <2>2
  <2>10. QED
    BY <1>1, <2>6, <2>8, <2>9
<1>8. ASSUME ~Pending(r) PROVE Homes(r) = {}
  <2>1. S = {} /\ hand # r /\ kept # r /\ \A q \in live : r \notin Elems(items[q])
    BY <1>4, <1>8 DEF Pending
  <2>2. A = {} /\ W = {}
    BY <2>1
  <2>3. U = {}
    BY <1>3, <2>1
  <2>4. QED
    BY <1>1, <2>2, <2>3
<1>9. ASSUME Pending(r) PROVE \E h : Homes(r) = {h}
  <2>1. CASE \E t \in Senders : letter[t] = r
    BY <1>5, <2>1
  <2>2. CASE \E q \in Queues : r \in Elems(items[q])
    BY <1>7, <2>2
  <2>3. QED
    BY <1>6, <1>9, <2>1, <2>2 DEF Pending
<1>10. QED
  BY <1>2, <1>8, <1>9

(* A pending reply is in exactly one place, one that was sent, dropped,    *)
(* given back or lost in none: whatever the threads that send, close and   *)
(* reset do, no reply is written or freed twice.                           *)
THEOREM RepliesOneHome == Spec => []OneHome
<1>1. ASSUME IInv PROVE OneHome
  <2>1. TypeOK
    BY <1>1 DEF IInv
  <2>2. ASSUME NEW r \in Replies
        PROVE  Cardinality(Homes(r)) = IF fate[r] = "pending" THEN 1 ELSE 0
    <3>1. \A h : Cardinality({h}) = 1
      BY FS_Singleton
    <3>2. Cardinality({}) = 0
      BY FS_EmptySet
    <3>3. CASE fate[r] = "pending"
      BY <1>1, <3>1, <3>3, HomesIs
    <3>4. CASE fate[r] # "pending"
      BY <1>1, <3>2, <3>4, HomesIs
    <3>5. QED
      BY <3>3, <3>4
  <2>3. QED
    BY <2>1, <2>2 DEF OneHome
<1>2. QED
  BY <1>1, RepliesInvariant, PTL

-----------------------------------------------------------------------------
(* One thread sends.  What the worker finds in the queue and in its hand.  *)

OneSender == \A t, u \in Senders : t = u
RestInv == BegunInv /\ OrderInv /\ OwnerInv

LEMMA WaitingHome ==
  ASSUME IInv
  PROVE  /\ Waiting \in Seq(Replies) /\ Distinct(Waiting)
         /\ \A r \in Elems(Waiting) : /\ r \in Replies /\ fate[r] = "pending"
                                      /\ r # hand /\ r # kept
                                      /\ \A t \in Senders : letter[t] # r
         /\ hand # None => /\ hand \in Replies /\ fate[hand] = "pending"
                           /\ hand # kept /\ \A t \in Senders : letter[t] # hand
         /\ kept # None => kept \in Replies /\ fate[kept] = "pending"
         /\ \A t \in Senders : letter[t] # None =>
              letter[t] \in Replies /\ fate[letter[t]] = "pending"
<1> USE DEF IInv
<1>1. Plain /\ Waiting \in Seq(Replies)
  BY HomeIsPlain, WaitingType
<1>2. \A r \in Elems(Waiting) : r \in Replies /\ work \in Queues /\ r \in Elems(items[work])
  <2>1. CASE Waiting = <<>>
    BY <2>1, EmptyFacts
  <2>2. CASE Waiting # <<>>
    BY <1>1, <2>2, WaitingType DEF Elems
  <2>3. QED
    BY <2>1, <2>2
<1>3. Distinct(Waiting)
  <2>1. CASE Waiting = <<>>
    BY <2>1, EmptyFacts
  <2>2. CASE Waiting # <<>>
    BY <1>1, <2>2, WaitingType DEF Plain
  <2>3. QED
    BY <2>1, <2>2
<1>4. \A r \in Replies : Pending(r) => fate[r] = "pending"
  BY <1>1 DEF Plain
<1>5. \A r \in Elems(Waiting) : /\ r \in Replies /\ fate[r] = "pending"
                                /\ r # hand /\ r # kept
                                /\ \A t \in Senders : letter[t] # r
  BY <1>1, <1>2, <1>4, NoneIsNone DEF Plain, Pending
<1>6. /\ hand # None => /\ hand \in Replies /\ fate[hand] = "pending"
                        /\ hand # kept /\ \A t \in Senders : letter[t] # hand
      /\ kept # None => kept \in Replies /\ fate[kept] = "pending"
  BY <1>1, <1>4 DEF Plain, Pending, TypeOK
<1>7. \A t \in Senders : letter[t] # None =>
              letter[t] \in Replies /\ fate[letter[t]] = "pending"
  BY <1>4 DEF TypeOK, Pending
<1>8. QED
  BY <1>1, <1>3, <1>5, <1>6, <1>7

LEMMA WaitingIs ==
  ASSUME IInv
  PROVE  \A k \in 1 .. Len(Waiting) : Waiting[k] \in Elems(Waiting) /\ Waiting[k] \in Replies
  BY WaitingHome DEF Elems

(* Bookkeeping leaves alone what it does not dispose of.                   *)
LEMMA SettleKeeps ==
  ASSUME IInv, NEW f \in [Replies -> Fates], Settle(f)
  PROVE  /\ fate' = f
         /\ \A r \in Replies : f[r] = fate[r] =>
              left'[r] = left[r] /\ place'[r] = place[r] /\ for'[r] = for[r]
         /\ \A r \in Replies : f[r] \in {"unsent", "pending"} => left'[r] = left[r]
<1>1. TypeOK /\ CountInv
  BY DEF IInv
<1>2. /\ fate' = f
      /\ \A r \in Replies : f[r] \in {"unsent", "pending"} =>
              left'[r] = left[r] /\ place'[r] = place[r] /\ for'[r] = for[r]
      /\ \A r \in Replies : f[r] \notin {"unsent", "pending"} =>
              left'[r] = 0 /\ place'[r] = 0 /\ for'[r] = 0
  BY <1>1, SettleFacts
<1>3. QED
  BY <1>1, <1>2 DEF CountInv

LEMMA FinishKeeps ==
  ASSUME IInv, NEW rs, NEW g \in Fates, Finish(rs, g)
  PROVE  /\ \A r \in Replies : fate'[r] = IF r \in rs THEN g ELSE fate[r]
         /\ \A r \in Replies \ rs :
              left'[r] = left[r] /\ place'[r] = place[r] /\ for'[r] = for[r]
         /\ \A r \in Replies : fate'[r] \in {"unsent", "pending"} => left'[r] = left[r]
<1> DEFINE f == [r \in Replies |-> IF r \in rs THEN g ELSE fate[r]]
<1>1. f \in [Replies -> Fates] /\ Settle(f)
  BY DEF Finish, TypeOK, IInv
<1>2. \A r \in Replies : f[r] = IF r \in rs THEN g ELSE fate[r]
  OBVIOUS
<1> HIDE DEF f
<1>3. QED
  BY <1>1, <1>2, SettleKeeps

(* The worker keeps its reply, the queue stays.                            *)
LEMMA RestQuiet ==
  ASSUME IInv, RestInv, UNCHANGED <<hand, kept, gen>>, Waiting' = Waiting,
         elapsed \subseteq elapsed',
         \A r \in Replies : fate'[r] = "unsent" => left'[r] = Length,
         \A r \in Replies : Partial(r)' => Partial(r) \/ (r = hand /\ r \notin Delayed \ elapsed),
         \A r \in Replies : r = hand \/ r \in Elems(Waiting) =>
           place'[r] = place[r] /\ for'[r] = for[r],
         pc' \in {"requeue", "requeue_last"} => hand \in Delayed /\ ~Partial(hand)',
         pc' \in {"drain", "free", "closed"} => gen' = 0,
         pc \in {"drain", "free"} => pc' \in {"drain", "free"}
  PROVE  RestInv'
<1> USE DEF RestInv
<1>1. BegunInv'
  <2>1. ASSUME NEW r \in Replies, Partial(r)'
        PROVE  /\ r \notin Delayed \ elapsed'
               /\ \/ r = hand \/ r = kept
                  \/ hand = None /\ kept = None /\ Waiting # <<>> /\ r = Head(Waiting)
    BY <2>1 DEF BegunInv
  <2>2. QED
    BY <2>1 DEF BegunInv
<1>2. \A k \in 1 .. Len(Waiting) : /\ Waiting[k] \in Replies
                                   /\ place'[Waiting[k]] = place[Waiting[k]]
                                   /\ for'[Waiting[k]] = for[Waiting[k]]
  BY WaitingIs
<1>3. hand # None => hand \in Replies /\ place'[hand] = place[hand]
  BY WaitingHome
<1>4. OrderInv'
  BY <1>2, <1>3 DEF OrderInv, InOrder
<1>5. OwnerInv'
  BY <1>2 DEF OwnerInv
<1>6. QED
  BY <1>1, <1>4, <1>5

(* The worker has done with its reply, the queue stays.                    *)
LEMMA RestDone ==
  ASSUME IInv, RestInv, hand # None, hand' = None, kept = None, UNCHANGED <<kept, gen>>,
         Waiting' = Waiting, NEW g \in Fates \ {"unsent", "pending"}, Finish({hand}, g),
         pc \notin {"drain", "free", "closed"}, pc' \in {"away", "get", "close"}
  PROVE  RestInv'
<1> USE DEF RestInv
<1>1. /\ \A r \in Replies : fate'[r] = IF r = hand THEN g ELSE fate[r]
      /\ \A r \in Replies \ {hand} :
            left'[r] = left[r] /\ place'[r] = place[r] /\ for'[r] = for[r]
  BY FinishKeeps
<1>2. \A r \in Replies : ~Partial(r)'
  BY <1>1, NoneIsNone DEF BegunInv, Partial
<1>3. BegunInv'
  BY <1>1, <1>2 DEF BegunInv
<1>4. \A k \in 1 .. Len(Waiting) : /\ Waiting[k] \in Replies
                                   /\ place'[Waiting[k]] = place[Waiting[k]]
                                   /\ for'[Waiting[k]] = for[Waiting[k]]
  BY <1>1, WaitingIs, WaitingHome
<1>5. OrderInv'
  BY <1>4 DEF OrderInv, InOrder
<1>6. OwnerInv'
  BY <1>4, NoneIsNone DEF OwnerInv
<1>7. QED
  BY <1>3, <1>5, <1>6

(* The queue is emptied or freed.                                          *)
LEMMA RestEmptied ==
  ASSUME IInv, RestInv, Waiting' = <<>>, UNCHANGED <<gen, elapsed>>, hand' \in {hand, None},
         \A r \in Replies : fate'[r] = "unsent" => left'[r] = Length,
         \A r \in Replies : Partial(r)' => Partial(r) /\ (r = hand' \/ r = kept'),
         hand # None => for'[hand] = for[hand],
         pc' \notin {"requeue", "requeue_last"},
         pc' \in {"drain", "free", "closed"} => gen' = 0,
         pc \in {"drain", "free"} => pc' \in {"drain", "free"} \/ hand' = None
  PROVE  RestInv'
<1> USE DEF RestInv
<1>1. BegunInv'
  BY DEF BegunInv
<1>2. Len(Waiting') = 0 /\ \A k : k \notin 1 .. Len(Waiting')
  OBVIOUS
<1>3. OrderInv'
  BY <1>2 DEF OrderInv, InOrder
<1>4. hand' # None => hand' = hand
  OBVIOUS
<1>5. OwnerInv'
  BY <1>2, <1>4, NoneIsNone DEF OwnerInv
<1>6. QED
  BY <1>1, <1>3, <1>5

LEMMA RestSend ==
  ASSUME IInv, SoleQueue, RestInv, OneSender,
         NEW t \in Senders, (\E r \in Replies : Send(t, r)) \/ SendStep(t)
  PROVE  RestInv'
<1> USE DEF RestInv
<1>1. UNCHANGED <<gen, opened, pc, hand, kept, elapsed>>
  BY DEF Send, SendStep, SendAlloc, SendInstall, SendFetch, SendAdd, socket
<1>2. /\ pc \in {"requeue", "requeue_last"} => hand \in Delayed /\ ~Partial(hand) /\ hand # None
      /\ pc \in {"drain", "free", "closed"} => gen = 0
  BY DEF BegunInv, OwnerInv, IInv, WorkerInv
<1>3. ASSUME NEW r \in Replies, Send(t, r) PROVE RestInv'
  <2>1. fate[r] = "unsent" /\ UNCHANGED <<work, items>>
    BY <1>3 DEF Send, queues
  <2>2. PICK g \in {"dropped", "pending"} : Finish({r}, g)
    BY <1>3 DEF Send
  <2>3. g \in Fates
    BY <2>2 DEF Fates
  <2>4. /\ \A u \in Replies : fate'[u] = IF u = r THEN g ELSE fate[u]
        /\ \A u \in Replies \ {r} :
             left'[u] = left[u] /\ place'[u] = place[u] /\ for'[u] = for[u]
        /\ \A u \in Replies : fate'[u] \in {"unsent", "pending"} => left'[u] = left[u]
    BY <2>2, <2>3, FinishKeeps
  <2>5. Waiting' = Waiting
    BY <2>1 DEF Waiting
  <2>6. \A u \in Replies : fate'[u] = "unsent" => left'[u] = Length
    BY <2>2, <2>4 DEF BegunInv
  <2>7. \A u \in Replies : Partial(u)' => Partial(u)
    BY <2>1, <2>4, LengthAssumption DEF BegunInv, Partial
  <2>8. \A u \in Replies : u = hand \/ u \in Elems(Waiting) =>
          place'[u] = place[u] /\ for'[u] = for[u]
    BY <2>1, <2>4, WaitingHome, NoneIsNone
  <2>9. hand # None => hand \in Replies
    BY WaitingHome
  <2> HIDE DEF RestInv
  <2>10. QED
    BY <1>1, <1>2, <2>5, <2>6, <2>7, <2>8, <2>9, RestQuiet
<1>4. CASE SendAlloc(t) \/ SendInstall(t) \/ SendFetch(t)
  <2>1. UNCHANGED <<fate, left, place, for>>
    BY <1>4 DEF SendAlloc, SendInstall, SendFetch, history
  <2>2. Waiting' = Waiting
    <3>1. CASE SendAlloc(t)
      <4>1. work' = work /\ (items' = items \/
               \E q \in Queues \ live : work = None /\ items' = [items EXCEPT ![q] = <<>>])
        BY <3>1 DEF SendAlloc
      <4>2. QED
        BY <4>1 DEF Waiting
    <3>2. CASE SendInstall(t)
      <4>1. at[t] = "install" /\ work' = ptr[t] /\ items' = items
        BY <3>2 DEF SendInstall
      <4>2. QED
        BY <4>1 DEF Waiting, SoleQueue
    <3>3. CASE SendFetch(t)
      BY <3>3 DEF SendFetch, Waiting, queues
    <3>4. QED
      BY <1>4, <3>1, <3>2, <3>3
  <2>3. /\ \A u \in Replies : fate'[u] = "unsent" => left'[u] = Length
        /\ \A u \in Replies : Partial(u)' => Partial(u)
    BY <2>1 DEF BegunInv, Partial
  <2>4. hand # None => hand \in Replies
    BY WaitingHome
  <2>5. ~Partial(hand) => ~Partial(hand)'
    BY <1>1, <2>1 DEF Partial
  <2> HIDE DEF RestInv
  <2>6. QED
    BY <1>1, <1>2, <2>1, <2>2, <2>3, <2>4, <2>5, RestQuiet
<1>5. CASE SendAdd(t)
  <2> DEFINE r == letter[t]
  <2>1. at[t] = "add" /\ work' = work
    BY <1>5 DEF SendAdd
  <2>2. r # None /\ r \in Replies /\ fate[r] = "pending" /\ r # hand /\ r \notin Elems(Waiting)
    <3>1. r # None
      BY <2>1 DEF IInv, QueueInv
    <3>2. QED
      BY <3>1, WaitingHome
  <2>3. CASE Finish({r}, "lost") /\ UNCHANGED items
    <3>1. "lost" \in Fates
      BY DEF Fates
    <3>2. /\ \A u \in Replies : fate'[u] = IF u = r THEN "lost" ELSE fate[u]
          /\ \A u \in Replies \ {r} :
               left'[u] = left[u] /\ place'[u] = place[u] /\ for'[u] = for[u]
          /\ \A u \in Replies : fate'[u] \in {"unsent", "pending"} => left'[u] = left[u]
      BY <2>3, <3>1, FinishKeeps
    <3>3. Waiting' = Waiting
      BY <2>1, <2>3 DEF Waiting
    <3>4. /\ \A u \in Replies : fate'[u] = "unsent" => left'[u] = Length
          /\ \A u \in Replies : Partial(u)' => Partial(u)
      BY <3>2 DEF BegunInv, Partial
    <3>5. \A u \in Replies : u = hand \/ u \in Elems(Waiting) =>
            place'[u] = place[u] /\ for'[u] = for[u]
      BY <2>2, <3>2
    <3>6. hand # None => hand \in Replies
      BY WaitingHome
    <3> HIDE DEF RestInv
    <3>7. QED
      BY <1>1, <1>2, <3>3, <3>4, <3>5, <3>6, RestQuiet
  <2>4. CASE /\ ptr[t] \in live
             /\ items' = [items EXCEPT ![ptr[t]] = Append(@, r)]
             /\ place' = [place EXCEPT ![r] = 1 + Latest]
             /\ for' = [for EXCEPT ![r] = gen]
             /\ UNCHANGED <<fate, left>>
    <3>1. ptr[t] = work
      BY <2>1, <2>4 DEF SoleQueue
    <3>2. work \in Queues /\ Waiting = items[work] /\ work # None /\ items \in [Queues -> Seq(Replies)]
      BY <2>4, <3>1, NoneIsNone DEF IInv, TypeOK, Waiting
    <3>3. Waiting' = Append(Waiting, r)
      BY <2>1, <2>4, <3>1, <3>2 DEF Waiting
    <3> DEFINE a == Append(Waiting, r)
    <3>4. /\ Waiting \in Seq(Replies) /\ Len(a) = Len(Waiting) + 1 /\ a[Len(Waiting) + 1] = r
          /\ \A k \in 1 .. Len(Waiting) : a[k] = Waiting[k]
          /\ Waiting # <<>> => Head(a) = Head(Waiting)
          /\ a # <<>>
      BY <2>2, WaitingHome, AppendProperties, HeadTailAppend
    <3> HIDE DEF a
    <3>5. \A k \in 1 .. Len(Waiting) + 1 : k \in 1 .. Len(Waiting) \/ k = Len(Waiting) + 1
      BY <3>4
    <3>6. Latest \in Nat /\ \A u \in Replies : place[u] <= Latest /\ place[u] \in Nat
      <4>1. Cardinality(Gone) \in Nat
        BY RepliesAssumption, FS_Subset, FS_CardinalityType DEF Gone
      <4>2. QED
        BY <4>1, LatestIs, CardType DEF IInv, TypeOK
    <3>7. \A u \in Replies \ {r} : place'[u] = place[u] /\ for'[u] = for[u]
      BY <2>2, <2>4 DEF IInv, TypeOK
    <3>8. place'[r] = 1 + Latest /\ for'[r] = gen
      BY <2>2, <2>4 DEF IInv, TypeOK
    <3>9. BegunInv'
      <4>1. \A u \in Replies : Partial(u)' <=> Partial(u)
        BY <2>4 DEF Partial
      <4>2. hand' # None => hand \in Replies
        BY <1>1, WaitingHome
      <4>3. Waiting' = a
        BY <3>3 DEF a
      <4>4. pc' \in {"requeue", "requeue_last"} => hand' \in Delayed /\ ~Partial(hand)'
        BY <1>1, <1>2, <2>4 DEF Partial
      <4>5. QED
        BY <1>1, <2>4, <3>4, <4>1, <4>3, <4>4 DEF BegunInv
    <3>10. \A k \in 1 .. Len(Waiting) : Waiting[k] \in Replies \ {r} /\ Waiting[k] \in Elems(Waiting)
      BY <2>2, WaitingIs
    <3>11. OrderInv'
      <4>1. ASSUME NEW j \in 1 .. Len(Waiting) + 1, NEW k \in 1 .. Len(Waiting) + 1,
                   j < k, a[k] \notin Delayed
            PROVE  place'[a[j]] < place'[a[k]]
        <5>1. j \in 1 .. Len(Waiting)
          BY <3>4, <4>1
        <5>2. CASE k \in 1 .. Len(Waiting)
          BY <3>4, <3>7, <3>10, <4>1, <5>1, <5>2 DEF OrderInv, InOrder
        <5>3. CASE k = Len(Waiting) + 1
          BY <3>4, <3>6, <3>7, <3>8, <3>10, <4>1, <5>1, <5>3
        <5>4. QED
          BY <3>5, <5>2, <5>3
      <4>2. ASSUME hand # None, NEW k \in 1 .. Len(Waiting) + 1, a[k] \notin Delayed
            PROVE  place'[hand] < place'[a[k]]
        <5>1. hand \in Replies \ {r}
          BY <2>2, <4>2, WaitingHome
        <5>2. CASE k \in 1 .. Len(Waiting)
          BY <3>4, <3>7, <3>10, <4>2, <5>1, <5>2 DEF OrderInv
        <5>3. CASE k = Len(Waiting) + 1
          BY <3>4, <3>6, <3>7, <3>8, <5>1, <5>3
        <5>4. QED
          BY <3>5, <5>2, <5>3
      <4>3. Waiting' = a
        BY <3>3 DEF a
      <4>4. QED
        BY <1>1, <3>4, <4>1, <4>2, <4>3 DEF OrderInv, InOrder
    <3>12. OwnerInv'
      <4>1. Waiting' = a
        BY <3>3 DEF a
      <4>2. ASSUME NEW u \in Replies, pc \notin {"drain", "free"},
                   u = hand \/ \E k \in 1 .. Len(Waiting) + 1 : a[k] = u
            PROVE  for'[u] \in {0, gen}
        <5>1. CASE u = r
          BY <3>8, <5>1
        <5>2. CASE u # r
          <6>1. u = hand \/ \E k \in 1 .. Len(Waiting) : Waiting[k] = u
            BY <3>4, <3>5, <4>2, <5>2
          <6>2. QED
            BY <3>7, <4>2, <5>2, <6>1 DEF OwnerInv
        <5>3. QED
          BY <5>1, <5>2
      <4>3. QED
        BY <1>1, <1>2, <3>4, <4>1, <4>2 DEF OwnerInv
    <3>13. QED
      BY <3>9, <3>11, <3>12
  <2>5. QED
    BY <1>5, <2>3, <2>4 DEF SendAdd
<1>6. QED
  BY <1>3, <1>4, <1>5 DEF SendStep

LEMMA RestGet == ASSUME IInv, RestInv, Get PROVE RestInv'
<1> USE DEF RestInv
<1>1. /\ pc = "get" /\ pc' = "process" /\ Waiting # <<>> /\ hand' = Head(Waiting)
      /\ items' = [items EXCEPT ![work] = Tail(@)]
      /\ UNCHANGED <<gen, opened, work, kept, left, elapsed, fate, place, for>>
  BY DEF Get, Worker, socket, history
<1>2. work \in Queues /\ Waiting = items[work] /\ work # None
  BY <1>1, WaitingType, NoneIsNone DEF IInv
<1>3. Waiting' = Tail(Waiting)
  BY <1>1, <1>2 DEF Waiting, IInv, TypeOK
<1> DEFINE w == Waiting
           a == Tail(Waiting)
<1>4. /\ hand' = w[1] /\ hand' = Head(w) /\ Len(a) = Len(w) - 1 /\ Len(w) \in Nat
      /\ \A k \in 1 .. Len(w) - 1 : a[k] = w[k + 1]
  <2>1. w \in Seq(Replies)
    BY WaitingHome
  <2>2. QED
    BY <1>1, <2>1, TailFacts
<1>5. hand = None /\ kept = None
  BY <1>1 DEF IInv, WorkerInv
<1>6. Waiting' = a
  BY <1>3
<1> HIDE DEF w, a
<1>7. /\ \A k \in 1 .. Len(w) - 1 : k + 1 \in 1 .. Len(w) /\ 1 < k + 1
      /\ Len(w) # 0 => 1 \in 1 .. Len(w)
      /\ \A j, k \in 1 .. Len(w) - 1 : j < k => j + 1 < k + 1
  BY <1>4
<1>8. Len(w) # 0
  BY <1>1, WaitingHome DEF w
<1>9. BegunInv'
  BY <1>1, <1>4, <1>5, NoneIsNone DEF BegunInv, Partial, w
<1>10. InOrder(w) /\ \A j, k \in 1 .. Len(w) : j < k /\ w[k] \notin Delayed => place[w[j]] < place[w[k]]
  BY DEF OrderInv, InOrder, w
<1>11. OrderInv'
  <2>1. \A j, k \in 1 .. Len(w) - 1 : j < k /\ a[k] \notin Delayed => place[a[j]] < place[a[k]]
    BY <1>4, <1>7, <1>10
  <2>2. \A k \in 1 .. Len(w) - 1 : a[k] \notin Delayed => place[w[1]] < place[a[k]]
    BY <1>4, <1>7, <1>8, <1>10
  <2>3. QED
    BY <1>1, <1>4, <1>6, <2>1, <2>2 DEF OrderInv, InOrder
<1>12. OwnerInv'
  <2>1. \A r \in Replies : (\E k \in 1 .. Len(w) : w[k] = r) => for[r] \in {0, gen}
    BY <1>1 DEF OwnerInv, w
  <2>2. \A r \in Replies : r = hand' \/ (\E k \in 1 .. Len(a) : a[k] = r) =>
          \E k \in 1 .. Len(w) : w[k] = r
    BY <1>4, <1>7, <1>8
  <2>3. QED
    BY <1>1, <1>6, <2>1, <2>2 DEF OwnerInv
<1>13. QED
  BY <1>9, <1>11, <1>12

LEMMA RestPutBack == ASSUME IInv, RestInv, Requeue \/ PushBack PROVE RestInv'
<1> USE DEF RestInv
<1>1. /\ pc \in {"requeue", "requeue_last", "push"} /\ pc' \in {"get", "away"}
      /\ \/ pc # "push" /\ GoBack(Append(Waiting, hand))
         \/ pc = "push" /\ GoBack(<<hand>> \o Waiting)
  BY DEF Requeue, PushBack, Worker
<1>2. kept = None /\ hand # None /\ hand \in Replies
  BY <1>1, WaitingHome DEF IInv, WorkerInv
<1>3. hand' = None /\ UNCHANGED <<gen, opened, work, kept, elapsed>>
  BY <1>1 DEF GoBack, socket
<1>4. CASE work = None
  <2>1. Finish({hand}, "lost") /\ Waiting' = Waiting
    BY <1>1, <1>3, <1>4 DEF GoBack, Waiting
  <2>2. "lost" \in Fates \ {"unsent", "pending"}
    BY DEF Fates
  <2> HIDE DEF RestInv
  <2>3. QED
    BY <1>1, <1>2, <1>3, <2>1, <2>2, RestDone
<1>5. CASE work # None
  <2>1. UNCHANGED <<fate, left, place, for>>
    BY <1>1, <1>5 DEF GoBack, body, history
  <2>2. work \in Queues /\ Waiting \in Seq(Replies) /\ items \in [Queues -> Seq(Replies)]
    BY <1>5, WaitingType DEF IInv, TypeOK
  <2>3. \A s : GoBack(s) => Waiting' = s
    BY <1>3, <1>5, <2>2 DEF GoBack, Waiting
  <2> DEFINE w == Waiting
  <2>4. /\ \A j, k \in 1 .. Len(w) : j < k /\ w[k] \notin Delayed => place[w[j]] < place[w[k]]
        /\ \A k \in 1 .. Len(w) : w[k] \notin Delayed => place[hand] < place[w[k]]
    BY <1>2 DEF OrderInv, InOrder
  <2>5. pc \in {"drain", "free"} \/ \A r \in Replies :
          r = hand \/ (\E k \in 1 .. Len(w) : w[k] = r) => for[r] \in {0, gen}
    BY DEF OwnerInv
  <2>6. \A r \in Replies : Partial(r) => r = hand /\ r \notin Delayed \ elapsed
    BY <1>2, NoneIsNone DEF BegunInv
  <2>7. \A r \in Replies : Partial(r)' <=> Partial(r)
    BY <2>1 DEF Partial
  <2>8. CASE pc # "push"
    <3> DEFINE a == Append(w, hand)
    <3>1. /\ Waiting' = a /\ Len(a) = Len(w) + 1 /\ a[Len(w) + 1] = hand
          /\ \A k \in 1 .. Len(w) : a[k] = w[k]
      BY <1>1, <1>2, <2>2, <2>3, <2>8, AppendProperties
    <3>2. hand \in Delayed /\ ~Partial(hand)
      BY <1>1, <2>8 DEF BegunInv
    <3> HIDE DEF a, w
    <3>3. \A k \in 1 .. Len(w) + 1 : k \in 1 .. Len(w) \/ k = Len(w) + 1
      BY <2>2 DEF w
    <3>4. BegunInv'
      <4>1. \A r \in Replies : ~Partial(r)'
        BY <2>6, <2>7, <3>2
      <4>2. QED
        BY <1>1, <2>1, <4>1 DEF BegunInv
    <3>5. \A j, k \in 1 .. Len(w) + 1 : j < k /\ a[k] \notin Delayed =>
            k \in 1 .. Len(w) /\ j \in 1 .. Len(w)
      BY <3>1, <3>2, <3>3
    <3>6. OrderInv'
      BY <1>3, <2>1, <2>4, <3>1, <3>5 DEF OrderInv, InOrder
    <3>7. OwnerInv'
      <4>1. \A r \in Replies : (\E k \in 1 .. Len(w) + 1 : a[k] = r) =>
              r = hand \/ \E k \in 1 .. Len(w) : w[k] = r
        BY <3>1, <3>3
      <4>2. QED
        BY <1>1, <1>3, <2>1, <2>5, <3>1, <4>1, NoneIsNone DEF OwnerInv
    <3>8. QED
      BY <3>4, <3>6, <3>7
  <2>9. CASE pc = "push"
    <3> DEFINE a == <<hand>> \o w
    <3>1. /\ Waiting' = a /\ a # <<>> /\ Len(a) = Len(w) + 1 /\ a[1] = hand /\ Head(a) = hand
          /\ \A k \in 1 .. Len(w) : a[k + 1] = w[k]
      <4>1. /\ a # <<>> /\ Len(a) = Len(w) + 1 /\ a[1] = hand /\ Head(a) = hand
            /\ \A k \in 1 .. Len(w) : a[k + 1] = w[k]
        <5> HIDE DEF w
        <5>1. w \in Seq(Replies)
          BY <2>2 DEF w
        <5>2. QED
          BY <1>2, <5>1, PushFacts
      <4>2. Waiting' = a
        BY <1>1, <2>3, <2>9
      <4>3. QED
        BY <4>1, <4>2
    <3> HIDE DEF a, w
    <3>2. \A k \in 1 .. Len(w) + 1 : k = 1 \/ (k - 1 \in 1 .. Len(w) /\ (k - 1) + 1 = k)
      BY <2>2 DEF w
    <3>3. \A k \in 1 .. Len(w) + 1 : k = 1 \/ (k - 1 \in 1 .. Len(w) /\ a[k] = w[k - 1])
      BY <3>1, <3>2
    <3>4. BegunInv'
      BY <1>1, <1>2, <1>3, <2>1, <2>6, <2>7, <3>1 DEF BegunInv
    <3>5. ASSUME NEW j \in 1 .. Len(w) + 1, NEW k \in 1 .. Len(w) + 1, j < k, a[k] \notin Delayed
          PROVE  place[a[j]] < place[a[k]]
      <4>1. k # 1 /\ k - 1 \in 1 .. Len(w) /\ a[k] = w[k - 1]
        BY <3>3, <3>5
      <4>2. CASE j = 1
        BY <2>4, <3>1, <3>5, <4>1, <4>2
      <4>3. CASE j # 1
        <5>1. j - 1 \in 1 .. Len(w) /\ a[j] = w[j - 1] /\ j - 1 < k - 1
          BY <3>3, <3>5, <4>3
        <5>2. QED
          BY <2>4, <3>5, <4>1, <5>1
      <4>4. QED
        BY <4>2, <4>3
    <3>6. OrderInv'
      BY <1>3, <2>1, <3>1, <3>5 DEF OrderInv, InOrder
    <3>7. OwnerInv'
      <4>1. \A r \in Replies : (\E k \in 1 .. Len(w) + 1 : a[k] = r) =>
              r = hand \/ \E k \in 1 .. Len(w) : w[k] = r
        BY <3>1, <3>3
      <4>2. QED
        BY <1>1, <1>3, <2>1, <2>5, <2>9, <3>1, <4>1, NoneIsNone DEF OwnerInv
    <3>8. QED
      BY <3>4, <3>6, <3>7
  <2>10. QED
    BY <2>8, <2>9
<1>6. QED
  BY <1>4, <1>5

LEMMA RestProcess == ASSUME IInv, RestInv, Process PROVE RestInv'
<1>1. /\ pc = "process" /\ hand \in Replies /\ hand # None /\ kept = None
      /\ UNCHANGED <<gen, opened, work, items, kept, elapsed>>
  BY DEF Process, ProcessAlien, ProcessDelay, ProcessPart, ProcessAll, ProcessFatal, Worker,
         WorkerInv, TypeOK, IInv, socket, queues
<1>2. Waiting' = Waiting
  BY <1>1 DEF Waiting
<1>3. CASE ProcessAlien \/ ProcessAll
  <2>1. /\ hand' = None
        /\ \E g \in {"dropped", "sent"} : Finish({hand}, g)
        /\ pc' \in {"away", "close", "get"}
    BY <1>3 DEF ProcessAlien, ProcessAll, Worker
  <2>2. PICK g \in {"dropped", "sent"} : Finish({hand}, g)
    BY <2>1
  <2>3. g \in Fates \ {"unsent", "pending"}
    BY <2>2 DEF Fates
  <2>4. QED
    BY <1>1, <1>2, <2>1, <2>2, <2>3, RestDone
<1>4. CASE ProcessDelay
  <2>1. /\ UNCHANGED <<hand, left, fate, place, for>> /\ hand \in Delayed \ elapsed
        /\ pc' \in {"requeue", "requeue_last"}
    BY <1>4 DEF ProcessDelay, Worker, history
  <2>2. \A r \in Replies : Partial(r)' <=> Partial(r)
    BY <2>1 DEF Partial
  <2>3. hand \in Delayed /\ ~Partial(hand)'
    <3>1. ~Partial(hand)
      BY <1>1, <2>1 DEF RestInv, BegunInv
    <3>2. QED
      BY <2>1, <3>1 DEF Partial
  <2>4. \A r \in Replies : fate'[r] = "unsent" => left'[r] = Length
    BY <2>1 DEF RestInv, BegunInv
  <2>5. QED
    BY <1>1, <1>2, <2>1, <2>2, <2>3, <2>4, RestQuiet
<1>5. CASE ProcessPart \/ ProcessFatal
  <2>1. /\ UNCHANGED <<hand, fate, place, for>> /\ hand \notin Delayed \ elapsed
        /\ pc' \in {"push", "close", "reset"}
        /\ \/ UNCHANGED left
           \/ \E n \in 0 .. left[hand] - 1 : left' = [left EXCEPT ![hand] = @ - n]
    BY <1>5 DEF ProcessPart, ProcessFatal, Worker, history, Ready
  <2>2. \A r \in Replies \ {hand} : left'[r] = left[r]
    BY <2>1 DEF IInv, TypeOK
  <2>3. fate[hand] = "pending"
    BY <1>1, WaitingHome
  <2>4. \A r \in Replies : fate'[r] = "unsent" => left'[r] = Length
    BY <2>1, <2>2, <2>3 DEF RestInv, BegunInv
  <2>5. \A r \in Replies : Partial(r)' => Partial(r) \/ (r = hand /\ r \notin Delayed \ elapsed)
    BY <2>1, <2>2 DEF Partial
  <2>6. QED
    BY <1>1, <1>2, <2>1, <2>4, <2>5, RestQuiet
<1>6. QED
  BY <1>3, <1>4, <1>5 DEF Process

LEMMA RestEasy ==
  ASSUME IInv, RestInv,
         Take \/ GetNothing \/ ReadError \/ Dereg \/ Open \/ \E r \in Delayed : Elapse(r)
  PROVE  RestInv'
<1>1. UNCHANGED <<work, items, hand, kept, left, fate, place, for>>
  BY DEF Take, GetNothing, ReadError, Dereg, Open, Elapse, queues, history
<1>2. Waiting' = Waiting
  BY <1>1 DEF Waiting
<1>3. /\ \A r \in Replies : Partial(r)' <=> Partial(r)
      /\ Partial(hand)' <=> Partial(hand)
  BY <1>1 DEF Partial
<1>4. \A r \in Replies : fate'[r] = "unsent" => left'[r] = Length
  BY <1>1 DEF RestInv, BegunInv
<1>5. CASE Take \/ GetNothing \/ ReadError
  <2>1. /\ UNCHANGED <<gen, elapsed>>
        /\ pc \in {"away", "get"} /\ pc' \in {"get", "away", "close", "reset"}
    BY <1>5 DEF Take, GetNothing, ReadError, Worker, socket
  <2>2. QED
    BY <1>1, <1>2, <1>3, <1>4, <2>1, RestQuiet
<1>6. CASE \E r \in Delayed : Elapse(r)
  <2>1. UNCHANGED <<gen, pc>> /\ elapsed \subseteq elapsed'
    BY <1>6 DEF Elapse, socket
  <2>2. /\ pc \in {"requeue", "requeue_last"} => hand \in Delayed /\ ~Partial(hand)
        /\ pc \in {"drain", "free", "closed"} => gen = 0
    BY DEF RestInv, BegunInv, OwnerInv
  <2>3. QED
    BY <1>1, <1>2, <1>3, <1>4, <2>1, <2>2, RestQuiet
<1>7. ASSUME pc \notin {"requeue", "requeue_last"}, pc' \notin {"requeue", "requeue_last"},
             elapsed' = elapsed
      PROVE  BegunInv' /\ OrderInv'
  <2>1. BegunInv'
    BY <1>1, <1>2, <1>3, <1>4, <1>7 DEF RestInv, BegunInv
  <2>2. OrderInv'
    BY <1>1, <1>2 DEF RestInv, OrderInv, InOrder
  <2>3. QED
    BY <2>1, <2>2
<1>8. CASE Dereg
  <2>1. gen' = 0 /\ elapsed' = elapsed /\ pc = "close" /\ pc' = "drain"
    BY <1>8 DEF Dereg, Worker
  <2>2. OwnerInv'
    BY <2>1 DEF OwnerInv
  <2>3. QED
    BY <1>7, <2>1, <2>2 DEF RestInv
<1>9. CASE Open
  <2>1. gen = 0 /\ elapsed' = elapsed /\ pc' = "away" /\ (pc = "closed" \/ opened = 0)
    BY <1>9 DEF Open
  <2>2. pc \in {"closed", "away"} /\ hand = None
    BY <2>1 DEF IInv, WorkerInv
  <2>3. OwnerInv'
    BY <1>1, <1>2, <2>1, <2>2 DEF RestInv, OwnerInv
  <2>4. QED
    BY <1>7, <2>1, <2>2, <2>3 DEF RestInv
<1>10. QED
  BY <1>5, <1>6, <1>8, <1>9

LEMMA RestClose ==
  ASSUME IInv, RestInv, Drain \/ CloseEnd \/ ResetFree \/ ResetDrain
  PROVE  RestInv'
<1>1. \A q : In(q) = Elems(items[q])
  BY InIs
<1>2. UNCHANGED <<gen, elapsed>>
  BY DEF Drain, CloseEnd, ResetFree, ResetDrain, socket
<1>3. \A r \in Replies : Partial(r) =>
         \/ r = hand \/ r = kept
         \/ hand = None /\ kept = None /\ Waiting # <<>> /\ r = Head(Waiting)
  BY DEF RestInv, BegunInv
<1>4. /\ work # None => Waiting = items[work] /\ work \in Queues
      /\ work = None => Waiting = <<>>
      /\ Waiting # <<>> => Head(Waiting) \in Elems(Waiting)
  <2>1. Waiting \in Seq(Replies)
    BY WaitingHome
  <2>2. QED
    BY <2>1, WaitingType, TailFacts DEF IInv, Waiting
<1>5. /\ hand # None => hand \in Replies /\ hand \notin Elems(Waiting)
      /\ kept # None => kept \in Replies
  BY WaitingHome
<1>6. /\ pc \in {"drain", "free", "closed"} => gen = 0
      /\ kept # None => pc \in {"reset_free", "notify"}
  BY DEF RestInv, OwnerInv, IInv, WorkerInv
<1>7. \A r \in Replies : fate[r] = "unsent" => left[r] = Length
  BY DEF RestInv, BegunInv
<1>8. CASE Drain
  <2>1. pc = "drain" /\ pc' = "free" /\ UNCHANGED <<work, hand, kept>>
    BY <1>8 DEF Drain, Worker
  <2>2. CASE work = None /\ UNCHANGED <<items, body>>
    <3>1. Waiting' = <<>> /\ UNCHANGED <<fate, left, for>>
      BY <2>1, <2>2 DEF Waiting, body, history
    <3>2. \A r \in Replies : Partial(r)' => Partial(r) /\ (r = hand' \/ r = kept')
      BY <1>3, <1>4, <2>1, <2>2, <3>1 DEF Partial
    <3>3. QED
      BY <1>2, <1>6, <1>7, <2>1, <3>1, <3>2, RestEmptied
  <2>3. CASE work # None /\ Finish(In(work), "dropped") /\ items' = [items EXCEPT ![work] = <<>>]
    <3>1. "dropped" \in Fates
      BY DEF Fates
    <3>2. /\ \A r \in Replies : fate'[r] = IF r \in Elems(Waiting) THEN "dropped" ELSE fate[r]
          /\ \A r \in Replies \ Elems(Waiting) :
               left'[r] = left[r] /\ place'[r] = place[r] /\ for'[r] = for[r]
          /\ \A r \in Replies : fate'[r] \in {"unsent", "pending"} => left'[r] = left[r]
      <4>1. In(work) = Elems(Waiting)
        BY <1>1, <1>4, <2>3
      <4>2. Finish(Elems(Waiting), "dropped")
        BY <2>3, <4>1
      <4>3. QED
        BY <3>1, <4>2, FinishKeeps
    <3>3. Waiting' = <<>>
      BY <1>4, <2>1, <2>3 DEF Waiting, IInv, TypeOK
    <3>4. \A r \in Replies : Partial(r)' => Partial(r) /\ (r = hand' \/ r = kept')
      BY <1>3, <1>4, <2>1, <3>2 DEF Partial
    <3>5. \A r \in Replies : fate'[r] = "unsent" => left'[r] = Length
      BY <1>7, <3>2
    <3>6. hand # None => for'[hand] = for[hand]
      BY <1>5, <3>2
    <3>7. QED
      BY <1>2, <1>6, <2>1, <3>3, <3>4, <3>5, <3>6, RestEmptied
  <2>4. QED
    BY <1>8, <2>2, <2>3 DEF Drain
<1>9. CASE CloseEnd \/ ResetFree
  <2>1. \E done \in {hand, None} :
           /\ FreeQueue(done)
           /\ hand' = IF done = None THEN hand ELSE None
           /\ pc = "free" => done = hand
    <3>1. CASE CloseEnd
      BY <3>1 DEF CloseEnd
    <3>2. CASE ResetFree
      BY <3>2 DEF ResetFree, Worker
    <3>3. QED
      BY <1>9, <3>1, <3>2
  <2>2. PICK done \in {hand, None} :
           /\ FreeQueue(done)
           /\ hand' = IF done = None THEN hand ELSE None
           /\ pc = "free" => done = hand
    BY <2>1
  <2>3. /\ kept' = kept /\ work' = None
        /\ pc \in {"free", "reset_free"} /\ pc' = IF pc = "free" THEN "closed" ELSE "notify"
    BY <1>9 DEF CloseEnd, ResetFree, Worker, FreeQueue
  <2>4. PICK f \in [Replies -> Fates] :
           /\ Settle(f) /\ fate' = f
           /\ \A r \in Replies : f[r] =
                IF work # None /\ r \in Elems(items[work]) THEN "lost"
                ELSE IF r = done THEN "dropped" ELSE fate[r]
    BY <2>2, FreeQueueIs
  <2>5. /\ \A r \in Replies : f[r] = IF r \in Elems(Waiting) THEN "lost"
                                     ELSE IF r = done THEN "dropped" ELSE fate[r]
        /\ \A r \in Replies : f[r] = fate[r] => left'[r] = left[r] /\ for'[r] = for[r]
        /\ \A r \in Replies : f[r] \in {"unsent", "pending"} => left'[r] = left[r]
    <3>1. \A r : r \in Elems(Waiting) <=> work # None /\ r \in Elems(items[work])
      BY <1>4, EmptyFacts
    <3>2. QED
      BY <2>4, <3>1, SettleKeeps
  <2>6. Waiting' = <<>>
    BY <2>3 DEF Waiting
  <2>7. \A r \in Replies : Partial(r)' => Partial(r) /\ (r = hand' \/ r = kept')
    <3>1. \A r \in Replies : Partial(r)' => Partial(r) /\ r \notin Elems(Waiting) /\ r # done
      BY <2>4, <2>5 DEF Partial
    <3>2. QED
      BY <1>3, <1>4, <2>2, <2>3, <3>1, NoneIsNone
  <2>8. \A r \in Replies : fate'[r] = "unsent" => left'[r] = Length
    BY <1>7, <2>4, <2>5
  <2>9. CASE done = None
    <3>1. hand # None => for'[hand] = for[hand]
      BY <1>5, <2>5, <2>9
    <3>2. hand' = hand
      BY <2>2, <2>9
    <3>3. pc \in {"drain", "free"} => hand' = None
      BY <2>2, <2>3, <2>9
    <3>4. QED
      BY <1>2, <1>6, <2>3, <2>6, <2>7, <2>8, <3>1, <3>2, <3>3, RestEmptied
  <2>10. CASE done # None
    <3>1. hand' = None
      BY <2>2, <2>10
    <3>2. BegunInv'
      BY <2>3, <2>7, <2>8, <1>2 DEF BegunInv, RestInv
    <3>3. Len(Waiting') = 0 /\ \A k : k \notin 1 .. Len(Waiting')
      BY <2>6
    <3>4. OrderInv'
      BY <3>1, <3>3 DEF OrderInv, InOrder
    <3>5. OwnerInv'
      BY <1>2, <1>6, <2>3, <3>1, <3>3, NoneIsNone DEF OwnerInv
    <3>6. QED
      BY <3>2, <3>4, <3>5 DEF RestInv
  <2>11. QED
    BY <2>9, <2>10
<1>10. CASE ResetDrain
  <2>1. pc = "reset" /\ pc' = "reset_free" /\ UNCHANGED <<work, hand>> /\ kept' = FirstAcked(Waiting)
    BY <1>10 DEF ResetDrain, Worker
  <2>2. CASE work = None /\ UNCHANGED <<items, body>>
    <3>1. Waiting' = <<>> /\ UNCHANGED <<fate, left, for>>
      BY <2>1, <2>2 DEF Waiting, body, history
    <3>2. \A r \in Replies : Partial(r)' => Partial(r) /\ (r = hand' \/ r = kept')
      BY <1>3, <1>4, <1>6, <2>1, <2>2, <3>1, NoneIsNone DEF Partial
    <3>3. QED
      BY <1>2, <1>6, <1>7, <2>1, <3>1, <3>2, RestEmptied
  <2>3. CASE /\ work # None /\ items' = [items EXCEPT ![work] = <<>>]
             /\ Finish(In(work) \ {FirstAcked(Waiting)}, "dropped")
    <3>1. "dropped" \in Fates
      BY DEF Fates
    <3>2. /\ \A r \in Replies : fate'[r] = IF r \in Elems(Waiting) \ {kept'}
                                           THEN "dropped" ELSE fate[r]
          /\ \A r \in Replies \ (Elems(Waiting) \ {kept'}) :
               left'[r] = left[r] /\ place'[r] = place[r] /\ for'[r] = for[r]
          /\ \A r \in Replies : fate'[r] \in {"unsent", "pending"} => left'[r] = left[r]
      <4>1. In(work) = Elems(Waiting)
        BY <1>1, <1>4, <2>3
      <4>2. Finish(Elems(Waiting) \ {kept'}, "dropped")
        BY <2>1, <2>3, <4>1
      <4>3. QED
        BY <3>1, <4>2, FinishKeeps
    <3>3. Waiting' = <<>>
      BY <1>4, <2>1, <2>3 DEF Waiting, IInv, TypeOK
    <3>4. \A r \in Replies : Partial(r)' => Partial(r) /\ (r = hand' \/ r = kept')
      BY <1>3, <1>4, <1>6, <2>1, <3>2, NoneIsNone DEF Partial
    <3>5. \A r \in Replies : fate'[r] = "unsent" => left'[r] = Length
      BY <1>7, <3>2
    <3>6. hand # None => for'[hand] = for[hand]
      BY <1>5, <3>2
    <3>7. QED
      BY <1>2, <1>6, <2>1, <3>3, <3>4, <3>5, <3>6, RestEmptied
  <2>4. QED
    BY <1>10, <2>2, <2>3 DEF ResetDrain
<1>11. QED
  BY <1>8, <1>9, <1>10

LEMMA RestNotify == ASSUME IInv, RestInv, Notify PROVE RestInv'
<1>1. /\ pc = "notify" /\ pc' = IF hand = None THEN "away" ELSE "push"
      /\ Finish({kept} \ {None}, "returned") /\ kept' = None
      /\ UNCHANGED <<gen, work, items, hand, elapsed>>
  BY DEF Notify, Worker, socket, queues
<1>2. "returned" \in Fates
  BY DEF Fates
<1>3. /\ \A r \in Replies : fate'[r] = IF r = kept THEN "returned" ELSE fate[r]
      /\ \A r \in Replies \ {kept} :
            left'[r] = left[r] /\ place'[r] = place[r] /\ for'[r] = for[r]
      /\ \A r \in Replies : fate'[r] \in {"unsent", "pending"} => left'[r] = left[r]
  BY <1>1, <1>2, FinishKeeps, NoneIsNone
<1>4. Waiting' = Waiting
  BY <1>1 DEF Waiting
<1>5. \A r \in Replies : Partial(r)' => Partial(r) /\ r # kept
  BY <1>3 DEF Partial
<1>6. BegunInv'
  BY <1>1, <1>3, <1>4, <1>5 DEF RestInv, BegunInv
<1>7. \A k \in 1 .. Len(Waiting) : /\ Waiting[k] \in Replies
                                   /\ place'[Waiting[k]] = place[Waiting[k]]
                                   /\ for'[Waiting[k]] = for[Waiting[k]]
  BY <1>3, WaitingIs, WaitingHome
<1>8. hand # None => hand \in Replies /\ place'[hand] = place[hand] /\ for'[hand] = for[hand]
  BY <1>3, WaitingHome
<1>9. OrderInv'
  BY <1>1, <1>4, <1>7, <1>8 DEF RestInv, OrderInv, InOrder
<1>10. OwnerInv'
  BY <1>1, <1>4, <1>7, <1>8, NoneIsNone DEF RestInv, OwnerInv
<1>11. QED
  BY <1>6, <1>9, <1>10 DEF RestInv

(* What the worker does leaves a queue still to be installed alone.        *)
LEMMA SoleWorker ==
  ASSUME IInv, SoleQueue, UNCHANGED <<at, ptr>>,
         \/ UNCHANGED <<work, live>> /\ (work = None => items' = items)
         \/ live' = live \ {work} /\ work' = None /\ \E done : FreeQueue(done)
  PROVE  SoleQueue'
<1> USE DEF SoleQueue
<1>1. CASE UNCHANGED <<work, live>> /\ (work = None => items' = items)
  BY <1>1
<1>2. CASE live' = live \ {work} /\ work' = None /\ \E done : FreeQueue(done)
  <2>1. items' = [q \in Queues |-> IF q = work THEN <<>> ELSE items[q]]
    BY <1>2 DEF FreeQueue
  <2>2. \A t \in Senders : at[t] = "install" => ptr[t] \in Queues
    BY DEF IInv, QueueInv, TypeOK
  <2>3. QED
    BY <1>2, <2>1, <2>2
<1>3. QED
  BY <1>1, <1>2

LEMMA SoleSender ==
  ASSUME IInv, SoleQueue, OneSender,
         NEW t \in Senders, (\E r \in Replies : Send(t, r)) \/ SendStep(t)
  PROVE  SoleQueue'
<1> USE DEF SoleQueue, OneSender
<1>1. \A u \in Senders : u = t
  OBVIOUS
<1>2. CASE \E r \in Replies : Send(t, r)
  <2>1. UNCHANGED <<work, items, live, ptr>> /\ at[t] = "idle"
    BY <1>2 DEF Send, queues
  <2>2. at'[t] # "install"
    BY <1>2, <2>1 DEF Send, SenderGoto, IInv, TypeOK
  <2>3. QED
    BY <1>1, <2>1, <2>2
<1>3. CASE SendAlloc(t)
  <2>1. at[t] = "alloc" /\ work' = work
    BY <1>3 DEF SendAlloc
  <2>2. CASE work # None /\ SenderGoto(t, "fetch") /\ UNCHANGED <<live, items, ptr>>
    <3>1. at'[t] = "fetch"
      BY <2>2 DEF SenderGoto, IInv, TypeOK
    <3>2. QED
      BY <1>1, <2>1, <2>2, <3>1
  <2>3. CASE work = None /\ SenderGoto(t, "install") /\ \E q \in Queues \ live :
               /\ live' = live \cup {q}
               /\ items' = [items EXCEPT ![q] = <<>>]
               /\ ptr' = [ptr EXCEPT ![t] = q]
    <3>1. live = {}
      <4>1. \A q \in live : q = None
        BY <2>1, <2>3
      <4>2. None \notin live
        BY NoneIsNone DEF IInv, TypeOK
      <4>3. QED
        BY <4>1, <4>2
    <3>2. PICK q \in Queues : live' = {q} /\ ptr'[t] = q /\ items'[q] = <<>>
      BY <2>3, <3>1 DEF IInv, TypeOK
    <3>3. at'[t] = "install"
      BY <2>3 DEF SenderGoto, IInv, TypeOK
    <3>4. QED
      BY <1>1, <2>1, <2>3, <3>2, <3>3
  <2>4. QED
    BY <1>3, <2>2, <2>3 DEF SendAlloc
<1>4. CASE SendInstall(t)
  <2>1. at[t] = "install" /\ work' = ptr[t] /\ live' = live /\ at'[t] = "fetch"
    BY <1>4 DEF SendInstall, SenderGoto, IInv, TypeOK
  <2>2. \A q \in live : q = ptr[t]
    BY <1>1, <2>1, NoneIsNone DEF IInv, TypeOK
  <2>3. QED
    BY <1>1, <2>1, <2>2
<1>5. CASE SendFetch(t) \/ SendAdd(t)
  <2>1. at[t] # "install" /\ UNCHANGED <<work, live>> /\ at'[t] # "install"
    BY <1>5 DEF SendFetch, SendAdd, SenderGoto, IInv, TypeOK, queues
  <2>2. QED
    BY <1>1, <2>1
<1>6. QED
  BY <1>2, <1>3, <1>4, <1>5 DEF SendStep

LEMMA SoleStep ==
  ASSUME OneSender, IInv, SoleInv, [Next]_vars
  PROVE  SoleInv'
<1> SUFFICES SoleQueue' /\ RestInv'
  BY DEF SoleInv, RestInv
<1>1. SoleQueue /\ RestInv
  BY DEF SoleInv, RestInv
<1>2. ASSUME NEW t \in Senders, (\E r \in Replies : Send(t, r)) \/ SendStep(t)
      PROVE  SoleQueue' /\ RestInv'
  BY <1>1, <1>2, SoleSender, RestSend
<1>3. CASE Take \/ GetNothing \/ ReadError \/ Dereg \/ Open \/ \E r \in Delayed : Elapse(r)
  <2>1. UNCHANGED <<work, live, items, at, ptr>>
    BY <1>3 DEF Take, GetNothing, ReadError, Dereg, Open, Elapse, queues, sender
  <2>2. QED
    BY <1>1, <1>3, <2>1, SoleWorker, RestEasy
<1>4. CASE Get
  <2>1. Waiting # <<>> => work # None
    BY DEF Waiting
  <2>2. UNCHANGED <<work, live, at, ptr>> /\ work # None
    BY <1>4, <2>1 DEF Get, sender
  <2>3. QED
    BY <1>1, <1>4, <2>2, SoleWorker, RestGet
<1>5. CASE Process
  <2>1. UNCHANGED <<work, live, items, at, ptr>>
    BY <1>5 DEF Process, ProcessAlien, ProcessDelay, ProcessPart, ProcessAll, ProcessFatal,
                queues, sender
  <2>2. QED
    BY <1>1, <1>5, <2>1, SoleWorker, RestProcess
<1>6. CASE Requeue \/ PushBack
  <2>1. UNCHANGED <<work, live, at, ptr>> /\ (work = None => items' = items)
    BY <1>6 DEF Requeue, PushBack, GoBack, sender
  <2>2. QED
    BY <1>1, <1>6, <2>1, SoleWorker, RestPutBack
<1>7. CASE Drain \/ ResetDrain
  <2>1. UNCHANGED <<work, live, at, ptr>> /\ (work = None => items' = items)
    BY <1>7 DEF Drain, ResetDrain, sender
  <2>2. QED
    BY <1>1, <1>7, <2>1, SoleWorker, RestClose
<1>8. CASE CloseEnd \/ ResetFree
  <2>1. /\ UNCHANGED <<at, ptr>> /\ live' = live \ {work} /\ work' = None
        /\ \E done : FreeQueue(done)
    BY <1>8 DEF CloseEnd, ResetFree, FreeQueue, sender
  <2>2. QED
    BY <1>1, <1>8, <2>1, SoleWorker, RestClose
<1>9. CASE Notify
  <2>1. UNCHANGED <<work, live, items, at, ptr>>
    BY <1>9 DEF Notify, queues, sender
  <2>2. QED
    BY <1>1, <1>9, <2>1, SoleWorker, RestNotify
<1>10. CASE UNCHANGED vars
  <2>1. UNCHANGED <<gen, opened, mine, losses, work, items, live, pc, hand, kept, at, letter,
                    ptr, left, elapsed, fate, place, for>>
    BY <1>10 DEF vars, socket, queues, sender, history
  <2>2. Waiting' = Waiting
    BY <2>1 DEF Waiting
  <2>3. \A r : Partial(r)' <=> Partial(r)
    BY <2>1 DEF Partial
  <2>4. RestInv'
    BY <1>1, <2>1, <2>2, <2>3 DEF RestInv, BegunInv, OrderInv, InOrder, OwnerInv
  <2>5. QED
    BY <1>1, <2>1, <2>4, SoleWorker
<1>11. QED
  BY <1>2, <1>3, <1>4, <1>5, <1>6, <1>7, <1>8, <1>9, <1>10
  DEF Next, Respond, Close, Reset

LEMMA SoleInit == ASSUME Init PROVE SoleInv
<1> USE DEF Init
<1>1. Waiting = <<>>
  BY DEF Waiting
<1>2. \A r \in Replies : ~Partial(r)
  BY DEF Partial
<1>3. SoleQueue /\ BegunInv
  BY <1>2 DEF SoleQueue, BegunInv
<1>4. OrderInv /\ OwnerInv
  BY <1>1 DEF OrderInv, InOrder, OwnerInv
<1>5. QED
  BY <1>3, <1>4 DEF SoleInv

(* When one thread sends to a socket, its queue is the only one, in the    *)
(* order the replies were queued but for the delayed ones that have been   *)
(* put back, and a reply that has been begun is the worker's or the first. *)
THEOREM SoleInvariant == ASSUME OneSender PROVE Spec => [](IInv /\ SoleInv)
<1>1. Init => IInv /\ SoleInv
  BY InitInv, SoleInit
<1>2. (IInv /\ SoleInv) /\ [Next]_vars => (IInv /\ SoleInv)'
  BY StepInv, SoleStep
<1>3. QED
  BY <1>1, <1>2, PTL DEF Spec

-----------------------------------------------------------------------------
(* What is written.                                                        *)

LEMMA NoWrite ==
  ASSUME IInv, NEW rs, NEW g \in Fates \ {"pending", "sent"}, Finish(rs, g), NEW r \in Replies
  PROVE  ~Writes(r)
<1>1. /\ fate'[r] = IF r \in rs THEN g ELSE fate[r]
      /\ r \notin rs => left'[r] = left[r]
  BY FinishKeeps
<1>2. left[r] \in 0 .. Length
  BY DEF IInv, TypeOK
<1>3. QED
  BY <1>1, <1>2, LengthAssumption DEF Writes

(* The worker alone writes, the reply it has in its hand.                  *)
LEMMA WritesOnly ==
  ASSUME IInv, [Next]_vars, NEW r \in Replies, Writes(r)
  PROVE  pc = "process" /\ r = hand
<1>1. left[r] \in 0 .. Length /\ left' # left
  BY LengthAssumption DEF IInv, TypeOK, Writes
<1>2. {"dropped", "lost", "returned"} \subseteq Fates \ {"pending", "sent"}
  BY DEF Fates
<1>3. \A rs, g : g \in {"dropped", "lost", "returned"} => ~Finish(rs, g)
  BY <1>2, NoWrite
<1>4. ASSUME NEW t \in Senders, NEW u \in Replies, Send(t, u) PROVE FALSE
  <2>1. Finish({u}, "pending") /\ fate[u] = "unsent"
    BY <1>3, <1>4 DEF Send
  <2>2. "pending" \in Fates
    BY DEF Fates
  <2>3. /\ \A v \in Replies \ {u} : left'[v] = left[v]
        /\ fate'[u] = "pending"
        /\ \A v \in Replies : fate'[v] \in {"unsent", "pending"} => left'[v] = left[v]
    BY <2>1, <2>2, FinishKeeps
  <2>4. QED
    BY <1>1, <2>3, LengthAssumption DEF Writes
<1>5. ASSUME NEW t \in Senders, SendStep(t) PROVE FALSE
  BY <1>1, <1>3, <1>5 DEF SendStep, SendAlloc, SendInstall, SendFetch, SendAdd
<1>6. \A done \in {hand, None} : ~FreeQueue(done)
  <2> SUFFICES ASSUME NEW done \in {hand, None}, FreeQueue(done) PROVE FALSE
    OBVIOUS
  <2>1. PICK f \in [Replies -> Fates] :
           /\ Settle(f) /\ fate' = f
           /\ \A u \in Replies : f[u] =
                IF work # None /\ u \in Elems(items[work]) THEN "lost"
                ELSE IF u = done THEN "dropped" ELSE fate[u]
    BY FreeQueueIs
  <2>2. f[r] = fate[r] => left'[r] = left[r]
    BY <2>1, SettleKeeps
  <2>3. QED
    BY <1>1, <2>1, <2>2, LengthAssumption DEF Writes
<1>7. ~(Drain \/ CloseEnd \/ ResetDrain \/ ResetFree \/ Notify)
  <2>1. ~Drain /\ ~ResetDrain
    BY <1>1, <1>3 DEF Drain, ResetDrain, body
  <2>2. ~CloseEnd /\ ~ResetFree /\ ~Notify
    BY <1>3, <1>6 DEF CloseEnd, ResetFree, Notify
  <2>3. QED
    BY <2>1, <2>2
<1>8. ~(Take \/ GetNothing \/ ReadError \/ Dereg \/ Open \/ (\E u \in Delayed : Elapse(u)) \/ Get)
  BY <1>1 DEF Take, GetNothing, ReadError, Dereg, Open, Elapse, Get
<1>9. ~(Requeue \/ PushBack)
  BY <1>1, <1>3 DEF Requeue, PushBack, GoBack, body
<1>10. UNCHANGED vars => FALSE
  BY <1>1 DEF vars
<1>11. ASSUME Process PROVE pc = "process" /\ r = hand
  <2>1. pc = "process" /\ hand \in Replies
    BY <1>11, WaitingHome DEF Process, ProcessAlien, ProcessDelay, ProcessPart, ProcessAll,
                 ProcessFatal, Worker, IInv, WorkerInv
  <2>2. CASE ProcessAll
    <3>1. "sent" \in Fates /\ Finish({hand}, "sent")
      BY <2>2 DEF Fates, ProcessAll
    <3>2. r # hand => left'[r] = left[r]
      BY <3>1, FinishKeeps
    <3>3. QED
      BY <1>1, <2>1, <3>2, LengthAssumption DEF Writes
  <2>3. CASE ProcessPart \/ ProcessFatal
    <3>1. \/ UNCHANGED left
          \/ \E n \in 0 .. left[hand] - 1 : left' = [left EXCEPT ![hand] = @ - n]
      BY <2>3 DEF ProcessPart, ProcessFatal
    <3>2. r # hand => left'[r] = left[r]
      BY <1>1, <3>1 DEF IInv, TypeOK
    <3>3. QED
      BY <1>1, <2>1, <3>2, LengthAssumption DEF Writes
  <2>4. ~ProcessAlien /\ ~ProcessDelay
    BY <1>1, <1>3 DEF ProcessAlien, ProcessDelay
  <2>5. QED
    BY <1>11, <2>2, <2>3, <2>4 DEF Process
<1>12. QED
  BY <1>4, <1>5, <1>7, <1>8, <1>9, <1>10, <1>11 DEF Next, Respond, Close, Reset

(* Nothing is written between two parts of a reply, when one thread sends  *)
(* (with two, another reply can take the place of the unfinished one).     *)
THEOREM RepliesNeverInterleaved == ASSUME OneSender PROVE Spec => NeverInterleaved
<1>1. ASSUME IInv, SoleInv, [Next]_vars
      PROVE  \A r, u \in Replies : Writes(r) /\ Partial(u) => u = r
  <2> SUFFICES ASSUME NEW r \in Replies, NEW u \in Replies, Writes(r), Partial(u)
               PROVE  u = r
    OBVIOUS
  <2>1. pc = "process" /\ r = hand
    BY <1>1, WritesOnly
  <2>2. hand # None /\ kept = None
    BY <1>1, <2>1 DEF IInv, WorkerInv
  <2>3. QED
    BY <1>1, <2>1, <2>2, NoneIsNone DEF SoleInv, BegunInv
<1>2. IInv /\ SoleInv /\ [Next]_vars =>
        [\A r, u \in Replies : Writes(r) /\ Partial(u) => u = r]_vars
  BY <1>1
<1>3. QED
  BY <1>2, SoleInvariant, PTL DEF Spec, NeverInterleaved

(* A reply is not begun while one without delay queued before it waits,    *)
(* when one thread sends.                                                  *)
THEOREM RepliesNotOvertaken == ASSUME OneSender PROVE Spec => NotOvertaken
<1>1. ASSUME IInv, SoleInv, [Next]_vars
      PROVE  \A r \in Replies, u \in Replies \ Delayed :
               Writes(r) /\ place[u] < place[r] => ~Queued(u)
  <2> SUFFICES ASSUME NEW r \in Replies, NEW u \in Replies \ Delayed,
                      Writes(r), place[u] < place[r], Queued(u)
               PROVE  FALSE
    OBVIOUS
  <2>1. pc = "process" /\ r = hand
    BY <1>1, WritesOnly
  <2>2. PICK k \in 1 .. Len(Waiting) : Waiting[k] = u
    BY DEF Queued
  <2>3. place[r] < place[u]
    BY <1>1, <2>1, <2>2, NoneIsNone DEF SoleInv, OrderInv
  <2>4. place[r] \in Nat /\ place[u] \in Nat
    BY <1>1, CardType DEF IInv, TypeOK
  <2>5. QED
    BY <2>3, <2>4
<1>2. IInv /\ SoleInv /\ [Next]_vars =>
        [\A r \in Replies, u \in Replies \ Delayed :
               Writes(r) /\ place[u] < place[r] => ~Queued(u)]_vars
  BY <1>1
<1>3. QED
  BY <1>2, SoleInvariant, PTL DEF Spec, NotOvertaken

(* What was queued for a socket is not written to the next one that gets   *)
(* its identifier, when one thread sends.                                  *)
THEOREM RepliesNoLeftovers == ASSUME OneSender PROVE Spec => NoLeftovers
<1>1. ASSUME IInv, SoleInv, [Next]_vars
      PROVE  \A r \in Replies : Writes(r) => for[r] \in {0, gen}
  <2> SUFFICES ASSUME NEW r \in Replies, Writes(r) PROVE for[r] \in {0, gen}
    OBVIOUS
  <2>1. pc = "process" /\ r = hand
    BY <1>1, WritesOnly
  <2>2. QED
    BY <1>1, <2>1 DEF SoleInv, OwnerInv
<1>2. IInv /\ SoleInv /\ [Next]_vars =>
        [\A r \in Replies : Writes(r) => for[r] \in {0, gen}]_vars
  BY <1>1
<1>3. QED
  BY <1>2, SoleInvariant, PTL DEF Spec, NoLeftovers
=============================================================================
