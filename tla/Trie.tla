-------------------------------- MODULE Trie --------------------------------
(***************************************************************************)
(* The crit-bit tree (lib/m_trie.c).  Keys are sequences of bytes other    *)
(* than 0; a node tests one bit of one byte, and remembers in val the byte *)
(* the key that made the node had there.  Every call holds the lock of the *)
(* tree, so a call is one step.                                            *)
(*                                                                         *)
(* A place in the tree is the sequence of directions that leads to it.     *)
(***************************************************************************)
EXTENDS Integers, Sequences, FiniteSets, SequencesExt

CONSTANTS
  Keys,     (* keys, as sequences of bytes                                 *)
  Vals,     (* values                                                      *)
  Absent,   (* NULL                                                        *)
  Bits,     (* the bits of a byte, as powers of 2                          *)
  Word      (* sizeof(uint32_t), the bytes compared at a time              *)

VARIABLES
  tree,     (* what is at each place                                       *)
  last      (* the last call and its result                                *)

TrieInit == tree = [p \in {} |-> <<>>] /\ last = <<"none">>

Hole == [kind |-> "hole"]         \* a NULL left in a child[]
Leaf(k, v) == [kind |-> "leaf", key |-> k, val |-> v]

HasBit(c, bit) == (c \div bit) % 2
(* __msb(a ^ b): of two masks otherbits = ~bit the greater has the lesser bit. *)
HighBit(a, b) ==
  CHOOSE bit \in Bits : /\ HasBit(a, bit) # HasBit(b, bit)
                        /\ \A x \in Bits : x > bit => HasBit(a, x) = HasBit(b, x)

(* Byte i of a key, from 0; the byte after the last one is 0.              *)
ByteAt(k, i) == IF i < Len(k) THEN k[i + 1] ELSE 0
Dir(node, k) == HasBit(ByteAt(k, node.byte), node.bit)

IsNode(p) == p \in DOMAIN tree /\ tree[p].kind = "node"
Prefix(p, i) == SubSeq(p, 1, i)
Follows(p, k) == \A i \in 1 .. Len(p) : p[i] = Dir(tree[Prefix(p, i - 1)], k)

(* Where the descent for a key ends.                                       *)
Walk(k) == CHOOSE p \in DOMAIN tree : ~IsNode(p) /\ Follows(p, k)

(* The leaf the descent ends at, if it is the leaf of this key.            *)
Hits(k) ==
  {p \in DOMAIN tree : p = Walk(k) /\ tree[p].kind = "leaf" /\ tree[p].key = k}

-----------------------------------------------------------------------------
(* trie_insert                                                             *)

(* On the way down: nodes whose bit is below the one in which the key and  *)
(* the byte remembered part (the descent stops there), nodes whose byte is *)
(* that of the key, and nodes whose byte is another.                       *)
Tested(p, k) == {i \in 1 .. Len(p) : tree[Prefix(p, i - 1)].byte < Len(k)}
At(p, i) == tree[Prefix(p, i - 1)]
Differ(p, k) == {i \in Tested(p, k) : At(p, i).val # ByteAt(k, At(p, i).byte)}
PartBit(p, k, i) == HighBit(At(p, i).val, ByteAt(k, At(p, i).byte))
Stops(p, k) == {i \in Differ(p, k) : At(p, i).bit < PartBit(p, k, i)}

Least(S) == CHOOSE x \in S : \A y \in S : x <= y
Greatest(S) == CHOOSE x \in S : \A y \in S : x >= y

(* The byte and bit where the new node parts the keys, the byte that the   *)
(* other side has there, and the place to look for its own place from:     *)
(* below the last node whose byte is that of the key.                      *)
Parting(k) ==
  LET p == Walk(k)
      stop == Stops(p, k)
      seen == IF stop = {} THEN 1 .. Len(p) ELSE 1 .. (Least(stop) - 1)
      same == (Tested(p, k) \ Differ(p, k)) \cap seen
      from == IF same = {} THEN <<>> ELSE Prefix(p, Greatest(same))
      other == tree[p].key
      diff == {i \in 0 .. (Len(k) - 1) : ByteAt(k, i) # ByteAt(other, i)}
      whole == Len(k) > Word /\ Len(k) % Word = 0
      old == Differ(p, k)
  IN CASE stop # {} ->
            LET n == At(p, Least(stop))
            IN [byte |-> n.byte, bit |-> PartBit(p, k, Least(stop)),
                c |-> n.val, from |-> from, found |-> TRUE]
       [] stop = {} /\ diff # {} ->
            LET d == Least(diff)
            IN [byte |-> d, bit |-> HighBit(ByteAt(other, d), ByteAt(k, d)),
                c |-> ByteAt(other, d), from |-> from, found |-> TRUE]
       [] stop = {} /\ diff = {} /\ whole /\ old # {} ->
            (* no byte is left to reset newotherbits                       *)
            [byte |-> Len(k), bit |-> PartBit(p, k, Greatest(old)),
             c |-> ByteAt(k, At(p, Greatest(Tested(p, k))).byte),
             from |-> from, found |-> TRUE]
       [] OTHER -> [found |-> FALSE]

(* The new node goes above the first node that tests a later bit.          *)
Above(p, at) ==
  ~IsNode(p) \/ tree[p].byte > at.byte
             \/ (tree[p].byte = at.byte /\ tree[p].bit < at.bit)

Place(k, at) ==
  CHOOSE p \in DOMAIN tree :
    /\ IsPrefix(at.from, p) /\ Above(p, at)
    /\ \A i \in Len(at.from) .. (Len(p) - 1) : ~Above(Prefix(p, i), at)
    /\ \A i \in (Len(at.from) + 1) .. Len(p) : p[i] = Dir(At(p, i), k)

Graft(k, v, at) ==
  LET w == Place(k, at)
      dir == HasBit(at.c, at.bit)
      down(p) == w \o <<dir>> \o SubSeq(p, Len(w) + 1, Len(p))
      under == {p \in DOMAIN tree : IsPrefix(w, p)}
      leaf == w \o <<1 - dir>>
      moved == {down(p) : p \in under}
  IN [q \in (DOMAIN tree \ under) \cup moved \cup {w, leaf} |->
        IF q = w THEN [kind |-> "node", byte |-> at.byte, bit |-> at.bit,
                       val |-> ByteAt(k, at.byte)]
        ELSE IF q = leaf THEN Leaf(k, v)
        ELSE IF q \in moved THEN tree[w \o SubSeq(q, Len(w) + 2, Len(q))]
        ELSE tree[q]]

TrieInsert(k, v) ==
  \/ /\ DOMAIN tree = {}
     /\ tree' = (<<>> :> Leaf(k, v))
     /\ last' = <<"insert", k, "stored">>
  \/ /\ DOMAIN tree # {}
     /\ Parting(k).found
     /\ tree' = Graft(k, v, Parting(k))
     /\ last' = <<"insert", k, "stored">>
  \/ /\ DOMAIN tree # {}
     /\ ~Parting(k).found
     /\ last' = <<"insert", k, "refused">>
     /\ UNCHANGED tree

-----------------------------------------------------------------------------
TrieFind(k) ==                        \* trie_findexec
  /\ last' = <<"find", k, IF DOMAIN tree = {} \/ Hits(k) = {} THEN Absent
                          ELSE tree[Walk(k)].val>>
  /\ UNCHANGED tree

TrieUpdate(k, v) ==                   \* trie_update
  \/ /\ DOMAIN tree = {} \/ Hits(k) = {}
     /\ last' = <<"update", k, Absent>>
     /\ UNCHANGED tree
  \/ /\ DOMAIN tree # {} /\ Hits(k) # {}
     /\ last' = <<"update", k, tree[Walk(k)].val>>
     /\ tree' = [tree EXCEPT ![Walk(k)].val = v]

(* A subtree takes the place of its parent.                                *)
Lift(t, q, child) ==
  LET under == {p \in DOMAIN t : IsPrefix(q, p)}
      kept == {p \in under : IsPrefix(q \o <<child>>, p)}
      up(p) == q \o SubSeq(p, Len(q) + 2, Len(p))
      moved == {up(p) : p \in kept}
  IN [p \in (DOMAIN t \ under) \cup moved |->
        IF p \in moved THEN t[q \o <<child>> \o SubSeq(p, Len(q) + 1, Len(p))]
        ELSE t[p]]

TrieRemove_WrongChild(k) ==           \* mutant: the leaf is lifted, not its sibling
  LET p == Walk(k)
  IN \/ /\ DOMAIN tree = {} \/ Hits(k) = {}
        /\ last' = <<"remove", k, Absent>>
        /\ UNCHANGED tree
     \/ /\ DOMAIN tree # {} /\ Hits(k) # {}
        /\ last' = <<"remove", k, tree[p].val>>
        /\ tree' = IF p = <<>> THEN [q \in {} |-> <<>>]
                   ELSE Lift(tree, Front(p), Last(p))

TrieRemove(k) ==                      \* trie_remove
  LET p == Walk(k)
  IN \/ /\ DOMAIN tree = {} \/ Hits(k) = {}
        /\ last' = <<"remove", k, Absent>>
        /\ UNCHANGED tree
     \/ /\ DOMAIN tree # {} /\ Hits(k) # {}
        /\ last' = <<"remove", k, tree[p].val>>
        /\ tree' = IF p = <<>> THEN [q \in {} |-> <<>>]
                   ELSE Lift(tree, Front(p), 1 - Last(p))

-----------------------------------------------------------------------------
(* trie_foreach: a node of which one child is dropped is replaced by the   *)
(* other; a node of which both are leaves a NULL to its parent, which      *)
(* takes it for a child that stays until the next time.                    *)
Each(t0, drop) ==
  LET gone(p) == t0[p].kind = "hole" \/ (t0[p].kind = "leaf" /\ t0[p].key \in drop)
      visit(t, q) ==
        CASE ~gone(q \o <<0>>) /\ ~gone(q \o <<1>>) -> t
          [] gone(q \o <<0>>) /\ ~gone(q \o <<1>>) -> Lift(t, q, 1)
          [] ~gone(q \o <<0>>) /\ gone(q \o <<1>>) -> Lift(t, q, 0)
          [] OTHER -> [p \in {p \in DOMAIN t : ~IsStrictPrefix(q, p)} |->
                         IF p = q THEN Hole ELSE t[p]]
      nodes == {p \in DOMAIN t0 : t0[p].kind = "node"}
  IN FoldLeft(visit, t0, SetToSortSeq(nodes, LAMBDA p, q : Len(p) > Len(q)))

Leaves(t) == {p \in DOMAIN t : t[p].kind = "leaf"}
KeysOf(t) == {t[p].key : p \in Leaves(t)}

(* Visitors delete one key at a time and never the last one: two leaves of *)
(* a node would leave it a NULL, and a root that is a leaf would stay in   *)
(* _root after it is freed.                                                *)
TrieForeach(drop) ==
  /\ Cardinality(drop \cap KeysOf(tree)) <= 1 /\ (KeysOf(tree) \subseteq drop => drop = {})
  /\ last' = <<"foreach", drop, KeysOf(tree)>>
  /\ tree' = Each(tree, drop)

(* trie_foreach_prefix: the subtree below the last node that tests a byte  *)
(* of the prefix, provided the prefix is itself a key.                     *)
Below(k) ==
  LET p == Walk(k)
  IN IF Tested(p, k) = {} THEN <<>> ELSE Prefix(p, Greatest(Tested(p, k)))

TrieForeachPrefix(k) ==
  /\ last' = <<"prefix", k,
       IF DOMAIN tree = {} \/ Hits(k) = {} THEN {}
       ELSE {tree[p].key : p \in {p \in Leaves(tree) : IsPrefix(Below(k), p)}}>>
  /\ UNCHANGED tree

TrieNext ==
  \/ \E k \in Keys, v \in Vals : TrieInsert(k, v) \/ TrieUpdate(k, v)
  \/ \E k \in Keys : TrieFind(k) \/ TrieRemove(k) \/ TrieForeachPrefix(k)
  \/ \E drop \in SUBSET Keys : TrieForeach(drop)
=============================================================================
