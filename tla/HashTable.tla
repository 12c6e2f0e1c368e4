----------------------------- MODULE HashTable -----------------------------
(***************************************************************************)
(* One segment of the hash table (lib/m_hashtable.c, m_cache): several     *)
(* hash functions, cuckoo moves, a basket for the keys that found no slot, *)
(* removals that leave tombstones, and a resize that collects them.  Every *)
(* call holds the lock of the segment, so a call is one step.              *)
(***************************************************************************)
EXTENDS Integers, Sequences, FiniteSets, SequencesExt

CONSTANTS
  Keys,     (* keys of 1 to 65535 bytes                                    *)
  Vals,     (* values                                                      *)
  Absent,   (* NULL                                                        *)
  Nodes,    (* memory for the buckets of _index: bounds their number       *)
  Hash,     (* Hash[k][i], the i-th hash of a key before masking           *)
  FnCount,  (* CACHE_HASHFNCOUNT                                           *)
  Retries   (* CACHE_CUCKOORETRY                                           *)

VARIABLES
  h,        (* the m_cache                                                 *)
  last      (* the last call and its result                                *)

Fns == 1 .. FnCount
Tomb == Absent                    \* the key of an item whose key.len is 0
NoNode == "no node"               \* a NULL in _bucket

EmptyBuckets(size) == [i \in 0 .. (size - 1) |-> NoNode]

(* cache_alloc                                                             *)
TableInit ==
  /\ h = [bucket |-> EmptyBuckets(4), size |-> 4, count |-> 0, basket |-> <<>>,
          index |-> <<>>, key |-> [n \in Nodes |-> Tomb],
          val |-> [n \in Nodes |-> Absent]]
  /\ last = <<"none">>

(* _hash, masked: the size is a power of 2.                                *)
Slot(t, k, i) == Hash[k][i] % t.size
Node(t, k, i) == t.bucket[Slot(t, k, i)]

Full(t, k) == \A i \in Fns : Node(t, k, i) # NoNode
FirstFree(t, k) ==
  CHOOSE i \in Fns : /\ Node(t, k, i) = NoNode
                     /\ \A j \in 1 .. (i - 1) : Node(t, k, j) # NoNode

Held(t) == {t.basket[b] : b \in DOMAIN t.basket}
InBuckets(t, k) == {Node(t, k, i) : i \in Fns} \ {NoNode}
InReach(t, k) ==
  {Node(t, k, i) : i \in {i \in Fns : \A j \in 1 .. i : Node(t, k, j) # NoNode}}
With(t, k, nodes) == {n \in nodes : t.key[n] = k}

Fill(t, n) ==
  [t EXCEPT !.bucket[Slot(t, t.key[n], FirstFree(t, t.key[n]))] = n,
            !.count = @ + 1]

(* The item takes the slot of another, which is moved in turn: to a free   *)
(* slot of its own, to nowhere if it is a tombstone, or on to the slot of  *)
(* the last hash function; what is left after all tries goes to the basket. *)
Cuckoo(t0, n0) ==
  LET tries[r \in 0 .. Retries] ==
        IF r = 0
        THEN [t |-> t0, n |-> n0, at |-> Slot(t0, t0.key[n0], 1), home |-> FALSE]
        ELSE LET s == tries[r - 1]
                 out == s.t.bucket[s.at]
                 t == [s.t EXCEPT !.bucket[s.at] = s.n]
             IN IF s.home THEN s
                ELSE IF t.key[out] = Tomb THEN [s EXCEPT !.t = t, !.home = TRUE]
                ELSE IF ~Full(t, t.key[out])
                     THEN [s EXCEPT !.t = Fill(t, out), !.home = TRUE]
                ELSE [t |-> t, n |-> out, home |-> FALSE,
                      at |-> Slot(t, t.key[out], FnCount)]
      end == tries[Retries]
  IN IF end.home THEN end.t
     ELSE [end.t EXCEPT !.basket = <<end.n>> \o @, !.count = @ + 1]

(* _cache_push of an item that replaces none.                              *)
Place(t, n) == IF Full(t, t.key[n]) THEN Cuckoo(t, n) ELSE Fill(t, n)

(* The item _cache_push finds in its way: the basket is looked at only if  *)
(* no slot is free.                                                        *)
Rival(t, k) ==
  With(t, k, InReach(t, k) \cup IF Full(t, k) THEN Held(t) ELSE {})

Growth(n) == (n * 166) \div 100   \* CACHE_GROWTHRATIO

RoundUp(n) == CHOOSE p \in {2^e : e \in 0 .. 16} : p >= n /\ (p = 1 \/ p \div 2 < n)

(* _cache_resize: the buckets are emptied, tombstones are freed, the other *)
(* items placed again in the order of _index, which is reversed.           *)
Resize(t, size) ==
  IF t.count * 166 < t.size * 100 THEN t
  ELSE LET live == SelectSeq(t.index, LAMBDA n : t.key[n] # Tomb)
           clear == [t EXCEPT !.size = RoundUp(size), !.count = 0, !.basket = <<>>,
                       !.bucket = EmptyBuckets(RoundUp(size)), !.index = Reverse(live)]
       IN FoldLeft(Place, clear, live)

(* _cache_add: a new item is placed, and the table grown if two items are  *)
(* in the basket.                                                          *)
Store(k, v, n) ==
  LET t == Place([h EXCEPT !.key[n] = k, !.val[n] = v], n)
      u == [t EXCEPT !.index = <<n>> \o @]
  IN h' = IF Len(u.basket) >= 2 THEN Resize(u, u.size + 1) ELSE u

(* malloc: addresses are not compared, so that any free node will do.      *)
FreeNodes == Nodes \ {h.index[i] : i \in DOMAIN h.index}
NewNode == CHOOSE n \in FreeNodes : TRUE

(* Nothing of an item is read once its key has length 0.                   *)
Bury(t, nodes) ==
  [t EXCEPT !.key = [n \in Nodes |-> IF n \in nodes THEN Tomb ELSE @[n]],
            !.val = [n \in Nodes |-> IF n \in nodes THEN Absent ELSE @[n]]]

(* A call of _cache_add that replaces an item still tries to grow.         *)
Grown(t) == IF Len(t.basket) >= 2 THEN Resize(t, t.size + 1) ELSE t

Insert(k, v) ==                   \* cache_add, hashtable_insert
  \/ /\ Rival(h, k) = {}
     /\ FreeNodes # {} /\ Store(k, v, NewNode)
     /\ last' = <<"insert", k, "stored">>
  \/ /\ Rival(h, k) # {}
     /\ h' = Grown(h)
     /\ last' = <<"insert", k, "refused">>

Push(k, v) ==                     \* cache_push, hashtable_update
  \/ /\ Rival(h, k) = {}
     /\ FreeNodes # {} /\ Store(k, v, NewNode)
     /\ last' = <<"push", k, Absent>>
  \/ \E n \in Rival(h, k) :
       /\ h' = Grown([h EXCEPT !.val[n] = v])
       /\ last' = <<"push", k, h.val[n]>>

(* cache_findexec stops at the first free slot, then scans the basket.     *)
Found(k) ==
  LET inReach == With(h, k, InReach(h, k))
  IN IF inReach # {} THEN inReach ELSE With(h, k, Held(h))

Find(k) ==
  /\ last' = <<"find", k, IF Found(k) = {} THEN Absent
                          ELSE h.val[CHOOSE n \in Found(k) : TRUE]>>
  /\ UNCHANGED h

(* cache_pop looks at every slot; what it removes becomes a tombstone; and *)
(* it collects the tombstones when it finds nothing.                       *)
Pop_Empties(k) ==                 \* mutant: the slot is emptied
  LET hit == With(h, k, InBuckets(h, k))
  IN \/ \E n \in hit :
          /\ h' = [Bury(h, {n}) EXCEPT
                     !.bucket = [i \in DOMAIN @ |-> IF @[i] = n THEN NoNode ELSE @[i]]]
          /\ last' = <<"remove", k, h.val[n]>>
     \/ /\ hit = {}
        /\ UNCHANGED h
        /\ last' = <<"remove", k, Absent>>

Pop(k) ==
  LET hit == With(h, k, InBuckets(h, k))
      orphan == With(h, k, Held(h))
  IN \/ \E n \in hit :
          /\ h' = Bury(h, {n})
          /\ last' = <<"remove", k, h.val[n]>>
     \/ \E n \in orphan :
          /\ hit = {}
          /\ h' = [Bury(h, {n}) EXCEPT !.basket = SelectSeq(@, LAMBDA m : m # n)]
          /\ last' = <<"remove", k, h.val[n]>>
     \/ /\ hit = {} /\ orphan = {}
        /\ h' = Resize(h, Growth(h.count))
        /\ last' = <<"remove", k, Absent>>

(* cache_foreach: the keys the visitor does not want become tombstones, in *)
(* the basket too.                                                         *)
Live == SelectSeq(h.index, LAMBDA n : h.key[n] # Tomb)

Foreach(drop) ==
  /\ h' = Bury(h, {n \in Nodes : h.key[n] \in drop})
  /\ last' = <<"foreach", drop, {h.key[Live[i]] : i \in DOMAIN Live}>>

TableNext ==
  \/ \E k \in Keys, v \in Vals : Insert(k, v) \/ Push(k, v)
  \/ \E k \in Keys : Find(k) \/ Pop(k)
  \/ \E drop \in SUBSET Keys : Foreach(drop)
=============================================================================
