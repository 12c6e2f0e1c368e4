------------------------------- MODULE KeyMap -------------------------------
(***************************************************************************)
(* What a table of keys and values promises (lib/m_hashtable.h,            *)
(* lib/m_trie.h): a key is found with the value it was last given, until   *)
(* it is removed, and with no other.                                       *)
(***************************************************************************)
CONSTANTS
  Keys, Vals,
  Absent,   (* no value                                                    *)
  Begins    (* <<k, l>> for keys such that k begins l, where that matters  *)

VARIABLES
  dict,     (* the value of each key                                       *)
  last      (* the last call, its key and what it returned                 *)

vars == <<dict, last>>

Init == /\ dict = [k \in Keys |-> Absent]
        /\ last = <<"none">>

Called(call, k) == last'[1] = call /\ last'[2] = k
Returns(result) == last'[3] = result

Present == {k \in Keys : dict[k] # Absent}

(* A new key is stored; a key that is there is refused, or one that begins *)
(* a key that is there if the table cannot tell them apart.                *)
Refused(k) == k \in Present \/ \E l \in Present : <<k, l>> \in Begins

Insert(k, v) ==
  /\ Called("insert", k)
  /\ \/ ~Refused(k) /\ Returns("stored") /\ dict' = [dict EXCEPT ![k] = v]
     \/ Refused(k) /\ Returns("refused") /\ UNCHANGED dict

(* The value is stored whether the key was there or not.                   *)
Push(k, v) ==
  /\ Called("push", k) /\ Returns(dict[k])
  /\ dict' = [dict EXCEPT ![k] = v]

(* The value is stored if the key was there.                               *)
Update(k, v) ==
  /\ Called("update", k) /\ Returns(dict[k])
  /\ dict' = [dict EXCEPT ![k] = IF @ = Absent THEN Absent ELSE v]

Remove(k) ==
  /\ Called("remove", k) /\ Returns(dict[k])
  /\ dict' = [dict EXCEPT ![k] = Absent]

Find(k) ==
  /\ Called("find", k) /\ Returns(dict[k])
  /\ UNCHANGED dict

(* Every key is visited, and those the visitor says are dropped.           *)
Foreach(drop) ==
  /\ Called("foreach", drop) /\ Returns(Present)
  /\ dict' = [k \in Keys |-> IF k \in drop THEN Absent ELSE dict[k]]

(* The keys that begin with a key are visited, if that one is there.       *)
ForeachPrefix(k) ==
  /\ Called("prefix", k)
  /\ Returns({l \in Present : k \in Present /\ (l = k \/ <<k, l>> \in Begins)})
  /\ UNCHANGED dict

Next ==
  \/ \E k \in Keys, v \in Vals : Insert(k, v) \/ Push(k, v) \/ Update(k, v)
  \/ \E k \in Keys : Remove(k) \/ Find(k) \/ ForeachPrefix(k)
  \/ \E drop \in SUBSET Keys : Foreach(drop)

Spec == Init /\ [][Next]_vars
=============================================================================
