------------------------------ MODULE WorkQueue ------------------------------
(***************************************************************************)
(* The two-lock queue of pointers (lib/m_queue.c) that carries replies:    *)
(* queue_add, queue_push, queue_get, queue_empty and queue_wait.           *)
(*                                                                         *)
(* The list always starts with a dummy node.  queue_get frees the dummy    *)
(* and makes the node it has emptied the next one; queue_push turns the    *)
(* dummy into a data node and puts a fresh one before it.  Nodes are       *)
(* memory: they are allocated and freed, and may be allocated again.       *)
(*                                                                         *)
(* Each section under _head_lock is one step: other such sections wait for *)
(* it, and a thread that only owns _tail_lock touches one field of the     *)
(* list, the next pointer of its last node, which the section reads once.  *)
(***************************************************************************)
EXTENDS Integers, FiniteSets, Sequences

CONSTANTS
  Threads,    (* threads calling queue_add and queue_get                   *)
  Pushers,    (* those that call queue_push too                            *)
  Waiters,    (* those that call queue_wait too                            *)
  Items,      (* the pointers that travel through it                       *)
  Nodes,      (* the memory nodes are allocated from; bounds the model     *)
  Dummy,      (* the node queue_alloc starts the list with                 *)
  None        (* the null pointer; nobody                                  *)

ASSUME DummyAssumption == Dummy \in Nodes /\ None \notin Nodes /\ IsFiniteSet(Nodes)
ASSUME RolesAssumption == Pushers \subseteq Threads /\ Waiters \subseteq Threads
ASSUME NoneAssumption == None \notin Threads /\ None \notin Items

VARIABLES
  next, data, (* the fields of every node                                  *)
  allocated,  (* nodes between malloc and free                             *)
  head, tail, (* _head and _tail                                           *)
  tailLock,   (* owner of _tail_lock                                       *)
  pc,         (* where each thread is                                      *)
  node,       (* the node a thread has allocated and not yet linked        *)
  arg,        (* the item a thread is adding or pushing                    *)
  held,       (* items in the hands of callers, outside the queue          *)
  ret         (* what queue_get last returned to some thread               *)

vars == <<next, data, allocated, head, tail, tailLock, pc, node, arg,
          held, ret>>

Labels == {"idle", "add", "add_link", "add_swing", "push",
           "wait_check", "wait_sleep", "asleep", "woken"}

Init ==
  /\ next = [n \in Nodes |-> None]
  /\ data = [n \in Nodes |-> None]
  /\ allocated = {Dummy}
  /\ head = Dummy /\ tail = Dummy
  /\ tailLock = None
  /\ pc = [t \in Threads |-> "idle"]
  /\ node = [t \in Threads |-> None]
  /\ arg = [t \in Threads |-> None]
  /\ held = Items
  /\ ret = None

Goto(t, label) == pc' = [pc EXCEPT ![t] = label]

(* malloc hands out any free node.                                         *)
Malloc(t, n) ==
  /\ n \in Nodes \ allocated
  /\ allocated' = allocated \cup {n}
  /\ node' = [node EXCEPT ![t] = n]

(* pthread_cond_signal wakes one sleeper, if there is one; t goes on.      *)
SignalAndGoto(t, label) ==
  LET sleepers == {u \in Threads : pc[u] = "asleep"}
  IN \/ sleepers = {} /\ Goto(t, label)
     \/ \E u \in sleepers : pc' = [pc EXCEPT ![t] = label, ![u] = "woken"]

-----------------------------------------------------------------------------
(* queue_add: the new node is visible to readers from its first link on.   *)

AddAlloc(t, x) ==
  /\ pc[t] = "idle" /\ x \in held
  /\ \E n \in Nodes :
       /\ Malloc(t, n)
       /\ data' = [data EXCEPT ![n] = x]
       /\ next' = [next EXCEPT ![n] = None]
  /\ held' = held \ {x}
  /\ arg' = [arg EXCEPT ![t] = x]
  /\ Goto(t, "add")
  /\ UNCHANGED <<head, tail, tailLock, ret>>

AddLock(t) ==
  /\ pc[t] = "add" /\ tailLock = None
  /\ tailLock' = t
  /\ Goto(t, "add_link")
  /\ UNCHANGED <<next, data, allocated, head, tail, node, arg, held, ret>>

AddLink(t) ==
  /\ pc[t] = "add_link"
  /\ next' = [next EXCEPT ![tail] = node[t]]
  /\ arg' = [arg EXCEPT ![t] = None]
  /\ Goto(t, "add_swing")
  /\ UNCHANGED <<data, allocated, head, tail, tailLock, node, held, ret>>

AddSwing(t) ==
  /\ pc[t] = "add_swing"
  /\ tail' = node[t]
  /\ node' = [node EXCEPT ![t] = None]
  /\ tailLock' = None
  /\ SignalAndGoto(t, "idle")
  /\ UNCHANGED <<next, data, allocated, head, arg, held, ret>>

-----------------------------------------------------------------------------
(* queue_push: the signal is sent under _head_lock, not the lock a sleeper *)
(* gives up.                                                               *)

PushAlloc(t, x) ==
  /\ pc[t] = "idle" /\ x \in held
  /\ \E n \in Nodes :
       /\ Malloc(t, n)
       /\ data' = [data EXCEPT ![n] = None]
  /\ held' = held \ {x}
  /\ arg' = [arg EXCEPT ![t] = x]
  /\ Goto(t, "push")
  /\ UNCHANGED <<next, head, tail, tailLock, ret>>

PushLink_AtTail(t) ==             \* mutant: the dummy is taken at the tail
  /\ pc[t] = "push"
  /\ data' = [data EXCEPT ![tail] = arg[t]]
  /\ next' = [next EXCEPT ![node[t]] = head]
  /\ head' = node[t]
  /\ node' = [node EXCEPT ![t] = None]
  /\ arg' = [arg EXCEPT ![t] = None]
  /\ SignalAndGoto(t, "idle")
  /\ UNCHANGED <<allocated, tail, tailLock, held, ret>>

PushLink(t) ==
  /\ pc[t] = "push"
  /\ data' = [data EXCEPT ![head] = arg[t]]
  /\ next' = [next EXCEPT ![node[t]] = head]
  /\ head' = node[t]
  /\ node' = [node EXCEPT ![t] = None]
  /\ arg' = [arg EXCEPT ![t] = None]
  /\ SignalAndGoto(t, "idle")
  /\ UNCHANGED <<allocated, tail, tailLock, held, ret>>

-----------------------------------------------------------------------------
(* queue_get                                                               *)

GetPop_KeepsHead(t) ==            \* mutant: the head is freed but not moved
  /\ pc[t] = "idle"
  /\ next[head] # None
  /\ ret' = data[next[head]]
  /\ held' = held \cup {data[next[head]]}
  /\ allocated' = allocated \ {head}
  /\ UNCHANGED <<next, data, head, tail, tailLock, pc, node, arg>>

(* The pointers left in the freed node and in the new dummy are never read *)
(* again: they are forgotten here.                                         *)
GetPop(t) ==
  /\ pc[t] = "idle"
  /\ next[head] # None
  /\ ret' = data[next[head]]
  /\ held' = held \cup {data[next[head]]}
  /\ head' = next[head]
  /\ allocated' = allocated \ {head}
  /\ data' = [data EXCEPT ![next[head]] = None]
  /\ next' = [next EXCEPT ![head] = None]
  /\ UNCHANGED <<tail, tailLock, pc, node, arg>>

GetNothing(t) ==
  /\ pc[t] = "idle"
  /\ next[head] = None
  /\ ret' = None
  /\ UNCHANGED <<next, data, allocated, head, tail, tailLock, pc,
                 node, arg, held>>

-----------------------------------------------------------------------------
(* queue_wait, with queue_empty called while _tail_lock is held.           *)

WaitLock(t) ==
  /\ pc[t] = "idle" /\ tailLock = None
  /\ tailLock' = t
  /\ Goto(t, "wait_check")
  /\ UNCHANGED <<next, data, allocated, head, tail, node, arg, held, ret>>

WaitCheck(t) ==
  /\ pc[t] = "wait_check"
  /\ IF next[head] = None
     THEN Goto(t, "wait_sleep") /\ UNCHANGED tailLock
     ELSE Goto(t, "idle") /\ tailLock' = None
  /\ UNCHANGED <<next, data, allocated, head, tail, node, arg, held, ret>>

WaitSleep(t) ==
  /\ pc[t] = "wait_sleep"
  /\ tailLock' = None
  /\ Goto(t, "asleep")
  /\ UNCHANGED <<next, data, allocated, head, tail, node, arg, held, ret>>

WaitTimeout(t) ==
  /\ pc[t] = "asleep"
  /\ Goto(t, "woken")
  /\ UNCHANGED <<next, data, allocated, head, tail, tailLock, node,
                 arg, held, ret>>

WaitReturn(t) ==
  /\ pc[t] = "woken" /\ tailLock = None
  /\ Goto(t, "idle")
  /\ UNCHANGED <<next, data, allocated, head, tail, tailLock, node,
                 arg, held, ret>>

-----------------------------------------------------------------------------
Add(t) == (\E x \in Items : AddAlloc(t, x))
            \/ AddLock(t) \/ AddLink(t) \/ AddSwing(t)
Push(t) == (\E x \in Items : PushAlloc(t, x)) \/ PushLink(t)
Get(t) == GetPop(t) \/ GetNothing(t)
Wait(t) == WaitLock(t) \/ WaitCheck(t) \/ WaitSleep(t)
             \/ WaitTimeout(t) \/ WaitReturn(t)

Next ==
  \/ \E t \in Threads : Add(t) \/ Get(t)
  \/ \E t \in Pushers : Push(t)
  \/ \E t \in Waiters : Wait(t)

Spec == Init /\ [][Next]_vars

-----------------------------------------------------------------------------
(* Properties                                                              *)

TypeOK ==
  /\ next \in [Nodes -> Nodes \cup {None}]
  /\ data \in [Nodes -> Items \cup {None}]
  /\ allocated \subseteq Nodes
  /\ head \in Nodes /\ tail \in Nodes
  /\ tailLock \in Threads \cup {None}
  /\ pc \in [Threads -> Labels]
  /\ node \in [Threads -> Nodes \cup {None}]
  /\ arg \in [Threads -> Items \cup {None}]
  /\ held \subseteq Items
  /\ ret \in Items \cup {None}

(* The nodes met from node h on, in order, padded with None.               *)
Steps == 0 .. Cardinality(Nodes)
PathFrom(h, links) ==
  LET p[k \in Steps] ==
        IF k = 0 THEN h
        ELSE IF p[k - 1] = None THEN None ELSE links[p[k - 1]]
  IN p
Path == PathFrom(head, next)

Chain == {Path[k] : k \in Steps} \ {None}
Contents == [k \in {k \in Steps : k > 0 /\ Path[k] # None} |-> data[Path[k]]]

(* The list is made of live nodes and ends at the tail, or at the node the *)
(* tail is about to swing to: no thread writes through a pointer to a node *)
(* queue_get has freed.                                                    *)
LiveChain ==
  /\ Chain \subseteq allocated
  /\ \E n \in Chain : next[n] = None
  /\ (\A t \in Threads : pc[t] # "add_swing") => tail \in Chain /\ next[tail] = None
  /\ \A t \in Threads : pc[t] = "add_swing" => node[t] \in allocated

(* Every allocated node is in the list or in the hands of the thread that  *)
(* is about to link it.                                                    *)
NoLeak ==
  allocated = Chain \cup {node[t] : t \in {t \in Threads :
                                pc[t] \in {"add", "add_link", "push"}}}
                    \cup {node[t] : t \in {t \in Threads :
                                pc[t] = "add_swing" /\ node[t] \in allocated}}

(* The queue is a list of live nodes from the dummy to the tail, and no    *)
(* node leaks, whatever the threads do.                                    *)
QueueSafe == TypeOK /\ LiveChain /\ NoLeak

-----------------------------------------------------------------------------
(* The inductive invariant.  A thread has allocated a node it has still to *)
(* link; the list has a last node, number m, which is the tail or the one  *)
(* the owner of _tail_lock has just linked; an item is at one place.       *)

Carrying(t) == pc[t] \in {"add", "add_link", "push"}

ThreadInv ==
  \A t \in Threads :
    /\ Carrying(t) => node[t] \in allocated \ Chain /\ arg[t] # None
    /\ pc[t] \in {"add", "add_link"} => next[node[t]] = None /\ data[node[t]] = arg[t]
    /\ ~ Carrying(t) => arg[t] = None
    /\ pc[t] = "add_swing" => node[t] \in Nodes
    /\ tailLock = t <=> pc[t] \in {"add_link", "add_swing", "wait_check", "wait_sleep"}

(* NoLeak, node by node.                                                   *)
Owned ==
  \A n \in Nodes :
    n \in allocated <=> n \in Chain \/ \E t \in Threads : Carrying(t) /\ node[t] = n

Apart == \A t, u \in Threads :
           Carrying(t) /\ Carrying(u) /\ t # u => node[t] # node[u] /\ arg[t] # arg[u]

LastIs(m) ==
  /\ \A k \in Steps : Path[k] \in IF k <= m THEN allocated ELSE {None}
  /\ \A j, k \in 0 .. m : Path[j] = Path[k] => j = k
  /\ \A j, k \in 1 .. m : data[Path[j]] = data[Path[k]] => j = k
  /\ \A t \in Threads : pc[t] = "add_swing" => node[t] = Path[m]
  /\ (\A t \in Threads : pc[t] # "add_swing") => tail = Path[m]

ListInv == \E m \in Steps : m + 1 \in Steps /\ LastIs(m)

ItemInv ==
  /\ \A t \in Threads : arg[t] \notin held
  /\ \A k \in Steps : k > 0 /\ Path[k] # None =>
       /\ data[Path[k]] \in Items \ held
       /\ \A t \in Threads : data[Path[k]] # arg[t]

IInv == TypeOK /\ Owned /\ ThreadInv /\ Apart /\ ListInv /\ ItemInv

-----------------------------------------------------------------------------
(* The list is the deque its header promises: an addition takes effect at  *)
(* the first link, and an item stays with its caller until then.           *)
Deque == INSTANCE WorkDeque WITH
  items <- Contents,
  held <- held \cup {arg[t] : t \in {t \in Threads : arg[t] # None}},
  Nothing <- None

DequeSpec == Deque!Spec
=============================================================================
