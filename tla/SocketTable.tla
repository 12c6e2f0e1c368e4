---------------------------- MODULE SocketTable ----------------------------
(***************************************************************************)
(* The registry of sockets and their locks (lib/m_socket.c): socket_open,  *)
(* socket_acquire, socket_release and socket_close, called by any thread.  *)
(*                                                                         *)
(* _socket maps identifiers to structures under the read-write lock        *)
(* _socket_lock; each structure has a lock of its own, a counter called    *)
(* _lockstate that is 0 while a thread owns the socket and -1 when the     *)
(* lock is broken.  Structures are memory: freed, and allocated again with *)
(* whatever they last contained.  A section under _socket_lock held for    *)
(* writing, or under the mutex of one structure, is one step.              *)
(***************************************************************************)
EXTENDS Integers, FiniteSets, Sequences

CONSTANTS
  Callers,   (* the threads that use the registry                          *)
  Openers,   (* those that call socket_open (server_open_managed_socket)   *)
  Closers,   (* those that call socket_close on a socket they have held    *)
  Nested,    (* those that open or acquire sockets while they hold others  *)
  Structs,   (* the memory socket structures are allocated from            *)
  Max,       (* SOCKET_MAX                                                 *)
  None       (* the null pointer                                           *)

Ids == 1 .. (Max - 1)

ASSUME MaxAssumption == Max \in Nat /\ Max > 1
ASSUME RolesAssumption ==
  Openers \subseteq Callers /\ Closers \subseteq Callers /\ Nested \subseteq Callers
ASSUME NoneAssumption == None \notin Structs

VARIABLES
  slot,      (* _socket                                                    *)
  readers,   (* the threads that hold _socket_lock for reading             *)
  fresh,     (* _id                                                        *)
  freeIds,   (* _free_ids                                                  *)
  allocated, (* structures between malloc and free                         *)
  sid,       (* SOCKET_ID of each structure, 0 or more                     *)
  lockstate, (* _lockstate of each structure                               *)
  pc,        (* where each thread is                                       *)
  id,        (* sockid in _socket_reg, id in socket_acquire                *)
  sock,      (* the structure a thread is opening, releasing or closing    *)
  owned      (* the structures a thread has acquired and not released      *)

vars == <<slot, readers, fresh, freeIds, allocated, sid, lockstate, pc, id,
          sock, owned>>
memory == <<allocated, sid>>
numbers == <<fresh, freeIds>>

Labels == {"idle", "open_reg", "open_flags", "open_lock", "acquire",
           "broadcast", "then_close", "dereg", "free_id", "close_lock",
           "break", "free"}

Init ==
  /\ slot = [i \in Ids |-> None]
  /\ readers = {}
  /\ fresh = 1
  /\ freeIds = <<>>
  /\ allocated = {}
  /\ sid = [s \in Structs |-> 0]
  /\ lockstate = [s \in Structs |-> 1]
  /\ pc = [t \in Callers |-> "idle"]
  /\ id = [t \in Callers |-> 0]
  /\ sock = [t \in Callers |-> None]
  /\ owned = [t \in Callers |-> {}]

Goto(t, label) == pc' = [pc EXCEPT ![t] = label]
Forget(t) == sock' = [sock EXCEPT ![t] = None]
Own(t, s) == owned' = [owned EXCEPT ![t] = @ \cup {s}]

(* A plugin calls from a callback with a socket in the hands of its worker;*)
(* a thread outside Nested holds nothing else when it opens or acquires.   *)
MayStart(t) == pc[t] = "idle" /\ (t \in Nested \/ owned[t] = {})

-----------------------------------------------------------------------------
(* socket_open, and socket_lock as server_open_managed_socket calls it.    *)

OpenAlloc(t) ==
  /\ MayStart(t) /\ t \in Openers
  /\ \E s \in Structs \ allocated :
       /\ allocated' = allocated \cup {s}
       /\ lockstate' = [lockstate EXCEPT ![s] = 1]
       /\ sock' = [sock EXCEPT ![t] = s]
  /\ IF fresh < Max
     THEN /\ id' = [id EXCEPT ![t] = fresh]
          /\ fresh' = fresh + 1 /\ UNCHANGED freeIds
     ELSE /\ freeIds # <<>>
          /\ id' = [id EXCEPT ![t] = Head(freeIds)]
          /\ freeIds' = Tail(freeIds) /\ UNCHANGED fresh
  /\ Goto(t, "open_reg")
  /\ UNCHANGED <<slot, readers, sid, owned>>

OpenReg(t) ==
  /\ pc[t] = "open_reg" /\ readers = {}
  /\ slot' = [slot EXCEPT ![id[t]] = sock[t]]
  /\ Goto(t, "open_flags")
  /\ UNCHANGED <<readers, numbers, memory, lockstate, id, sock, owned>>

(* The flags, and the identifier in them, are only written once the socket *)
(* can be found.                                                           *)
OpenFlags(t) ==
  /\ pc[t] = "open_flags"
  /\ sid' = [sid EXCEPT ![sock[t]] = id[t]]
  /\ id' = [id EXCEPT ![t] = 0]
  /\ Goto(t, "open_lock")
  /\ UNCHANGED <<slot, readers, numbers, allocated, lockstate, sock, owned>>

OpenLock(t) ==
  /\ pc[t] = "open_lock"
  /\ lockstate[sock[t]] > 0
  /\ lockstate' = [lockstate EXCEPT ![sock[t]] = @ - 1]
  /\ Own(t, sock[t])
  /\ Forget(t)
  /\ Goto(t, "idle")
  /\ UNCHANGED <<slot, readers, numbers, memory, id>>

(* The lock is broken: server_open_managed_socket closes the socket.       *)
OpenBroken(t) ==
  /\ pc[t] = "open_lock"
  /\ lockstate[sock[t]] = -1
  /\ Goto(t, "dereg")
  /\ UNCHANGED <<slot, readers, numbers, memory, lockstate, id, sock, owned>>

-----------------------------------------------------------------------------
(* socket_acquire, with any identifier but, as documented, that of a       *)
(* socket the thread holds; the wait for the socket lock keeps             *)
(* _socket_lock held for reading.                                          *)

AcquireStart(t, i) ==
  /\ MayStart(t) /\ slot[i] \notin owned[t]
  /\ readers' = readers \cup {t}
  /\ id' = [id EXCEPT ![t] = i]
  /\ Goto(t, "acquire")
  /\ UNCHANGED <<slot, numbers, memory, lockstate, sock, owned>>

Target(t) == slot[id[t]]
AcquireEnd(t) ==
  /\ readers' = readers \ {t}
  /\ id' = [id EXCEPT ![t] = 0]
  /\ Goto(t, "idle")
  /\ UNCHANGED <<slot, numbers, memory, sock>>

AcquireLock(t) ==
  /\ pc[t] = "acquire" /\ Target(t) # None
  /\ lockstate[Target(t)] > 0
  /\ lockstate' = [lockstate EXCEPT ![Target(t)] = @ - 1]
  /\ Own(t, Target(t))
  /\ AcquireEnd(t)

(* Nothing has this identifier, or its lock is broken.                     *)
AcquireFail(t) ==
  /\ pc[t] = "acquire"
  /\ Target(t) = None \/ (Target(t) # None /\ lockstate[Target(t)] = -1)
  /\ AcquireEnd(t)
  /\ UNCHANGED <<lockstate, owned>>

-----------------------------------------------------------------------------
(* socket_release: the waiting threads are signalled after the structure   *)
(* has been unlocked.  The server then forgets the socket or closes it.    *)

Release_Kept(t) ==                \* mutant: closed without a release
  /\ pc[t] = "idle"
  /\ \E s \in owned[t] : sock' = [sock EXCEPT ![t] = s]
  /\ t \in Closers /\ Goto(t, "then_close")
  /\ UNCHANGED <<slot, readers, numbers, memory, lockstate, id, owned>>

Release(t) ==
  /\ pc[t] = "idle"
  /\ \E s \in owned[t] :
       /\ lockstate' = [lockstate EXCEPT ![s] = IF @ >= 0 THEN @ + 1 ELSE @]
       /\ sock' = [sock EXCEPT ![t] = s]
       /\ owned' = [owned EXCEPT ![t] = @ \ {s}]
  /\ \/ Goto(t, "broadcast")
     \/ t \in Closers /\ Goto(t, "then_close")
  /\ UNCHANGED <<slot, readers, numbers, memory, id>>

Broadcast(t) ==
  /\ \/ pc[t] = "broadcast" /\ Goto(t, "idle") /\ Forget(t)
     \/ pc[t] = "then_close" /\ Goto(t, "dereg") /\ UNCHANGED sock
  /\ UNCHANGED <<slot, readers, numbers, memory, lockstate, id, owned>>

-----------------------------------------------------------------------------
(* socket_close                                                            *)

Matches(t) == sid[sock[t]] \in Ids /\ slot[sid[sock[t]]] = sock[t]

Dereg_Unchecked(t) ==             \* mutant: the slot is not compared
  /\ pc[t] = "dereg" /\ readers = {} /\ sid[sock[t]] \in Ids
  /\ slot' = [slot EXCEPT ![sid[sock[t]]] = None]
  /\ Goto(t, "free_id") /\ UNCHANGED sock
  /\ UNCHANGED <<readers, numbers, memory, lockstate, id, owned>>

(* Two threads may compete to close a socket: the second finds the slot    *)
(* empty, or given to another, and gives up.                               *)
Dereg(t) ==
  /\ pc[t] = "dereg" /\ readers = {}
  /\ IF Matches(t)
     THEN /\ slot' = [slot EXCEPT ![sid[sock[t]]] = None]
          /\ Goto(t, "free_id") /\ UNCHANGED sock
     ELSE Forget(t) /\ Goto(t, "idle") /\ UNCHANGED slot
  /\ UNCHANGED <<readers, numbers, memory, lockstate, id, owned>>

(* The closed hook runs before this step; the identifier may be given to a *)
(* new socket before this one is destroyed.                                *)
FreeId(t) ==
  /\ pc[t] = "free_id"
  /\ freeIds' = Append(freeIds, sid[sock[t]])
  /\ Goto(t, "close_lock")
  /\ UNCHANGED <<slot, readers, fresh, memory, lockstate, id, sock, owned>>

CloseLock(t) ==
  /\ pc[t] = "close_lock" /\ lockstate[sock[t]] # 0
  /\ IF lockstate[sock[t]] = -1
     THEN Forget(t) /\ Goto(t, "idle") /\ UNCHANGED lockstate
     ELSE /\ lockstate' = [lockstate EXCEPT ![sock[t]] = @ - 1]
          /\ Goto(t, "break") /\ UNCHANGED sock
  /\ UNCHANGED <<slot, readers, numbers, memory, id, owned>>

Break(t) ==
  /\ pc[t] = "break"
  /\ lockstate' = [lockstate EXCEPT ![sock[t]] = -1]
  /\ Goto(t, "free")
  /\ UNCHANGED <<slot, readers, numbers, memory, id, sock, owned>>

Free(t) ==
  /\ pc[t] = "free"
  /\ allocated' = allocated \ {sock[t]}
  /\ Forget(t)
  /\ Goto(t, "idle")
  /\ UNCHANGED <<slot, readers, numbers, sid, lockstate, id, owned>>

-----------------------------------------------------------------------------
Open(t) == OpenAlloc(t) \/ OpenReg(t) \/ OpenFlags(t) \/ OpenLock(t)
             \/ OpenBroken(t)
Acquire(t) == (\E i \in Ids : AcquireStart(t, i)) \/ AcquireLock(t)
                \/ AcquireFail(t)
Close(t) == Dereg(t) \/ FreeId(t) \/ CloseLock(t) \/ Break(t) \/ Free(t)

Next == \E t \in Callers :
  Open(t) \/ Acquire(t) \/ Release(t) \/ Broadcast(t) \/ Close(t)

Spec == Init /\ [][Next]_vars

-----------------------------------------------------------------------------
(* Properties                                                              *)

TypeOK ==
  /\ slot \in [Ids -> Structs \cup {None}]
  /\ readers \subseteq Callers
  /\ fresh \in 1 .. Max
  /\ freeIds \in Seq(Ids)
  /\ allocated \subseteq Structs
  /\ sid \in [Structs -> Ids \cup {0}]
  /\ lockstate \in [Structs -> {-1, 0, 1}]
  /\ pc \in [Callers -> Labels]
  /\ id \in [Callers -> Ids \cup {0}]
  /\ sock \in [Callers -> Structs \cup {None}]
  /\ owned \in [Callers -> SUBSET Structs]

(* One thread at a time owns a socket, and what it owns is neither freed   *)
(* nor broken, whoever closes it meanwhile.                                *)
Exclusive ==
  \A t \in Callers : \A s \in owned[t] :
     /\ s \in allocated
     /\ lockstate[s] = 0
     /\ \A u \in Callers \ {t} : s \notin owned[u]

(* Where each identifier is: not used yet, queued to be used again, chosen *)
(* by an opener, in the table, or in the hands of a closer.                *)
Whereabouts(i) ==
  Cardinality({k \in 1 .. Len(freeIds) : freeIds[k] = i})
  + Cardinality({t \in Callers : pc[t] = "open_reg" /\ id[t] = i})
  + Cardinality({t \in Callers : pc[t] = "free_id" /\ sid[sock[t]] = i})
  + (IF slot[i] # None THEN 1 ELSE 0)
  + (IF i >= fresh THEN 1 ELSE 0)

(* No identifier is lost, and none names two sockets.                      *)
IdsConserved == \A i \in Ids : Whereabouts(i) = 1

(* What the table shows is alive and, once its flags are written, carries  *)
(* the identifier it is found under.                                       *)
TableAlive ==
  \A i \in Ids : slot[i] # None =>
     /\ slot[i] \in allocated
     /\ sid[slot[i]] = i
          \/ \E t \in Callers : pc[t] = "open_flags" /\ sock[t] = slot[i]

(* A socket has one owner, an identifier one place, and what the table     *)
(* shows is alive (_socket_reg, socket_acquire, socket_close); the types.  *)
TableSafe == TypeOK /\ Exclusive /\ IdsConserved /\ TableAlive

-----------------------------------------------------------------------------
(* The inductive invariant of TableSafe.                                   *)

(* The same as IdsConserved, without counting: one of five places, once.   *)
Queued(i) == \E k \in 1 .. Len(freeIds) : freeIds[k] = i
Chosen(t, i) == pc[t] = "open_reg" /\ id[t] = i
Returned(t, i) == pc[t] = "free_id" /\ sid[sock[t]] = i
AtOnePlace(i) ==
  /\ \A k, l \in 1 .. Len(freeIds) : freeIds[k] = i /\ freeIds[l] = i => k = l
  /\ \A t, u \in Callers : Chosen(t, i) /\ Chosen(u, i) => t = u
  /\ \A t, u \in Callers : Returned(t, i) /\ Returned(u, i) => t = u
  /\ \/ Queued(i) \/ slot[i] # None \/ i >= fresh
     \/ \E t \in Callers : Chosen(t, i) \/ Returned(t, i)
  /\ Queued(i) => slot[i] = None /\ i < fresh
  /\ slot[i] # None => i < fresh
  /\ \A t \in Callers : Chosen(t, i) =>
       /\ slot[i] = None /\ i < fresh /\ ~ Queued(i)
       /\ \A u \in Callers : ~ Returned(u, i)
  /\ \A t \in Callers : Returned(t, i) => slot[i] = None /\ i < fresh /\ ~ Queued(i)

(* A structure that is closed belongs to the thread that took it out of    *)
(* the table: no other closes it, and it cannot be found.                  *)
Closing(t) == pc[t] \in {"free_id", "close_lock", "break", "free"}
Unlisted(s) == \A i \in Ids : slot[i] # s
CloserInv ==
  \A t \in Callers : Closing(t) =>
    /\ sock[t] \in allocated /\ Unlisted(sock[t])
    /\ \A u \in Callers \ {t} : Closing(u) => sock[u] # sock[t]
    /\ pc[t] = "break" => lockstate[sock[t]] = 0
    /\ pc[t] = "free" => lockstate[sock[t]] = -1
    /\ pc[t] = "free_id" => sid[sock[t]] \in Ids
    /\ pc[t] = "break" => \A u \in Callers : sock[t] \notin owned[u]

(* A structure that is opened: nobody knows it until it is in the table;   *)
(* from then on a thread that still closes an older socket of that memory  *)
(* and identifier may close this one, but the identifier is right then.    *)
OpenerInv ==
  \A t \in Callers :
    /\ pc[t] \in {"open_reg", "open_flags", "open_lock"} => t \in Openers
    /\ pc[t] = "open_reg" =>
         /\ id[t] \in Ids /\ sock[t] \in allocated /\ lockstate[sock[t]] = 1
         /\ Unlisted(sock[t])
         /\ \A u \in Callers : Closing(u) => sock[u] # sock[t]
    /\ pc[t] = "open_flags" =>
         /\ id[t] \in Ids
         /\ slot[id[t]] = sock[t] \/ sid[sock[t]] = id[t]
    /\ pc[t] \in {"open_flags", "open_lock"} =>
         sock[t] \in allocated \/ lockstate[sock[t]] = -1

(* The table: one entry for a socket, alive, not broken, and the right one.*)
ListInv ==
  \A i \in Ids : slot[i] # None =>
    /\ slot[i] \in allocated /\ lockstate[slot[i]] # -1
    /\ \A j \in Ids \ {i} : slot[j] # slot[i]
    /\ sid[slot[i]] = i
         \/ \E t \in Callers : pc[t] = "open_flags" /\ sock[t] = slot[i] /\ id[t] = i

PcInv ==
  \A t \in Callers :
    /\ t \in readers <=> pc[t] = "acquire"
    /\ pc[t] = "acquire" => id[t] \in Ids
    /\ pc[t] \notin {"idle", "acquire"} => sock[t] \in Structs

IInv ==
  /\ TypeOK /\ PcInv /\ CloserInv /\ OpenerInv /\ ListInv /\ Exclusive
  /\ \A i \in Ids : AtOnePlace(i)

-----------------------------------------------------------------------------
(* The threads a blocked thread waits for: the owner of the socket it      *)
(* wants, or all the readers of _socket_lock.                              *)
Owners(s) == {u \in Callers : s \in owned[u]}
WaitsFor(t) ==
  CASE pc[t] = "acquire" -> Owners(Target(t))
    [] pc[t] \in {"open_lock", "close_lock"} -> Owners(sock[t])
    [] pc[t] \in {"open_reg", "dereg"} -> readers
    [] OTHER -> {}

(* The warning on socket_acquire (lib/m_socket.h:346) names one deadlock,  *)
(* with the current socket.  There is no other: in no set of threads does  *)
(* each wait for one of them.                                              *)
NoOtherDeadlock ==
  \A S \in (SUBSET Callers) \ {{}} : \E t \in S : WaitsFor(t) \cap S = {}

(* Why: a thread that owns a socket has nothing else to wait for.          *)
HoldInv ==
  /\ pc \in [Callers -> Labels] /\ owned = [t \in Callers |-> owned[t]]
  /\ \A t \in readers : t \in Callers /\ pc[t] = "acquire"
  /\ \A t \in Callers : pc[t] # "idle" => owned[t] = {}
  /\ \A t \in Callers : \A r, s \in owned[t] : r = s
=============================================================================
