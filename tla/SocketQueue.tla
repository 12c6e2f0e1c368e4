----------------------------- MODULE SocketQueue -----------------------------
(***************************************************************************)
(* The ring buffer of socket identifiers (lib/m_socket.c, "Socket queues"): *)
(* socket_queue_add, _get, _empty, _wait and _poll, called concurrently.   *)
(*                                                                         *)
(* Readers hold _head_lock and writers hold _tail_lock, so a reader and a  *)
(* writer run inside the ring at the same time: what either lock does not  *)
(* order is a step of its own.  A cell holding 0 marks the end of the      *)
(* queue, for there is no counter of queued identifiers.                   *)
(***************************************************************************)
EXTENDS Integers, FiniteSets, Sequences

CONSTANTS
  Max,        (* SOCKET_MAX, the number of cells of the ring               *)
  Ids,        (* identifiers handed out by _socket_reg                     *)
  Producers,  (* threads calling socket_queue_add                          *)
  Consumers,  (* threads calling socket_queue_get, _empty and _wait        *)
  Pollers,    (* threads calling socket_queue_poll                         *)
  PollLen,    (* len, the size of the array socket_queue_poll fills        *)
  Padding,    (* what the memory just past the ring may hold               *)
  None        (* nobody                                                    *)

Threads == Producers \cup Consumers \cup Pollers

(* _id counts from 1 and stays below SOCKET_MAX: one cell is always spare. *)
ASSUME MaxAssumption == Max \in Nat \ {0, 1}
ASSUME IdsAssumption == Ids \subseteq 1 .. (Max - 1)
ASSUME ThreadsAssumption ==
  /\ None \notin Threads
  /\ Producers \cap Consumers = {}
  /\ Pollers \cap (Producers \cup Consumers) = {}
ASSUME PollLenAssumption == PollLen \in Nat \ {0}
ASSUME PaddingAssumption == Padding # {} /\ Padding \subseteq Nat

VARIABLES
  ring,       (* _ring                                                     *)
  head,       (* _head_index: may rest at Max until the next get wraps it  *)
  tail,       (* _tail_index                                               *)
  headLock,   (* owner of _head_lock                                       *)
  tailLock,   (* owner of _tail_lock                                       *)
  pc,         (* where each thread is                                      *)
  reg,        (* the identifier each thread has in a local variable        *)
  held,       (* identifiers in the hands of callers, outside the queue    *)
  ret         (* what socket_queue_get last returned to each reader        *)

vars == <<ring, head, tail, headLock, tailLock, pc, reg, held, ret>>

Cells == 0 .. (Max - 1)
Busy == {"add_store", "add_zero", "get_clear", "wait_check", "asleep",
         "woken", "awake", "poll_tail", "poll_scan"}

Init ==
  /\ ring = [i \in Cells |-> 0]
  /\ head = 0 /\ tail = 0
  /\ headLock = None /\ tailLock = None
  /\ pc = [t \in Threads |-> "idle"]
  /\ reg = [t \in Threads |-> 0]
  /\ held = Ids
  /\ ret = [c \in Consumers |-> 0]

Goto(t, label) == pc' = [pc EXCEPT ![t] = label]

(* The cell an index stands for, and the cell after it.                    *)
Wrap(i) == IF i = Max THEN 0 ELSE i
NextCell(i) == Wrap(i + 1)

(* Reading _ring[_head_index] without wrapping the index first, as         *)
(* socket_queue_empty and socket_queue_poll do: at Max the read is past    *)
(* the end of the allocation, and may return anything found there.         *)
RawRead(i) == IF i = Max THEN Padding ELSE {ring[i]}

-----------------------------------------------------------------------------
(* socket_queue_add                                                        *)

AddLock_Unlocked(t, id) ==        \* mutant: _tail_lock is not awaited
  /\ pc[t] = "idle"
  /\ id \in held
  /\ tailLock' = t
  /\ held' = held \ {id}
  /\ reg' = [reg EXCEPT ![t] = id]
  /\ Goto(t, "add_store")
  /\ UNCHANGED <<ring, head, tail, headLock, ret>>

AddLock(t, id) ==
  /\ pc[t] = "idle" /\ tailLock = None
  /\ id \in held
  /\ tailLock' = t
  /\ held' = held \ {id}
  /\ reg' = [reg EXCEPT ![t] = id]
  /\ Goto(t, "add_store")
  /\ UNCHANGED <<ring, head, tail, headLock, ret>>

AddStore(t) ==
  /\ pc[t] = "add_store"
  /\ ring' = [ring EXCEPT ![tail] = reg[t]]
  /\ tail' = NextCell(tail)
  /\ reg' = [reg EXCEPT ![t] = 0]
  /\ Goto(t, "add_zero")
  /\ UNCHANGED <<head, headLock, tailLock, held, ret>>

AddZero_Silent(t) ==              \* mutant: the sleepers are not signalled
  /\ pc[t] = "add_zero"
  /\ ring' = [ring EXCEPT ![tail] = 0]
  /\ tailLock' = None
  /\ Goto(t, "idle")
  /\ UNCHANGED <<head, tail, headLock, reg, held, ret>>

(* pthread_cond_signal wakes one sleeper, if there is one.                 *)
AddZero(t) ==
  /\ pc[t] = "add_zero"
  /\ ring' = [ring EXCEPT ![tail] = 0]
  /\ tailLock' = None
  /\ LET sleepers == {c \in Consumers : pc[c] = "asleep"}
     IN \/ /\ sleepers = {}
           /\ Goto(t, "idle")
        \/ \E c \in sleepers :
             pc' = [pc EXCEPT ![t] = "idle", ![c] = "woken"]
  /\ UNCHANGED <<head, tail, headLock, reg, held, ret>>

-----------------------------------------------------------------------------
(* socket_queue_get                                                        *)

GetRead(t) ==
  /\ pc[t] \in {"idle", "awake"} /\ headLock = None
  /\ head' = Wrap(head)
  /\ IF ring[head'] = 0
     THEN /\ ret' = [ret EXCEPT ![t] = 0]
          /\ Goto(t, "idle")
          /\ UNCHANGED <<reg, headLock>>
     ELSE /\ reg' = [reg EXCEPT ![t] = ring[head']]
          /\ headLock' = t
          /\ Goto(t, "get_clear")
          /\ UNCHANGED ret
  /\ UNCHANGED <<ring, tail, tailLock, held>>

GetClear_KeepsCell(t) ==          \* mutant: the cell is not zeroed
  /\ pc[t] = "get_clear"
  /\ head' = head + 1
  /\ headLock' = None
  /\ held' = held \cup {reg[t]}
  /\ ret' = [ret EXCEPT ![t] = reg[t]]
  /\ reg' = [reg EXCEPT ![t] = 0]
  /\ Goto(t, "idle")
  /\ UNCHANGED <<ring, tail, tailLock>>

GetClear_KeepsLock(t) ==          \* mutant: _head_lock is never released
  /\ pc[t] = "get_clear"
  /\ ring' = [ring EXCEPT ![head] = 0]
  /\ head' = head + 1
  /\ held' = held \cup {reg[t]}
  /\ ret' = [ret EXCEPT ![t] = reg[t]]
  /\ reg' = [reg EXCEPT ![t] = 0]
  /\ Goto(t, "idle")
  /\ UNCHANGED <<tail, tailLock, headLock>>

GetClear(t) ==
  /\ pc[t] = "get_clear"
  /\ ring' = [ring EXCEPT ![head] = 0]
  /\ head' = head + 1
  /\ headLock' = None
  /\ held' = held \cup {reg[t]}
  /\ ret' = [ret EXCEPT ![t] = reg[t]]
  /\ reg' = [reg EXCEPT ![t] = 0]
  /\ Goto(t, "idle")
  /\ UNCHANGED <<tail, tailLock>>

-----------------------------------------------------------------------------
(* socket_queue_wait: the emptiness test runs under both locks, and        *)
(* pthread_cond_timedwait gives up _tail_lock while the thread sleeps.     *)

WaitLock(t) ==
  /\ pc[t] = "idle" /\ tailLock = None
  /\ tailLock' = t
  /\ Goto(t, "wait_check")
  /\ UNCHANGED <<ring, head, tail, headLock, reg, held, ret>>

WaitCheck(t) ==
  /\ pc[t] = "wait_check" /\ headLock = None
  /\ tailLock' = None
  /\ \E cell \in RawRead(head) :
       Goto(t, IF cell = 0 THEN "asleep" ELSE "awake")
  /\ UNCHANGED <<ring, head, tail, headLock, reg, held, ret>>

(* The wait expires (or the thread wakes up for no reason).                *)
WaitTimeout(t) ==
  /\ pc[t] = "asleep"
  /\ Goto(t, "woken")
  /\ UNCHANGED <<ring, head, tail, headLock, tailLock, reg, held, ret>>

(* A woken thread takes _tail_lock again before it returns and lets it go. *)
WaitReturn(t) ==
  /\ pc[t] = "woken" /\ tailLock = None
  /\ Goto(t, "awake")
  /\ UNCHANGED <<ring, head, tail, headLock, tailLock, reg, held, ret>>

-----------------------------------------------------------------------------
(* socket_queue_poll                                                       *)

PollHead(t) ==
  /\ pc[t] = "idle" /\ headLock = None
  /\ headLock' = t
  /\ Goto(t, "poll_tail")
  /\ UNCHANGED <<ring, head, tail, tailLock, reg, held, ret>>

PollTail(t) ==
  /\ pc[t] = "poll_tail" /\ tailLock = None
  /\ \E cell \in RawRead(head) :
       IF cell = 0
       THEN headLock' = None /\ Goto(t, "idle") /\ UNCHANGED tailLock
       ELSE tailLock' = t /\ Goto(t, "poll_scan") /\ UNCHANGED headLock
  /\ UNCHANGED <<ring, head, tail, reg, held, ret>>

(* The identifiers from head to tail, oldest first.                        *)
Count(h, tl) == IF h <= tl THEN tl - h ELSE Max - h + tl
CellAt(h, k) == IF h + k - 1 < Max THEN h + k - 1 ELSE h + k - 1 - Max
Contents == [k \in 1 .. Count(Wrap(head), tail) |-> ring[CellAt(Wrap(head), k)]]

Elements(s) == {s[k] : k \in DOMAIN s}

(* The scan skips the identifiers whose socket is gone (socket_acquire     *)
(* fails) and stops once the array is full.                                *)
Polled_StopsEarly(live) ==        \* mutant: the newest cell is not scanned
  {Contents[k] : k \in {k \in DOMAIN Contents :
                          k < Len(Contents) /\ Contents[k] \in live}}

Polled(live) ==
  LET upTo(k) == {j \in 1 .. k : Contents[j] \in live}
  IN {Contents[k] : k \in {k \in DOMAIN Contents :
        Contents[k] \in live /\ Cardinality(upTo(k)) <= PollLen}}

ClearQueue_NoMark ==              \* mutant: the first cell keeps its value
  head' = 0 /\ tail' = 0 /\ UNCHANGED ring

ClearQueue ==
  /\ ring' = [ring EXCEPT ![0] = 0]
  /\ head' = 0 /\ tail' = 0

(* poll() runs with both locks held.  Identifiers of dead sockets belong   *)
(* to whoever is given them next.  When no socket is left, or poll()       *)
(* fails, the queue stays as it is.                                        *)
PollScan(t) ==
  /\ pc[t] = "poll_scan"
  /\ \E live \in SUBSET Elements(Contents), ok \in BOOLEAN :
       IF ok /\ Polled(live) # {}
       THEN /\ ClearQueue
            /\ held' = held \cup Polled(live) \cup (Elements(Contents) \ live)
       ELSE UNCHANGED <<ring, head, tail, held>>
  /\ headLock' = None /\ tailLock' = None
  /\ Goto(t, "idle")
  /\ UNCHANGED <<reg, ret>>

-----------------------------------------------------------------------------
Add(t) == (\E id \in Ids : AddLock(t, id)) \/ AddStore(t) \/ AddZero(t)
Get(t) == GetRead(t) \/ GetClear(t)
Wait(t) == WaitLock(t) \/ WaitCheck(t) \/ WaitTimeout(t) \/ WaitReturn(t)
Poll(t) == PollHead(t) \/ PollTail(t) \/ PollScan(t)

Next ==
  \/ \E t \in Producers : Add(t)
  \/ \E t \in Consumers : Get(t) \/ Wait(t)
  \/ \E t \in Pollers : Poll(t)

Spec == Init /\ [][Next]_vars

(* Threads inside a call go on, sleeps end, and readers keep reading.      *)
Fairness ==
  /\ \A t \in Producers : WF_vars(AddStore(t) \/ AddZero(t))
  /\ \A t \in Consumers : WF_vars(Get(t) \/ Wait(t))
  /\ \A t \in Pollers : WF_vars(PollTail(t) \/ PollScan(t))

FairSpec == Spec /\ Fairness
-----------------------------------------------------------------------------
(* Properties                                                              *)

TypeOK ==
  /\ ring \in [Cells -> {0} \cup Ids]
  /\ head \in 0 .. Max
  /\ tail \in Cells
  /\ headLock \in Threads \cup {None}
  /\ tailLock \in Threads \cup {None}
  /\ pc \in [Threads -> Busy \cup {"idle"}]
  /\ reg \in [Threads -> {0} \cup Ids]
  /\ held \subseteq Ids
  /\ ret \in [Consumers -> {0} \cup Ids]

(* The cells a reader has still to visit, wherever the queue has wrapped.  *)
Between(h, tl) ==
  IF h <= tl THEN {i \in Cells : h <= i /\ i < tl}
  ELSE {i \in Cells : h <= i \/ i < tl}
Window == Between(Wrap(head), tail)

Adding == {t \in Producers : pc[t] = "add_store"}

(* An identifier is in one place only: in the hands of a caller, in those  *)
(* of a thread about to store it, or in one cell of the queue; and none is *)
(* lost.  A stale cell read by socket_queue_get, an identifier overwritten *)
(* in a full ring, or dropped by socket_queue_poll, breaks it.             *)
OnePlace ==
  /\ \A i, j \in Window : ring[i] = ring[j] => i = j
  /\ \A i \in Window : ring[i] \notin held
  /\ \A t \in Adding : reg[t] \notin held /\ \A i \in Window : ring[i] # reg[t]
  /\ \A t, u \in Adding : t = u
  /\ \A id \in Ids : \/ id \in held
                     \/ \E t \in Adding : reg[t] = id
                     \/ \E i \in Window : ring[i] = id

(* A reader that has caught up with the writers reads 0 at its index, even *)
(* between the two writes of socket_queue_add; a reader that has not reads *)
(* an identifier: the ring never becomes so full that the end mark of      *)
(* socket_queue_add lands on the oldest identifier.                        *)
EndMark == (ring[Wrap(head)] = 0) <=> (Wrap(head) = tail)

(* What the code relies on without saying it.  A thread is inside a        *)
(* critical section exactly while it owns the lock, and the identifier a   *)
(* reader is about to remove is the one in the cell it will clear.         *)
LockInv ==
  /\ \A t \in Threads :
       /\ headLock = t <=> pc[t] \in {"get_clear", "poll_tail", "poll_scan"}
       /\ tailLock = t <=> pc[t] \in {"add_store", "add_zero", "wait_check",
                                     "poll_scan"}
       /\ pc[t] \in {"add_store", "add_zero"} => t \in Producers
       /\ pc[t] \in {"poll_tail", "poll_scan"} => t \in Pollers
       /\ pc[t] \notin {"idle", "add_store", "add_zero", "poll_tail",
                       "poll_scan"} => t \in Consumers
       /\ pc[t] = "add_store" => reg[t] \in Ids
       /\ pc[t] = "get_clear" =>
            head \in Window /\ reg[t] = ring[head] /\ reg[t] \in Ids

(* The cells still to be read hold identifiers and the one after them the  *)
(* end mark.  Cells outside the window are clear when the queue is only    *)
(* read cell by cell; when it is only polled they keep old identifiers,    *)
(* and every poll starts at the first cell, which no writer is about to    *)
(* mark.                                                                   *)
RingInv ==
  /\ \A i \in Window : ring[i] \in Ids
  /\ ring[tail] = 0 \/ \E t \in Producers : pc[t] = "add_zero"
  /\ Pollers = {} => \A i \in Cells \ Window : ring[i] = 0
  /\ Consumers = {} =>
       head = 0 /\ \A t \in Producers : pc[t] = "add_zero" => tail # 0

IInv == TypeOK /\ LockInv /\ RingInv /\ OnePlace

(* Once every reader sleeps in socket_queue_wait the queue is empty, or    *)
(* its writer is about to signal, or the sleeper misread it because        *)
(* _head_index rested at SOCKET_MAX: the signal of socket_queue_add cannot *)
(* fall between the emptiness test and the sleep.                          *)
NoLostWakeup ==
  (\A c \in Consumers : pc[c] = "asleep") =>
     \/ Contents = <<>>
     \/ head = Max
     \/ \E t \in Producers : pc[t] = "add_zero"

(* socket_queue_poll gets all the identifiers from the queue               *)
(* (lib/m_socket.h:764): when it empties the queue, none is left behind.   *)
PollTakesAll ==
  [][\A t \in Pollers : pc[t] = "poll_scan" /\ pc'[t] = "idle" =>
       Elements(Contents) \subseteq Elements(Contents)' \cup held']_vars

(* A queued identifier is handed to a reader in the end.                   *)
EachServed ==
  \A id \in Ids : id \in Elements(Contents) ~> id \notin Elements(Contents)

(* The queue is the FIFO its header promises: an addition takes effect at  *)
(* the write of the cell, a removal when the reader clears it.             *)
Fifo == INSTANCE IdFifo WITH
  fifo <- Contents,
  held <- held \cup {reg[t] : t \in Adding}

FifoSpec == Fifo!Spec
=============================================================================
