------------------------------- MODULE IdFifo -------------------------------
(***************************************************************************)
(* What a socket queue promises its callers (lib/m_socket.h, "Socket       *)
(* queues"): identifiers come out in the order they went in, each one      *)
(* exactly once, and a reader is told that the queue is empty only when it *)
(* is.  SocketQueue implements this specification.                         *)
(***************************************************************************)
EXTENDS Sequences

CONSTANTS Ids,      (* the identifiers that can be queued                  *)
          Consumers (* the threads that read the queue                     *)

VARIABLES fifo,     (* the queued identifiers, oldest first                *)
          held,     (* the identifiers in the hands of some caller         *)
          ret       (* what socket_queue_get last returned to each reader  *)

Init ==
  /\ fifo = <<>>
  /\ held = Ids
  /\ ret = [c \in Consumers |-> 0]

Add(id) ==
  /\ id \in held
  /\ fifo' = Append(fifo, id)
  /\ held' = held \ {id}
  /\ UNCHANGED ret

Get(c) ==
  /\ fifo # <<>>
  /\ fifo' = Tail(fifo)
  /\ held' = held \cup {Head(fifo)}
  /\ ret' = [ret EXCEPT ![c] = Head(fifo)]

GetNothing(c) ==
  /\ fifo = <<>>
  /\ ret' = [ret EXCEPT ![c] = 0]
  /\ UNCHANGED <<fifo, held>>

(* A successful poll hands every queued identifier to the poller at once.  *)
Drain ==
  /\ fifo' = <<>>
  /\ held' = held \cup {fifo[k] : k \in DOMAIN fifo}
  /\ UNCHANGED ret

Next ==
  \/ \E id \in Ids : Add(id)
  \/ \E c \in Consumers : Get(c) \/ GetNothing(c)
  \/ Drain

Spec == Init /\ [][Next]_<<fifo, held, ret>>
=============================================================================
