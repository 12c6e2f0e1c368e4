------------------------------ MODULE Replies ------------------------------
(***************************************************************************)
(* The replies sent to one socket identifier (lib/m_server.c): any thread  *)
(* queues them with server_send_reply while the worker that has the socket *)
(* sends them (_server_respond), and while the socket is closed, opened    *)
(* again with the same identifier, or reset to reconnect.                  *)
(*                                                                         *)
(* A queue is memory: _work[id] points to it, a thread may have read the   *)
(* pointer when another frees it.  The queue's own locks make its          *)
(* operations single steps (WorkQueue).                                    *)
(***************************************************************************)
EXTENDS Integers, FiniteSets, Sequences

CONSTANTS
  Replies,   (* the replies plugins send                                   *)
  Acked,     (* those with SERVER_TRANS_ACK                                *)
  Ending,    (* those with SERVER_TRANS_END                                *)
  Delayed,   (* those with a delay                                         *)
  Length,    (* what a reply needs to be written, in units                 *)
  Senders,   (* the threads in server_send_reply                           *)
  Queues,    (* the memory queues are allocated from                       *)
  Sockets,   (* how many sockets get the identifier, one after another     *)
  Losses,    (* how many times the connection of each is lost and reset    *)
  None       (* the null pointer                                           *)

ASSUME RepliesAssumption ==
  /\ IsFiniteSet(Replies)
  /\ Acked \subseteq Replies /\ Ending \subseteq Replies /\ Delayed \subseteq Replies
ASSUME LengthAssumption == Length \in Nat \ {0}
ASSUME BoundsAssumption == Sockets \in Nat /\ Losses \in Nat
ASSUME NoneAssumption == None \notin Replies \cup Queues \cup Senders

VARIABLES
  gen,       (* which socket has the identifier; 0 when _socket[id] is null*)
  opened,    (* how many sockets have had it                               *)
  mine,      (* the socket belongs to the plugin that sends the replies    *)
  losses,    (* resets of the current socket                               *)
  work,      (* _work[id]                                                  *)
  items,     (* what is in each queue                                      *)
  live,      (* the queues between queue_alloc and queue_free              *)
  pc,        (* where the worker that has the socket is                    *)
  hand,      (* r in _server_respond                                       *)
  kept,      (* retransmit in _server_reinit_cb                            *)
  at,        (* where each sender is                                       *)
  letter,    (* r in server_send_reply                                     *)
  ptr,       (* the queue each sender has a pointer to                     *)
  left,      (* what remains to be written of each reply                   *)
  elapsed,   (* the replies whose delay is over                            *)
  fate,      (* what became of each reply                                  *)
  place,     (* history: when each reply was queued first, 0 if it was not *)
  for        (* history: the value of gen at that time                     *)

socket == <<gen, opened, mine, losses>>
queues == <<work, items, live>>
sender == <<at, letter, ptr>>
history == <<place, for>>
vars == <<socket, queues, pc, hand, kept, sender, left, elapsed, fate, history>>

Fates == {"unsent", "pending", "sent", "dropped", "returned", "lost"}

Init ==
  /\ gen = 0 /\ opened = 0 /\ mine = TRUE /\ losses = 0
  /\ work = None /\ items = [q \in Queues |-> <<>>] /\ live = {}
  /\ pc = "away" /\ hand = None /\ kept = None
  /\ at = [t \in Senders |-> "idle"]
  /\ letter = [t \in Senders |-> None]
  /\ ptr = [t \in Senders |-> None]
  /\ left = [r \in Replies |-> Length]
  /\ elapsed = {}
  /\ fate = [r \in Replies |-> "unsent"]
  /\ place = [r \in Replies |-> 0] /\ for = [r \in Replies |-> 0]

In(q) == {items[q][k] : k \in 1 .. Len(items[q])}

(* What becomes of each reply; history is kept of those still pending.     *)
Settle(f) ==
  LET Kept(v) == [r \in Replies |-> IF f[r] \in {"unsent", "pending"}
                                   THEN v[r] ELSE 0]
  IN /\ fate' = f
     /\ left' = Kept(left) /\ place' = Kept(place) /\ for' = Kept(for)
Finish(rs, f) == Settle([r \in Replies |-> IF r \in rs THEN f ELSE fate[r]])
body == <<fate, left, history>>
SenderGoto(t, label) == at' = [at EXCEPT ![t] = label]

-----------------------------------------------------------------------------
(* server_send_reply                                                       *)

Send(t, r) ==
  /\ at[t] = "idle" /\ fate[r] = "unsent"
  /\ IF gen = 0                                   \* socket_exists
     THEN Finish({r}, "dropped") /\ UNCHANGED <<at, letter>>
     ELSE /\ Finish({r}, "pending")
          /\ SenderGoto(t, "alloc")
          /\ letter' = [letter EXCEPT ![t] = r]
  /\ UNCHANGED <<socket, queues, pc, hand, kept, ptr, elapsed>>

SendAlloc(t) ==
  /\ at[t] = "alloc"
  /\ IF work # None
     THEN SenderGoto(t, "fetch") /\ UNCHANGED <<live, items, ptr>>
     ELSE /\ \E q \in Queues \ live :
               /\ live' = live \cup {q}
               /\ items' = [items EXCEPT ![q] = <<>>]
               /\ ptr' = [ptr EXCEPT ![t] = q]
          /\ SenderGoto(t, "install")
  /\ UNCHANGED <<socket, work, pc, hand, kept, letter, left, elapsed, fate,
                 history>>

(* Another thread may have installed a queue in the meantime.              *)
SendInstall(t) ==
  /\ at[t] = "install"
  /\ work' = ptr[t]
  /\ SenderGoto(t, "fetch")
  /\ UNCHANGED <<socket, items, live, pc, hand, kept, letter, ptr, left,
                 elapsed, fate, history>>

SendFetch(t) ==
  /\ at[t] = "fetch"
  /\ ptr' = [ptr EXCEPT ![t] = work]
  /\ SenderGoto(t, "add")
  /\ UNCHANGED <<socket, queues, pc, hand, kept, letter, left, elapsed, fate,
                 history>>

Latest == CHOOSE n \in 0 .. Cardinality(Replies) :
  (\A r \in Replies : place[r] <= n) /\ (n = 0 \/ \E r \in Replies : place[r] = n)

(* queue_add refuses a null queue, and what server_send_reply gives it is  *)
(* lost then, as it is in a queue that has been freed.                     *)
SendAdd(t) ==
  /\ at[t] = "add"
  /\ LET r == letter[t] IN
       IF ptr[t] \in live
       THEN /\ items' = [items EXCEPT ![ptr[t]] = Append(@, r)]
            /\ place' = [place EXCEPT ![r] = 1 + Latest]
            /\ for' = [for EXCEPT ![r] = gen]
            /\ UNCHANGED <<fate, left>>
       ELSE Finish({r}, "lost") /\ UNCHANGED items
  /\ SenderGoto(t, "idle")
  /\ letter' = [letter EXCEPT ![t] = None]
  /\ ptr' = [ptr EXCEPT ![t] = None]
  /\ UNCHANGED <<socket, work, live, pc, hand, kept, elapsed>>

-----------------------------------------------------------------------------
(* _server_respond, by the one worker that has the socket.                 *)

Worker(from, to) == pc = from /\ pc' = to
Waiting == IF work = None THEN <<>> ELSE items[work]

(* The worker gets the socket, to send or because there is data to read.   *)
Take ==
  /\ gen # 0 /\ Worker("away", "get")
  /\ UNCHANGED <<socket, queues, hand, kept, sender, left, elapsed, fate, history>>

Get_Peek ==                       \* mutant: the reply stays in the queue
  /\ Worker("get", "process") /\ Waiting # <<>>
  /\ hand' = Head(Waiting)
  /\ UNCHANGED <<socket, queues, kept, sender, left, elapsed, fate, history>>

Get ==
  /\ Worker("get", "process") /\ Waiting # <<>>
  /\ hand' = Head(Waiting)
  /\ items' = [items EXCEPT ![work] = Tail(@)]
  /\ UNCHANGED <<socket, work, live, kept, sender, left, elapsed, fate, history>>

GetNothing ==
  /\ Worker("get", "away") /\ Waiting = <<>>
  /\ UNCHANGED <<socket, queues, hand, kept, sender, left, elapsed, fate, history>>

(* The socket belongs to another plugin.                                   *)
ProcessAlien ==
  /\ Worker("process", "away") /\ ~mine
  /\ Finish({hand}, "dropped") /\ hand' = None
  /\ UNCHANGED <<socket, queues, kept, sender, elapsed>>

(* Too early: the worker goes on with the other replies if there are any.  *)
ProcessDelay ==
  /\ mine /\ hand \in Delayed \ elapsed
  /\ Worker("process", IF Waiting = <<>> THEN "requeue_last" ELSE "requeue")
  /\ UNCHANGED <<socket, queues, hand, kept, sender, left, elapsed, fate, history>>

Ready == mine /\ hand \notin Delayed \ elapsed

(* Part of the reply is written, or nothing, and the socket is blocked.    *)
ProcessPart ==
  /\ Worker("process", "push") /\ Ready
  /\ \E n \in 0 .. left[hand] - 1 : left' = [left EXCEPT ![hand] = @ - n]
  /\ UNCHANGED <<socket, queues, hand, kept, sender, elapsed, fate, history>>

ProcessAll ==
  /\ Worker("process", IF hand \in Ending THEN "close" ELSE "get") /\ Ready
  /\ Finish({hand}, "sent") /\ hand' = None
  /\ UNCHANGED <<socket, queues, kept, sender, elapsed>>

(* The connection is lost while the reply is written, some of it perhaps   *)
(* sent: the socket is closed, or reset to reconnect.                      *)
ProcessFatal ==
  /\ Ready
  /\ \/ Worker("process", "close") /\ UNCHANGED left
     \/ /\ Worker("process", "reset") /\ losses < Losses
        /\ \E n \in 0 .. left[hand] - 1 : left' = [left EXCEPT ![hand] = @ - n]
  /\ UNCHANGED <<socket, queues, hand, kept, sender, elapsed, fate, history>>

(* The reply goes back into the queue, at its end or at its beginning; a   *)
(* null queue refuses it.                                                  *)
GoBack(s) ==
  /\ IF work = None
     THEN Finish({hand}, "lost") /\ UNCHANGED items
     ELSE items' = [items EXCEPT ![work] = s] /\ UNCHANGED body
  /\ hand' = None
  /\ UNCHANGED <<socket, work, live, kept, sender, elapsed>>

Requeue_Forgets ==                \* mutant: a delayed reply is not put back
  /\ Worker("requeue", "get") \/ Worker("requeue_last", "away")
  /\ hand' = None
  /\ UNCHANGED <<socket, queues, kept, sender, left, elapsed, fate, history>>

Requeue ==
  /\ Worker("requeue", "get") \/ Worker("requeue_last", "away")
  /\ GoBack(Append(Waiting, hand))

PushBack_Last ==                  \* mutant: an unfinished reply waits its turn
  /\ Worker("push", "away")
  /\ GoBack(Append(Waiting, hand))

PushBack ==
  /\ Worker("push", "away")
  /\ GoBack(<<hand>> \o Waiting)

-----------------------------------------------------------------------------
(* The connection is found lost by a read.                                 *)
ReadError ==
  /\ gen # 0
  /\ \/ Worker("away", "close")
     \/ Worker("away", "reset") /\ losses < Losses
  /\ UNCHANGED <<socket, queues, hand, kept, sender, left, elapsed, fate, history>>

(* socket_close: the identifier stops naming the socket, the hook empties  *)
(* and frees the queue, and the identifier may be used again.              *)
Dereg ==
  /\ Worker("close", "drain")
  /\ gen' = 0
  /\ UNCHANGED <<opened, mine, losses, queues, hand, kept, sender, left,
                 elapsed, fate, history>>

Drain_NoHook ==                   \* mutant: the hook is not called
  /\ Worker("drain", "closed")
  /\ Finish({hand} \ {None}, "dropped") /\ hand' = None
  /\ UNCHANGED <<socket, queues, kept, sender, elapsed>>

Drain ==
  /\ Worker("drain", "free")
  /\ IF work = None
     THEN UNCHANGED <<items, body>>
     ELSE Finish(In(work), "dropped") /\ items' = [items EXCEPT ![work] = <<>>]
  /\ UNCHANGED <<socket, work, live, hand, kept, sender, elapsed>>

(* What was added since the last queue_get is freed with the queue; the    *)
(* worker frees the reply it could not finish.                             *)
FreeQueue(done) ==
  /\ LET added == IF work = None THEN {} ELSE In(work) IN
       Settle([r \in Replies |-> CASE r \in added -> "lost"
                                   [] r = done -> "dropped"
                                   [] OTHER -> fate[r]])
  /\ live' = live \ {work}
  /\ work' = None
  /\ items' = [q \in Queues |-> IF q = work THEN <<>> ELSE items[q]]

CloseEnd ==
  /\ Worker("free", "closed")
  /\ FreeQueue(hand)
  /\ hand' = None
  /\ UNCHANGED <<socket, kept, sender, elapsed>>

(* The plugin sends to a socket it has been told of: the first is its own. *)
Open ==
  /\ gen = 0 /\ opened < Sockets
  /\ pc = "closed" \/ opened = 0
  /\ pc' = "away"
  /\ gen' = opened + 1 /\ opened' = opened + 1
  /\ mine' \in {TRUE, opened = 0} /\ losses' = 0
  /\ UNCHANGED <<queues, hand, kept, sender, left, elapsed, fate, history>>

-----------------------------------------------------------------------------
(* socket_persist and _server_reinit_cb: the queue is emptied, but for the *)
(* first reply the plugin wants to hear of, and freed.                     *)

FirstAcked(s) ==
  LET ks == {k \in 1 .. Len(s) : s[k] \in Acked}
  IN IF ks = {} THEN None ELSE s[CHOOSE k \in ks : \A j \in ks : k <= j]

ResetDrain ==
  /\ Worker("reset", "reset_free")
  /\ losses' = losses + 1
  /\ kept' = FirstAcked(Waiting)
  /\ IF work = None
     THEN UNCHANGED <<items, body>>
     ELSE /\ Finish(In(work) \ {FirstAcked(Waiting)}, "dropped")
          /\ items' = [items EXCEPT ![work] = <<>>]
  /\ UNCHANGED <<gen, opened, mine, work, live, hand, sender, elapsed>>

ResetFree ==
  /\ Worker("reset_free", "notify")
  /\ FreeQueue(None)
  /\ UNCHANGED <<socket, hand, kept, sender, elapsed>>

(* The plugin gets the reply it wanted to hear of.  The one the worker was *)
(* writing goes where the queue was.                                       *)
Notify ==
  /\ Worker("notify", IF hand = None THEN "away" ELSE "push")
  /\ Finish({kept} \ {None}, "returned")
  /\ kept' = None
  /\ UNCHANGED <<socket, queues, hand, sender, elapsed>>

(* Time matters while the reply is pending.                                *)
Elapse(r) ==
  /\ r \in Delayed \ elapsed /\ fate[r] = "pending"
  /\ elapsed' = elapsed \cup {r}
  /\ UNCHANGED <<socket, queues, pc, hand, kept, sender, left, fate, history>>

-----------------------------------------------------------------------------
SendStep(t) == SendAlloc(t) \/ SendInstall(t) \/ SendFetch(t) \/ SendAdd(t)
Process == ProcessAlien \/ ProcessDelay \/ ProcessPart \/ ProcessAll
             \/ ProcessFatal
Respond == Take \/ Get \/ GetNothing \/ Process \/ Requeue \/ PushBack
Close == Dereg \/ Drain \/ CloseEnd
Reset == ResetDrain \/ ResetFree \/ Notify

Next ==
  \/ \E t \in Senders : SendStep(t) \/ \E r \in Replies : Send(t, r)
  \/ Respond \/ ReadError \/ Close \/ Reset \/ Open
  \/ \E r \in Delayed : Elapse(r)

Spec == Init /\ [][Next]_vars

(* Threads run, time passes, the worker gets the socket again (Server), and*)
(* a peer that keeps its connection reads in the end.                      *)
Fairness ==
  /\ \A t \in Senders : WF_vars(SendStep(t))
  /\ \A r \in Delayed : WF_vars(Elapse(r))
  /\ WF_vars(Respond \/ Close \/ Reset)
  /\ SF_vars(ProcessAll)
  /\ SF_vars(Get)

FairSpec == Spec /\ Fairness

-----------------------------------------------------------------------------
(* Properties                                                              *)

TypeOK ==
  /\ gen \in 0 .. Sockets /\ opened \in 0 .. Sockets
  /\ mine \in BOOLEAN /\ losses \in 0 .. Losses
  /\ work \in Queues \cup {None} /\ live \subseteq Queues
  /\ items \in [Queues -> Seq(Replies)]
  /\ pc \in {"away", "get", "process", "requeue", "requeue_last", "push",
             "close", "drain", "free", "closed", "reset", "reset_free",
             "notify"}
  /\ hand \in Replies \cup {None} /\ kept \in Replies \cup {None}
  /\ at \in [Senders -> {"idle", "alloc", "install", "fetch", "add"}]
  /\ letter \in [Senders -> Replies \cup {None}]
  /\ ptr \in [Senders -> Queues \cup {None}]
  /\ left \in [Replies -> 0 .. Length]
  /\ elapsed \subseteq Delayed
  /\ fate \in [Replies -> Fates]
  /\ place \in [Replies -> 0 .. Cardinality(Replies)]
  /\ for \in [Replies -> 0 .. Sockets]

(* Where a reply not yet disposed of may be found.                         *)
Homes(r) ==
  {<<"sender", t>> : t \in {t \in Senders : letter[t] = r}}
  \cup {<<"worker", x>> : x \in {x \in {"hand"} : hand = r} \cup {x \in {"kept"} : kept = r}}
  \cup UNION {{<<"queue", q, k>> : k \in {k \in 1 .. Len(items[q]) : items[q][k] = r}} :
              q \in live}

(* A reply that is pending is in one place, and a reply that was freed or  *)
(* given back to the plugin is in none: nothing is sent or freed twice.    *)
(* The types hold too.                                                     *)
OneHome ==
  TypeOK /\ \A r \in Replies :
     Cardinality(Homes(r)) = IF fate[r] = "pending" THEN 1 ELSE 0

Partial(r) == fate[r] = "pending" /\ 0 < left[r] /\ left[r] < Length
Writes(r) == left'[r] < left[r] /\ fate'[r] \in {"pending", "sent"}
Queued(r) == fate[r] = "pending" /\ \E k \in 1 .. Len(Waiting) : Waiting[k] = r

(* Nothing is written between two parts of a reply.                        *)
NeverInterleaved ==
  [][\A r, u \in Replies : Writes(r) /\ Partial(u) => u = r]_vars

(* Writing does not start on a reply while one without delay, queued       *)
(* earlier, is still waiting: a delay never lets a later reply overtake.   *)
NotOvertaken ==
  [][\A r \in Replies, u \in Replies \ Delayed :
       Writes(r) /\ place[u] < place[r] => ~Queued(u)]_vars

(* What was queued for a socket is not written to the next one that gets   *)
(* its identifier.                                                         *)
NoLeftovers ==
  [][\A r \in Replies : Writes(r) => for[r] \in {0, gen}]_vars

(* What is queued for a socket is sent, given back or dropped with it: no   *)
(* reply waits for ever, and a delayed one does not hold up the others.    *)
EachAnswered ==
  \A r \in Replies : Queued(r) /\ for[r] # 0 ~> fate[r] # "pending"

-----------------------------------------------------------------------------
(* The inductive invariant, whatever the threads: a pending reply is with  *)
(* one thread or in one queue, and the queue to be installed is nobody     *)
(* else's.                                                                 *)

WithSender(r) == \E t \in Senders : letter[t] = r
InQueue(r) == \E q \in Queues : r \in In(q)
Distinct(s) == \A j, k \in 1 .. Len(s) : s[j] = s[k] => j = k

HomeInv ==
  /\ \A r \in Replies : fate[r] = "pending" <=>
       r = hand \/ r = kept \/ WithSender(r) \/ InQueue(r)
  /\ hand # None => hand # kept /\ ~WithSender(hand) /\ ~InQueue(hand)
  /\ kept # None => ~WithSender(kept) /\ ~InQueue(kept)
  /\ \A r \in Replies : WithSender(r) => ~InQueue(r)
  /\ \A t, u \in Senders : letter[t] = letter[u] /\ letter[t] # None => t = u
  /\ \A q, p \in Queues : In(q) \cap In(p) # {} => q = p
  /\ \A q \in Queues : Distinct(items[q])

QueueInv ==
  /\ work = None \/ work \in live
  /\ \A q \in Queues \ live : items[q] = <<>>
  /\ \A t \in Senders : at[t] = "install" =>
       /\ ptr[t] \in live /\ ptr[t] # work
       /\ \A u \in Senders : at[u] = "install" /\ ptr[u] = ptr[t] => u = t
  /\ \A t \in Senders : at[t] = "idle" <=> letter[t] = None

WorkerInv ==
  /\ pc \in {"process", "requeue", "requeue_last", "push"} => hand # None
  /\ pc \in {"away", "get", "closed"} => hand = None
  /\ kept # None => pc \in {"reset_free", "notify"}
  /\ opened = 0 => gen = 0 /\ pc = "away"
  /\ pc = "reset" => losses < Losses

(* A reply counts for one once a sender has let go of it.                  *)
Gone == {r \in Replies : fate[r] # "unsent" /\ ~WithSender(r)}
CountInv ==
  /\ \A r \in Replies : place[r] <= Cardinality(Gone)
  /\ \A r \in Replies : fate[r] \notin {"unsent", "pending"} =>
       left[r] = 0 /\ place[r] = 0 /\ for[r] = 0

IInv == TypeOK /\ HomeInv /\ QueueInv /\ WorkerInv /\ CountInv

-----------------------------------------------------------------------------
(* What is added when one thread sends: the only queue is the installed    *)
(* one, or one to be installed when there is none; a reply that has been   *)
(* begun is the worker's or first in the queue; the queue is in order, but *)
(* for the delayed replies that have been put back.                        *)

SoleQueue ==
  \A t \in Senders :
    /\ at[t] = "install" => work = None /\ items[ptr[t]] = <<>>
    /\ \A q \in live : q = work \/ (at[t] = "install" /\ q = ptr[t])

BegunInv ==
  /\ \A r \in Replies : fate[r] = "unsent" => left[r] = Length
  /\ \A r \in Replies : Partial(r) =>
       /\ r \notin Delayed \ elapsed
       /\ \/ r = hand \/ r = kept
          \/ hand = None /\ kept = None /\ Waiting # <<>> /\ r = Head(Waiting)
  /\ pc \in {"requeue", "requeue_last"} => hand \in Delayed /\ ~Partial(hand)

InOrder(s) ==
  \A j, k \in 1 .. Len(s) : j < k /\ s[k] \notin Delayed => place[s[j]] < place[s[k]]
OrderInv ==
  /\ InOrder(Waiting)
  /\ hand # None => \A k \in 1 .. Len(Waiting) :
       Waiting[k] \notin Delayed => place[hand] < place[Waiting[k]]

(* A queue outlives its socket only while it is emptied.                   *)
OwnerInv ==
  /\ pc \in {"drain", "free", "closed"} => gen = 0
  /\ pc \in {"drain", "free"} \/ \A r \in Replies :
       r = hand \/ (\E k \in 1 .. Len(Waiting) : Waiting[k] = r) => for[r] \in {0, gen}

SoleInv == SoleQueue /\ BegunInv /\ OrderInv /\ OwnerInv
=============================================================================
