------------------------------- MODULE Server -------------------------------
(***************************************************************************)
(* The worker threads (lib/m_server.c, _server_loop) and the four socket   *)
(* queues that hand the sockets around: _incoming holds the listeners,     *)
(* _blocking the sockets that wait to be polled, _readable and _writable   *)
(* those that a worker should read from or write to.                       *)
(*                                                                         *)
(* A socket is known by its identifier.  The queues are the sequences      *)
(* IdFifo promises, the registry and the socket locks do here in one step  *)
(* what SocketTable details, and a reply is reduced to what it asks of the *)
(* socket.  Data, virtual UDP sockets and SSL handshakes are left out.     *)
(***************************************************************************)
EXTENDS Integers, FiniteSets, Sequences

CONSTANTS
  Workers,   (* the threads of the pool, _concurrency of them              *)
  Plugin,    (* a thread of a plugin that opens and uses sockets           *)
  Max,       (* SOCKET_MAX: identifiers go from 1 to Max - 1               *)
  Kinds,     (* what plugins open: "client" (SOCKET_CLIENT: reconnected    *)
             (* when it fails) and "outbound" (closed when it fails)       *)
  Reuse,     (* whether closed identifiers come back within the run        *)
  MaxSends,  (* bound on the replies sent by the plugin                    *)
  None       (* nobody                                                     *)

Threads == Workers \cup {Plugin}
Ids == 1 .. (Max - 1)
Listener == 1
Queues == {"incoming", "blocking", "readable", "writable"}
Ops == {"data", "end", "alien"}

ASSUME MaxAssumption == Max \in Nat /\ Max > 2
ASSUME KindsAssumption == Kinds \subseteq {"client", "outbound"}
ASSUME ThreadsAssumption == Plugin \notin Workers /\ None \notin Threads
ASSUME BoundAssumption == Reuse \in BOOLEAN /\ MaxSends \in Nat

VARIABLES
  kind,       (* what each identifier names in _socket; "free" if nothing  *)
  connecting, (* _SOCKET_C: the connection is in progress                  *)
  lock,       (* which thread has acquired each socket                     *)
  work,       (* _work: the replies that wait for each socket              *)
  fresh,      (* _id: the first identifier never used                      *)
  freeIds,    (* _free_ids                                                 *)
  queue,      (* the four socket queues                                    *)
  poller,     (* the owner of _server_blocking and of the queue it polls   *)
  scanned,    (* how many entries of that queue the poller is through with *)
  pc,         (* where each thread is                                      *)
  back,       (* where it goes on after putting back or closing a socket   *)
  sock,       (* the socket a thread works on, 0 if none                   *)
  new,        (* the socket a thread is opening, 0 if none                 *)
  batch,      (* the sockets a poll has returned and not yet sorted        *)
  dest,       (* the queue chosen for the first of them                    *)
  sends       (* replies sent so far                                       *)

vars == <<kind, connecting, lock, work, fresh, freeIds, queue, poller,
          scanned, pc, back, sock, new, batch, dest, sends>>
table == <<kind, connecting, work, fresh, freeIds, sends>>
locals == <<back, sock, new, batch, dest>>
polling == <<poller, scanned>>

Labels == {"receive", "recv_acquire", "recv_read", "plugin", "respond",
           "resp_acquire", "resp_task", "put_back", "put_release",
           "close_release", "dereg", "free_id", "poll_in", "accept",
           "accept_enq", "listen_release", "listen_enq", "poll_bl", "scan",
           "dispatch", "disp_enq", "open_lock", "connect", "open_enq",
           "open_unlock", "idle"}

(* A plugin has opened a listener and the workers have just been started.  *)
Init ==
  /\ kind = [i \in Ids |-> IF i = Listener THEN "listener" ELSE "free"]
  /\ connecting = [i \in Ids |-> FALSE]
  /\ lock = [i \in Ids |-> None]
  /\ work = [i \in Ids |-> <<>>]
  /\ fresh = Listener + 1
  /\ freeIds = <<>>
  /\ queue = [q \in Queues |-> IF q = "incoming" THEN <<Listener>> ELSE <<>>]
  /\ poller = None /\ scanned = 0
  /\ pc = [t \in Threads |-> IF t = Plugin THEN "idle" ELSE "receive"]
  /\ back = [t \in Threads |-> "receive"]
  /\ sock = [t \in Threads |-> 0]
  /\ new = [t \in Threads |-> 0]
  /\ batch = [t \in Threads |-> <<>>]
  /\ dest = [t \in Threads |-> "blocking"]
  /\ sends = 0

Goto(t, label) == pc' = [pc EXCEPT ![t] = label]
GotoThen(t, label, next) == Goto(t, label) /\ back' = [back EXCEPT ![t] = next]

(* socket_queue_add waits for the tail lock, which the poller owns while   *)
(* it collects the sockets of _blocking.                                   *)
Unlocked(q) == q = "blocking" => poller = None
Enqueue(q, i) ==
  /\ Unlocked(q)
  /\ queue' = [queue EXCEPT ![q] = Append(@, i)]

Acquirable(i) == kind[i] # "free" /\ lock[i] = None
Lock(t, i) == lock' = [lock EXCEPT ![i] = t]
Unlock(i) == lock' = [lock EXCEPT ![i] = None]

(* socket_open and _socket_reg: a new identifier, or the oldest freed one. *)
Register(i, k) ==
  /\ IF fresh < Max
     THEN i = fresh /\ fresh' = fresh + 1 /\ UNCHANGED freeIds
     ELSE /\ Reuse /\ freeIds # <<>>
          /\ i = Head(freeIds) /\ freeIds' = Tail(freeIds)
          /\ UNCHANGED fresh
  /\ kind' = [kind EXCEPT ![i] = k]
  /\ UNCHANGED <<connecting, work, sends>>

(* socket_persist, for a persistent client: the connection starts over and *)
(* _server_reinit_cb frees the replies that were waiting.                  *)
Persist(i) ==
  /\ kind[i] = "client"
  /\ connecting' = [connecting EXCEPT ![i] = TRUE]
  /\ work' = [work EXCEPT ![i] = <<>>]
  /\ UNCHANGED <<kind, fresh, freeIds, sends>>

-----------------------------------------------------------------------------
(* _server_receive                                                         *)

RecvDequeue(w) ==
  /\ pc[w] = "receive"
  /\ IF queue["readable"] = <<>>
     THEN Goto(w, "respond") /\ UNCHANGED <<queue, sock>>
     ELSE /\ sock' = [sock EXCEPT ![w] = Head(queue["readable"])]
          /\ queue' = [queue EXCEPT !["readable"] = Tail(@)]
          /\ Goto(w, "recv_acquire")
  /\ UNCHANGED <<table, polling, lock, back, new, batch, dest>>

RecvAcquire(w) ==
  /\ pc[w] = "recv_acquire"
  /\ \/ /\ kind[sock[w]] = "free"
        /\ sock' = [sock EXCEPT ![w] = 0]
        /\ Goto(w, "respond")
        /\ UNCHANGED lock
     \/ /\ Acquirable(sock[w])
        /\ Lock(w, sock[w])
        /\ Goto(w, "recv_read")
        /\ UNCHANGED sock
  /\ UNCHANGED <<table, polling, queue, back, new, batch, dest>>

(* Data, or SOCKET_EAGAIN, which is treated as an empty input; a           *)
(* connection in progress may have been completed by the read.             *)
RecvRead(w) ==
  /\ pc[w] = "recv_read"
  /\ \E c \in {connecting[sock[w]], FALSE} :
       connecting' = [connecting EXCEPT ![sock[w]] = c]
  /\ Goto(w, "plugin")
  /\ UNCHANGED <<kind, work, fresh, freeIds, sends, polling, queue, lock,
                 locals>>

RecvError(w) ==
  /\ pc[w] = "recv_read"
  /\ \/ Persist(sock[w]) /\ GotoThen(w, "put_back", "respond")
     \/ /\ kind[sock[w]] # "client"
        /\ GotoThen(w, "close_release", "respond")
        /\ UNCHANGED table
  /\ UNCHANGED <<polling, queue, lock, sock, new, batch, dest>>

(* plugin_acquire fails: the plugin is being unloaded.                     *)
RecvNoPlugin(w) ==
  /\ pc[w] = "plugin"
  /\ GotoThen(w, "close_release", "respond")
  /\ UNCHANGED <<table, polling, queue, lock, sock, new, batch, dest>>

(* plugin_main has returned: without a reply for this socket, back to the  *)
(* waiting room; otherwise _server_respond takes over, still locked.       *)
RecvDone(w) ==
  /\ pc[w] = "plugin"
  /\ IF work[sock[w]] = <<>>
     THEN GotoThen(w, "put_back", "respond")
     ELSE Goto(w, "resp_task") /\ UNCHANGED back
  /\ UNCHANGED <<table, polling, queue, lock, sock, new, batch, dest>>

-----------------------------------------------------------------------------
(* The way out of _server_receive and _server_respond: the socket is       *)
(* queued in _blocking while still locked, then released.                  *)

PutBack_Twice(w) ==               \* mutant: the step is done again
  /\ pc[w] = "put_back"
  /\ Enqueue("blocking", sock[w])
  /\ \E l \in {"put_back", "put_release"} : Goto(w, l)
  /\ UNCHANGED <<table, polling, lock, locals>>

PutBack(w) ==
  /\ pc[w] = "put_back"
  /\ Enqueue("blocking", sock[w])
  /\ Goto(w, "put_release")
  /\ UNCHANGED <<table, polling, lock, locals>>

PutRelease(w) ==
  /\ pc[w] = "put_release"
  /\ Unlock(sock[w])
  /\ sock' = [sock EXCEPT ![w] = 0]
  /\ Goto(w, back[w])
  /\ UNCHANGED <<table, polling, queue, back, new, batch, dest>>

(* socket_release followed by socket_close: the slot of _socket, the       *)
(* closed hook, which frees the replies, and then the identifier.  What is *)
(* closed is the socket being opened, if there is one.                     *)
Victim(t) == IF new[t] # 0 THEN new[t] ELSE sock[t]

CloseRelease(t) ==
  /\ pc[t] = "close_release"
  /\ Unlock(Victim(t))
  /\ Goto(t, "dereg")
  /\ UNCHANGED <<table, polling, queue, locals>>

Dereg_KeepsReplies(t) ==          \* mutant: the closed hook frees nothing
  /\ pc[t] = "dereg"
  /\ kind' = [kind EXCEPT ![Victim(t)] = "free"]
  /\ connecting' = [connecting EXCEPT ![Victim(t)] = FALSE]
  /\ Goto(t, "free_id")
  /\ UNCHANGED <<work, fresh, freeIds, sends, polling, queue, lock, locals>>

Dereg(t) ==
  /\ pc[t] = "dereg"
  /\ kind' = [kind EXCEPT ![Victim(t)] = "free"]
  /\ connecting' = [connecting EXCEPT ![Victim(t)] = FALSE]
  /\ work' = [work EXCEPT ![Victim(t)] = <<>>]
  /\ Goto(t, "free_id")
  /\ UNCHANGED <<fresh, freeIds, sends, polling, queue, lock, locals>>

FreeId(t) ==
  /\ pc[t] = "free_id"
  /\ freeIds' = Append(freeIds, Victim(t))
  /\ IF new[t] # 0
     THEN new' = [new EXCEPT ![t] = 0] /\ UNCHANGED sock
     ELSE sock' = [sock EXCEPT ![t] = 0] /\ UNCHANGED new
  /\ Goto(t, back[t])
  /\ UNCHANGED <<kind, connecting, work, fresh, sends, polling, queue, lock,
                 back, batch, dest>>

-----------------------------------------------------------------------------
(* _server_respond, on the socket _server_receive has kept or on one from  *)
(* _writable.                                                              *)

RespDequeue(w) ==
  /\ pc[w] = "respond"
  /\ IF queue["writable"] = <<>>
     THEN Goto(w, "poll_in") /\ UNCHANGED <<queue, sock>>
     ELSE /\ sock' = [sock EXCEPT ![w] = Head(queue["writable"])]
          /\ queue' = [queue EXCEPT !["writable"] = Tail(@)]
          /\ Goto(w, "resp_acquire")
  /\ UNCHANGED <<table, polling, lock, back, new, batch, dest>>

RespAcquire(w) ==
  /\ pc[w] = "resp_acquire"
  /\ \/ /\ kind[sock[w]] = "free"
        /\ sock' = [sock EXCEPT ![w] = 0]
        /\ Goto(w, "poll_in")
        /\ UNCHANGED lock
     \/ /\ Acquirable(sock[w])
        /\ Lock(w, sock[w])
        /\ Goto(w, "resp_task")
        /\ UNCHANGED sock
  /\ UNCHANGED <<table, polling, queue, back, new, batch, dest>>

Reply(w) == Head(work[sock[w]])
TakeReply(w) == work' = [work EXCEPT ![sock[w]] = Tail(@)]
ToProcess(w) == pc[w] = "resp_task" /\ work[sock[w]] # <<>>

RespIdle(w) ==
  /\ pc[w] = "resp_task" /\ work[sock[w]] = <<>>
  /\ GotoThen(w, "put_back", "receive")
  /\ UNCHANGED <<table, polling, queue, lock, sock, new, batch, dest>>

(* SOCKET_EPARAM: the reply bears the token of another plugin.             *)
RespAlien(w) ==
  /\ ToProcess(w) /\ Reply(w) = "alien"
  /\ TakeReply(w)
  /\ GotoThen(w, "put_back", "receive")
  /\ UNCHANGED <<kind, connecting, fresh, freeIds, sends, polling, queue,
                 lock, sock, new, batch, dest>>

(* The reply has been sent; SERVER_TRANS_END closes the socket after it.   *)
RespSent(w) ==
  /\ ToProcess(w) /\ Reply(w) # "alien"
  /\ TakeReply(w)
  /\ connecting' = [connecting EXCEPT ![sock[w]] = FALSE]
  /\ IF Reply(w) = "end"
     THEN GotoThen(w, "close_release", "receive")
     ELSE UNCHANGED <<pc, back>>
  /\ UNCHANGED <<kind, fresh, freeIds, sends, polling, queue, lock, sock,
                 new, batch, dest>>

(* SOCKET_EAGAIN: the reply goes back to the front of the work queue.      *)
RespAgain(w) ==
  /\ ToProcess(w) /\ Reply(w) # "alien"
  /\ GotoThen(w, "put_back", "receive")
  /\ UNCHANGED <<table, polling, queue, lock, sock, new, batch, dest>>

(* SOCKET_EFATAL: Persist frees the work queue, and with it the place the  *)
(* failed reply would be pushed back to.                                   *)
RespFatal(w) ==
  /\ ToProcess(w) /\ Reply(w) # "alien"
  /\ \/ Persist(sock[w]) /\ GotoThen(w, "put_back", "receive")
     \/ /\ kind[sock[w]] # "client"
        /\ GotoThen(w, "close_release", "receive")
        /\ UNCHANGED table
  /\ UNCHANGED <<polling, queue, lock, sock, new, batch, dest>>

-----------------------------------------------------------------------------
(* _server_poll: accept.  The listeners of _incoming are all taken at once *)
(* and nobody else ever locks them.  A worker that finds _server_incoming  *)
(* locked goes on as if the queue were empty.                              *)

PollIncoming(w) ==
  /\ pc[w] = "poll_in"
  /\ batch' = [batch EXCEPT ![w] = queue["incoming"]]
  /\ queue' = [queue EXCEPT !["incoming"] = <<>>]
  /\ lock' = [i \in Ids |-> IF \E k \in 1 .. Len(queue["incoming"]) :
                                 queue["incoming"][k] = i
                            THEN w ELSE lock[i]]
  /\ Goto(w, "accept")
  /\ UNCHANGED <<table, polling, back, sock, new, dest>>

AcceptOne(w) ==
  /\ pc[w] = "accept" /\ batch[w] # <<>>
  /\ \E i \in Ids : Register(i, "accepted") /\ new' = [new EXCEPT ![w] = i]
  /\ Goto(w, "accept_enq")
  /\ UNCHANGED <<polling, queue, lock, back, sock, batch, dest>>

(* No connection waits, or socket_accept fails.                            *)
AcceptNone(w) ==
  /\ pc[w] = "accept" /\ batch[w] # <<>>
  /\ Goto(w, "listen_release")
  /\ UNCHANGED <<table, polling, queue, lock, locals>>

AcceptEnqueue(w) ==
  /\ pc[w] = "accept_enq"
  /\ Enqueue("blocking", new[w])
  /\ new' = [new EXCEPT ![w] = 0]
  /\ Goto(w, "listen_release")
  /\ UNCHANGED <<table, polling, lock, back, sock, batch, dest>>

ListenRelease(w) ==
  /\ pc[w] = "listen_release"
  /\ Unlock(Head(batch[w]))
  /\ Goto(w, "listen_enq")
  /\ UNCHANGED <<table, polling, queue, locals>>

ListenEnqueue_Lost(w) ==          \* mutant: a polled listener is dropped
  /\ pc[w] = "listen_enq"
  /\ batch' = [batch EXCEPT ![w] = Tail(@)]
  /\ Goto(w, "accept")
  /\ UNCHANGED <<table, polling, queue, lock, back, sock, new, dest>>

ListenEnqueue(w) ==
  /\ pc[w] = "listen_enq"
  /\ Enqueue("incoming", Head(batch[w]))
  /\ batch' = [batch EXCEPT ![w] = Tail(@)]
  /\ Goto(w, "accept")
  /\ UNCHANGED <<table, polling, lock, back, sock, new, dest>>

AcceptEnd(w) ==
  /\ pc[w] = "accept" /\ batch[w] = <<>>
  /\ Goto(w, "poll_bl")
  /\ UNCHANGED <<table, polling, queue, lock, locals>>

-----------------------------------------------------------------------------
(* _server_poll: socket_queue_poll on _blocking, which acquires the        *)
(* sockets of the queue one after the other while it owns the queue.       *)

PollSkip(w) ==
  /\ pc[w] = "poll_bl" /\ poller # None
  /\ Goto(w, "receive")
  /\ UNCHANGED <<table, polling, queue, lock, locals>>

PollStart(w) ==
  /\ pc[w] = "poll_bl" /\ poller = None
  /\ poller' = w /\ scanned' = 0
  /\ Goto(w, "scan")
  /\ UNCHANGED <<table, queue, lock, locals>>

Scanning(w) == pc[w] = "scan" /\ scanned < Len(queue["blocking"])
Entry == queue["blocking"][scanned + 1]
Collect(w) == batch' = [batch EXCEPT ![w] = Append(@, Entry)]

ScanGone(w) ==
  /\ Scanning(w) /\ kind[Entry] = "free"
  /\ scanned' = scanned + 1
  /\ UNCHANGED <<table, poller, queue, lock, pc, locals>>

(* An outbound connection in progress is tried again on the way.           *)
ScanTake(w) ==
  /\ Scanning(w) /\ Acquirable(Entry)
  /\ Lock(w, Entry)
  /\ Collect(w)
  /\ \E c \in {connecting[Entry], FALSE} :
       connecting' = [connecting EXCEPT ![Entry] = c]
  /\ scanned' = scanned + 1
  /\ UNCHANGED <<kind, work, fresh, freeIds, sends, poller, queue, pc, back,
                 sock, new, dest>>

(* It has failed: a client starts over and stays in the set, any other     *)
(* socket is destroyed.                                                    *)
ScanFail(w) ==
  /\ Scanning(w) /\ Acquirable(Entry) /\ connecting[Entry]
  /\ Lock(w, Entry)
  /\ \/ /\ Persist(Entry)
        /\ Collect(w)
        /\ UNCHANGED <<pc, back, sock>>
     \/ /\ kind[Entry] # "client"
        /\ sock' = [sock EXCEPT ![w] = Entry]
        /\ GotoThen(w, "close_release", "scan")
        /\ UNCHANGED <<table, batch>>
  /\ scanned' = scanned + 1
  /\ UNCHANGED <<poller, queue, new, dest>>

Scanned(w) == pc[w] = "scan" /\ scanned = Len(queue["blocking"])

(* Nothing to poll: the queue is left as it is.                            *)
ScanEmpty(w) ==
  /\ Scanned(w) /\ batch[w] = <<>>
  /\ poller' = None /\ scanned' = 0
  /\ Goto(w, "receive")
  /\ UNCHANGED <<table, queue, lock, locals>>

PollDone_KeepsQueue(w) ==         \* mutant: the queue is not cleared
  /\ Scanned(w) /\ batch[w] # <<>>
  /\ poller' = None /\ scanned' = 0
  /\ Goto(w, "dispatch")
  /\ UNCHANGED <<table, queue, lock, locals>>

PollDone(w) ==
  /\ Scanned(w) /\ batch[w] # <<>>
  /\ queue' = [queue EXCEPT !["blocking"] = <<>>]
  /\ poller' = None /\ scanned' = 0
  /\ Goto(w, "dispatch")
  /\ UNCHANGED <<table, lock, locals>>

(* poll() fails, on a signal for instance: every socket is released and    *)
(* the queue keeps them all.                                               *)
PollFail(w) ==
  /\ Scanned(w) /\ batch[w] # <<>>
  /\ lock' = [i \in Ids |-> IF \E k \in 1 .. Len(batch[w]) : batch[w][k] = i
                            THEN None ELSE lock[i]]
  /\ batch' = [batch EXCEPT ![w] = <<>>]
  /\ poller' = None /\ scanned' = 0
  /\ Goto(w, "receive")
  /\ UNCHANGED <<table, queue, back, sock, new, dest>>

-----------------------------------------------------------------------------
(* _server_poll: each polled socket is released, then queued according to  *)
(* its state.                                                              *)

First(w) == Head(batch[w])
Sorting(w) == pc[w] = "dispatch" /\ batch[w] # <<>>
Dispatch(w, q) ==
  /\ Unlock(First(w))
  /\ dest' = [dest EXCEPT ![w] = q]
  /\ Goto(w, "disp_enq")
  /\ UNCHANGED <<polling, queue, back, sock, new, batch>>

DispatchReadable(w) ==
  /\ Sorting(w)
  /\ Dispatch(w, "readable") /\ UNCHANGED table

DispatchWritable(w) ==
  /\ Sorting(w) /\ work[First(w)] # <<>>
  /\ Dispatch(w, "writable") /\ UNCHANGED table

DispatchBlocking(w) ==
  /\ Sorting(w)
  /\ Dispatch(w, "blocking") /\ UNCHANGED table

(* POLLERR: a client that was connected starts over, another socket is     *)
(* closed.                                                                 *)
DispatchError(w) ==
  /\ Sorting(w)
  /\ \/ /\ ~connecting[First(w)] /\ Persist(First(w))
        /\ Dispatch(w, "blocking")
     \/ /\ kind[First(w)] # "client"
        /\ sock' = [sock EXCEPT ![w] = First(w)]
        /\ batch' = [batch EXCEPT ![w] = Tail(@)]
        /\ GotoThen(w, "close_release", "dispatch")
        /\ UNCHANGED <<table, polling, queue, lock, new, dest>>

DispatchEnqueue(w) ==
  /\ pc[w] = "disp_enq"
  /\ Enqueue(dest[w], First(w))
  /\ batch' = [batch EXCEPT ![w] = Tail(@)]
  /\ dest' = [dest EXCEPT ![w] = "blocking"]
  /\ Goto(w, "dispatch")
  /\ UNCHANGED <<table, polling, lock, back, sock, new>>

DispatchEnd(w) ==
  /\ pc[w] = "dispatch" /\ batch[w] = <<>>
  /\ Goto(w, "receive")
  /\ UNCHANGED <<table, polling, queue, lock, locals>>

-----------------------------------------------------------------------------
(* What a plugin does, from plugin_main, where the worker holds the socket *)
(* the request came from, or from a thread of its own.                     *)

InPlugin(t) == pc[t] = IF t = Plugin THEN "idle" ELSE "plugin"
Return(t) == IF t = Plugin THEN "idle" ELSE "plugin"

(* server_send_reply.                                                      *)
Send(t, i, op) ==
  /\ InPlugin(t) /\ sends < MaxSends
  /\ kind[i] \notin {"free", "listener"}
  /\ work' = [work EXCEPT ![i] = Append(@, op)]
  /\ sends' = sends + 1
  /\ UNCHANGED <<kind, connecting, fresh, freeIds, polling, queue, lock, pc,
                 locals>>

(* server_open_managed_socket: open, lock, connect, queue, unlock.         *)
OpenRegister(t) ==
  /\ InPlugin(t)
  /\ \E i \in Ids, k \in Kinds : Register(i, k) /\ new' = [new EXCEPT ![t] = i]
  /\ Goto(t, "open_lock")
  /\ UNCHANGED <<polling, queue, lock, back, sock, batch, dest>>

OpenLock(t) ==
  /\ pc[t] = "open_lock" /\ lock[new[t]] = None
  /\ Lock(t, new[t])
  /\ Goto(t, "connect")
  /\ UNCHANGED <<table, polling, queue, locals>>

Connect(t) ==
  /\ pc[t] = "connect"
  /\ \E c \in BOOLEAN : connecting' = [connecting EXCEPT ![new[t]] = c]
  /\ Goto(t, "open_enq")
  /\ UNCHANGED <<kind, work, fresh, freeIds, sends, polling, queue, lock,
                 locals>>

ConnectFail(t) ==
  /\ pc[t] = "connect"
  /\ GotoThen(t, "close_release", Return(t))
  /\ UNCHANGED <<table, polling, queue, lock, sock, new, batch, dest>>

OpenEnqueue(t) ==
  /\ pc[t] = "open_enq"
  /\ Enqueue("blocking", new[t])
  /\ Goto(t, "open_unlock")
  /\ UNCHANGED <<table, polling, lock, locals>>

OpenUnlock(t) ==
  /\ pc[t] = "open_unlock"
  /\ Unlock(new[t])
  /\ new' = [new EXCEPT ![t] = 0]
  /\ Goto(t, Return(t))
  /\ UNCHANGED <<table, polling, queue, back, sock, batch, dest>>

-----------------------------------------------------------------------------
Receive(w) == RecvDequeue(w) \/ RecvAcquire(w) \/ RecvRead(w)
                \/ RecvError(w) \/ RecvNoPlugin(w) \/ RecvDone(w)
Respond(w) == RespDequeue(w) \/ RespAcquire(w) \/ RespIdle(w) \/ RespAlien(w)
                \/ RespSent(w) \/ RespAgain(w) \/ RespFatal(w)
Leave(t) == PutBack(t) \/ PutRelease(t)
Close(t) == CloseRelease(t) \/ Dereg(t) \/ FreeId(t)
Accept(w) == PollIncoming(w) \/ AcceptOne(w) \/ AcceptNone(w)
               \/ AcceptEnqueue(w) \/ ListenRelease(w) \/ ListenEnqueue(w)
               \/ AcceptEnd(w)
Scan(w) == PollSkip(w) \/ PollStart(w) \/ ScanGone(w) \/ ScanTake(w)
             \/ ScanFail(w) \/ ScanEmpty(w) \/ PollDone(w) \/ PollFail(w)
Sort(w) == DispatchReadable(w) \/ DispatchWritable(w) \/ DispatchBlocking(w)
             \/ DispatchError(w) \/ DispatchEnqueue(w) \/ DispatchEnd(w)
Open(t) == OpenRegister(t) \/ OpenLock(t) \/ Connect(t) \/ ConnectFail(t)
             \/ OpenEnqueue(t) \/ OpenUnlock(t)

Worker(w) == Receive(w) \/ Respond(w) \/ Leave(w) \/ Accept(w) \/ Scan(w)
               \/ Sort(w)
UsePlugin(t) == (\E i \in Ids, op \in Ops : Send(t, i, op)) \/ Open(t)

Next == (\E w \in Workers : Worker(w))
          \/ (\E t \in Threads : Close(t) \/ UsePlugin(t))

Spec == Init /\ [][Next]_vars

(* Serve: the poll finds that i can be read or written.  Deliver: a write  *)
(* to i succeeds, or fails for good.                                       *)
Serve(i) == \E w \in Workers :
  batch[w] # <<>> /\ First(w) = i /\ (DispatchReadable(w) \/ DispatchWritable(w))
Deliver(i) == \E w \in Workers : sock[w] = i /\ (RespSent(w) \/ RespFatal(w))

(* The system schedules every worker and the thread of the plugin, and a   *)
(* thread that waits for the tail lock of _blocking gets it in the end.  A *)
(* plugin handler returns, poll() does not fail for ever, and a peer that  *)
(* is polled or written to for ever answers.                               *)
WaitsForQueue(t) == PutBack(t) \/ AcceptEnqueue(t) \/ DispatchEnqueue(t)
                      \/ OpenEnqueue(t)
Opening(t) == OpenLock(t) \/ Connect(t) \/ ConnectFail(t) \/ OpenUnlock(t)

Fairness ==
  /\ \A w \in Workers : /\ WF_vars(Worker(w) \/ Close(w) \/ Open(w))
                        /\ SF_vars(WaitsForQueue(w))
                        /\ SF_vars(RecvDone(w))
  /\ WF_vars(Opening(Plugin) \/ Close(Plugin))
  /\ SF_vars(OpenEnqueue(Plugin))
  /\ SF_vars(\E w \in Workers : PollDone(w))
  /\ \A i \in Ids \ {Listener} : SF_vars(Serve(i)) /\ SF_vars(Deliver(i))

LiveSpec == Spec /\ Fairness

-----------------------------------------------------------------------------
(* Properties                                                              *)

TypeOK ==
  /\ kind \in [Ids -> Kinds \cup {"free", "listener", "accepted"}]
  /\ connecting \in [Ids -> BOOLEAN]
  /\ lock \in [Ids -> Threads \cup {None}]
  /\ work \in [Ids -> Seq(Ops)]
  /\ fresh \in 2 .. Max
  /\ freeIds \in Seq(Ids)
  /\ queue \in [Queues -> Seq(Ids)]
  /\ poller \in Workers \cup {None}
  /\ scanned \in Nat
  /\ pc \in [Threads -> Labels]
  /\ back \in [Threads -> {"receive", "respond", "scan", "dispatch",
                          "plugin", "idle"}]
  /\ sock \in [Threads -> Ids \cup {0}]
  /\ new \in [Threads -> Ids \cup {0}]
  /\ batch \in [Threads -> Seq(Ids)]
  /\ dest \in [Threads -> Queues]
  /\ sends \in 0 .. MaxSends

(* The places where a socket can be found: an entry of a queue that the    *)
(* poller is not through with, or the hands of a thread.  A thread that    *)
(* has queued a socket and has still to unlock it is done with it.         *)
Places(i) ==
  {p \in Queues \X {"queue"} \X (1 .. Max) :
      /\ p[3] <= Len(queue[p[1]]) /\ queue[p[1]][p[3]] = i
      /\ p[1] = "blocking" => p[3] > scanned}
  \cup {p \in Threads \X {"sock"} \X {0} :
          sock[p[1]] = i /\ pc[p[1]] # "put_release"}
  \cup {p \in Threads \X {"new"} \X {0} :
          new[p[1]] = i /\ pc[p[1]] # "open_unlock"}
  \cup {p \in Threads \X {"batch"} \X (1 .. Max) :
          p[3] <= Len(batch[p[1]]) /\ batch[p[1]][p[3]] = i}

(* An open socket is at one place: in one queue once, or in the hands of   *)
(* one thread.  Two places would make two workers serve it at once, or one *)
(* worker wait for itself; with none it would never be served again.  The  *)
(* types hold too.                                                         *)
OneToken ==
  TypeOK /\ \A i \in Ids : kind[i] # "free" => Cardinality(Places(i)) = 1

(* A worker that holds a socket and waits for the tail lock of _blocking   *)
(* never holds the socket its poller waits for: the two would wait for     *)
(* each other and, one after the other, all the workers for them.          *)
NoLockCycle ==
  (poller # None /\ Scanning(poller) /\ kind[Entry] # "free") =>
     lock[Entry] # poller
       /\ \A t \in Threads : lock[Entry] = t =>
             pc[t] \in {"put_release", "open_unlock", "close_release"}

-----------------------------------------------------------------------------
(* The inductive invariant of the two, as long as no identifier comes back *)
(* (Reuse is FALSE).                                                       *)

Closing == {"close_release", "dereg", "free_id"}
Opens == {"open_lock", "connect", "open_enq", "open_unlock"}
Working == {"recv_acquire", "recv_read", "plugin", "resp_acquire", "resp_task",
            "put_back", "put_release"}
Polled == {"listen_release", "listen_enq", "accept_enq", "disp_enq"}

At(t, labels, backs) == pc[t] \in labels \/ (pc[t] \in Closing /\ back[t] \in backs)

(* What a thread holds follows from where it is.                           *)
Holds(t) ==
  /\ sock[t] # 0 <=> (At(t, Working, {"receive", "respond", "scan", "dispatch"})
                       \/ (t # Plugin /\ At(t, Opens, {"plugin"})))
  /\ new[t] # 0 <=> At(t, Opens \cup {"accept_enq"}, {"plugin", "idle"})
  /\ batch[t] # <<>> => At(t, Polled \cup {"accept", "scan", "dispatch"},
                          {"scan", "dispatch"})
  /\ pc[t] \in Polled => batch[t] # <<>>
  /\ pc[t] \in {"put_back", "put_release"} => back[t] \in {"receive", "respond"}
  /\ IF t = Plugin THEN At(t, Opens \cup {"idle"}, {"idle"})
                    ELSE pc[t] # "idle" /\ (pc[t] \in Closing => back[t] # "idle")
  /\ poller = t <=> At(t, {"scan"}, {"scan"})

(* The sockets that wait in a queue and those in the hands of a thread.    *)
Entries(s) == {s[k] : k \in 1 .. Len(s)}
Waiting(q) == {queue[q][k] : k \in {k \in 1 .. Len(queue[q]) :
                                      q = "blocking" => k > scanned}}
InHand(t) == Entries(batch[t])
               \cup {i \in Ids : \/ (sock[t] = i /\ pc[t] # "put_release")
                                  \/ (new[t] = i /\ pc[t] # "open_unlock")}

NowhereElse ==
  /\ \A q, r \in Queues : q # r => Waiting(q) \cap Waiting(r) = {}
  /\ \A q \in Queues, t \in Threads : Waiting(q) \cap InHand(t) = {}
  /\ \A t, u \in Threads : t # u => InHand(t) \cap InHand(u) = {}

Somewhere(i) == \/ \E q \in Queues : i \in Waiting(q)
                \/ \E t \in Threads : i \in InHand(t)

(* Nothing is twice in a queue or twice in the hands of a thread.          *)
Once(s) == \A k, l \in 1 .. Len(s) : s[k] = s[l] => k = l
OnceInv ==
  /\ \A q \in Queues : Once(queue[q])
  /\ \A t \in Threads :
       /\ Once(batch[t])
       /\ sock[t] # 0 => sock[t] # new[t] /\ sock[t] \notin Entries(batch[t])
       /\ new[t] \notin Entries(batch[t])

(* What the poller has been through is in its hands or closed.             *)
ScanInv ==
  /\ scanned <= Len(queue["blocking"])
  /\ poller = None => scanned = 0
  /\ \A k \in 1 .. scanned : LET i == queue["blocking"][k] IN
       i \in InHand(poller) \/ (i < fresh /\ kind[i] = "free" /\ ~ Somewhere(i))
  /\ poller # None => \A i \in Entries(batch[poller]) :
       \E k \in 1 .. scanned : queue["blocking"][k] = i

(* A thread locks nothing but what it holds, or has queued and has still   *)
(* to unlock; it does not hold the lock of what it is about to let go.     *)
Keeps(t) ==
  /\ \A i \in Ids : lock[i] = t =>
       \/ i \in InHand(t)
       \/ (pc[t] = "put_release" /\ sock[t] = i)
       \/ (pc[t] = "open_unlock" /\ new[t] = i)
  /\ pc[t] \in {"recv_acquire", "resp_acquire"} => lock[sock[t]] # t
  /\ pc[t] \in {"open_lock", "accept_enq"} => lock[new[t]] # t
  /\ pc[t] \in {"listen_enq", "disp_enq"} => lock[Head(batch[t])] # t
  /\ pc[t] \in {"dereg", "free_id"} => lock[Victim(t)] # t
  /\ pc[t] = "free_id" => kind[Victim(t)] = "free"

FreshInv == \A i \in Ids : i >= fresh =>
              kind[i] = "free" /\ lock[i] = None /\ ~ Somewhere(i)

ThreadInv == \A t \in Threads : Holds(t) /\ Keeps(t)
PlaceInv == \A i \in Ids : kind[i] # "free" => Somewhere(i)

IInv == /\ TypeOK /\ ThreadInv /\ NowhereElse /\ OnceInv /\ ScanInv /\ FreshInv
        /\ PlaceInv

(* Every reply leaves its work queue: it is sent, or freed because its     *)
(* socket is closed or starts over.                                        *)
ReplyServed == \A i \in Ids : work[i] # <<>> ~> work[i] = <<>>

(* The listener is polled for new connections again and again.             *)
KeepsAccepting == []<>(\E w \in Workers : pc[w] = "accept" /\ batch[w] # <<>>)

(* What a poll has been through is out of the queue (lib/m_socket.h:764:   *)
(* "This function will get all the socket identifiers from the queue"): no *)
(* identifier of a closed socket stays in _blocking.                       *)
NoStaleId ==
  poller = None => \A k \in 1 .. Len(queue["blocking"]) :
                      kind[queue["blocking"][k]] # "free"
=============================================================================
