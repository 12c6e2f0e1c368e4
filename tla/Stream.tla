-------------------------------- MODULE Stream --------------------------------
(***************************************************************************)
(* The master of the stream plugin (plugins/stream): clients connect to    *)
(* its public end, workers to the other; a client is joined to a           *)
(* connection that a worker opens when it is asked to, and from then on    *)
(* what one sends goes to the other.  The handlers run in the threads of   *)
(* the server, one at a time for a socket; `alone' is a server with one    *)
(* thread.  A get from a queue of identifiers and the look at the status   *)
(* of what it gave are one step.                                           *)
(***************************************************************************)
EXTENDS Integers, SequencesExt

CONSTANTS
  Ids,        (* numbers: a new one is given in order, an old one at any time *)
  Threads,
  Packets,    (* bound: of what a socket sends, alone or not               *)
  Lives,      (* bound: of the connections to one identifier               *)
  None

VARIABLES
  alone,
  sock,       (* identifier -> [role, life, sent, kept, closing]           *)
  status,     (* _status: "DOWN" 0, "CONN" 1, "WORK" 2, "WAIT" 4, "PIPE" 16*)
  queue,      (* _workers, _pending and _waiting                           *)
  packets,    (* _packets                                                  *)
  route,      (* _public_to_worker and _worker_to_public                   *)
  out,        (* what is sent to a socket                                  *)
  asked,      (* MASTER_OP_HIRED received by the worker                    *)
  thread,     (* [at, s, c, w, data]: the socket, a client, its peer       *)
  cut         (* the sockets closed as the end of the pipe of another      *)

vars == <<alone, sock, status, queue, packets, route, out, asked, thread, cut>>

Down == 0
Conn == 1
Work == 2
Wait == 4
Pipe == 16
Idle == [at |-> "idle", s |-> None, c |-> None, w |-> None, data |-> <<>>]
Free(n) == [role |-> "free", life |-> n, sent |-> 0, kept |-> <<>>, closing |-> FALSE]

Init ==
  /\ alone \in BOOLEAN
  /\ sock = [s \in Ids |-> Free(0)] /\ status = [s \in Ids |-> Down]
  /\ queue = [q \in {"workers", "pending", "waiting"} |-> <<>>]
  /\ packets = [s \in Ids |-> <<>>] /\ out = [s \in Ids |-> <<>>]
  /\ route = [q \in {"worker", "public"} |-> [s \in Ids |-> None]]
  /\ asked = 0 /\ cut = {}
  /\ thread = [t \in Threads |-> Idle]

(* stream_set_status(): a socket that is not down only goes up.            *)
May(s, st) == status[s] = Down \/ st = Down \/ st > status[s]
SetStatus(s, st) == status' = IF May(s, st) THEN [status EXCEPT ![s] = st] ELSE status

At(t, l) == thread[t].at = l
To(t, l) == thread' = [thread EXCEPT ![t].at = l]
Done(t) == thread' = [thread EXCEPT ![t] = Idle]
Up(s) == s # None /\ sock[s].role # "free"
Send(s, data) == out' = IF Up(s) THEN [out EXCEPT ![s] = @ \o data] ELSE out

(* The queues: what is there of the wrong status is thrown away.           *)
First(q, st) == SelectInSeq(queue[q], LAMBDA s : status[s] = st)
Got(q, st) == IF First(q, st) = 0 THEN None ELSE queue[q][First(q, st)]
Rest(q, st) ==
  IF First(q, st) = 0 THEN <<>> ELSE SubSeq(queue[q], First(q, st) + 1, Len(queue[q]))

-----------------------------------------------------------------------------
(* plugin_intr: a new connection, and a lost one.                          *)
Accept(s, role) ==
  /\ sock[s].role = "free" /\ sock[s].life < Lives
  /\ sock[s].life = 0 => \A r \in Ids : r < s => sock[r].life > 0
  /\ \A t \in Threads : thread[t].s # s
  /\ IF role = "ready" THEN asked > 0 /\ asked' = asked - 1
     ELSE asked' = asked /\ (role = "control" => \A r \in Ids : sock[r].role # "control")
  /\ sock' = [sock EXCEPT ![s] = [Free(@.life + 1) EXCEPT !.role = role]]
  /\ SetStatus(s, Conn) /\ out' = [out EXCEPT ![s] = <<>>]
  /\ UNCHANGED <<alone, queue, packets, route, thread, cut>>

Begin(t, s) ==
  /\ At(t, "idle") /\ Up(s) /\ \A r \in Threads : thread[r].s # s
  /\ alone => \A r \in Threads : At(r, "idle")

Peer(s) ==
  IF sock[s].role = "public" THEN route["worker"][s] ELSE route["public"][s]

Disconnect(t, s) ==
  /\ Begin(t, s)
  /\ thread' = [thread EXCEPT ![t] = [@ EXCEPT !.at = "egress_down", !.s = s, !.w = Peer(s)]]
  /\ UNCHANGED <<alone, sock, status, queue, packets, route, out, asked, cut>>

EgressDown(t) ==
  LET s == thread[t].s  w == thread[t].w IN
  /\ At(t, "egress_down") /\ To(t, "set_down")
  /\ LET close == Up(w) /\ status[w] # Down /\ ~ sock[w].closing IN
     /\ sock' = IF close THEN [sock EXCEPT ![w].closing = TRUE] ELSE sock
     /\ cut' = IF close THEN cut \cup {<<s, w, status[s] = Pipe /\ Peer(w) = s>>} ELSE cut
  /\ UNCHANGED <<alone, status, queue, packets, route, out, asked>>

SetDown(t) ==
  /\ At(t, "set_down") /\ To(t, "drop")
  /\ SetStatus(thread[t].s, Down)
  /\ UNCHANGED <<alone, sock, queue, packets, route, out, asked, cut>>

Drop(t) ==
  LET s == thread[t].s IN
  /\ At(t, "drop") /\ Done(t)
  /\ packets' = [packets EXCEPT ![s] = <<>>]
  /\ sock' = [sock EXCEPT ![s] = Free(@.life)]
  /\ UNCHANGED <<alone, status, queue, route, out, asked, cut>>

-----------------------------------------------------------------------------
(* plugin_main.                                                            *)
Receive(t, s) ==
  LET n == sock[s].sent + 1 IN
  /\ Begin(t, s) /\ n <= Packets[alone] /\ (sock[s].role = "control" => n = 1)
  /\ sock' = [sock EXCEPT ![s].sent = n, ![s].kept = <<>>]
  /\ thread' = [thread EXCEPT ![t] =
       [at |-> IF status[s] # Conn THEN "pipe"
               ELSE IF sock[s].role = "public" THEN "enqueue" ELSE sock[s].role,
        s |-> s, c |-> None, w |-> None,
        data |-> Append(sock[s].kept, [from |-> s, life |-> sock[s].life, n |-> n])]]
  /\ UNCHANGED <<alone, status, queue, packets, route, out, asked, cut>>

AddWorker(t) ==
  LET s == thread[t].s IN
  /\ At(t, "control") /\ Done(t)
  /\ SetStatus(s, Work)
  /\ queue' = IF May(s, Work) THEN [queue EXCEPT !["workers"] = Append(@, s)] ELSE queue
  /\ UNCHANGED <<alone, sock, packets, route, out, asked, cut>>

EnqueueConnection(t) ==
  LET s == thread[t].s IN
  /\ At(t, "ready") /\ To(t, "dequeue_waiting")
  /\ SetStatus(s, Wait)
  /\ queue' = IF May(s, Wait) THEN [queue EXCEPT !["pending"] = Append(@, s)] ELSE queue
  /\ UNCHANGED <<alone, sock, packets, route, out, asked, cut>>

DequeueWaiting(t) ==
  LET c == Got("waiting", Conn) IN
  /\ At(t, "dequeue_waiting")
  /\ queue' = [queue EXCEPT !["waiting"] = Rest("waiting", Conn)]
  /\ IF c = None THEN Done(t)
     ELSE thread' = [thread EXCEPT ![t] = [@ EXCEPT !.at = "get_pipe", !.c = c, !.data = <<>>]]
  /\ UNCHANGED <<alone, sock, status, packets, route, out, asked, cut>>

EnqueuePacket_Replaces(t) ==      \* mutant: the packet takes the place of the last
  LET s == thread[t].s IN
  /\ At(t, "enqueue")
  /\ packets' = [packets EXCEPT ![s] = thread[t].data]
  /\ thread' = [thread EXCEPT ![t] = [@ EXCEPT !.at = "get_pipe", !.c = s, !.data = <<>>]]
  /\ UNCHANGED <<alone, sock, status, queue, route, out, asked, cut>>

EnqueuePacket(t) ==
  LET s == thread[t].s IN
  /\ At(t, "enqueue")
  /\ packets' = [packets EXCEPT ![s] = @ \o thread[t].data]
  /\ thread' = [thread EXCEPT ![t] = [@ EXCEPT !.at = "get_pipe", !.c = s, !.data = <<>>]]
  /\ UNCHANGED <<alone, sock, status, queue, route, out, asked, cut>>

(* stream_get_pipe(), for the client c.                                    *)
DequeueConnection(t) ==
  LET w == Got("pending", Wait) IN
  /\ At(t, "get_pipe")
  /\ queue' = [queue EXCEPT !["pending"] = Rest("pending", Wait)]
  /\ thread' = [thread EXCEPT ![t] = [@ EXCEPT !.w = w,
                  !.at = IF w = None THEN "get_connection" ELSE "set_route"]]
  /\ UNCHANGED <<alone, sock, status, packets, route, out, asked, cut>>

SetRoute(t) ==
  LET c == thread[t].c  w == thread[t].w IN
  /\ At(t, "set_route") /\ To(t, "set_client")
  /\ route' = [route EXCEPT !["worker"][c] = w, !["public"][w] = c]
  /\ UNCHANGED <<alone, sock, status, queue, packets, out, asked, cut>>

SetPipe(t, l, s, next) ==
  /\ At(t, l) /\ SetStatus(s, Pipe)
  /\ IF May(s, Pipe) THEN To(t, next) ELSE Done(t)
  /\ UNCHANGED <<alone, sock, queue, packets, route, out, asked, cut>>

(* A packet is taken from the queue under its lock and sent after.         *)
DequeuePacket(t) ==
  LET c == thread[t].c IN
  /\ At(t, "packets")
  /\ IF packets[c] = <<>> THEN To(t, "get_connection") /\ UNCHANGED packets
     ELSE /\ packets' = [packets EXCEPT ![c] = Tail(@)]
          /\ thread' = [thread EXCEPT ![t] =
                          [@ EXCEPT !.at = "send", !.data = <<Head(packets[c])>>]]
  /\ UNCHANGED <<alone, sock, status, queue, route, out, asked, cut>>

SendPacket(t) ==
  /\ At(t, "send")
  /\ Send(thread[t].w, thread[t].data)
  /\ thread' = [thread EXCEPT ![t] = [@ EXCEPT !.at = "packets", !.data = <<>>]]
  /\ UNCHANGED <<alone, sock, status, queue, packets, route, asked, cut>>

(* stream_get_connection(): the worker is borrowed, asked, released.       *)
GetConnection(t) ==
  LET w == Got("workers", Work) IN
  /\ At(t, "get_connection")
  /\ queue' = [queue EXCEPT !["workers"] = Rest("workers", Work) \o (IF w = None THEN <<>> ELSE <<w>>)]
  /\ asked' = IF Up(w) THEN asked + 1 ELSE asked
  /\ IF w # None /\ thread[t].w = None THEN To(t, "enqueue_waiting") ELSE Done(t)
  /\ UNCHANGED <<alone, sock, status, packets, route, out, cut>>

EnqueueWaiting(t) ==
  /\ At(t, "enqueue_waiting") /\ Done(t)
  /\ queue' = [queue EXCEPT !["waiting"] = Append(@, thread[t].c)]
  /\ UNCHANGED <<alone, sock, status, packets, route, out, asked, cut>>

(* What is neither taken nor sent on stays in the buffer of the socket.    *)
LookUp(t) ==
  LET s == thread[t].s IN
  /\ At(t, "pipe")
  /\ IF status[s] = Pipe
     THEN /\ thread' = [thread EXCEPT ![t] = [@ EXCEPT !.at = "forward", !.w = Peer(s)]]
          /\ UNCHANGED sock
     ELSE Done(t) /\ sock' = [sock EXCEPT ![s].kept = thread[t].data]
  /\ UNCHANGED <<alone, status, queue, packets, route, out, asked, cut>>

Forward(t) ==
  LET s == thread[t].s  w == thread[t].w IN
  /\ At(t, "forward") /\ Done(t)
  /\ IF w # None /\ status[w] # Down THEN Send(w, thread[t].data) /\ UNCHANGED sock
     ELSE sock' = [sock EXCEPT ![s].closing = TRUE] /\ UNCHANGED out
  /\ UNCHANGED <<alone, status, queue, packets, route, asked, cut>>

Handler(t) ==
  \/ EgressDown(t) \/ SetDown(t) \/ Drop(t)
  \/ AddWorker(t) \/ EnqueueConnection(t) \/ DequeueWaiting(t) \/ EnqueuePacket(t)
  \/ DequeueConnection(t) \/ SetRoute(t)
  \/ (At(t, "set_client") /\ SetPipe(t, "set_client", thread[t].c, "set_worker"))
  \/ SetPipe(t, "set_worker", thread[t].w, "packets")
  \/ DequeuePacket(t) \/ SendPacket(t) \/ GetConnection(t) \/ EnqueueWaiting(t)
  \/ LookUp(t) \/ Forward(t)

Next ==
  \/ \E s \in Ids, role \in {"public", "control", "ready"} : Accept(s, role)
  \/ \E t \in Threads : Handler(t) \/ \E s \in Ids : Disconnect(t, s) \/ Receive(t, s)

Spec == Init /\ [][Next]_vars

-----------------------------------------------------------------------------
(* With identifiers that are used once, what is sent to a connection of a  *)
(* worker all comes from the client it carries, whatever the threads do.   *)
OwnPackets ==
  \A s \in Ids : \A i \in DOMAIN out[s] :
    /\ sock[s].role = "ready" => out[s][i].from = route["public"][s]
    /\ sock[s].role = "public" => sock[out[s][i].from].role # "public"

(* One thread: a client has one connection at most, and what it has sent   *)
(* is on its way through it or waiting for it, in order.                   *)
Quiet == alone /\ \A t \in Threads : At(t, "idle")
Carriers(c) == {s \in Ids : sock[s].role = "ready" /\ \E i \in DOMAIN out[s] : out[s][i].from = c}
Numbers(ps) == [i \in DOMAIN ps |-> ps[i].n]
InOrder ==
  Quiet => \A c \in Ids : sock[c].role = "public" =>
    \/ /\ Carriers(c) = {}
       /\ Numbers(packets[c]) = [i \in 1 .. sock[c].sent |-> i] \/ status[c] = Pipe
    \/ /\ packets[c] = <<>> /\ Carriers(c) = {route["worker"][c]}
       /\ Numbers(out[route["worker"][c]]) = [i \in 1 .. sock[c].sent |-> i]

(* One thread: a client that waits and a connection that is free are       *)
(* joined at once.                                                         *)
NoStall ==
  Quiet => ~ (/\ \E c \in Ids : status[c] = Conn /\ Contains(queue["waiting"], c)
              /\ \E w \in Ids : status[w] = Wait /\ Contains(queue["pending"], w))

StreamSafe == OwnPackets /\ InOrder /\ NoStall

(* Only the other end of a pipe is shut down with a socket.                *)
OwnEgress == \A x \in cut : x[3]

-----------------------------------------------------------------------------
(* The inductive invariant, for identifiers that are used once: what was   *)
(* said of a socket stays true of what it was.                             *)
Roles == {"free", "public", "control", "ready"}
Places == {"idle", "egress_down", "set_down", "drop", "control", "ready", "enqueue",
           "dequeue_waiting", "get_pipe", "set_route", "set_client", "set_worker",
           "packets", "send", "get_connection", "enqueue_waiting", "pipe", "forward"}
Packet == [from : Ids, life : Nat, n : Nat]
Thread == [at : Places, s : Ids \cup {None}, c : Ids \cup {None}, w : Ids \cup {None},
           data : Seq(Packet)]
Socket == [role : Roles, life : 0 .. Lives, sent : Nat, kept : Seq(Packet), closing : BOOLEAN]
TypeOK ==
  /\ alone \in BOOLEAN /\ asked \in Nat /\ sock \in [Ids -> Socket]
  /\ status \in [Ids -> {Down, Conn, Work, Wait, Pipe}]
  /\ queue \in [{"workers", "pending", "waiting"} -> Seq(Ids)]
  /\ packets \in [Ids -> Seq(Packet)] /\ out \in [Ids -> Seq(Packet)]
  /\ route \in [{"worker", "public"} -> [Ids -> Ids \cup {None}]]
  /\ thread \in [Threads -> Thread]

Was(s, r) == sock[s].role = r \/ (sock[s].role = "free" /\ sock[s].life = Lives)
From(ps, s) == \A i \in DOMAIN ps : ps[i].from = s
In(q, s) == \E i \in DOMAIN queue[q] : queue[q][i] = s

(* What a handler has in hand,                                             *)
Joining == {"get_pipe", "set_route", "set_client", "set_worker", "packets", "send",
            "get_connection", "enqueue_waiting"}
Working(t) ==
  LET r == thread[t] IN
  /\ IF r.at = "idle" THEN r = Idle ELSE r.s \in Ids /\ sock[r.s].role # "free"
  /\ From(r.data, IF r.at = "send" THEN r.c ELSE r.s)
  /\ r.at = "enqueue" => sock[r.s].role = "public" /\ sock[r.s].sent > 0
  /\ r.at = "ready" => sock[r.s].role = "ready" /\ status[r.s] = Conn
  /\ r.at = "control" => sock[r.s].role = "control"
  /\ r.at \in Joining =>
       r.c \in Ids /\ Was(r.c, "public") /\ (sock[r.c].role = "public" => sock[r.c].sent > 0)
  /\ r.at = "set_route" => r.w \in Ids /\ Was(r.w, "ready")
  /\ r.at \in {"set_client", "set_worker", "packets", "send"} =>
       r.w \in Ids /\ route["public"][r.w] = r.c
  /\ r.at = "forward" /\ r.w # None =>
       IF sock[r.s].role = "public" THEN route["public"][r.w] = r.s
       ELSE Was(r.s, "ready") /\ Was(r.w, "public")
Apart == \A t, u \in Threads : ~ At(t, "idle") /\ thread[t].s = thread[u].s => t = u

(* a connection of a worker is given to one client,                        *)
Takes(t, w) == At(t, "set_route") /\ thread[t].w = w
Unjoined(w) == route["public"][w] = None /\ \A t \in Threads : ~ Takes(t, w)
Once ==
  /\ \A i, j \in DOMAIN queue["pending"] : queue["pending"][i] = queue["pending"][j] => i = j
  /\ \A w \in Ids :
       /\ In("pending", w) => Was(w, "ready") /\ Unjoined(w)
       /\ sock[w].role = "ready" /\ status[w] = Conn => ~ In("pending", w) /\ Unjoined(w)
       /\ \A t \in Threads : Takes(t, w) =>
            route["public"][w] = None /\ \A u \in Threads : Takes(u, w) => u = t
  /\ \A c \in Ids : In("waiting", c) =>
       Was(c, "public") /\ (sock[c].role = "public" => sock[c].sent > 0)
Routed ==
  /\ \A w \in Ids : route["public"][w] # None =>
       LET c == route["public"][w] IN
       Was(w, "ready") /\ Was(c, "public") /\ (sock[c].role = "public" => sock[c].sent > 0)
  /\ \A c \in Ids : route["worker"][c] # None => route["public"][route["worker"][c]] = c
Owned ==
  \A s \in Ids :
    /\ sock[s].role # "free" => sock[s].life > 0
    /\ From(packets[s], s) /\ From(sock[s].kept, s)
    /\ packets[s] # <<>> => Was(s, "public")
    /\ sock[s].role = "ready" => From(out[s], route["public"][s])
    /\ sock[s].role = "public" => \A i \in DOMAIN out[s] : Was(out[s][i].from, "ready")

(* and with one thread, r: the status of a socket is that of its routes;   *)
(* what a client has sent has been sent on, is in hand or waits; and who   *)
(* waits is joined in the end.                                             *)
Statuses(r) ==
  \A s \in Ids :
    /\ sock[s].role = "free" => status[s] = Down
    /\ sock[s].role # "free" => (status[s] = Down <=> r.at = "drop" /\ r.s = s)
    /\ (status[s] = Wait => sock[s].role = "ready") /\ (status[s] = Work => sock[s].role = "control")
    /\ sock[s].role = "public" /\ status[s] # Down =>
         (route["worker"][s] # None <=> status[s] = Pipe \/ (r.at = "set_client" /\ r.c = s))
    /\ sock[s].role = "ready" /\ status[s] # Down =>
         (route["public"][s] # None <=>
            status[s] = Pipe \/ (r.at \in {"set_client", "set_worker"} /\ r.w = s))
    /\ route["public"][s] # None => route["worker"][route["public"][s]] = s
Joins(r) ==
  /\ r.at \in Joining => sock[r.c].role = "public"
  /\ r.at \in {"get_pipe", "set_route", "set_client", "enqueue_waiting"} => status[r.c] = Conn
  /\ r.at \in {"set_worker", "packets", "send"} => status[r.c] = Pipe
  /\ r.at = "get_connection" => status[r.c] = IF r.w = None THEN Conn ELSE Pipe
  /\ r.at \in {"set_route", "set_client", "set_worker"} => status[r.w] = Wait
  /\ r.at = "enqueue" => status[r.s] = Conn
  /\ r.at \in {"pipe", "forward"} /\ sock[r.s].role = "public" => status[r.s] = Pipe
  /\ r.at = "forward" /\ sock[r.s].role = "public" => r.w = route["worker"][r.s]
Hand(r, c) ==
  IF \/ r.at \in {"enqueue", "pipe", "forward"} /\ r.s = c
     \/ r.at = "send" /\ r.c = c
  THEN r.data ELSE <<>>
Counts(ps, k) == \A i \in DOMAIN ps : ps[i].n = k + i
Flow(r, c) ==
  LET w == route["worker"][c]  hand == Hand(r, c) IN
  /\ sock[c].kept = <<>>
  /\ w = None =>
       /\ Counts(packets[c], 0) /\ Counts(hand, Len(packets[c]))
       /\ sock[c].sent = Len(packets[c]) + Len(hand)
  /\ w # None /\ packets[c] # <<>> =>
       r.at \in {"set_client", "set_worker", "packets", "send"} /\ r.c = c
  /\ w # None /\ sock[w].role = "ready" =>
       /\ Counts(out[w], 0) /\ Counts(hand, Len(out[w]))
       /\ Counts(packets[c], Len(out[w]) + Len(hand))
       /\ sock[c].sent = Len(out[w]) + Len(hand) + Len(packets[c])
Stalls(r) ==
  \/ ~ \E c \in Ids : status[c] = Conn /\ In("waiting", c)
  \/ \A w \in Ids : status[w] = Wait /\ In("pending", w) =>
       r.at \in {"dequeue_waiting", "get_pipe"} /\ w = r.s
Tried(r) ==
  r.at = "enqueue_waiting" \/ (r.at = "get_connection" /\ r.w = None) =>
    \A w \in Ids : ~ (status[w] = Wait /\ In("pending", w))
Fine(r) ==
  /\ Statuses(r) /\ Joins(r) /\ Stalls(r) /\ Tried(r)
  /\ \A c \in Ids : sock[c].role = "public" => Flow(r, c)
Alone ==
  alone => /\ \A t, u \in Threads : t # u => At(t, "idle") \/ At(u, "idle")
           /\ (\A t \in Threads : At(t, "idle")) => Fine(Idle)
           /\ \A t \in Threads : ~ At(t, "idle") => Fine(thread[t])

IInv == TypeOK /\ (\A t \in Threads : Working(t)) /\ Apart /\ Once /\ Routed /\ Owned /\ Alone
=============================================================================
