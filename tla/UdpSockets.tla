----------------------------- MODULE UdpSockets -----------------------------
(***************************************************************************)
(* Virtual UDP sockets (lib/m_server.c).  The first datagram of a client   *)
(* makes a socket that shares the descriptor of the listener; _UDP maps    *)
(* the addresses of the clients to these sockets.  Every read of an UDP    *)
(* socket, virtual or not, takes the next datagram of the descriptor and   *)
(* writes the sender's address into the socket (lib/m_socket.c).           *)
(***************************************************************************)
EXTENDS Integers, Sequences, FiniteSets

CONSTANTS
  Workers, Clients,
  Virtual,    (* the identifiers of virtual sockets                        *)
  Listener,   (* the identifier of the listener                            *)
  Inbox,      (* bound: datagrams waiting in the descriptor                *)
  Work,       (* bound: replies waiting in one socket                      *)
  None

Sockets == Virtual \cup {Listener}

VARIABLES
  inbox,      (* the senders of the datagrams waiting in the descriptor    *)
  client,     (* for whom each socket was opened, None when it is closed   *)
  addr,       (* info->ai_addr                                             *)
  work,       (* _work: how many replies wait                              *)
  udp,        (* _UDP                                                      *)
  blocking, readable, writable,    (* the queues of sockets                *)
  pc, sock,   (* where each worker is, and the socket it holds             *)
  wanted      (* the virtual socket it waits for                           *)

vars == <<inbox, client, addr, work, udp, blocking, readable, writable, pc, sock, wanted>>
queues == <<blocking, readable, writable>>

Init ==
  /\ inbox = <<>>
  /\ client = [s \in Sockets |-> IF s = Listener THEN Listener ELSE None]
  /\ addr = [s \in Sockets |-> None]
  /\ work = [s \in Sockets |-> 0]
  /\ udp = [c \in Clients |-> None]
  /\ blocking = {Listener} /\ readable = {} /\ writable = {}
  /\ pc = [w \in Workers |-> "idle"]
  /\ sock = [w \in Workers |-> None]
  /\ wanted = [w \in Workers |-> None]

Held(s) == \E w \in Workers : sock[w] = s

Arrive(c) ==
  /\ Len(inbox) < Inbox
  /\ inbox' = Append(inbox, c)
  /\ UNCHANGED <<client, addr, work, udp, queues, pc, sock, wanted>>

(* server_send_response, by any thread that knows the identifier.          *)
Send(s) ==
  /\ s # Listener /\ client[s] # None /\ work[s] < Work
  /\ work' = [work EXCEPT ![s] = @ + 1]
  /\ UNCHANGED <<inbox, client, addr, udp, queues, pc, sock, wanted>>

(* One socket of the batch of _server_poll: readable first.                *)
Poll(s) ==
  /\ s \in blocking /\ ~ Held(s)
  /\ IF inbox # <<>>
     THEN readable' = readable \cup {s} /\ UNCHANGED writable
     ELSE work[s] > 0 /\ writable' = writable \cup {s} /\ UNCHANGED readable
  /\ blocking' = blocking \ {s}
  /\ UNCHANGED <<inbox, client, addr, work, udp, pc, sock, wanted>>

(* _server_poll_udp on the whole table: a socket with replies leaves it.   *)
PollUdp ==
  LET due == {c \in Clients : udp[c] # None /\ work[udp[c]] > 0} IN
  /\ due # {}
  /\ writable' = writable \cup {udp[c] : c \in due}
  /\ udp' = [c \in Clients |-> IF c \in due THEN None ELSE udp[c]]
  /\ UNCHANGED <<inbox, client, addr, work, blocking, readable, pc, sock, wanted>>

-----------------------------------------------------------------------------
(* _server_receive.                                                        *)

(* The socket is taken, the datagram read, and its sender looked up.       *)
Receive(w, s) ==
  /\ pc[w] = "idle" /\ s \in readable /\ ~ Held(s) /\ client[s] # None
  /\ readable' = readable \ {s}
  /\ sock' = [sock EXCEPT ![w] = s]
  /\ IF inbox = <<>> THEN UNCHANGED <<inbox, addr>>
     ELSE /\ inbox' = Tail(inbox)
          /\ addr' = [addr EXCEPT ![s] = Head(inbox)]
  /\ pc' = [pc EXCEPT ![w] = "find"]
  /\ UNCHANGED <<client, work, udp, blocking, writable, wanted>>

(* A new virtual socket; without one the datagram is dropped.              *)
Spawn(w) ==
  /\ pc[w] = "find" /\ addr[sock[w]] # None /\ udp[addr[sock[w]]] = None
  /\ LET c == addr[sock[w]] IN
       \/ \E z \in Virtual :
            /\ client[z] = None
            /\ client' = [client EXCEPT ![z] = c]
            /\ addr' = [addr EXCEPT ![z] = c]
            /\ udp' = [udp EXCEPT ![c] = z]
            /\ sock' = [sock EXCEPT ![w] = z]
            /\ pc' = [pc EXCEPT ![w] = "handle"]
       \/ /\ sock' = [sock EXCEPT ![w] = None]
          /\ pc' = [pc EXCEPT ![w] = "idle"]
          /\ UNCHANGED <<client, addr, udp>>
  /\ blocking' = blocking \cup {sock[w]}
  /\ UNCHANGED <<inbox, work, readable, writable, wanted>>

Find(w) ==
  /\ pc[w] = "find" /\ (addr[sock[w]] = None \/ udp[addr[sock[w]]] # None)
  /\ IF addr[sock[w]] = None
     THEN pc' = [pc EXCEPT ![w] = "handle"] /\ UNCHANGED wanted
     ELSE /\ wanted' = [wanted EXCEPT ![w] = udp[addr[sock[w]]]]
          /\ pc' = [pc EXCEPT ![w] = "acquire"]
  /\ UNCHANGED <<inbox, client, addr, work, udp, queues, sock>>

Acquire_NoWait(w) ==              \* mutant: the owner is not waited for
  /\ pc[w] = "acquire"
  /\ blocking' = blocking \cup {sock[w]}
  /\ sock' = [sock EXCEPT ![w] = wanted[w]]
  /\ wanted' = [wanted EXCEPT ![w] = None]
  /\ pc' = [pc EXCEPT ![w] = "handle"]
  /\ UNCHANGED <<inbox, client, addr, work, udp, readable, writable>>

(* socket_acquire waits, even when the worker itself is the owner; when    *)
(* the socket has been closed the first one is handled in its place.       *)
Acquire(w) ==
  /\ pc[w] = "acquire" /\ ~ Held(wanted[w])
  /\ IF client[wanted[w]] = None
     THEN UNCHANGED <<blocking, sock>>
     ELSE /\ blocking' = blocking \cup {sock[w]}
          /\ sock' = [sock EXCEPT ![w] = wanted[w]]
  /\ wanted' = [wanted EXCEPT ![w] = None]
  /\ pc' = [pc EXCEPT ![w] = "handle"]
  /\ UNCHANGED <<inbox, client, addr, work, udp, readable, writable>>

(* The handler may reply; an idle socket goes back to the poll.            *)
Handle(w) ==
  /\ pc[w] = "handle"
  /\ \E n \in 0 .. 1 :
       /\ work[sock[w]] + n <= Work
       /\ work' = [work EXCEPT ![sock[w]] = @ + n]
  /\ IF work'[sock[w]] = 0
     THEN /\ blocking' = blocking \cup {sock[w]}
          /\ sock' = [sock EXCEPT ![w] = None]
          /\ pc' = [pc EXCEPT ![w] = "idle"]
     ELSE /\ pc' = [pc EXCEPT ![w] = "respond"]
          /\ UNCHANGED <<blocking, sock>>
  /\ UNCHANGED <<inbox, client, addr, udp, readable, writable, wanted>>

-----------------------------------------------------------------------------
(* _server_respond.                                                        *)

TakeWritable(w, s) ==
  /\ pc[w] = "idle" /\ s \in writable /\ ~ Held(s) /\ client[s] # None
  /\ writable' = writable \ {s}
  /\ sock' = [sock EXCEPT ![w] = s]
  /\ pc' = [pc EXCEPT ![w] = "respond"]
  /\ UNCHANGED <<inbox, client, addr, work, udp, blocking, readable, wanted>>

(* The replies are written to info->ai_addr; then the table has the socket *)
(* back, unless it has another for that address.                           *)
Respond(w) ==
  /\ pc[w] = "respond"
  /\ LET s == sock[w]  c == addr[s] IN
       /\ work' = [work EXCEPT ![s] = 0]
       /\ udp' = IF c # None /\ udp[c] = None THEN [udp EXCEPT ![c] = s] ELSE udp
  /\ sock' = [sock EXCEPT ![w] = None]
  /\ pc' = [pc EXCEPT ![w] = "idle"]
  /\ UNCHANGED <<inbox, client, addr, queues, wanted>>

(* A reply that ends the connection, _server_closed_cb included.           *)
Close(w) ==
  /\ pc[w] = "respond" /\ sock[w] # Listener
  /\ LET s == sock[w]  c == addr[s] IN
       /\ client' = [client EXCEPT ![s] = None]
       /\ addr' = [addr EXCEPT ![s] = None]
       /\ work' = [work EXCEPT ![s] = 0]
       /\ udp' = IF c # None THEN [udp EXCEPT ![c] = None] ELSE udp
  /\ sock' = [sock EXCEPT ![w] = None]
  /\ pc' = [pc EXCEPT ![w] = "idle"]
  /\ UNCHANGED <<inbox, queues, wanted>>

Next ==
  \/ \E c \in Clients : Arrive(c)
  \/ \E s \in Sockets : Send(s) \/ Poll(s)
  \/ PollUdp
  \/ \E w \in Workers, s \in Sockets : Receive(w, s) \/ TakeWritable(w, s)
  \/ \E w \in Workers :
       Spawn(w) \/ Find(w) \/ Acquire(w) \/ Handle(w) \/ Respond(w) \/ Close(w)

Spec == Init /\ [][Next]_vars

-----------------------------------------------------------------------------
(* A socket is not answered for, found or locked through the wrong queue:  *)
(* one worker holds it, and a closed one has no replies and no owner.      *)
OneHolder ==
  /\ \A v, w \in Workers : v # w /\ sock[v] # None => sock[v] # sock[w]
  /\ \A s \in Sockets : client[s] = None => work[s] = 0 /\ ~ Held(s)

(* A virtual socket is the socket of one client for as long as it is open: *)
(* what is written to it goes to that client.                              *)
OneClient == \A s \in Virtual : client[s] # None => addr[s] = client[s]

-----------------------------------------------------------------------------
(* The inductive invariant: a worker holds a socket except when it is      *)
(* idle, and waits only for a socket there is.                             *)

TypeOK ==
  /\ inbox \in Seq(Clients)
  /\ client \in [Sockets -> Clients \cup {Listener, None}]
  /\ addr \in [Sockets -> Clients \cup {None}]
  /\ work \in [Sockets -> Nat]
  /\ udp \in [Clients -> Sockets \cup {None}]
  /\ blocking \subseteq Sockets /\ readable \subseteq Sockets /\ writable \subseteq Sockets
  /\ pc \in [Workers -> {"idle", "find", "acquire", "handle", "respond"}]
  /\ sock \in [Workers -> Sockets \cup {None}]
  /\ wanted \in [Workers -> Sockets \cup {None}]

IInv ==
  /\ TypeOK /\ OneHolder
  /\ \A w \in Workers :
       /\ pc[w] = "idle" <=> sock[w] = None
       /\ pc[w] = "acquire" => wanted[w] # None
=============================================================================
