------------------------------ MODULE SocketIO ------------------------------
(***************************************************************************)
(* Input and output of one socket, by the thread that owns it              *)
(* (lib/m_socket.c): connection, acceptance, the handshake of TLS, writes  *)
(* and reads that complete a connection first, sendfile and its fallbacks, *)
(* reconnection and close.  The kernel and the TLS library answer          *)
(* anything their state allows.                                            *)
(***************************************************************************)
EXTENDS Integers, FiniteSets

CONSTANTS
  Kinds,     (* of "client" (SOCKET_CLIENT), "once" (connects once),       *)
             (* "accepted" and "listener"                                  *)
  Links,     (* of "plain" and "ssl"                                       *)
  Bytes,     (* bound: the bytes a socket sends                            *)
  Lives      (* bound: the descriptors one socket has in turn              *)

VARIABLES
  kind, ssl,
  state,     (* _state: bits of B, A, C, O, W, E                           *)
  fd,        (* _fd: the number of the descriptor, 0 when it has none      *)
  used,      (* the descriptors it has had                                 *)
  sslfd,     (* the descriptor the BIO of _ssl was made for                *)
  link,      (* the kernel: "none", "pending", "up", "down"                *)
  shaken,    (* the handshake of TLS is done on this link                  *)
  opened,    (* calls of the opened hook for this link                     *)
  sent, tx,  (* the bytes given to the kernel, and _tx                     *)
  fallback,  (* the bytes socket_sendfile sent by socket_write             *)
  early      (* bytes sent on a link that is not up and shaken             *)

vars == <<kind, ssl, state, fd, used, sslfd, link, shaken, opened, sent, tx, fallback, early>>
wire == <<fd, used, sslfd, link>>
counts == <<sent, tx, fallback, early>>

(* socket_open: the descriptor, W, and for a client the TLS object; what   *)
(* socket_accept opens is connected.                                       *)
Init ==
  /\ kind \in Kinds /\ ssl \in Links
  /\ state = {"W"}
  /\ fd = 1 /\ used = 1
  /\ sslfd = IF ssl = "ssl" /\ kind # "listener" THEN 1 ELSE 0
  /\ link = IF kind = "accepted" THEN "up" ELSE "none"
  /\ shaken = FALSE /\ opened = 0
  /\ sent = 0 /\ tx = 0 /\ fallback = 0 /\ early = FALSE

Outgoing == kind \in {"client", "once"}

(* What happens outside: the peer or the network.                          *)
LinkChanges ==
  /\ \/ link = "pending" /\ link' \in {"up", "down"}
     \/ link = "up" /\ link' = "down"
  /\ UNCHANGED <<kind, ssl, state, fd, used, sslfd, shaken, opened, counts>>

-----------------------------------------------------------------------------
(* TLS.  A call returns "ok", "again" or "failed".                         *)

(* _socket_ssl_connect: the library goes through the descriptor it knows.  *)
SslConnect(st, ret) ==
  \/ /\ ret = "ok" /\ link' = "up" /\ shaken' = TRUE
     /\ state' = st \ {"C"}
  \/ /\ ret = "again" /\ state' = st \cup {"C"} /\ UNCHANGED shaken
  \/ /\ ret = "failed" /\ state' = st /\ UNCHANGED shaken

SslAccept(st, ret) ==
  \/ /\ ret = "ok" /\ link = "up" /\ shaken' = TRUE
     /\ state' = st \ {"A"}
  \/ /\ ret = "again" /\ state' = st \cup {"A"} /\ UNCHANGED shaken
  \/ /\ ret = "failed" /\ state' = st /\ UNCHANGED shaken

-----------------------------------------------------------------------------
(* socket_connect.                                                         *)

(* A client without a descriptor gets one; then connect().                 *)
Dial ==
  IF kind = "client" /\ fd = 0
  THEN /\ used < Lives /\ used' = used + 1 /\ fd' = used + 1
       /\ link' \in {"pending", "up", "down"}
  ELSE /\ fd > 0 /\ UNCHANGED <<fd, used>>
       /\ link' \in IF link = "none" THEN {"pending", "up", "down"} ELSE {link}

Connected(ret) ==
  LET st == (state \ {"C"}) \cup {"O"} IN
  /\ link' = "up"
  /\ IF ssl = "ssl" THEN SslConnect(st, ret)
     ELSE ret = "ok" /\ state' = st /\ UNCHANGED shaken
  /\ opened' = IF ret = "ok" THEN opened + 1 ELSE opened

DoConnect_Early(ret) ==           \* mutant: announced when it starts
  /\ Outgoing /\ Dial /\ UNCHANGED sslfd
  /\ \/ Connected(ret)
     \/ /\ link' = "pending" /\ ret = "again"
        /\ state' = (state \cup {"C"}) \ {"W"}
        /\ opened' = opened + 1 /\ UNCHANGED shaken
     \/ /\ link' = "down" /\ ret = "failed"
        /\ UNCHANGED <<state, shaken, opened>>

DoConnect(ret) ==
  /\ Outgoing /\ Dial /\ UNCHANGED sslfd
  /\ \/ Connected(ret)
     \/ /\ link' = "pending" /\ ret = "again"
        /\ state' = (state \cup {"C"}) \ {"W"}
        /\ UNCHANGED <<shaken, opened>>
     \/ /\ link' = "down" /\ ret = "failed"
        /\ UNCHANGED <<state, shaken, opened>>

(* server_open_managed_socket, and the poll of an identifier that is       *)
(* connecting.                                                             *)
Connect ==
  /\ "O" \notin state \/ "C" \in state
  /\ \E ret \in {"ok", "again", "failed"} : DoConnect(ret)
  /\ UNCHANGED <<kind, ssl, counts>>

-----------------------------------------------------------------------------
(* Listening and accepting.                                                *)

Listen ==
  /\ kind = "listener" /\ "B" \notin state
  /\ state' = state \cup {"B"}
  /\ UNCHANGED <<kind, ssl, wire, shaken, opened, counts>>

(* The end of socket_accept for the socket it made.                        *)
Accepted ==
  /\ kind = "accepted" /\ ssl = "ssl" /\ ~ shaken /\ state = {"W"}
  /\ \E ret \in {"ok", "again"} : SslAccept(state, ret)
  /\ UNCHANGED <<kind, ssl, wire, opened, counts>>

-----------------------------------------------------------------------------
(* Writes and reads.                                                       *)

(* What comes before a transfer: a connection or a handshake under way is  *)
(* tried again; on a TLS link through the library alone.                   *)
Prepare(ret) ==
  CASE "C" \in state /\ ssl = "plain" -> DoConnect(ret)
    [] "C" \in state /\ ssl = "ssl" ->
         /\ SslConnect(state, ret)
         /\ link' = link /\ UNCHANGED <<fd, used, sslfd, opened>>
    [] "C" \notin state /\ "A" \in state /\ ssl = "ssl" ->
         SslAccept(state, ret) /\ UNCHANGED <<wire, opened>>
    [] OTHER -> ret = "ok" /\ UNCHANGED <<state, shaken, opened, wire>>

Reaches == link' = "up" /\ fd' > 0 /\ (ssl = "plain" \/ (shaken' /\ sslfd = fd'))

(* n bytes are taken by the kernel, or none and W is cleared.              *)
Transfer(n, file) ==
  /\ sent + n <= Bytes
  /\ sent' = sent + n
  /\ tx' = tx + (IF file THEN 2 * n ELSE n)
  /\ fallback' = IF file THEN fallback + n ELSE fallback
  /\ early' = (early \/ (n > 0 /\ ~ Reaches))

Writes(file) ==
  \E ret \in {"ok", "again", "failed"} :
    /\ Prepare(ret)
    /\ \/ \E n \in 1 .. 2 : ret = "ok" /\ Reaches /\ Transfer(n, file)
       \/ UNCHANGED counts
    /\ UNCHANGED <<kind, ssl>>

Write == kind # "listener" /\ Writes(FALSE)

(* EAGAIN without TLS: poll before the next try.                           *)
WriteBlocked ==
  /\ kind # "listener" /\ fd > 0 /\ ssl = "plain" /\ state \cap {"C", "A"} = {}
  /\ state' = state \ {"W"}
  /\ UNCHANGED <<kind, ssl, wire, shaken, opened, counts>>

(* socket_read: only the connection it completes matters here.             *)
Read ==
  /\ kind # "listener"
  /\ \E ret \in {"ok", "again", "failed"} : Prepare(ret)
  /\ UNCHANGED <<kind, ssl, counts>>

(* socket_sendfile: the system call, or memory and a mapping of the file   *)
(* through socket_write, which has counted the bytes already.              *)
SendFile ==
  /\ kind # "listener"
  /\ \/ /\ ssl = "plain" /\ link = "up"
        /\ UNCHANGED <<kind, ssl, state, wire, shaken, opened>>
        /\ \E n \in 1 .. 2 : Transfer(n, FALSE)
     \/ Writes(TRUE)

-----------------------------------------------------------------------------
(* socket_persist: the descriptor goes, the TLS object stays.              *)
Persist ==
  /\ kind = "client" /\ fd > 0
  /\ fd' = 0 /\ link' = "none"
  /\ state' = state \cup {"E", "C"}
  /\ shaken' = FALSE /\ opened' = 0
  /\ UNCHANGED <<kind, ssl, used, sslfd, counts>>

(* socket_poll finds the socket writable, and the error is over.           *)
Polled ==
  /\ link = "up"
  /\ state' = (state \cup {"W"}) \ {"E"}
  /\ UNCHANGED <<kind, ssl, wire, shaken, opened, counts>>

Next ==
  \/ LinkChanges \/ Connect \/ Listen \/ Accepted \/ Write \/ WriteBlocked
  \/ Read \/ SendFile \/ Persist \/ Polled

-----------------------------------------------------------------------------
(* A plugin hears once of each connection its socket makes, when the link  *)
(* is up and not before; a TLS connection whose handshake a read or a      *)
(* write completes is not announced.                                       *)
OpenedOnce ==
  /\ opened <= 1
  /\ opened = 1 => "O" \in state /\ fd > 0 /\ (ssl = "ssl" => shaken)
  /\ Outgoing /\ ssl = "plain" /\ "O" \in state /\ fd > 0 /\ "C" \notin state => opened = 1

(* Nothing is sent before the link is up and the handshake done, and _tx   *)
(* counts what was sent, once, but for the fallbacks of socket_sendfile,   *)
(* which it counts twice.                                                  *)
SentCounted == ~ early /\ tx = sent + fallback

(* The TLS object writes to the descriptor of the socket until the first   *)
(* reconnection, and never after it.                                       *)
StaleTls == sslfd # 0 /\ fd # 0 => (sslfd = fd <=> used = 1)

IoSafe == OpenedOnce /\ SentCounted /\ StaleTls

-----------------------------------------------------------------------------
(* The inductive invariant: a link has a descriptor, a socket without one  *)
(* has to connect, and one that connects has announced nothing.            *)

TypeOK ==
  /\ kind \in Kinds /\ ssl \in Links
  /\ state \subseteq {"B", "A", "C", "O", "W", "E"}
  /\ used \in Nat \ {0} /\ fd \in {0, used}
  /\ sslfd \in {0, 1}
  /\ link \in {"none", "pending", "up", "down"}
  /\ shaken \in BOOLEAN /\ early \in BOOLEAN
  /\ opened \in {0, 1} /\ sent \in Nat /\ tx \in Nat /\ fallback \in Nat

IInv ==
  /\ TypeOK /\ OpenedOnce /\ SentCounted
  /\ "C" \in state => opened = 0
  /\ link # "none" => fd # 0
  /\ fd = 0 => "C" \in state
=============================================================================
