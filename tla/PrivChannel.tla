---------------------------- MODULE PrivChannel ----------------------------
(***************************************************************************)
(* The channel to the process that keeps the privileges                    *)
(* (lib/m_server.c, lib/ports/m_port_socket.c): server_privileged_call on  *)
(* one side, under _priv_lock, __server_privileged_process on the other.   *)
(* BIND takes two answers and passes descriptors both ways, CONF is        *)
(* answered by a size and the text of a file, AUTH and EXIT by one value.  *)
(*                                                                         *)
(* An item of the channel is what one send puts in it and one recv takes   *)
(* out, but for the text of the configuration, of which recv may take only *)
(* a part.  Value 0 is the success of BIND, AUTH and EXIT, and the failure *)
(* of CONF.                                                                *)
(***************************************************************************)
EXTENDS Integers, Sequences

CONSTANTS
  Callers,   (* the threads of the unprivileged process                    *)
  Calls,     (* bound: the calls each makes                                *)
  None

VARIABLES
  pc,        (* what each caller waits for                                 *)
  op,        (* the request it made                                        *)
  fd,        (* whose descriptor it holds: its own before a bind           *)
  calls,     (* the calls each may still make                              *)
  holder,    (* _priv_lock                                                 *)
  request,   (* the bytes towards the privileged process                   *)
  answer,    (* the bytes back                                             *)
  server,    (* what the privileged process waits for                      *)
  left       (* a caller gave the lock up with bytes in the channel        *)

vars == <<pc, op, fd, calls, holder, request, answer, server, left>>

Init ==
  /\ pc = [c \in Callers |-> "idle"]
  /\ op = [c \in Callers |-> None]
  /\ fd = [c \in Callers |-> c]
  /\ calls = [c \in Callers |-> Calls]
  /\ holder = None
  /\ request = <<>> /\ answer = <<>>
  /\ server = "request"
  /\ left = FALSE

Item(kind, value, c) == [kind |-> kind, value |-> value, for |-> c]

-----------------------------------------------------------------------------
(* The privileged process.                                                 *)

Receive(s) ==
  /\ server = s /\ request # <<>>
  /\ request' = Tail(request)
  /\ UNCHANGED <<pc, op, fd, calls, holder, left>>

(* A request that is malformed, is not for a TCP server socket or whose    *)
(* address does not resolve is refused at once.                            *)
ServeBind ==
  /\ Receive("request") /\ Head(request).kind = "BIND"
  /\ \/ /\ answer' = Append(answer, Item("value", 1, Head(request).for))
        /\ UNCHANGED server
     \/ /\ answer' = Append(answer, Item("value", 0, Head(request).for))
        /\ server' = "descriptor"

Bind ==
  /\ Receive("descriptor")
  /\ server' = "request"
  /\ LET d == Head(request) IN
       \/ answer' = Append(answer, Item("value", 1, d.for))
       \/ answer' = answer \o <<Item("value", 0, d.for), Item("descriptor", d.value, d.for)>>

ServeAuth ==
  /\ Receive("request") /\ Head(request).kind = "AUTH"
  /\ \E ret \in {0, 1} : answer' = Append(answer, Item("value", ret, Head(request).for))
  /\ UNCHANGED server

ServeExit ==
  /\ Receive("request") /\ Head(request).kind = "EXIT"
  /\ answer' = Append(answer, Item("value", 0, Head(request).for))
  /\ server' = "gone"

(* The file cannot be read, or is sent after its size, here 2.             *)
ServeConf ==
  /\ Receive("request") /\ Head(request).kind = "CONF"
  /\ LET c == Head(request).for IN
       \/ answer' = Append(answer, Item("value", 0, c))
       \/ answer' = answer \o <<Item("value", 2, c), Item("text", 1, c), Item("text", 2, c)>>
  /\ UNCHANGED server

-----------------------------------------------------------------------------
(* server_privileged_call.                                                 *)

(* The lock, then the request.                                             *)
Call(c, o) ==
  /\ pc[c] = "idle" /\ calls[c] > 0 /\ holder = None /\ server # "gone"
  /\ o = "EXIT" => \A b \in Callers : pc[b] = "idle"
  /\ holder' = c
  /\ request' = Append(request, Item(o, None, c))
  /\ op' = [op EXCEPT ![c] = o]
  /\ calls' = [calls EXCEPT ![c] = @ - 1]
  /\ pc' = [pc EXCEPT ![c] = "first"]
  /\ UNCHANGED <<fd, answer, server, left>>

(* recv: the next item, whatever it is.                                    *)
Take(c, at) ==
  /\ pc[c] = at /\ answer # <<>>
  /\ answer' = Tail(answer)
  /\ UNCHANGED <<op, calls, server>>

GoOn(c, to) == pc' = [pc EXCEPT ![c] = to] /\ UNCHANGED holder

GiveUp(c) == pc' = [pc EXCEPT ![c] = "idle"] /\ holder' = None

BindFirst_GivesUp(c) ==           \* mutant: the lock is given up before the second answer
  /\ op[c] = "BIND" /\ Take(c, "first")
  /\ request' = IF Head(answer).value = 0 THEN Append(request, Item("fd", fd[c], c))
                ELSE request
  /\ GiveUp(c)
  /\ UNCHANGED <<fd, left>>

(* The second answer is awaited whatever the first.                        *)
BindFirst(c) ==
  /\ op[c] = "BIND" /\ Take(c, "first")
  /\ request' = IF Head(answer).value = 0 THEN Append(request, Item("fd", fd[c], c))
                ELSE request
  /\ GoOn(c, "second")
  /\ UNCHANGED <<fd, left>>

BindSecond(c) ==
  /\ Take(c, "second")
  /\ IF Head(answer).value = 0 THEN GoOn(c, "descriptor") ELSE GiveUp(c)
  /\ UNCHANGED <<fd, request, left>>

BindThird(c) ==
  /\ Take(c, "descriptor")
  /\ fd' = [fd EXCEPT ![c] = Head(answer).value]
  /\ GiveUp(c)
  /\ UNCHANGED <<request, left>>

OneAnswer(c) ==
  /\ op[c] \in {"AUTH", "EXIT"} /\ Take(c, "first")
  /\ GiveUp(c)
  /\ UNCHANGED <<fd, request, left>>

(* The size; the memory for the text may be missing.                       *)
ConfSize(c) ==
  /\ op[c] = "CONF" /\ Take(c, "first")
  /\ \/ Head(answer).value = 0 /\ GiveUp(c) /\ UNCHANGED left
     \/ Head(answer).value # 0 /\ GoOn(c, "text") /\ UNCHANGED left
     \/ Head(answer).value # 0 /\ GiveUp(c) /\ left' = TRUE
  /\ UNCHANGED <<fd, request>>

(* One recv for the text: what has arrived of it.                          *)
ConfText(c) ==
  /\ pc[c] = "text" /\ answer # <<>>
  /\ \E n \in 1 .. Len(answer) :
       /\ answer' = SubSeq(answer, n + 1, Len(answer))
       /\ left' = (left \/ answer' # <<>>)
  /\ GiveUp(c)
  /\ UNCHANGED <<op, fd, calls, request, server>>

Next ==
  \/ ServeBind \/ Bind \/ ServeAuth \/ ServeExit \/ ServeConf
  \/ \E c \in Callers :
       \/ \E o \in {"BIND", "AUTH", "EXIT", "CONF"} : Call(c, o)
       \/ BindFirst(c) \/ BindSecond(c) \/ BindThird(c)
       \/ OneAnswer(c) \/ ConfSize(c) \/ ConfText(c)

-----------------------------------------------------------------------------
Waiting(c) == pc[c] # "idle"

(* As long as no text was left in the channel, a caller only meets answers *)
(* to its own request, of the kind it waits for, the lock is free only     *)
(* when nothing is under way, and a bind gives a caller its own descriptor *)
(* back.  A caller waits for ever only after a bind that was refused at    *)
(* once: it then keeps _priv_lock.                                         *)
InStep ==
  ~ left =>
    /\ \A c \in Callers :
         /\ Waiting(c) => holder = c
         /\ Waiting(c) /\ answer # <<>> =>
              /\ Head(answer).for = c
              /\ Head(answer).kind = CASE pc[c] = "text" -> "text"
                                       [] pc[c] = "descriptor" -> "descriptor"
                                       [] OTHER -> "value"
         /\ fd[c] = c
         /\ Waiting(c) /\ answer = <<>> /\ request = <<>> =>
              server # "descriptor" /\ pc[c] = "second" /\ op[c] = "BIND"
    /\ holder = None => request = <<>> /\ answer = <<>> /\ server # "descriptor"
    /\ request # <<>> => (Head(request).kind = "fd" <=> server = "descriptor")

-----------------------------------------------------------------------------
(* The inductive invariant: what is in the channel and what the privileged *)
(* process waits for, at each point of the call under way.                 *)

TypeOK ==
  /\ pc \in [Callers -> {"idle", "first", "second", "descriptor", "text"}]
  /\ op \in [Callers -> {"BIND", "AUTH", "EXIT", "CONF", None}]
  /\ holder \in Callers \cup {None}

Wire(req, ans, at) == request = req /\ answer = ans /\ server = at
Answer(v, c) == Item("value", v, c)

Binding(c) ==
  /\ op[c] = "BIND"
  /\ \/ /\ pc[c] = "first"
        /\ \/ Wire(<<Item("BIND", None, c)>>, <<>>, "request")
           \/ Wire(<<>>, <<Answer(1, c)>>, "request")
           \/ Wire(<<>>, <<Answer(0, c)>>, "descriptor")
     \/ /\ pc[c] = "second"
        /\ \/ Wire(<<>>, <<>>, "request")
           \/ Wire(<<Item("fd", c, c)>>, <<>>, "descriptor")
           \/ Wire(<<>>, <<Answer(1, c)>>, "request")
           \/ Wire(<<>>, <<Answer(0, c), Item("descriptor", c, c)>>, "request")
     \/ /\ pc[c] = "descriptor"
        /\ Wire(<<>>, <<Item("descriptor", c, c)>>, "request")

Asking(c) ==
  /\ op[c] \in {"AUTH", "EXIT"} /\ pc[c] = "first"
  /\ \/ Wire(<<Item(op[c], None, c)>>, <<>>, "request")
     \/ \E v \in {0, 1}, at \in {"request", "gone"} : Wire(<<>>, <<Answer(v, c)>>, at)

Loading(c) ==
  /\ op[c] = "CONF"
  /\ \/ /\ pc[c] = "first"
        /\ \/ Wire(<<Item("CONF", None, c)>>, <<>>, "request")
           \/ Wire(<<>>, <<Answer(0, c)>>, "request")
           \/ Wire(<<>>, <<Answer(2, c), Item("text", 1, c), Item("text", 2, c)>>, "request")
     \/ /\ pc[c] = "text"
        /\ Wire(<<>>, <<Item("text", 1, c), Item("text", 2, c)>>, "request")

IInv ==
  /\ TypeOK
  /\ ~ left =>
       /\ fd = [c \in Callers |-> c]
       /\ \A c \in Callers : holder # c => pc[c] = "idle"
       /\ IF holder = None THEN \E at \in {"request", "gone"} : Wire(<<>>, <<>>, at)
          ELSE Binding(holder) \/ Asking(holder) \/ Loading(holder)
=============================================================================
