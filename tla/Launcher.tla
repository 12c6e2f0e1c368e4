------------------------------- MODULE Launcher -------------------------------
(***************************************************************************)
(* The processes of the server under UNIX (main.c): the privileged         *)
(* process, the server, and the logger of a daemon, with their tables of   *)
(* descriptors, from the start to the end of all three.                    *)
(***************************************************************************)
EXTENDS Integers, FiniteSets

CONSTANTS None

Procs == {"priv", "server", "logger"}
Numbers == 0 .. 5

VARIABLES
  daemon,     (* option_daemon                                             *)
  pc,         (* where each process is: "none" before, "gone" after        *)
  fd,         (* the descriptors of each process: the terminal, the two    *)
              (* ends of the channel, the two of the pipe of the logger    *)
  call,       (* the EXIT request: "none", "sent", "answered"              *)
  handler,    (* _sigusr1_handler is installed in the server               *)
  blocked, pending, interrupt,     (* SIGUSR1 in the server                *)
  served,     (* server_init succeeded                                     *)
  cleaned     (* server_fini was called                                    *)

vars == <<daemon, pc, fd, call, handler, blocked, pending, interrupt, served, cleaned>>
signals == <<handler, blocked, pending, interrupt>>

Closed == [n \in Numbers |-> None]

(* daemonize closes everything; otherwise the terminal is there.           *)
Init ==
  /\ daemon \in BOOLEAN
  /\ pc = [p \in Procs |-> IF p = "priv" THEN "start" ELSE "none"]
  /\ fd = [p \in Procs |-> IF p = "priv" /\ ~ daemon
                           THEN [n \in Numbers |-> IF n < 3 THEN "tty" ELSE None] ELSE Closed]
  /\ call = "none"
  /\ handler = FALSE /\ blocked = FALSE /\ pending = FALSE /\ interrupt = FALSE
  /\ served = FALSE /\ cleaned = FALSE

Live(p) == pc[p] \notin {"none", "gone"}
Free(t) == {n \in Numbers : t[n] = None}
Lowest(S) == CHOOSE n \in S : \A m \in S : n <= m
Open(t, x) == [t EXCEPT ![Lowest(Free(t))] = x]
Close(t, x) == [n \in Numbers |-> IF t[n] = x THEN None ELSE t[n]]
HeldOpen(x) == \E p \in Procs : Live(p) /\ \E n \in Numbers : fd[p][n] = x

To(p, from, to) == pc[p] = from /\ pc' = [pc EXCEPT ![p] = to]
End(p) == pc' = [pc EXCEPT ![p] = "gone"] /\ fd' = [fd EXCEPT ![p] = Closed]

-----------------------------------------------------------------------------
(* The privileged process.                                                 *)

Fork ==
  LET both == Open(Open(fd["priv"], "inner"), "outer") IN
  /\ pc["priv"] = "start"
  /\ pc' = [pc EXCEPT !["priv"] = "exposed", !["server"] = "forked"]
  /\ fd' = [fd EXCEPT !["priv"] = both, !["server"] = both]
  /\ UNCHANGED <<daemon, call, signals, served, cleaned>>

Serve_KeepsBoth ==                \* mutant: both ends of the channel stay open
  /\ To("priv", "exposed", "serving")
  /\ UNCHANGED <<daemon, fd, call, signals, served, cleaned>>

(* SIGUSR1 is ignored, and the end of the server closed.                   *)
Serve ==
  /\ To("priv", "exposed", "serving")
  /\ fd' = [fd EXCEPT !["priv"] = Close(@, "inner")]
  /\ UNCHANGED <<daemon, call, signals, served, cleaned>>

(* The last request, or the end of the channel.                            *)
LastRequest ==
  /\ To("priv", "serving", "reaping") /\ call = "sent"
  /\ call' = "answered"
  /\ fd' = [fd EXCEPT !["priv"] = Close(@, "outer")]
  /\ UNCHANGED <<daemon, signals, served, cleaned>>

EndOfChannel ==
  /\ pc["priv"] = "serving" /\ call # "sent" /\ ~ HeldOpen("inner")
  /\ End("priv")
  /\ UNCHANGED <<daemon, call, signals, served, cleaned>>

Reap ==
  /\ pc["priv"] = "reaping" /\ ~ Live("server")
  /\ End("priv")
  /\ UNCHANGED <<daemon, call, signals, served, cleaned>>

-----------------------------------------------------------------------------
(* The server.                                                             *)

(* setuid, to nobody or to the original user, may fail.                    *)
DropPrivileges ==
  /\ pc["server"] = "forked"
  /\ \/ /\ To("server", "forked", IF daemon THEN "pipe" ELSE "init")
        /\ fd' = [fd EXCEPT !["server"] = Close(@, "outer")]
     \/ End("server")
  /\ UNCHANGED <<daemon, call, signals, served, cleaned>>

(* The logger reads the pipe on its input, the server writes its errors    *)
(* there: dup2 closes what these numbers were.                             *)
ForkLogger ==
  LET t == Open(Open(fd["server"], "read"), "write") IN
  /\ pc["server"] = "pipe"
  /\ pc' = [pc EXCEPT !["server"] = "init", !["logger"] = "logging"]
  /\ fd' = [fd EXCEPT !["server"] = [Close(t, "read") EXCEPT ![2] = "write"],
                      !["logger"] = [Close(t, "write") EXCEPT ![0] = "read"]]
  /\ UNCHANGED <<daemon, call, signals, served, cleaned>>

LoggerEnds ==
  /\ pc["logger"] = "logging" /\ ~ HeldOpen("write")
  /\ End("logger")
  /\ UNCHANGED <<daemon, call, signals, served, cleaned>>

ServerInit ==
  /\ \/ To("server", "init", IF daemon THEN "install" ELSE "keyboard") /\ served' = TRUE
     \/ To("server", "init", "fini") /\ served' = FALSE
  /\ UNCHANGED <<daemon, fd, call, signals, cleaned>>

(* Only a q ends the session: the end of the input does not.               *)
Key ==
  /\ \E to \in {"fini", "deaf"} : To("server", "keyboard", to)
  /\ UNCHANGED <<daemon, fd, call, signals, served, cleaned>>

Install ==
  /\ To("server", "install", "block") /\ handler' = TRUE
  /\ UNCHANGED <<daemon, fd, call, blocked, pending, interrupt, served, cleaned>>

Block ==
  /\ To("server", "block", "test") /\ blocked' = TRUE
  /\ UNCHANGED <<daemon, fd, call, handler, pending, interrupt, served, cleaned>>

Test ==
  /\ To("server", "test", IF interrupt THEN "fini" ELSE "suspend")
  /\ UNCHANGED <<daemon, fd, call, signals, served, cleaned>>

(* sigsuspend: the signal is let in while the server sleeps.               *)
Suspend ==
  /\ To("server", "suspend", "test") /\ pending
  /\ pending' = FALSE /\ interrupt' = TRUE
  /\ UNCHANGED <<daemon, fd, call, handler, blocked, served, cleaned>>

(* SIGUSR1, for every process of the program: it ends the server before    *)
(* the handler is there, and the privileged process before it ignores it.  *)
Signal ==
  LET killed == (IF handler THEN {} ELSE {"server"})
                \cup (IF pc["priv"] = "exposed" THEN {"priv"} ELSE {}) IN
  /\ daemon /\ Live("server") /\ pc["server"] # "forked" /\ ~ pending /\ ~ interrupt
  /\ pending' = (handler /\ blocked) /\ interrupt' = (handler /\ ~ blocked)
  /\ pc' = [p \in Procs |-> IF p \in killed THEN "gone" ELSE pc[p]]
  /\ fd' = [p \in Procs |-> IF p \in killed THEN Closed ELSE fd[p]]
  /\ UNCHANGED <<daemon, call, handler, blocked, served, cleaned>>

Fini ==
  /\ To("server", "fini", IF daemon THEN "kill" ELSE "exit") /\ cleaned' = TRUE
  /\ UNCHANGED <<daemon, fd, call, signals, served>>

KillLogger ==
  /\ pc["server"] = "kill"
  /\ pc' = [pc EXCEPT !["server"] = "exit", !["logger"] = "gone"]
  /\ fd' = [fd EXCEPT !["logger"] = Closed]
  /\ UNCHANGED <<daemon, call, signals, served, cleaned>>

(* server_privileged_call(OP_EXIT); without a privileged process the write *)
(* fails or kills the server.                                              *)
Exit ==
  /\ To("server", "exit", "answer") /\ call' = "sent"
  /\ UNCHANGED <<daemon, fd, signals, served, cleaned>>

ServerEnds ==
  /\ pc["server"] = "answer" /\ (call = "answered" \/ ~ Live("priv"))
  /\ End("server")
  /\ UNCHANGED <<daemon, call, signals, served, cleaned>>

Next ==
  \/ Fork \/ Serve \/ LastRequest \/ EndOfChannel \/ Reap
  \/ DropPrivileges \/ ForkLogger \/ LoggerEnds \/ ServerInit \/ Key
  \/ Install \/ Block \/ Test \/ Suspend \/ Signal
  \/ Fini \/ KillLogger \/ Exit \/ ServerEnds

-----------------------------------------------------------------------------
(* A signal that finds the handler is not lost: the server does not sleep  *)
(* with it behind.                                                         *)
SignalKept == pc["server"] = "suspend" => ~ interrupt

(* Whatever ends the server, the two others see it: no process is left     *)
(* with its end of the channel or of the pipe; and closing everything      *)
(* before the first descriptor is made gives the logger its input and the  *)
(* server its errors without losing the channel.                           *)
AllEnd ==
  /\ pc["server"] = "gone" /\ pc["priv"] = "serving" => ~ HeldOpen("inner")
  /\ pc["server"] = "gone" => ~ HeldOpen("write")
  /\ Live("logger") => fd["logger"][0] = "read"
  /\ Live("server") /\ pc["server"] \notin {"forked", "pipe"} =>
       /\ \E n \in Numbers : fd["server"][n] = "inner"
       /\ daemon => fd["server"][2] = "write"

(* The server only leaves through the last request after server_fini.      *)
CleanExit == call # "none" => cleaned /\ ~ Live("logger")

LaunchSafe == SignalKept /\ AllEnd /\ CleanExit

-----------------------------------------------------------------------------
(* The inductive invariant: the descriptors of each process at each point, *)
(* and what a process that got there has done.                             *)

TypeOK ==
  /\ daemon \in BOOLEAN
  /\ pc \in [Procs -> {"none", "gone", "start", "exposed", "serving", "reaping",
                       "forked", "pipe", "init", "keyboard", "deaf", "install",
                       "block", "test", "suspend", "fini", "kill", "exit", "answer",
                       "logging"}]
  /\ fd \in [Procs -> [Numbers -> {"tty", "inner", "outer", "read", "write", None}]]
  /\ call \in {"none", "sent", "answered"}
  /\ handler \in BOOLEAN /\ blocked \in BOOLEAN /\ pending \in BOOLEAN
  /\ interrupt \in BOOLEAN /\ served \in BOOLEAN /\ cleaned \in BOOLEAN
  /\ pc["priv"] \in {"start", "exposed", "serving", "reaping", "gone"}
  /\ pc["server"] \notin {"start", "exposed", "serving", "reaping", "logging"}
  /\ pc["logger"] \in {"none", "logging", "gone"}

(* The first two numbers that are free when the channel is made.           *)
Inner == IF daemon THEN 0 ELSE 3
Outer == IF daemon THEN 1 ELSE 4
Terminal(n) == ~ daemon /\ n < 3

Before(n) == IF Terminal(n) THEN "tty" ELSE None

PrivHas(n) ==
  IF pc["priv"] = "gone" THEN None
  ELSE IF n = Inner /\ pc["priv"] = "exposed" THEN "inner"
  ELSE IF n = Outer /\ pc["priv"] \in {"exposed", "serving"} THEN "outer"
  ELSE Before(n)

ServerHas(n) ==
  IF pc["server"] \in {"none", "gone"} THEN None
  ELSE IF n = Inner THEN "inner"
  ELSE IF n = Outer /\ pc["server"] = "forked" THEN "outer"
  ELSE IF n = 2 /\ daemon /\ pc["server"] \notin {"forked", "pipe"} THEN "write"
  ELSE Before(n)

LoggerHas(n) == IF pc["logger"] = "logging" /\ n \in {0, 1} THEN "read" ELSE None

TablesInv ==
  \A n \in Numbers :
    fd["priv"][n] = PrivHas(n) /\ fd["server"][n] = ServerHas(n) /\ fd["logger"][n] = LoggerHas(n)

OrderInv ==
  /\ pc["priv"] = "start" <=> pc["server"] = "none"
  /\ pc["server"] \in {"pipe", "kill"} => daemon
  /\ pc["server"] \in {"none", "forked", "pipe"} \/ ~ daemon => pc["logger"] = "none"
  /\ pc["server"] \in {"block", "test", "suspend"} => handler
  /\ pc["server"] \in {"test", "suspend"} => blocked
  /\ pc["server"] \in {"kill", "exit", "answer"} => cleaned
  /\ pc["server"] \in {"exit", "answer"} => ~ Live("logger")
  /\ call # "none" => pc["server"] \in {"answer", "gone"}

IInv == TypeOK /\ TablesInv /\ OrderInv /\ SignalKept /\ CleanExit
=============================================================================
