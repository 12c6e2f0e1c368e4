------------------------------- MODULE Plugins -------------------------------
(* The plugins of the repository, and what the library gives plugins to    *)
(* read and to write: HTTP, JSON and replies.  One at a time: which says   *)
(* whose turn it is, the others keep their first state.                    *)
EXTENDS Integers, FiniteSets, Sequences

CONSTANTS
  None,
  Used,                                       (* the parts of a behaviour  *)
  PipeIds, Routers, Packets, Lives,
  Men, Women, Hosts, Restless, Sessions, FirstSim, UserMax, HostessMax, Percent,
  Quotas, ChatThreads,
  Kinds, MaxPackets,
  BotThreads,
  MaxParts,
  Depth,
  Streams, Large, CutAll, MaxGiven

ASSUME PipeAssumption ==
  /\ PipeIds \subseteq Nat /\ None \notin PipeIds
  /\ Packets \in [BOOLEAN -> Nat] /\ Lives \in Nat

(* Sockets have the identifiers below SOCKET_MAX, who is simulated those   *)
(* from there to DIALMSN_USER_MAX.                                         *)
ASSUME ChatAssumption ==
  /\ Men \cap Women = {} /\ Hosts \subseteq Women /\ Restless \subseteq Men \cup Women
  /\ FirstSim \in Nat \ {0} /\ Sessions \subseteq 1 .. (FirstSim - 1)
  /\ UserMax \in Nat /\ UserMax >= FirstSim /\ HostessMax \in Nat
  /\ Percent \in 0 .. 100 /\ Quotas \in BOOLEAN
  /\ None \notin ChatThreads
  /\ None \notin [uid : Men \cup Women, visible : BOOLEAN, nick : Men \cup Women, away : BOOLEAN]

ASSUME BotAssumption == None \notin BotThreads \cup Men \cup Women

ASSUME PartsAssumption == MaxParts \in Nat

VARIABLES
  which, alone,
  sock, status, queue, packets, route, out, asked, thread, cut,
  users, counts, list, free, nextId, db, hostess, hlock, chatThread,
  stream, buffer, running, logged, allow, lists, handled, closed, spoilt,
  fails, bot, women, men, online, stop,
  call, step, owner, frees, parts, sent,
  strict, stack, state, digit, prev, ok, slips, open, want,
  pipeline, come, frag, segment, reading, given

streamVars == <<sock, status, queue, packets, route, out, asked, thread, cut>>
chatVars == <<users, counts, list, free, nextId, db, hostess, hlock, chatThread>>
requestVars ==
  <<stream, buffer, running, logged, allow, lists, handled, closed, spoilt>>
botVars == <<fails, bot, women, men, online, stop>>
sendVars == <<call, step, owner, frees, parts, sent>>
jsonVars == <<strict, stack, state, digit, prev, ok, slips, open, want>>
httpVars == <<pipeline, come, frag, segment, reading, given>>

Pipes == INSTANCE Stream WITH Ids <- PipeIds, Threads <- Routers

Users == INSTANCE Chat WITH Threads <- ChatThreads, thread <- chatThread

Client == INSTANCE Requests

ASSUME RequestAssumption == Kinds \subseteq DOMAIN Client!Shape

Robots == INSTANCE Bots WITH Bots <- BotThreads

Sender == INSTANCE Sending

Parser == INSTANCE Json

Worker == INSTANCE Http WITH
  stream <- pipeline, sent <- come, input <- segment, r <- reading

-----------------------------------------------------------------------------
(* What every part but one leaves alone.                                   *)
Others(part) ==
  /\ UNCHANGED which
  /\ part # "stream" => UNCHANGED streamVars
  /\ part # "chat" => UNCHANGED chatVars
  /\ part # "requests" => UNCHANGED requestVars
  /\ part # "bots" => UNCHANGED botVars
  /\ part # "sending" => UNCHANGED sendVars
  /\ part # "json" => UNCHANGED jsonVars
  /\ part # "http" => UNCHANGED httpVars
  /\ part \notin {"stream", "chat", "bots"} => UNCHANGED alone

PluginsInit ==
  /\ which \in Used
  /\ Pipes!Init /\ Users!Init /\ (which \notin {"stream", "chat", "bots"} => ~ alone)
  /\ Client!Init /\ (which # "requests" => ~ logged)
  /\ Robots!Init /\ (which # "bots" => ~ fails)
  /\ Sender!Init /\ (which # "sending" => call = "send_string")
  /\ Parser!Init /\ (which # "json" => strict)
  /\ Worker!Init /\ (which # "http" => pipeline = CHOOSE s \in Streams : TRUE)

PluginsNext ==
  \/ which = "stream" /\ Pipes!Next /\ Others("stream")
  \/ which = "chat" /\ Users!Next /\ Others("chat")
  \/ which = "requests" /\ Client!Next /\ Others("requests")
  \/ which = "bots" /\ Robots!Next /\ Others("bots")
  \/ which = "sending" /\ Sender!Next /\ Others("sending")
  \/ which = "json" /\ Parser!Next /\ Others("json")
  \/ which = "http" /\ Worker!Next /\ Others("http")

pluginsVars ==
  <<which, alone, streamVars, chatVars, requestVars, botVars, sendVars, jsonVars, httpVars>>

PluginsSpec == PluginsInit /\ [][PluginsNext]_pluginsVars

(* The safety properties of the parts, each stated in its module.          *)
StreamSafe == Pipes!StreamSafe
OwnEgress == Pipes!OwnEgress
ChatSafe == Users!ChatSafe
RequestsSafe == Client!RequestsSafe
BotsSafe == Robots!BotsSafe
SendingSafe == Sender!SendingSafe
JsonSafe == Parser!JsonSafe
HttpSafe == Worker!HttpSafe
=============================================================================
