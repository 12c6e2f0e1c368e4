------------------------------ MODULE Services ------------------------------
(* The parts of the server that do not share state, one at a time: which   *)
(* says whether this is the registry of sockets, a queue that is polled,   *)
(* the engine, the privileged channel, virtual UDP sockets, the file       *)
(* cache, the pool of a database, a socket, the configuration, the         *)
(* launcher or the Windows service.  The others keep their first state.    *)
(* Where two parts have a constant of the same name, it is named here for  *)
(* its part.                                                               *)
EXTENDS SocketTable

CONSTANTS
  Used,                                       (* the parts of a behaviour  *)
  RingSize, RingIds, RingAdders, Pollers, PollLen, Padding,
  EngineWorkers, Images, PluginMax, Depth,
  ChannelCallers, Calls,
  UdpWorkers, Clients, Virtual, Listener, Inbox, Work,
  FileThreads, Paths, Files, Disk, Renamers, Uses, Remaps,
  DbThreads, Drivers, Asked, Rows, Word,
  Kinds, Links, Bytes, Lives

ASSUME ChannelAssumption == None \notin ChannelCallers

ASSUME UdpAssumption == None \notin Clients \cup Virtual \cup {Listener}

ASSUME EngineAssumption == PluginMax \in Nat

(* The queue of MCServices is only polled, with an array that is long      *)
(* enough: that of an event loop.                                          *)
ASSUME RingAssumption ==
  /\ RingSize \in Nat \ {0, 1} /\ RingIds \subseteq 1 .. (RingSize - 1)
  /\ None \notin RingAdders \cup Pollers /\ Pollers \cap RingAdders = {}
  /\ PollLen \in Nat /\ PollLen >= RingSize - 1
  /\ Padding # {} /\ Padding \subseteq Nat

(* An unsigned int counts the rows of a result set.                        *)
ASSUME DbAssumption ==
  /\ Drivers \subseteq {"mysql", "sqlite"}
  /\ Asked \in Nat /\ Rows \in Nat /\ Word \in Nat /\ Rows < Word
  /\ None \notin 0 .. Asked + 1

ASSUME FilesAssumption ==
  /\ FileThreads # {} /\ IsFiniteSet(FileThreads) /\ Uses \in Nat
  /\ Disk \subseteq Paths /\ None \notin Files \cup Paths

ASSUME DescriptorAssumption == None \notin {"tty", "inner", "outer", "read", "write"}

VARIABLES
  which,
  ring, head, tail, headLock, tailLock, queuePc, reg, held, ret,
  enginePc, stage, images, up, twice, plugin, finished, told, sockets, silent,
  running, wpc, inside,
  callPc, op, fd, calls, holder, request, answer, server, left,
  inbox, client, addr, work, udp, blocking, readable, writable, udpPc, udpSock,
  wanted,
  disk, cache, live, path, refs, lock, flags, viewed, remapped, holds, fileOp,
  driver, open, pool, state, borrowed, within, set, seen,
  kind, ssl, ioState, ioFd, used, sslfd, link, shaken, opened, sent, tx,
  fallback, early,
  conf, doc, todo, plugins, pools, contexts, pluginPath, result,
  daemon, launchPc, launchFd, call, handler, blocked, pending, interrupt,
  served, cleaned,
  installed, status, accepts, service, child, event, asked, missed, removed

Poll == INSTANCE SocketQueue WITH
  Max <- RingSize, Ids <- RingIds, Producers <- RingAdders, Consumers <- {}, pc <- queuePc

Core == INSTANCE Engine WITH Workers <- EngineWorkers, pc <- enginePc

Priv == INSTANCE PrivChannel WITH Callers <- ChannelCallers, pc <- callPc

Udp == INSTANCE UdpSockets WITH Workers <- UdpWorkers, pc <- udpPc, sock <- udpSock

Cache == INSTANCE FileCache WITH Threads <- FileThreads, op <- fileOp

Db == INSTANCE DbPool WITH Threads <- DbThreads, inside <- within

IO == INSTANCE SocketIO WITH state <- ioState, fd <- ioFd

(* A configuration: threads, a database, and two directories of plugins,   *)
(* the first with a plugin that has up to two options.                     *)
Opt(n, v) == [tag |-> "option", name |-> n, value |-> v]
PluginKids ==
  {Opt("a", "x"), Opt("a", None), Opt("x", "b"), Opt("reload", "x"),
   Opt("reload", None), [tag |-> "ssl", complete |-> TRUE]}
Plugin(i, kids) == [tag |-> "plugin", id |-> i, kids |-> kids]
Docs ==
  {[tag |-> "concrete", profile |-> profile, kids |-> <<
      [tag |-> "options", profile |-> "production",
       kids |-> <<[tag |-> "threads", number |-> threads]>>],
      [tag |-> "databases", profile |-> "debug",
       kids |-> <<[tag |-> "database", id |-> "db", connections |-> n]>>],
      [tag |-> "plugins", profile |-> "any", path |-> "plugins",
       kids |-> <<Plugin("a", kids)>>],
      [tag |-> "plugins", profile |-> "debug", path |-> second,
       kids |-> <<Plugin("a", <<>>), Plugin("b", <<>>)>>]>>] :
     profile \in {"any", "production", "debug"}, threads \in {0, 4},
     n \in {0, 8}, second \in {"gone", "here"},
     kids \in UNION {[1 .. n -> PluginKids] : n \in 0 .. 2}}

Conf == INSTANCE Config WITH
  Existing <- {[cwd |-> FALSE, path |-> "plugins"], [cwd |-> TRUE, path |-> "here"]},
  ssl <- contexts, path <- pluginPath

Start == INSTANCE Launcher WITH pc <- launchPc, fd <- launchFd

Windows == INSTANCE Service

pollVars == <<ring, head, tail, headLock, tailLock, queuePc, reg, held, ret>>
engineVars == <<enginePc, stage, images, up, twice, plugin, finished, told, sockets, silent,
                running, wpc, inside>>
channelVars == <<callPc, op, fd, calls, holder, request, answer, server, left>>
udpVars == <<inbox, client, addr, work, udp, blocking, readable, writable, udpPc, udpSock,
             wanted>>
fileVars == <<disk, cache, live, path, refs, lock, flags, viewed, remapped, holds, fileOp>>
dbVars == <<driver, open, pool, state, borrowed, within, set, seen>>
ioVars == <<kind, ssl, ioState, ioFd, used, sslfd, link, shaken, opened, sent, tx,
            fallback, early>>
configVars == <<conf, doc, todo, plugins, pools, contexts, pluginPath, result>>
launchVars == <<daemon, launchPc, launchFd, call, handler, blocked, pending, interrupt,
                served, cleaned>>
serviceVars == <<installed, status, accepts, service, child, event, asked, missed, removed>>

(* What every part but one leaves alone.                                   *)
Others(part) ==
  /\ UNCHANGED which
  /\ part # "table" => UNCHANGED vars
  /\ part # "poll" => UNCHANGED pollVars
  /\ part # "engine" => UNCHANGED engineVars
  /\ part # "channel" => UNCHANGED channelVars
  /\ part # "udp" => UNCHANGED udpVars
  /\ part # "files" => UNCHANGED fileVars
  /\ part # "db" => UNCHANGED dbVars
  /\ part # "io" => UNCHANGED ioVars
  /\ part # "config" => UNCHANGED configVars
  /\ part # "launcher" => UNCHANGED launchVars
  /\ part # "service" => UNCHANGED serviceVars

PartsInit ==
  /\ which \in Used
  /\ Init /\ Poll!Init /\ Core!Init /\ Priv!Init /\ Udp!Init /\ Cache!Init
  /\ Db!Init /\ (which # "db" => driver = "mysql")
  /\ IO!Init /\ (which # "io" => kind = "client" /\ ssl = "plain")
  /\ Conf!Init
  /\ Start!Init /\ (which # "launcher" => daemon = FALSE)
  /\ Windows!Init

PartsNext ==
  \/ which = "table" /\ Next /\ Others("table")
  \/ which = "poll" /\ Poll!Next /\ Others("poll")
  \/ which = "engine" /\ Core!Next /\ Others("engine")
  \/ which = "channel" /\ Priv!Next /\ Others("channel")
  \/ which = "udp" /\ Udp!Next /\ Others("udp")
  \/ which = "files" /\ Cache!Next /\ Others("files")
  \/ which = "db" /\ Db!Next /\ Others("db")
  \/ which = "io" /\ IO!Next /\ Others("io")
  \/ which = "config" /\ Conf!Next /\ Others("config")
  \/ which = "launcher" /\ Start!Next /\ Others("launcher")
  \/ which = "service" /\ Windows!Next /\ Others("service")

partsVars ==
  <<which, vars, pollVars, engineVars, channelVars, udpVars, fileVars, dbVars,
    ioVars, configVars, launchVars, serviceVars>>

PartsSpec == PartsInit /\ [][PartsNext]_partsVars

(* The ring that socket_queue_poll empties keeps every identifier once,    *)
(* and no reader runs past the mark that ends it.                          *)
PollInv == Poll!IInv /\ Poll!EndMark
PollTakesAll == Poll!PollTakesAll

(* The safety properties of the parts, each stated in its module.          *)
EngineSafe == Core!EngineSafe
InStep == Priv!InStep
OneHolder == Udp!OneHolder
CacheSafe == Cache!CacheSafe
DbSafe == Db!DbSafe
IoSafe == IO!IoSafe
ConfigSafe == Conf!ConfigSafe
LaunchSafe == Start!LaunchSafe
ServiceSafe == Windows!ServiceSafe
=============================================================================
