\* Every part of the server that keeps state of its own.
SPECIFICATION PartsSpec
CONSTANTS
  None = None
  Used = {"table", "poll", "engine", "channel", "udp", "files", "db", "io", "config", "launcher", "service"}
\* The registry of sockets.
  s1 = s1
  s2 = s2
  s3 = s3
  Callers = {t1, t2, t3}
  Openers = {t1}
  Closers = {t1, t2}
  Nested = {}
  Structs = {s1, s2, s3}
  Max = 3
\* A queue that is polled.
  RingSize = 4
  RingIds = {1, 2, 3}
  RingAdders = {p1, p2}
  Pollers = {w1, w2}
  PollLen = 4
  Padding = {0, 7}
\* The engine.
  EngineWorkers = {a, b}
  Images = 2
  PluginMax = 2
  Depth = 2
\* The privileged channel.
  ChannelCallers = {a, b}
  Calls = 2
\* Two clients for the one virtual socket there may be.
  UdpWorkers = {w1, w2}
  Clients = {a, b}
  Virtual = {1}
  Listener = 0
  Inbox = 2
  Work = 1
\* The file cache.
  FileThreads = {t1, t2}
  pathA = pathA
  pathB = pathB
  Paths = {pathA, pathB}
  Files = {f1, f2}
  Disk = {}
  Renamers = {t1}
  Uses = 1
  Remaps = 1
\* An unsigned int of two bits: zero less one is more than any result set
\* has rows.
  DbThreads = {t1, t2, t3}
  Drivers = {"mysql", "sqlite"}
  Asked = 0
  Rows = 2
  Word = 4
\* Input and output of a socket.
  Kinds = {"client", "once", "accepted", "listener"}
  Links = {"plain", "ssl"}
  Bytes = 3
  Lives = 2
SYMMETRY Symmetry
CHECK_DEADLOCK FALSE
INVARIANTS TableSafe    InStep      LaunchSafe ServiceSafe
 
