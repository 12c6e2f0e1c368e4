\* Identifiers are used twice, by a thread that is alone.
SPECIFICATION PluginsSpec
CONSTANTS
  None = None
  Used = {"stream"}
  t1 = t1
  t2 = t2
\* Four sockets.
  PipeIds = {1, 2, 3, 4}
  Routers = {t1}
  Packets <- OneEach
  Lives = 2
\* Two men, two women, one of them a hostess; sessions 1 and 2, the
\* simulated session 3, and as many men as women.
  Men = {m1, m2}
  Women = {w1, w2}
  Hosts = {w2}
  Restless = {m1}
  Sessions = {1, 2}
  FirstSim = 3
  UserMax = 4
  HostessMax = 1
  Percent = 100
  Quotas = TRUE
  ChatThreads = {t1, t2}
\* Up to three packets of every shape, cut anywhere.
  Kinds = {"list", "friends", "mail", "add", "grant", "status", "host", "refresh", "auth", "account", "mesg", "call"}
  MaxPackets = 3
  BotThreads = {b1, b2}
  MaxParts = 2
  Depth = 2
\* Bodies of up to four units, streamed from three.
  Streams <- Pipelines
  Large = 3
  CutAll = FALSE
  MaxGiven = 20
CHECK_DEADLOCK FALSE
INVARIANT OwnEgress
