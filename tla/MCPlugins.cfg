\* The stream plugin and the parts of DialMessenger, by one thread and by two.
SPECIFICATION PluginsSpec
CONSTANTS
  None = None
  Used = {"stream", "chat", "requests", "bots", "sending", "json", "http"}
  t1 = t1
  t2 = t2
\* Four sockets.
  PipeIds = {1, 2, 3, 4}
  Routers = {t1, t2}
  Packets <- TwoAlone
  Lives = 1
\* Two men, two women, one of them a hostess; sessions 1 and 2, the
\* simulated session 3, and as many men as women.
  Men = {m1, m2}
  Women = {w1, w2}
  Hosts = {w2}
  Restless = {m1}
  Sessions = {1, 2}
  FirstSim = 3
  UserMax = 4
  HostessMax = 1
  Percent = 100
  Quotas = TRUE
  ChatThreads = {t1, t2}
\* Up to three packets of every shape, cut anywhere.
  Kinds = {"list", "friends", "mail", "add", "grant", "status", "host", "refresh", "auth", "account", "mesg", "call"}
  MaxPackets = 3
  BotThreads = {b1, b2}
  MaxParts = 2
  Depth = 2
\* Bodies of up to four units, streamed from three.
  Streams <- Pipelines
  Large = 3
  CutAll = FALSE
  MaxGiven = 20
SYMMETRY Symmetry
CHECK_DEADLOCK FALSE
INVARIANTS StreamSafe ChatSafe RequestsSafe BotsSafe  JsonSafe HttpSafe
