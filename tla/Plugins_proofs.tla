---------------------------- MODULE Plugins_proofs ----------------------------
(* Proofs about the plugins and what the library gives them: the safety    *)
(* property of each, for every value of its constants.                     *)
EXTENDS Plugins, FiniteSetTheorems, SequenceTheorems, WellFoundedInduction, TLAPS

-----------------------------------------------------------------------------
(* How many threads there are does not change.                             *)
LEMMA AloneStays == [PluginsNext]_pluginsVars => UNCHANGED alone
<1>1. Pipes!Next => UNCHANGED alone
  <2>1. ASSUME NEW s \in PipeIds, NEW role, Pipes!Accept(s, role) PROVE UNCHANGED alone
    BY <2>1 DEF Pipes!Accept
  <2>2. ASSUME NEW t \in Routers, NEW s \in PipeIds, Pipes!Disconnect(t, s) \/ Pipes!Receive(t, s)
        PROVE  UNCHANGED alone
    BY <2>2 DEF Pipes!Disconnect, Pipes!Receive
  <2>3. ASSUME NEW t, NEW l, NEW s, NEW next, Pipes!SetPipe(t, l, s, next) PROVE UNCHANGED alone
    BY <2>3 DEF Pipes!SetPipe
  <2>4. ASSUME NEW t \in Routers, Pipes!Handler(t) PROVE UNCHANGED alone
    BY <2>3, <2>4, Zenon DEF Pipes!Handler, Pipes!EgressDown, Pipes!SetDown, Pipes!Drop, Pipes!AddWorker,
       Pipes!EnqueueConnection, Pipes!DequeueWaiting, Pipes!EnqueuePacket, Pipes!DequeueConnection,
       Pipes!SetRoute, Pipes!DequeuePacket, Pipes!SendPacket, Pipes!GetConnection, Pipes!EnqueueWaiting,
       Pipes!LookUp, Pipes!Forward
  <2>5. QED
    BY <2>1, <2>2, <2>4, Zenon DEF Pipes!Next
<1>2. Users!Next => UNCHANGED alone
  BY Zenon DEF Users!Next, Users!Hangup, Users!Login, Users!SetStatus, Users!Reread, Users!HostOnline, Users!Feed,
     Users!EndSim, Users!Clear, Users!Remove, Users!Update, Users!Insert, Users!Refresh, Users!Unlock,
     Users!Impersonate, Users!Lock, Users!Take, Users!Give
<1>3. Robots!Next => UNCHANGED alone
  BY Zenon DEF Robots!Next, Robots!Stop, Robots!settings, Robots!Expired, Robots!ReleaseWoman, Robots!Acquire, Robots!Simulate,
     Robots!Stay, Robots!GetWork, Robots!TalkOver, Robots!Mail, Robots!Continue, Robots!Leave, Robots!Cancelled
<1>4. QED
  BY <1>1, <1>2, <1>3 DEF PluginsNext, Others, pluginsVars

-----------------------------------------------------------------------------
(* The bots.                                                               *)

LEMMA BotInit == PluginsInit => Robots!IInv
<1> SUFFICES ASSUME PluginsInit PROVE Robots!IInv
  OBVIOUS
<1>1. Robots!Init
  BY DEF PluginsInit
<1>2. Robots!TypeOK
  BY Zenon, <1>1 DEF Robots!Init, Robots!TypeOK, Robots!Bot, Robots!Places
<1>3. \A b \in BotThreads : Robots!Consistent(b)
  BY Zenon, <1>1 DEF Robots!Init, Robots!Consistent
<1>4. Robots!BotsSafe
  BY Zenon, <1>1 DEF Robots!Init, Robots!BotsSafe, Robots!OneWoman, Robots!NoneLost,
    Robots!OwnManAlone, Robots!OwnMan
<1>5. QED
  BY <1>2, <1>3, <1>4 DEF Robots!IInv

(* The entry of one bot changes, and where a bot is.                       *)
LEMMA BotChange ==
  ASSUME Robots!IInv, NEW b \in BotThreads, NEW n \in Robots!Bot, bot' = [bot EXCEPT ![b] = n]
  PROVE  /\ bot' \in [BotThreads -> Robots!Bot] /\ bot'[b] = n
         /\ \A c \in BotThreads : c # b => bot'[c] = bot[c]
BY DEF Robots!IInv, Robots!TypeOK

LEMMA BotGoes ==
  ASSUME Robots!IInv, NEW b \in BotThreads, NEW l \in Robots!Places, Robots!To(b, l)
  PROVE  /\ bot' \in [BotThreads -> Robots!Bot]
         /\ bot'[b].at = l /\ bot'[b].uid = bot[b].uid /\ bot'[b].started = bot[b].started
         /\ bot'[b].man = bot[b].man /\ bot'[b].talks = bot[b].talks
         /\ \A c \in BotThreads : c # b => bot'[c] = bot[c]
<1> DEFINE n == [bot[b] EXCEPT !.at = l]
<1>1. bot[b] \in Robots!Bot
  BY DEF Robots!IInv, Robots!TypeOK
<1>2. /\ n \in Robots!Bot /\ n.at = l /\ n.uid = bot[b].uid /\ n.started = bot[b].started
      /\ n.man = bot[b].man /\ n.talks = bot[b].talks
  BY <1>1 DEF Robots!Bot
<1>3. bot' = [bot EXCEPT ![b] = n]
  BY DEF Robots!To
<1> HIDE DEF n
<1>4. QED
  BY Zenon, <1>2, <1>3, BotChange

LEMMA BotInType ==
  ASSUME Robots!IInv, NEW b \in BotThreads
  PROVE  bot[b] \in Robots!Bot
BY DEF Robots!IInv, Robots!TypeOK

LEMMA BotTyped ==
  ASSUME Robots!IInv, NEW b \in BotThreads
  PROVE  /\ bot[b].at \in Robots!Places /\ bot[b].uid \in Women \cup {None}
         /\ bot[b].man \in Men \cup {None}
         /\ bot[b].started \in BOOLEAN /\ bot[b].talks \in BOOLEAN
         /\ bot[b].started => bot[b].uid \in Women
         /\ bot[b].at = "simulate" => bot[b].uid \in Women
         /\ bot[b].talks => bot[b].man \in Men
         /\ bot[b].at = "release woman" /\ ~ stop => bot[b].uid \notin online
         /\ ~ fails /\ bot[b].uid # None =>
              bot[b].started \/ bot[b].at \in {"simulate", "dead"}
BY Zenon DEF Robots!IInv, Robots!TypeOK, Robots!Bot, Robots!Consistent

LEMMA BotApart ==
  ASSUME Robots!IInv, NEW b \in BotThreads, NEW c \in BotThreads, b # c, ~ stop,
         bot[b].at # "dead", bot[c].at # "dead", bot[b].uid # None
  PROVE  bot[b].uid # bot[c].uid
BY Zenon DEF Robots!IInv, Robots!BotsSafe, Robots!OneWoman, Robots!Living

(* A bot goes on to another place, and nothing else happens.               *)
Bot_GoesOn(b, l) ==
  /\ Robots!To(b, l)
  /\ bot[b].at \notin {"dead", "release woman"} /\ (bot[b].at = "simulate" => fails)
  /\ (l \in {"work", "mail"} => bot[b].started) /\ (bot[b].talks => l = "dead")
  /\ (alone /\ b # Robots!Chosen => l = "top")
  /\ UNCHANGED <<alone, fails, women, men, online, stop>>
LEMMA BotGoesOn ==
  ASSUME Robots!IInv, NEW b \in BotThreads, NEW l \in {"top", "work", "mail", "continue", "dead"}, Bot_GoesOn(b, l)
  PROVE  Robots!IInv'
<1>1. /\ bot' \in [BotThreads -> Robots!Bot]
      /\ bot'[b].at = l /\ bot'[b].uid = bot[b].uid /\ bot'[b].started = bot[b].started
      /\ bot'[b].man = bot[b].man /\ bot'[b].talks = bot[b].talks
      /\ \A c \in BotThreads : c # b => bot'[c] = bot[c]
  BY Zenon, BotGoes DEF Bot_GoesOn, Robots!Places
<1>2. /\ bot[b].at \notin {"dead", "release woman"} /\ (bot[b].at = "simulate" => fails)
      /\ (l \in {"work", "mail"} => bot[b].started) /\ (bot[b].talks => l = "dead")
      /\ (alone /\ b # Robots!Chosen => l = "top")
      /\ UNCHANGED <<alone, fails, women, men, online, stop>>
  BY Zenon DEF Bot_GoesOn
<1>3. Robots!TypeOK'
  BY Zenon, <1>1, <1>2, BotTyped, BotAssumption DEF Robots!IInv, Robots!TypeOK
<1>4. Robots!Consistent(b)'
  BY Zenon, <1>1, <1>2, BotAssumption DEF Robots!IInv, Robots!Consistent
<1>5. \A c \in BotThreads : c # b => Robots!Consistent(c)'
  BY Zenon, <1>1, <1>2, BotApart DEF Robots!IInv, Robots!Consistent
<1>6. Robots!OneWoman'
  <2>a. \A c \in BotThreads : Robots!Living(c) /\ bot[c].uid # None /\ ~ stop => women[bot[c].uid] = c
    BY Zenon DEF Robots!IInv, Robots!BotsSafe, Robots!OneWoman
  <2>1. ASSUME NEW c \in BotThreads, Robots!Living(c)', bot'[c].uid # None, ~ stop'
        PROVE  women'[bot'[c].uid] = c
    <3>1. CASE c = b
      BY Zenon, <3>1, <1>1, <1>2, <2>a, <2>1, BotTyped DEF Robots!Living
    <3>2. CASE c # b
      <4>1. Robots!Living(c) /\ ~ stop /\ bot'[c] = bot[c] /\ women[bot[c].uid] = c /\ bot[c].uid \in Women
        BY Zenon, <3>2, <1>1, <1>2, <2>a, <2>1, BotTyped DEF Robots!Living
      <4>2. QED
        BY Zenon, <3>2, <4>1, <1>1, <1>2, <2>a, BotTyped, BotAssumption DEF Robots!Living
    <3>3. QED
      BY <3>1, <3>2
  <2>2. \A x \in online' : women'[x] # None \/ stop'
    <3>1. \A x \in online : x \in Women /\ (women[x] # None \/ stop)
      BY Zenon DEF Robots!IInv, Robots!TypeOK, Robots!BotsSafe, Robots!OneWoman
    <3>2. SUFFICES ASSUME NEW x \in online', ~ stop' PROVE women'[x] # None
      OBVIOUS
    <3>3. /\ bot[b].at = "release woman" /\ ~ stop => bot[b].uid \notin online
          /\ bot[b].at = "simulate" /\ ~ stop => bot[b].uid \in Women /\ women[bot[b].uid] = b
      BY Zenon, <2>a, BotTyped, BotAssumption DEF Robots!Living
    <3>4. QED
      BY Zenon, <3>1, <3>2, <3>3, <1>2, BotAssumption
  <2>3. ASSUME NEW c \in BotThreads, Robots!Living(c)', bot'[c].started, bot'[c].at # "release woman"
        PROVE  bot'[c].uid \in online'
    <3>0. bot[c].started => bot[c].uid # None
      BY Zenon DEF Robots!IInv, Robots!Consistent
    <3>1. CASE c = b
      BY Zenon, <3>0, <3>1, <1>1, <1>2, <2>3 DEF Robots!IInv, Robots!BotsSafe, Robots!OneWoman, Robots!Living
    <3>2. CASE c # b
      <4>1. Robots!Living(c) /\ bot[c].started /\ bot[c].at # "release woman" /\ bot'[c] = bot[c]
        BY Zenon, <3>2, <1>1, <2>3 DEF Robots!Living
      <4>2. bot[c].uid \in online
        BY Zenon, <4>1 DEF Robots!IInv, Robots!BotsSafe, Robots!OneWoman
      <4>3. Robots!Living(b) /\ ~ stop => bot[c].uid # bot[b].uid
        BY Zenon, <4>1, <3>0, <3>2, <2>a
      <4>4. QED
        BY Zenon, <4>1, <4>2, <4>3, <1>2 DEF Robots!Living
    <3>3. QED
      BY <3>1, <3>2
  <2>4. QED
    BY Zenon, <2>1, <2>2, <2>3 DEF Robots!OneWoman, Robots!Living
<1>7. Robots!NoneLost'
  <2> SUFFICES ASSUME ~ fails', \A c \in BotThreads : bot'[c].at # "dead", NEW x \in Women, women'[x] # None
              PROVE  bot'[women'[x]].uid = x
    BY DEF Robots!NoneLost, Robots!Living
  <2>1. \A c \in BotThreads : bot[c].at # "dead"
    BY Zenon, <1>1, <1>2
  <2>2. women[x] # None => women[x] \in BotThreads /\ bot[women[x]].uid = x
    BY Zenon, <1>2, <2>1 DEF Robots!IInv, Robots!BotsSafe, Robots!NoneLost, Robots!Living, Robots!TypeOK
  <2>3. QED
    <3>1. CASE women'[x] = b
      BY Zenon, <3>1, <1>1, <1>2, <2>2, BotTyped, BotAssumption
    <3>2. CASE women'[x] # b
      BY Zenon, <3>2, <1>1, <1>2, <2>2
    <3>3. QED
      BY <3>1, <3>2
<1>8. Robots!OwnManAlone'
  BY Zenon, <1>1, <1>2, BotTyped DEF Robots!IInv, Robots!BotsSafe, Robots!OwnManAlone, Robots!OwnMan, Robots!Living, Robots!Consistent
<1>9. QED
  BY <1>3, <1>4, <1>5, <1>6, <1>7, <1>8 DEF Robots!IInv, Robots!BotsSafe

LEMMA BotExpired ==
  ASSUME Robots!IInv, NEW b \in BotThreads,
         Robots!Expired(b)
  PROVE  Robots!IInv'
<1>1. /\ bot' \in [BotThreads -> Robots!Bot]
      /\ bot'[b].at = "release woman" /\ bot'[b].uid = bot[b].uid /\ bot'[b].started = bot[b].started
      /\ bot'[b].man = bot[b].man /\ bot'[b].talks = bot[b].talks
      /\ \A c \in BotThreads : c # b => bot'[c] = bot[c]
  BY Zenon, BotGoes DEF Robots!Expired, Robots!Places
<1>2. /\ bot[b].at = "top" /\ bot[b].started /\ ~ stop /\ (alone => b = Robots!Chosen)
      /\ UNCHANGED <<alone, fails, women, men, stop>>
      /\ online' = online \ {bot[b].uid}
  BY Zenon DEF Robots!Expired, Robots!At, Robots!settings
<1>3. Robots!TypeOK'
  BY Zenon, <1>1, <1>2, BotTyped, BotAssumption DEF Robots!IInv, Robots!TypeOK
<1>4. Robots!Consistent(b)'
  BY Zenon, <1>1, <1>2, BotAssumption DEF Robots!IInv, Robots!Consistent
<1>5. \A c \in BotThreads : c # b => Robots!Consistent(c)'
  BY Zenon, <1>1, <1>2, BotApart DEF Robots!IInv, Robots!Consistent
<1>6. Robots!OneWoman'
  <2>a. \A c \in BotThreads : Robots!Living(c) /\ bot[c].uid # None /\ ~ stop => women[bot[c].uid] = c
    BY Zenon DEF Robots!IInv, Robots!BotsSafe, Robots!OneWoman
  <2>1. ASSUME NEW c \in BotThreads, Robots!Living(c)', bot'[c].uid # None, ~ stop'
        PROVE  women'[bot'[c].uid] = c
    <3>1. CASE c = b
      BY Zenon, <3>1, <1>1, <1>2, <2>a, <2>1, BotTyped DEF Robots!Living
    <3>2. CASE c # b
      <4>1. Robots!Living(c) /\ ~ stop /\ bot'[c] = bot[c] /\ women[bot[c].uid] = c /\ bot[c].uid \in Women
        BY Zenon, <3>2, <1>1, <1>2, <2>a, <2>1, BotTyped DEF Robots!Living
      <4>2. QED
        BY Zenon, <3>2, <4>1, <1>1, <1>2, <2>a, BotTyped, BotAssumption DEF Robots!Living
    <3>3. QED
      BY <3>1, <3>2
  <2>2. \A x \in online' : women'[x] # None \/ stop'
    <3>1. \A x \in online : x \in Women /\ (women[x] # None \/ stop)
      BY Zenon DEF Robots!IInv, Robots!TypeOK, Robots!BotsSafe, Robots!OneWoman
    <3>2. SUFFICES ASSUME NEW x \in online', ~ stop' PROVE women'[x] # None
      OBVIOUS
    <3>3. /\ bot[b].at = "release woman" /\ ~ stop => bot[b].uid \notin online
          /\ bot[b].at = "simulate" /\ ~ stop => bot[b].uid \in Women /\ women[bot[b].uid] = b
      BY Zenon, <2>a, BotTyped, BotAssumption DEF Robots!Living
    <3>4. QED
      BY <3>1, <3>2, <3>3, <1>2, BotAssumption
  <2>3. ASSUME NEW c \in BotThreads, Robots!Living(c)', bot'[c].started, bot'[c].at # "release woman"
        PROVE  bot'[c].uid \in online'
    <3>0. bot[c].started => bot[c].uid # None
      BY Zenon DEF Robots!IInv, Robots!Consistent
    <3>1. CASE c = b
      BY Zenon, <3>0, <3>1, <1>1, <1>2, <2>3 DEF Robots!IInv, Robots!BotsSafe, Robots!OneWoman, Robots!Living
    <3>2. CASE c # b
      <4>1. Robots!Living(c) /\ bot[c].started /\ bot[c].at # "release woman" /\ bot'[c] = bot[c]
        BY Zenon, <3>2, <1>1, <2>3 DEF Robots!Living
      <4>2. bot[c].uid \in online
        BY Zenon, <4>1 DEF Robots!IInv, Robots!BotsSafe, Robots!OneWoman
      <4>3. Robots!Living(b) /\ ~ stop => bot[c].uid # bot[b].uid
        BY Zenon, <4>1, <3>0, <3>2, <2>a
      <4>4. QED
        BY Zenon, <4>1, <4>2, <4>3, <1>2 DEF Robots!Living
    <3>3. QED
      BY <3>1, <3>2
  <2>4. QED
    BY Zenon, <2>1, <2>2, <2>3 DEF Robots!OneWoman, Robots!Living
<1>7. Robots!NoneLost'
  <2> SUFFICES ASSUME ~ fails', \A c \in BotThreads : bot'[c].at # "dead", NEW x \in Women, women'[x] # None
              PROVE  bot'[women'[x]].uid = x
    BY DEF Robots!NoneLost, Robots!Living
  <2>1. \A c \in BotThreads : bot[c].at # "dead"
    BY Zenon, <1>1, <1>2
  <2>2. women[x] # None => women[x] \in BotThreads /\ bot[women[x]].uid = x
    BY <1>2, <2>1 DEF Robots!IInv, Robots!BotsSafe, Robots!NoneLost, Robots!Living, Robots!TypeOK
  <2>3. QED
    <3>1. CASE women'[x] = b
      BY Zenon, <3>1, <1>1, <1>2, <2>2, BotTyped, BotAssumption
    <3>2. CASE women'[x] # b
      BY Zenon, <3>2, <1>1, <1>2, <2>2
    <3>3. QED
      BY <3>1, <3>2
<1>8. Robots!OwnManAlone'
  BY Zenon, <1>1, <1>2, BotTyped DEF Robots!IInv, Robots!BotsSafe, Robots!OwnManAlone, Robots!OwnMan, Robots!Living, Robots!Consistent
<1>9. QED
  BY <1>3, <1>4, <1>5, <1>6, <1>7, <1>8 DEF Robots!IInv, Robots!BotsSafe

LEMMA BotReleaseWoman ==
  ASSUME Robots!IInv, NEW b \in BotThreads,
         Robots!ReleaseWoman(b)
  PROVE  Robots!IInv'
<1> DEFINE n == [bot[b] EXCEPT !.at = "continue", !.uid = None, !.started = FALSE]
<1>n. /\ n \in Robots!Bot /\ n.at = "continue" /\ n.uid = None /\ n.started = FALSE
      /\ n.man = bot[b].man /\ n.talks = bot[b].talks
  BY Zenon, BotInType DEF Robots!Bot, Robots!Places
<1>m. bot' = [bot EXCEPT ![b] = n]
  BY Zenon DEF Robots!ReleaseWoman
<1> HIDE DEF n
<1>1. /\ bot' \in [BotThreads -> Robots!Bot]
      /\ bot'[b].at = "continue" /\ bot'[b].uid = None /\ bot'[b].started = FALSE
      /\ bot'[b].man = bot[b].man /\ bot'[b].talks = bot[b].talks
      /\ \A c \in BotThreads : c # b => bot'[c] = bot[c]
  BY Zenon, <1>n, <1>m, BotChange
<1>2. /\ bot[b].at = "release woman" /\ (alone => b = Robots!Chosen)
      /\ UNCHANGED <<alone, fails, men, online, stop>>
      /\ women' = [women EXCEPT ![bot[b].uid] = None]
  BY Zenon DEF Robots!ReleaseWoman, Robots!At, Robots!settings
<1>3. Robots!TypeOK'
  BY Zenon, <1>1, <1>2, BotTyped, BotAssumption DEF Robots!IInv, Robots!TypeOK
<1>p. \A w \in Women : women'[w] = IF w = bot[b].uid THEN None ELSE women[w]
  BY Zenon, <1>2, BotTyped, BotAssumption DEF Robots!IInv, Robots!TypeOK
<1>4. Robots!Consistent(b)'
  BY Zenon, <1>1, <1>2, BotAssumption DEF Robots!IInv, Robots!Consistent
<1>5. \A c \in BotThreads : c # b => Robots!Consistent(c)'
  BY Zenon, <1>1, <1>2, BotApart DEF Robots!IInv, Robots!Consistent
<1>6. Robots!OneWoman'
  <2>a. \A c \in BotThreads : Robots!Living(c) /\ bot[c].uid # None /\ ~ stop => women[bot[c].uid] = c
    BY Zenon DEF Robots!IInv, Robots!BotsSafe, Robots!OneWoman
  <2>1. ASSUME NEW c \in BotThreads, Robots!Living(c)', bot'[c].uid # None, ~ stop'
        PROVE  women'[bot'[c].uid] = c
    <3>1. CASE c = b
      BY Zenon, <3>1, <1>1, <1>2, <1>p, <2>a, <2>1, BotTyped DEF Robots!Living
    <3>2. CASE c # b
      <4>1. Robots!Living(c) /\ ~ stop /\ bot'[c] = bot[c] /\ women[bot[c].uid] = c /\ bot[c].uid \in Women
        BY Zenon, <3>2, <1>1, <1>2, <2>a, <2>1, BotTyped DEF Robots!Living
      <4>2. QED
        BY Zenon, <3>2, <4>1, <1>1, <1>2, <1>p, <2>a, BotTyped, BotAssumption DEF Robots!Living
    <3>3. QED
      BY <3>1, <3>2
  <2>2. \A x \in online' : women'[x] # None \/ stop'
    <3>1. \A x \in online : x \in Women /\ (women[x] # None \/ stop)
      BY Zenon DEF Robots!IInv, Robots!TypeOK, Robots!BotsSafe, Robots!OneWoman
    <3>2. SUFFICES ASSUME NEW x \in online', ~ stop' PROVE women'[x] # None
      OBVIOUS
    <3>3. /\ bot[b].at = "release woman" /\ ~ stop => bot[b].uid \notin online
          /\ bot[b].at = "simulate" /\ ~ stop => bot[b].uid \in Women /\ women[bot[b].uid] = b
      BY Zenon, <2>a, BotTyped, BotAssumption DEF Robots!Living
    <3>4. QED
      BY Zenon, <3>1, <3>2, <3>3, <1>2, <1>p, BotAssumption
  <2>3. ASSUME NEW c \in BotThreads, Robots!Living(c)', bot'[c].started, bot'[c].at # "release woman"
        PROVE  bot'[c].uid \in online'
    <3>0. bot[c].started => bot[c].uid # None
      BY Zenon DEF Robots!IInv, Robots!Consistent
    <3>1. CASE c = b
      BY Zenon, <3>0, <3>1, <1>1, <1>2, <2>3 DEF Robots!IInv, Robots!BotsSafe, Robots!OneWoman, Robots!Living
    <3>2. CASE c # b
      <4>1. Robots!Living(c) /\ bot[c].started /\ bot[c].at # "release woman" /\ bot'[c] = bot[c]
        BY Zenon, <3>2, <1>1, <2>3 DEF Robots!Living
      <4>2. bot[c].uid \in online
        BY Zenon, <4>1 DEF Robots!IInv, Robots!BotsSafe, Robots!OneWoman
      <4>3. Robots!Living(b) /\ ~ stop => bot[c].uid # bot[b].uid
        BY Zenon, <4>1, <3>0, <3>2, <2>a
      <4>4. QED
        BY Zenon, <4>1, <4>2, <4>3, <1>2 DEF Robots!Living
    <3>3. QED
      BY <3>1, <3>2
  <2>4. QED
    BY Zenon, <2>1, <2>2, <2>3 DEF Robots!OneWoman, Robots!Living
<1>7. Robots!NoneLost'
  <2> SUFFICES ASSUME ~ fails', \A c \in BotThreads : bot'[c].at # "dead", NEW x \in Women, women'[x] # None
              PROVE  bot'[women'[x]].uid = x
    BY DEF Robots!NoneLost, Robots!Living
  <2>1. \A c \in BotThreads : bot[c].at # "dead"
    BY Zenon, <1>1, <1>2
  <2>2. women[x] # None => women[x] \in BotThreads /\ bot[women[x]].uid = x
    BY Zenon, <1>2, <2>1 DEF Robots!IInv, Robots!BotsSafe, Robots!NoneLost, Robots!Living, Robots!TypeOK
  <2>3. QED
    <3>1. CASE women'[x] = b
      BY Zenon, <3>1, <1>1, <1>2, <1>p, <2>2, BotTyped, BotAssumption
    <3>2. CASE women'[x] # b
      BY <3>2, <1>1, <1>p, <2>2
    <3>3. QED
      BY <3>1, <3>2
<1>8. Robots!OwnManAlone'
  BY Zenon, <1>1, <1>2, <1>p, BotTyped DEF Robots!IInv, Robots!BotsSafe, Robots!OwnManAlone, Robots!OwnMan, Robots!Living, Robots!Consistent
<1>9. QED
  BY <1>3, <1>4, <1>5, <1>6, <1>7, <1>8 DEF Robots!IInv, Robots!BotsSafe

LEMMA BotLeave ==
  ASSUME Robots!IInv, NEW b \in BotThreads,
         Robots!Leave(b)
  PROVE  Robots!IInv'
<1>1. /\ bot' \in [BotThreads -> Robots!Bot]
      /\ bot'[b].at = "dead" /\ bot'[b].uid = bot[b].uid /\ bot'[b].started = bot[b].started
      /\ bot'[b].man = bot[b].man /\ bot'[b].talks = bot[b].talks
      /\ \A c \in BotThreads : c # b => bot'[c] = bot[c]
  BY Zenon, BotGoes DEF Robots!Leave, Robots!Places
<1>2. /\ bot[b].at = "top" /\ stop /\ (alone => b = Robots!Chosen)
      /\ UNCHANGED <<alone, fails, men, online, stop>>
      /\ women' = IF bot[b].uid = None THEN women ELSE [women EXCEPT ![bot[b].uid] = None]
  BY DEF Robots!Leave, Robots!At, Robots!settings
<1>3. Robots!TypeOK'
  BY <1>1, <1>2, BotTyped, BotAssumption DEF Robots!IInv, Robots!TypeOK
<1>p. \A w \in Women : women'[w] = IF w = bot[b].uid THEN None ELSE women[w]
  BY <1>2, BotTyped, BotAssumption DEF Robots!IInv, Robots!TypeOK
<1>4. Robots!Consistent(b)'
  BY Zenon, <1>1, <1>2, BotAssumption DEF Robots!IInv, Robots!Consistent
<1>5. \A c \in BotThreads : c # b => Robots!Consistent(c)'
  BY Zenon, <1>1, <1>2, BotApart DEF Robots!IInv, Robots!Consistent
<1>6. Robots!OneWoman'
  <2>a. \A c \in BotThreads : Robots!Living(c) /\ bot[c].uid # None /\ ~ stop => women[bot[c].uid] = c
    BY Zenon DEF Robots!IInv, Robots!BotsSafe, Robots!OneWoman
  <2>1. ASSUME NEW c \in BotThreads, Robots!Living(c)', bot'[c].uid # None, ~ stop'
        PROVE  women'[bot'[c].uid] = c
    <3>1. CASE c = b
      BY <3>1, <1>1, <1>2, <1>p, <2>a, <2>1, BotTyped DEF Robots!Living
    <3>2. CASE c # b
      <4>1. Robots!Living(c) /\ ~ stop /\ bot'[c] = bot[c] /\ women[bot[c].uid] = c /\ bot[c].uid \in Women
        BY <3>2, <1>1, <1>2, <2>a, <2>1, BotTyped DEF Robots!Living
      <4>2. QED
        BY <3>2, <4>1, <1>1, <1>2, <1>p, <2>a, BotTyped, BotAssumption DEF Robots!Living
    <3>3. QED
      BY <3>1, <3>2
  <2>2. \A x \in online' : women'[x] # None \/ stop'
    <3>1. \A x \in online : x \in Women /\ (women[x] # None \/ stop)
      BY Zenon DEF Robots!IInv, Robots!TypeOK, Robots!BotsSafe, Robots!OneWoman
    <3>2. SUFFICES ASSUME NEW x \in online', ~ stop' PROVE women'[x] # None
      OBVIOUS
    <3>3. /\ bot[b].at = "release woman" /\ ~ stop => bot[b].uid \notin online
          /\ bot[b].at = "simulate" /\ ~ stop => bot[b].uid \in Women /\ women[bot[b].uid] = b
      BY Zenon, <2>a, BotTyped, BotAssumption DEF Robots!Living
    <3>4. QED
      BY <3>1, <3>2, <3>3, <1>2, <1>p, BotAssumption
  <2>3. ASSUME NEW c \in BotThreads, Robots!Living(c)', bot'[c].started, bot'[c].at # "release woman"
        PROVE  bot'[c].uid \in online'
    <3>0. bot[c].started => bot[c].uid # None
      BY Zenon DEF Robots!IInv, Robots!Consistent
    <3>1. CASE c = b
      BY Zenon, <3>0, <3>1, <1>1, <1>2, <2>3 DEF Robots!IInv, Robots!BotsSafe, Robots!OneWoman, Robots!Living
    <3>2. CASE c # b
      <4>1. Robots!Living(c) /\ bot[c].started /\ bot[c].at # "release woman" /\ bot'[c] = bot[c]
        BY Zenon, <3>2, <1>1, <2>3 DEF Robots!Living
      <4>2. bot[c].uid \in online
        BY Zenon, <4>1 DEF Robots!IInv, Robots!BotsSafe, Robots!OneWoman
      <4>3. Robots!Living(b) /\ ~ stop => bot[c].uid # bot[b].uid
        BY Zenon, <4>1, <3>0, <3>2, <2>a
      <4>4. QED
        BY Zenon, <4>1, <4>2, <4>3, <1>2 DEF Robots!Living
    <3>3. QED
      BY <3>1, <3>2
  <2>4. QED
    BY Zenon, <2>1, <2>2, <2>3 DEF Robots!OneWoman, Robots!Living
<1>7. Robots!NoneLost'
  <2> SUFFICES ASSUME ~ fails', \A c \in BotThreads : bot'[c].at # "dead", NEW x \in Women, women'[x] # None
              PROVE  bot'[women'[x]].uid = x
    BY DEF Robots!NoneLost, Robots!Living
  <2>1. \A c \in BotThreads : bot[c].at # "dead"
    BY <1>1, <1>2
  <2>2. women[x] # None => women[x] \in BotThreads /\ bot[women[x]].uid = x
    BY <1>2, <2>1 DEF Robots!IInv, Robots!BotsSafe, Robots!NoneLost, Robots!Living, Robots!TypeOK
  <2>3. QED
    <3>1. CASE women'[x] = b
      BY <3>1, <1>1, <1>2, <1>p, <2>2, BotTyped, BotAssumption
    <3>2. CASE women'[x] # b
      BY <3>2, <1>1, <1>p, <2>2
    <3>3. QED
      BY <3>1, <3>2
<1>8. Robots!OwnManAlone'
  BY Zenon, <1>1, <1>2, <1>p, BotTyped DEF Robots!IInv, Robots!BotsSafe, Robots!OwnManAlone, Robots!OwnMan, Robots!Living, Robots!Consistent
<1>9. QED
  BY <1>3, <1>4, <1>5, <1>6, <1>7, <1>8 DEF Robots!IInv, Robots!BotsSafe

(* A woman is taken, and simulated.                                        *)
Bot_Takes(b, w) ==
  /\ women[w] = None /\ bot[b].at = "top" /\ ~ stop /\ ~ bot[b].started
  /\ (alone => b = Robots!Chosen) /\ women' = [women EXCEPT ![w] = b]
  /\ bot' = [bot EXCEPT ![b] = [@ EXCEPT !.at = "simulate", !.uid = w]]
  /\ UNCHANGED <<alone, fails, men, online, stop>>
LEMMA BotTakes ==
  ASSUME Robots!IInv, NEW b \in BotThreads, NEW w \in Women, Bot_Takes(b, w)
  PROVE  Robots!IInv'
<1> DEFINE n == [bot[b] EXCEPT !.at = "simulate", !.uid = w]
<1>n. /\ n \in Robots!Bot /\ n.at = "simulate" /\ n.uid = w /\ n.started = bot[b].started
      /\ n.man = bot[b].man /\ n.talks = bot[b].talks
  BY Zenon, BotInType DEF Robots!Bot, Robots!Places
<1>m. bot' = [bot EXCEPT ![b] = n]
  BY DEF Bot_Takes
<1> HIDE DEF n
<1>1. /\ bot' \in [BotThreads -> Robots!Bot]
      /\ bot'[b].at = "simulate" /\ bot'[b].uid = w /\ bot'[b].started = bot[b].started
      /\ bot'[b].man = bot[b].man /\ bot'[b].talks = bot[b].talks
      /\ \A c \in BotThreads : c # b => bot'[c] = bot[c]
  BY Zenon, <1>n, <1>m, BotChange
<1>2. /\ bot[b].at = "top" /\ ~ bot[b].started /\ ~ stop /\ women[w] = None /\ (alone => b = Robots!Chosen)
      /\ UNCHANGED <<alone, fails, men, online, stop>>
      /\ women' = [women EXCEPT ![w] = b]
  BY DEF Bot_Takes
<1>3. Robots!TypeOK'
  BY Zenon, <1>1, <1>2, BotTyped, BotAssumption DEF Robots!IInv, Robots!TypeOK
<1>p. \A y \in Women : women'[y] = IF y = w THEN b ELSE women[y]
  BY Zenon, <1>2, BotTyped, BotAssumption DEF Robots!IInv, Robots!TypeOK
<1>4. Robots!Consistent(b)'
  BY Zenon, <1>1, <1>2, BotAssumption DEF Robots!IInv, Robots!Consistent
<1>5. \A c \in BotThreads : c # b => Robots!Consistent(c)'
  BY Zenon, <1>1, <1>2, BotApart DEF Robots!IInv, Robots!Consistent
<1>6. Robots!OneWoman'
  <2>a. \A c \in BotThreads : Robots!Living(c) /\ bot[c].uid # None /\ ~ stop => women[bot[c].uid] = c
    BY Zenon DEF Robots!IInv, Robots!BotsSafe, Robots!OneWoman
  <2>1. ASSUME NEW c \in BotThreads, Robots!Living(c)', bot'[c].uid # None, ~ stop'
        PROVE  women'[bot'[c].uid] = c
    <3>1. CASE c = b
      BY Zenon, <3>1, <1>1, <1>2, <1>p, <2>a, <2>1, BotTyped DEF Robots!Living
    <3>2. CASE c # b
      <4>1. Robots!Living(c) /\ ~ stop /\ bot'[c] = bot[c] /\ women[bot[c].uid] = c /\ bot[c].uid \in Women
        BY Zenon, <3>2, <1>1, <1>2, <2>a, <2>1, BotTyped DEF Robots!Living
      <4>2. QED
        BY Zenon, <3>2, <4>1, <1>1, <1>2, <1>p, <2>a, BotTyped, BotAssumption DEF Robots!Living
    <3>3. QED
      BY <3>1, <3>2
  <2>2. \A x \in online' : women'[x] # None \/ stop'
    <3>1. \A x \in online : x \in Women /\ (women[x] # None \/ stop)
      BY Zenon DEF Robots!IInv, Robots!TypeOK, Robots!BotsSafe, Robots!OneWoman
    <3>2. SUFFICES ASSUME NEW x \in online', ~ stop' PROVE women'[x] # None
      OBVIOUS
    <3>3. /\ bot[b].at = "release woman" /\ ~ stop => bot[b].uid \notin online
          /\ bot[b].at = "simulate" /\ ~ stop => bot[b].uid \in Women /\ women[bot[b].uid] = b
      BY Zenon, <2>a, BotTyped, BotAssumption DEF Robots!Living
    <3>4. QED
      BY <3>1, <3>2, <3>3, <1>2, <1>p, BotAssumption
  <2>3. ASSUME NEW c \in BotThreads, Robots!Living(c)', bot'[c].started, bot'[c].at # "release woman"
        PROVE  bot'[c].uid \in online'
    <3>0. bot[c].started => bot[c].uid # None
      BY Zenon DEF Robots!IInv, Robots!Consistent
    <3>1. CASE c = b
      BY Zenon, <3>0, <3>1, <1>1, <1>2, <2>3 DEF Robots!IInv, Robots!BotsSafe, Robots!OneWoman, Robots!Living
    <3>2. CASE c # b
      <4>1. Robots!Living(c) /\ bot[c].started /\ bot[c].at # "release woman" /\ bot'[c] = bot[c]
        BY Zenon, <3>2, <1>1, <2>3 DEF Robots!Living
      <4>2. bot[c].uid \in online
        BY Zenon, <4>1 DEF Robots!IInv, Robots!BotsSafe, Robots!OneWoman
      <4>3. Robots!Living(b) /\ ~ stop => bot[c].uid # bot[b].uid
        BY Zenon, <4>1, <3>0, <3>2, <2>a
      <4>4. QED
        BY Zenon, <4>1, <4>2, <4>3, <1>2 DEF Robots!Living
    <3>3. QED
      BY <3>1, <3>2
  <2>4. QED
    BY Zenon, <2>1, <2>2, <2>3 DEF Robots!OneWoman, Robots!Living
<1>7. Robots!NoneLost'
  <2> SUFFICES ASSUME ~ fails', \A c \in BotThreads : bot'[c].at # "dead", NEW x \in Women, women'[x] # None
              PROVE  bot'[women'[x]].uid = x
    BY DEF Robots!NoneLost, Robots!Living
  <2>1. \A c \in BotThreads : bot[c].at # "dead"
    BY <1>1, <1>2
  <2>2. women[x] # None => women[x] \in BotThreads /\ bot[women[x]].uid = x
    BY <1>2, <2>1 DEF Robots!IInv, Robots!BotsSafe, Robots!NoneLost, Robots!Living, Robots!TypeOK
  <2>3. QED
    <3>1. CASE women'[x] = b
      BY Zenon, <3>1, <1>1, <1>2, <1>p, <2>2, BotTyped, BotAssumption
    <3>2. CASE women'[x] # b
      BY <3>2, <1>1, <1>p, <2>2
    <3>3. QED
      BY <3>1, <3>2
<1>8. Robots!OwnManAlone'
  BY Zenon, <1>1, <1>2, <1>p, BotTyped DEF Robots!IInv, Robots!BotsSafe, Robots!OwnManAlone, Robots!OwnMan, Robots!Living, Robots!Consistent
<1>9. QED
  BY <1>3, <1>4, <1>5, <1>6, <1>7, <1>8 DEF Robots!IInv, Robots!BotsSafe

Bot_Simulates(b) ==
  /\ bot[b].at = "simulate" /\ (alone => b = Robots!Chosen)
  /\ online' = online \cup {bot[b].uid}
  /\ bot' = [bot EXCEPT ![b] = [@ EXCEPT !.at = "work", !.started = TRUE]]
  /\ UNCHANGED <<alone, fails, women, men, stop>>
LEMMA BotSimulates ==
  ASSUME Robots!IInv, NEW b \in BotThreads, Bot_Simulates(b)
  PROVE  Robots!IInv'
<1> DEFINE n == [bot[b] EXCEPT !.at = "work", !.started = TRUE]
<1>n. /\ n \in Robots!Bot /\ n.at = "work" /\ n.uid = bot[b].uid /\ n.started = TRUE
      /\ n.man = bot[b].man /\ n.talks = bot[b].talks
  BY Zenon, BotInType DEF Robots!Bot, Robots!Places
<1>m. bot' = [bot EXCEPT ![b] = n]
  BY DEF Bot_Simulates
<1> HIDE DEF n
<1>1. /\ bot' \in [BotThreads -> Robots!Bot]
      /\ bot'[b].at = "work" /\ bot'[b].uid = bot[b].uid /\ bot'[b].started = TRUE
      /\ bot'[b].man = bot[b].man /\ bot'[b].talks = bot[b].talks
      /\ \A c \in BotThreads : c # b => bot'[c] = bot[c]
  BY Zenon, <1>n, <1>m, BotChange
<1>2. /\ bot[b].at = "simulate" /\ (alone => b = Robots!Chosen)
      /\ UNCHANGED <<alone, fails, women, men, stop>>
      /\ online' = online \cup {bot[b].uid}
  BY DEF Bot_Simulates
<1>3. Robots!TypeOK'
  BY Zenon, <1>1, <1>2, BotTyped, BotAssumption DEF Robots!IInv, Robots!TypeOK
<1>4. Robots!Consistent(b)'
  BY Zenon, <1>1, <1>2, BotAssumption DEF Robots!IInv, Robots!Consistent
<1>5. \A c \in BotThreads : c # b => Robots!Consistent(c)'
  BY Zenon, <1>1, <1>2, BotApart DEF Robots!IInv, Robots!Consistent
<1>6. Robots!OneWoman'
  <2>a. \A c \in BotThreads : Robots!Living(c) /\ bot[c].uid # None /\ ~ stop => women[bot[c].uid] = c
    BY Zenon DEF Robots!IInv, Robots!BotsSafe, Robots!OneWoman
  <2>1. ASSUME NEW c \in BotThreads, Robots!Living(c)', bot'[c].uid # None, ~ stop'
        PROVE  women'[bot'[c].uid] = c
    <3>1. CASE c = b
      BY Zenon, <3>1, <1>1, <1>2, <2>a, <2>1, BotTyped DEF Robots!Living
    <3>2. CASE c # b
      <4>1. Robots!Living(c) /\ ~ stop /\ bot'[c] = bot[c] /\ women[bot[c].uid] = c /\ bot[c].uid \in Women
        BY Zenon, <3>2, <1>1, <1>2, <2>a, <2>1, BotTyped DEF Robots!Living
      <4>2. QED
        BY Zenon, <3>2, <4>1, <1>1, <1>2, <2>a, BotTyped, BotAssumption DEF Robots!Living
    <3>3. QED
      BY <3>1, <3>2
  <2>2. \A x \in online' : women'[x] # None \/ stop'
    <3>1. \A x \in online : x \in Women /\ (women[x] # None \/ stop)
      BY Zenon DEF Robots!IInv, Robots!TypeOK, Robots!BotsSafe, Robots!OneWoman
    <3>2. SUFFICES ASSUME NEW x \in online', ~ stop' PROVE women'[x] # None
      OBVIOUS
    <3>3. /\ bot[b].at = "release woman" /\ ~ stop => bot[b].uid \notin online
          /\ bot[b].at = "simulate" /\ ~ stop => bot[b].uid \in Women /\ women[bot[b].uid] = b
      BY Zenon, <2>a, BotTyped, BotAssumption DEF Robots!Living
    <3>4. QED
      BY <3>1, <3>2, <3>3, <1>2, BotAssumption
  <2>3. ASSUME NEW c \in BotThreads, Robots!Living(c)', bot'[c].started, bot'[c].at # "release woman"
        PROVE  bot'[c].uid \in online'
    <3>0. bot[c].started => bot[c].uid # None
      BY Zenon DEF Robots!IInv, Robots!Consistent
    <3>1. CASE c = b
      BY Zenon, <3>0, <3>1, <1>1, <1>2, <2>3 DEF Robots!IInv, Robots!BotsSafe, Robots!OneWoman, Robots!Living
    <3>2. CASE c # b
      <4>1. Robots!Living(c) /\ bot[c].started /\ bot[c].at # "release woman" /\ bot'[c] = bot[c]
        BY Zenon, <3>2, <1>1, <2>3 DEF Robots!Living
      <4>2. bot[c].uid \in online
        BY Zenon, <4>1 DEF Robots!IInv, Robots!BotsSafe, Robots!OneWoman
      <4>3. Robots!Living(b) /\ ~ stop => bot[c].uid # bot[b].uid
        BY Zenon, <4>1, <3>0, <3>2, <2>a
      <4>4. QED
        BY Zenon, <4>1, <4>2, <4>3, <1>2 DEF Robots!Living
    <3>3. QED
      BY <3>1, <3>2
  <2>4. QED
    BY Zenon, <2>1, <2>2, <2>3 DEF Robots!OneWoman, Robots!Living
<1>7. Robots!NoneLost'
  <2> SUFFICES ASSUME ~ fails', \A c \in BotThreads : bot'[c].at # "dead", NEW x \in Women, women'[x] # None
              PROVE  bot'[women'[x]].uid = x
    BY DEF Robots!NoneLost, Robots!Living
  <2>1. \A c \in BotThreads : bot[c].at # "dead"
    BY <1>1, <1>2
  <2>2. women[x] # None => women[x] \in BotThreads /\ bot[women[x]].uid = x
    BY <1>2, <2>1 DEF Robots!IInv, Robots!BotsSafe, Robots!NoneLost, Robots!Living, Robots!TypeOK
  <2>3. QED
    <3>1. CASE women'[x] = b
      BY Zenon, <3>1, <1>1, <1>2, <2>2, BotTyped, BotAssumption
    <3>2. CASE women'[x] # b
      BY <3>2, <1>1, <1>2, <2>2
    <3>3. QED
      BY <3>1, <3>2
<1>8. Robots!OwnManAlone'
  BY Zenon, <1>1, <1>2, BotTyped DEF Robots!IInv, Robots!BotsSafe, Robots!OwnManAlone, Robots!OwnMan, Robots!Living, Robots!Consistent
<1>9. QED
  BY <1>3, <1>4, <1>5, <1>6, <1>7, <1>8 DEF Robots!IInv, Robots!BotsSafe

(* A man is given to the bot, and left to others.                          *)
Bot_Meets(b, m, l) ==
  /\ bot[b].at = "work" /\ (alone => b = Robots!Chosen)
  /\ men' = [men EXCEPT ![m] = b]
  /\ bot' = [bot EXCEPT ![b] = [@ EXCEPT !.at = l, !.man = m, !.talks = (l = "talk")]]
  /\ UNCHANGED <<alone, fails, women, online, stop>>
LEMMA BotMeets ==
  ASSUME Robots!IInv, NEW b \in BotThreads, NEW m \in Men, NEW l \in {"talk", "continue"}, Bot_Meets(b, m, l)
  PROVE  Robots!IInv'
<1> DEFINE n == [bot[b] EXCEPT !.at = l, !.man = m, !.talks = (l = "talk")]
<1>n. /\ n \in Robots!Bot /\ n.at = l /\ n.uid = bot[b].uid /\ n.started = bot[b].started
      /\ n.man = m /\ n.talks = (l = "talk")
  BY Zenon, BotInType DEF Robots!Bot, Robots!Places
<1>m. bot' = [bot EXCEPT ![b] = n]
  BY DEF Bot_Meets
<1> HIDE DEF n
<1>1. /\ bot' \in [BotThreads -> Robots!Bot]
      /\ bot'[b].at = l /\ bot'[b].uid = bot[b].uid /\ bot'[b].started = bot[b].started
      /\ bot'[b].man = m /\ bot'[b].talks = (l = "talk")
      /\ \A c \in BotThreads : c # b => bot'[c] = bot[c]
  BY Zenon, <1>n, <1>m, BotChange
<1>2. /\ bot[b].at = "work" /\ (alone => b = Robots!Chosen) /\ l \in {"talk", "continue"}
      /\ UNCHANGED <<alone, fails, women, online, stop>>
      /\ men' = [men EXCEPT ![m] = b]
  BY DEF Bot_Meets
<1>3. Robots!TypeOK'
  BY Zenon, <1>1, <1>2, BotTyped, BotAssumption DEF Robots!IInv, Robots!TypeOK
<1>p. \A x \in Men : men'[x] = IF x = m THEN b ELSE men[x]
  BY Zenon, <1>2, BotTyped, BotAssumption DEF Robots!IInv, Robots!TypeOK
<1>4. Robots!Consistent(b)'
  BY Zenon, <1>1, <1>2, BotAssumption DEF Robots!IInv, Robots!Consistent
<1>5. \A c \in BotThreads : c # b => Robots!Consistent(c)'
  BY Zenon, <1>1, <1>2, BotApart DEF Robots!IInv, Robots!Consistent
<1>6. Robots!OneWoman'
  <2>a. \A c \in BotThreads : Robots!Living(c) /\ bot[c].uid # None /\ ~ stop => women[bot[c].uid] = c
    BY Zenon DEF Robots!IInv, Robots!BotsSafe, Robots!OneWoman
  <2>1. ASSUME NEW c \in BotThreads, Robots!Living(c)', bot'[c].uid # None, ~ stop'
        PROVE  women'[bot'[c].uid] = c
    <3>1. CASE c = b
      BY Zenon, <3>1, <1>1, <1>2, <1>p, <2>a, <2>1, BotTyped DEF Robots!Living
    <3>2. CASE c # b
      <4>1. Robots!Living(c) /\ ~ stop /\ bot'[c] = bot[c] /\ women[bot[c].uid] = c /\ bot[c].uid \in Women
        BY Zenon, <3>2, <1>1, <1>2, <2>a, <2>1, BotTyped DEF Robots!Living
      <4>2. QED
        BY Zenon, <3>2, <4>1, <1>1, <1>2, <1>p, <2>a, BotTyped, BotAssumption DEF Robots!Living
    <3>3. QED
      BY <3>1, <3>2
  <2>2. \A x \in online' : women'[x] # None \/ stop'
    <3>1. \A x \in online : x \in Women /\ (women[x] # None \/ stop)
      BY Zenon DEF Robots!IInv, Robots!TypeOK, Robots!BotsSafe, Robots!OneWoman
    <3>2. SUFFICES ASSUME NEW x \in online', ~ stop' PROVE women'[x] # None
      OBVIOUS
    <3>3. /\ bot[b].at = "release woman" /\ ~ stop => bot[b].uid \notin online
          /\ bot[b].at = "simulate" /\ ~ stop => bot[b].uid \in Women /\ women[bot[b].uid] = b
      BY Zenon, <2>a, BotTyped, BotAssumption DEF Robots!Living
    <3>4. QED
      BY <3>1, <3>2, <3>3, <1>2, <1>p, BotAssumption
  <2>3. ASSUME NEW c \in BotThreads, Robots!Living(c)', bot'[c].started, bot'[c].at # "release woman"
        PROVE  bot'[c].uid \in online'
    <3>0. bot[c].started => bot[c].uid # None
      BY Zenon DEF Robots!IInv, Robots!Consistent
    <3>1. CASE c = b
      BY Zenon, <3>0, <3>1, <1>1, <1>2, <2>3 DEF Robots!IInv, Robots!BotsSafe, Robots!OneWoman, Robots!Living
    <3>2. CASE c # b
      <4>1. Robots!Living(c) /\ bot[c].started /\ bot[c].at # "release woman" /\ bot'[c] = bot[c]
        BY Zenon, <3>2, <1>1, <2>3 DEF Robots!Living
      <4>2. bot[c].uid \in online
        BY Zenon, <4>1 DEF Robots!IInv, Robots!BotsSafe, Robots!OneWoman
      <4>3. Robots!Living(b) /\ ~ stop => bot[c].uid # bot[b].uid
        BY Zenon, <4>1, <3>0, <3>2, <2>a
      <4>4. QED
        BY Zenon, <4>1, <4>2, <4>3, <1>2 DEF Robots!Living
    <3>3. QED
      BY <3>1, <3>2
  <2>4. QED
    BY Zenon, <2>1, <2>2, <2>3 DEF Robots!OneWoman, Robots!Living
<1>7. Robots!NoneLost'
  <2> SUFFICES ASSUME ~ fails', \A c \in BotThreads : bot'[c].at # "dead", NEW x \in Women, women'[x] # None
              PROVE  bot'[women'[x]].uid = x
    BY DEF Robots!NoneLost, Robots!Living
  <2>1. \A c \in BotThreads : bot[c].at # "dead"
    BY <1>1, <1>2
  <2>2. women[x] # None => women[x] \in BotThreads /\ bot[women[x]].uid = x
    BY <1>2, <2>1 DEF Robots!IInv, Robots!BotsSafe, Robots!NoneLost, Robots!Living, Robots!TypeOK
  <2>3. QED
    <3>1. CASE women'[x] = b
      BY Zenon, <3>1, <1>1, <1>2, <1>p, <2>2, BotTyped, BotAssumption
    <3>2. CASE women'[x] # b
      BY <3>2, <1>1, <1>2, <2>2
    <3>3. QED
      BY <3>1, <3>2
<1>8. Robots!OwnManAlone'
  BY Zenon, <1>1, <1>2, <1>p, BotTyped DEF Robots!IInv, Robots!BotsSafe, Robots!OwnManAlone, Robots!OwnMan, Robots!Living, Robots!Consistent
<1>9. QED
  BY <1>3, <1>4, <1>5, <1>6, <1>7, <1>8 DEF Robots!IInv, Robots!BotsSafe

Bot_LeavesMan(b, l) ==
  /\ bot[b].at \in {"talk", "continue"} /\ (l = "mail" => bot[b].at = "talk")
  /\ (alone => b = Robots!Chosen) /\ bot[b].man # None
  /\ men' = [men EXCEPT ![bot[b].man] = None]
  /\ bot' = [bot EXCEPT ![b] = [@ EXCEPT !.at = l, !.talks = FALSE]]
  /\ UNCHANGED <<alone, fails, women, online, stop>>
LEMMA BotLeavesMan ==
  ASSUME Robots!IInv, NEW b \in BotThreads, NEW l \in {"mail", "top"}, Bot_LeavesMan(b, l)
  PROVE  Robots!IInv'
<1> DEFINE n == [bot[b] EXCEPT !.at = l, !.talks = FALSE]
<1>n. /\ n \in Robots!Bot /\ n.at = l /\ n.uid = bot[b].uid /\ n.started = bot[b].started
      /\ n.man = bot[b].man /\ n.talks = FALSE
  BY Zenon, BotInType DEF Robots!Bot, Robots!Places
<1>m. bot' = [bot EXCEPT ![b] = n]
  BY DEF Bot_LeavesMan
<1> HIDE DEF n
<1>1. /\ bot' \in [BotThreads -> Robots!Bot]
      /\ bot'[b].at = l /\ bot'[b].uid = bot[b].uid /\ bot'[b].started = bot[b].started
      /\ bot'[b].man = bot[b].man /\ bot'[b].talks = FALSE
      /\ \A c \in BotThreads : c # b => bot'[c] = bot[c]
  BY Zenon, <1>n, <1>m, BotChange
<1>2. /\ bot[b].at \in {"talk", "continue"} /\ (alone => b = Robots!Chosen) /\ (l = "mail" => bot[b].at = "talk")
      /\ UNCHANGED <<alone, fails, women, online, stop>>
      /\ men' = [men EXCEPT ![bot[b].man] = None]
  BY DEF Bot_LeavesMan
<1>3. Robots!TypeOK'
  BY Zenon, <1>1, <1>2, BotTyped, BotAssumption DEF Robots!IInv, Robots!TypeOK
<1>p. \A x \in Men : men'[x] = IF x = bot[b].man THEN None ELSE men[x]
  BY Zenon, <1>2, BotTyped, BotAssumption DEF Robots!IInv, Robots!TypeOK
<1>4. Robots!Consistent(b)'
  BY Zenon, <1>1, <1>2, BotAssumption DEF Robots!IInv, Robots!Consistent
<1>5. \A c \in BotThreads : c # b => Robots!Consistent(c)'
  BY Zenon, <1>1, <1>2, BotApart DEF Robots!IInv, Robots!Consistent
<1>6. Robots!OneWoman'
  <2>a. \A c \in BotThreads : Robots!Living(c) /\ bot[c].uid # None /\ ~ stop => women[bot[c].uid] = c
    BY Zenon DEF Robots!IInv, Robots!BotsSafe, Robots!OneWoman
  <2>1. ASSUME NEW c \in BotThreads, Robots!Living(c)', bot'[c].uid # None, ~ stop'
        PROVE  women'[bot'[c].uid] = c
    <3>1. CASE c = b
      BY Zenon, <3>1, <1>1, <1>2, <1>p, <2>a, <2>1, BotTyped DEF Robots!Living
    <3>2. CASE c # b
      <4>1. Robots!Living(c) /\ ~ stop /\ bot'[c] = bot[c] /\ women[bot[c].uid] = c /\ bot[c].uid \in Women
        BY Zenon, <3>2, <1>1, <1>2, <2>a, <2>1, BotTyped DEF Robots!Living
      <4>2. QED
        BY Zenon, <3>2, <4>1, <1>1, <1>2, <1>p, <2>a, BotTyped, BotAssumption DEF Robots!Living
    <3>3. QED
      BY <3>1, <3>2
  <2>2. \A x \in online' : women'[x] # None \/ stop'
    <3>1. \A x \in online : x \in Women /\ (women[x] # None \/ stop)
      BY Zenon DEF Robots!IInv, Robots!TypeOK, Robots!BotsSafe, Robots!OneWoman
    <3>2. SUFFICES ASSUME NEW x \in online', ~ stop' PROVE women'[x] # None
      OBVIOUS
    <3>3. /\ bot[b].at = "release woman" /\ ~ stop => bot[b].uid \notin online
          /\ bot[b].at = "simulate" /\ ~ stop => bot[b].uid \in Women /\ women[bot[b].uid] = b
      BY Zenon, <2>a, BotTyped, BotAssumption DEF Robots!Living
    <3>4. QED
      BY Zenon, <3>1, <3>2, <3>3, <1>2, <1>p, BotAssumption
  <2>3. ASSUME NEW c \in BotThreads, Robots!Living(c)', bot'[c].started, bot'[c].at # "release woman"
        PROVE  bot'[c].uid \in online'
    <3>0. bot[c].started => bot[c].uid # None
      BY Zenon DEF Robots!IInv, Robots!Consistent
    <3>1. CASE c = b
      BY Zenon, <3>0, <3>1, <1>1, <1>2, <2>3 DEF Robots!IInv, Robots!BotsSafe, Robots!OneWoman, Robots!Living
    <3>2. CASE c # b
      <4>1. Robots!Living(c) /\ bot[c].started /\ bot[c].at # "release woman" /\ bot'[c] = bot[c]
        BY Zenon, <3>2, <1>1, <2>3 DEF Robots!Living
      <4>2. bot[c].uid \in online
        BY Zenon, <4>1 DEF Robots!IInv, Robots!BotsSafe, Robots!OneWoman
      <4>3. Robots!Living(b) /\ ~ stop => bot[c].uid # bot[b].uid
        BY Zenon, <4>1, <3>0, <3>2, <2>a
      <4>4. QED
        BY Zenon, <4>1, <4>2, <4>3, <1>2 DEF Robots!Living
    <3>3. QED
      BY <3>1, <3>2
  <2>4. QED
    BY Zenon, <2>1, <2>2, <2>3 DEF Robots!OneWoman, Robots!Living
<1>7. Robots!NoneLost'
  <2> SUFFICES ASSUME ~ fails', \A c \in BotThreads : bot'[c].at # "dead", NEW x \in Women, women'[x] # None
              PROVE  bot'[women'[x]].uid = x
    BY DEF Robots!NoneLost, Robots!Living
  <2>1. \A c \in BotThreads : bot[c].at # "dead"
    BY <1>1, <1>2
  <2>2. women[x] # None => women[x] \in BotThreads /\ bot[women[x]].uid = x
    BY <1>2, <2>1 DEF Robots!IInv, Robots!BotsSafe, Robots!NoneLost, Robots!Living, Robots!TypeOK
  <2>3. QED
    <3>1. CASE women'[x] = b
      BY Zenon, <3>1, <1>1, <1>2, <1>p, <2>2, BotTyped, BotAssumption
    <3>2. CASE women'[x] # b
      BY <3>2, <1>1, <1>2, <2>2
    <3>3. QED
      BY <3>1, <3>2
<1>8. Robots!OwnManAlone'
  BY Zenon, <1>1, <1>2, <1>p, BotTyped DEF Robots!IInv, Robots!BotsSafe, Robots!OwnManAlone, Robots!OwnMan, Robots!Living, Robots!Consistent
<1>9. QED
  BY <1>3, <1>4, <1>5, <1>6, <1>7, <1>8 DEF Robots!IInv, Robots!BotsSafe

Bot_Mails(b) ==
  /\ bot[b].at = "mail" /\ (alone => b = Robots!Chosen)
  /\ bot' = [bot EXCEPT ![b] = [@ EXCEPT !.at = "continue", !.man = None]]
  /\ UNCHANGED <<alone, fails, women, men, online, stop>>
LEMMA BotMails ==
  ASSUME Robots!IInv, NEW b \in BotThreads, Bot_Mails(b)
  PROVE  Robots!IInv'
<1> DEFINE n == [bot[b] EXCEPT !.at = "continue", !.man = None]
<1>n. /\ n \in Robots!Bot /\ n.at = "continue" /\ n.uid = bot[b].uid /\ n.started = bot[b].started
      /\ n.man = None /\ n.talks = bot[b].talks
  BY Zenon, BotInType DEF Robots!Bot, Robots!Places
<1>m. bot' = [bot EXCEPT ![b] = n]
  BY DEF Bot_Mails
<1> HIDE DEF n
<1>1. /\ bot' \in [BotThreads -> Robots!Bot]
      /\ bot'[b].at = "continue" /\ bot'[b].uid = bot[b].uid /\ bot'[b].started = bot[b].started
      /\ bot'[b].man = None /\ bot'[b].talks = bot[b].talks
      /\ \A c \in BotThreads : c # b => bot'[c] = bot[c]
  BY Zenon, <1>n, <1>m, BotChange
<1>2. /\ bot[b].at = "mail" /\ (alone => b = Robots!Chosen)
      /\ UNCHANGED <<alone, fails, women, men, online, stop>>
  BY DEF Bot_Mails
<1>3. Robots!TypeOK'
  BY Zenon, <1>1, <1>2, BotTyped, BotAssumption DEF Robots!IInv, Robots!TypeOK
<1>4. Robots!Consistent(b)'
  BY Zenon, <1>1, <1>2, BotAssumption DEF Robots!IInv, Robots!Consistent
<1>5. \A c \in BotThreads : c # b => Robots!Consistent(c)'
  BY Zenon, <1>1, <1>2, BotApart DEF Robots!IInv, Robots!Consistent
<1>6. Robots!OneWoman'
  <2>a. \A c \in BotThreads : Robots!Living(c) /\ bot[c].uid # None /\ ~ stop => women[bot[c].uid] = c
    BY Zenon DEF Robots!IInv, Robots!BotsSafe, Robots!OneWoman
  <2>1. ASSUME NEW c \in BotThreads, Robots!Living(c)', bot'[c].uid # None, ~ stop'
        PROVE  women'[bot'[c].uid] = c
    <3>1. CASE c = b
      BY Zenon, <3>1, <1>1, <1>2, <2>a, <2>1, BotTyped DEF Robots!Living
    <3>2. CASE c # b
      <4>1. Robots!Living(c) /\ ~ stop /\ bot'[c] = bot[c] /\ women[bot[c].uid] = c /\ bot[c].uid \in Women
        BY Zenon, <3>2, <1>1, <1>2, <2>a, <2>1, BotTyped DEF Robots!Living
      <4>2. QED
        BY Zenon, <3>2, <4>1, <1>1, <1>2, <2>a, BotTyped, BotAssumption DEF Robots!Living
    <3>3. QED
      BY <3>1, <3>2
  <2>2. \A x \in online' : women'[x] # None \/ stop'
    <3>1. \A x \in online : x \in Women /\ (women[x] # None \/ stop)
      BY Zenon DEF Robots!IInv, Robots!TypeOK, Robots!BotsSafe, Robots!OneWoman
    <3>2. SUFFICES ASSUME NEW x \in online', ~ stop' PROVE women'[x] # None
      OBVIOUS
    <3>3. /\ bot[b].at = "release woman" /\ ~ stop => bot[b].uid \notin online
          /\ bot[b].at = "simulate" /\ ~ stop => bot[b].uid \in Women /\ women[bot[b].uid] = b
      BY Zenon, <2>a, BotTyped, BotAssumption DEF Robots!Living
    <3>4. QED
      BY <3>1, <3>2, <3>3, <1>2, BotAssumption
  <2>3. ASSUME NEW c \in BotThreads, Robots!Living(c)', bot'[c].started, bot'[c].at # "release woman"
        PROVE  bot'[c].uid \in online'
    <3>0. bot[c].started => bot[c].uid # None
      BY Zenon DEF Robots!IInv, Robots!Consistent
    <3>1. CASE c = b
      BY Zenon, <3>0, <3>1, <1>1, <1>2, <2>3 DEF Robots!IInv, Robots!BotsSafe, Robots!OneWoman, Robots!Living
    <3>2. CASE c # b
      <4>1. Robots!Living(c) /\ bot[c].started /\ bot[c].at # "release woman" /\ bot'[c] = bot[c]
        BY Zenon, <3>2, <1>1, <2>3 DEF Robots!Living
      <4>2. bot[c].uid \in online
        BY Zenon, <4>1 DEF Robots!IInv, Robots!BotsSafe, Robots!OneWoman
      <4>3. Robots!Living(b) /\ ~ stop => bot[c].uid # bot[b].uid
        BY Zenon, <4>1, <3>0, <3>2, <2>a
      <4>4. QED
        BY Zenon, <4>1, <4>2, <4>3, <1>2 DEF Robots!Living
    <3>3. QED
      BY <3>1, <3>2
  <2>4. QED
    BY Zenon, <2>1, <2>2, <2>3 DEF Robots!OneWoman, Robots!Living
<1>7. Robots!NoneLost'
  <2> SUFFICES ASSUME ~ fails', \A c \in BotThreads : bot'[c].at # "dead", NEW x \in Women, women'[x] # None
              PROVE  bot'[women'[x]].uid = x
    BY DEF Robots!NoneLost, Robots!Living
  <2>1. \A c \in BotThreads : bot[c].at # "dead"
    BY <1>1, <1>2
  <2>2. women[x] # None => women[x] \in BotThreads /\ bot[women[x]].uid = x
    BY <1>2, <2>1 DEF Robots!IInv, Robots!BotsSafe, Robots!NoneLost, Robots!Living, Robots!TypeOK
  <2>3. QED
    <3>1. CASE women'[x] = b
      BY Zenon, <3>1, <1>1, <1>2, <2>2, BotTyped, BotAssumption
    <3>2. CASE women'[x] # b
      BY <3>2, <1>1, <1>2, <2>2
    <3>3. QED
      BY <3>1, <3>2
<1>8. Robots!OwnManAlone'
  BY Zenon, <1>1, <1>2, BotTyped DEF Robots!IInv, Robots!BotsSafe, Robots!OwnManAlone, Robots!OwnMan, Robots!Living, Robots!Consistent
<1>9. QED
  BY <1>3, <1>4, <1>5, <1>6, <1>7, <1>8 DEF Robots!IInv, Robots!BotsSafe


(* The steps of a bot.                                                     *)
LEMMA BotActs ==
  ASSUME Robots!IInv, NEW b \in BotThreads,
         \/ Robots!Acquire(b) \/ Robots!Simulate(b) \/ Robots!Stay(b) \/ Robots!GetWork(b)
         \/ Robots!TalkOver(b) \/ Robots!Mail(b) \/ Robots!Continue(b) \/ Robots!Cancelled(b)
  PROVE  Robots!IInv'
<1> USE DEF Robots!At, Robots!settings
<1>0. /\ bot[b].talks => bot[b].at \in {"talk", "dead"} /\ bot[b].man # None
      /\ bot[b].at \in {"release woman", "work", "talk", "mail"} => bot[b].started
      /\ alone /\ b # Robots!Chosen => bot[b].at = "top"
  BY Zenon DEF Robots!IInv, Robots!Consistent
<1>1. CASE Robots!Acquire(b)
  <2>1. CASE Robots!To(b, "continue") /\ UNCHANGED women
    BY Zenon, <1>0, <1>1, <2>1, BotGoesOn DEF Bot_GoesOn, Robots!Acquire
  <2>2. CASE Robots!To(b, "dead") /\ UNCHANGED women
    BY Zenon, <1>0, <1>1, <2>2, BotGoesOn DEF Bot_GoesOn, Robots!Acquire
  <2>3. QED
    BY Zenon, <1>1, <2>1, <2>2, BotTakes DEF Bot_Takes, Robots!Acquire
<1>2. CASE Robots!Simulate(b)
  <2>1. CASE fails /\ Robots!To(b, "continue") /\ UNCHANGED online
    BY Zenon, <1>0, <1>2, <2>1, BotGoesOn DEF Bot_GoesOn, Robots!Simulate
  <2>2. QED
    BY Zenon, <1>2, <2>1, BotSimulates DEF Bot_Simulates, Robots!Simulate
<1>3. CASE Robots!Stay(b)
  BY Zenon, <1>0, <1>3, BotGoesOn DEF Bot_GoesOn, Robots!Stay
<1>4. CASE Robots!GetWork(b)
  <2>1. CASE Robots!To(b, "continue") /\ UNCHANGED men
    BY Zenon, <1>0, <1>4, <2>1, BotGoesOn DEF Bot_GoesOn, Robots!GetWork
  <2>2. CASE Robots!To(b, "dead") /\ UNCHANGED men
    BY Zenon, <1>0, <1>4, <2>2, BotGoesOn DEF Bot_GoesOn, Robots!GetWork
  <2>3. ASSUME NEW m \in Men, NEW talks \in BOOLEAN, men' = [men EXCEPT ![m] = b],
               bot' = [bot EXCEPT ![b] =
                  [@ EXCEPT !.at = IF talks THEN "talk" ELSE "continue", !.man = m, !.talks = talks]]
        PROVE  Robots!IInv'
    <3>1. CASE talks
      <4>1. bot' = [bot EXCEPT ![b] = [@ EXCEPT !.at = "talk", !.man = m, !.talks = ("talk" = "talk")]]
        BY Zenon, <2>3, <3>1
      <4>2. Bot_Meets(b, m, "talk")
        BY Zenon, <1>4, <2>3, <4>1 DEF Robots!GetWork, Bot_Meets
      <4>3. QED
        BY <4>2, BotMeets
    <3>2. CASE ~ talks
      <4>1. bot' = [bot EXCEPT ![b] =
                      [@ EXCEPT !.at = "continue", !.man = m, !.talks = ("continue" = "talk")]]
        BY Zenon, <2>3, <3>2
      <4>2. Bot_Meets(b, m, "continue")
        BY Zenon, <1>4, <2>3, <4>1 DEF Robots!GetWork, Bot_Meets
      <4>3. QED
        BY <4>2, BotMeets
    <3>3. QED
      BY <3>1, <3>2
  <2>4. QED
    BY Zenon, <1>4, <2>1, <2>2, <2>3 DEF Robots!GetWork
<1>5. CASE Robots!TalkOver(b)
  <2>1. CASE bot[b].man = None
    BY Zenon, <1>0, <1>5, <2>1, BotGoesOn DEF Bot_GoesOn, Robots!TalkOver, Robots!Release
  <2>2. CASE bot[b].man # None
    BY Zenon, <1>5, <2>2, BotLeavesMan DEF Bot_LeavesMan, Robots!TalkOver, Robots!Release
  <2>3. QED
    BY <2>1, <2>2
<1>6. CASE Robots!Mail(b)
  <2>1. CASE Robots!To(b, "continue")
    BY Zenon, <1>0, <1>6, <2>1, BotGoesOn DEF Bot_GoesOn, Robots!Mail
  <2>2. QED
    BY Zenon, <1>6, <2>1, BotMails DEF Bot_Mails, Robots!Mail
<1>7. CASE Robots!Continue(b)
  <2>1. CASE bot[b].man = None
    BY Zenon, <1>0, <1>7, <2>1, BotGoesOn DEF Bot_GoesOn, Robots!Continue, Robots!Release
  <2>2. CASE bot[b].man # None
    BY Zenon, <1>7, <2>2, BotLeavesMan DEF Bot_LeavesMan, Robots!Continue, Robots!Release
  <2>3. QED
    BY <2>1, <2>2
<1>8. CASE Robots!Cancelled(b)
  BY Zenon, <1>0, <1>8, BotGoesOn DEF Bot_GoesOn, Robots!Cancelled
<1>9. QED
  BY <1>1, <1>2, <1>3, <1>4, <1>5, <1>6, <1>7, <1>8

LEMMA BotStop == Robots!IInv /\ Robots!Stop => Robots!IInv'
<1> SUFFICES ASSUME Robots!IInv, Robots!Stop PROVE Robots!IInv'
  OBVIOUS
<1>1. ~ stop /\ stop' = TRUE /\ UNCHANGED <<alone, fails, bot, women, men, online>>
  BY DEF Robots!Stop, Robots!settings
<1>2. Robots!TypeOK'
  BY <1>1 DEF Robots!IInv, Robots!TypeOK
<1>3. \A b \in BotThreads : Robots!Consistent(b)'
  BY Zenon, <1>1 DEF Robots!IInv, Robots!Consistent
<1>4. Robots!BotsSafe'
  BY Zenon, <1>1 DEF Robots!IInv, Robots!BotsSafe, Robots!OneWoman, Robots!NoneLost,
    Robots!OwnManAlone, Robots!OwnMan, Robots!Living
<1>5. QED
  BY <1>2, <1>3, <1>4 DEF Robots!IInv

LEMMA BotNext == Robots!IInv /\ [Robots!Next]_(Robots!vars) => Robots!IInv'
<1> SUFFICES ASSUME Robots!IInv, [Robots!Next]_(Robots!vars) PROVE Robots!IInv'
  OBVIOUS
<1>1. CASE UNCHANGED Robots!vars
  <2>1. UNCHANGED <<alone, fails, bot, women, men, online, stop>>
    BY <1>1 DEF Robots!vars
  <2>2. Robots!TypeOK'
    BY <2>1 DEF Robots!IInv, Robots!TypeOK
  <2>3. \A b \in BotThreads : Robots!Consistent(b)'
    BY Zenon, <2>1 DEF Robots!IInv, Robots!Consistent
  <2>4. Robots!BotsSafe'
    BY Zenon, <2>1 DEF Robots!IInv, Robots!BotsSafe, Robots!OneWoman, Robots!NoneLost,
      Robots!OwnManAlone, Robots!OwnMan, Robots!Living
  <2>5. QED
    BY <2>2, <2>3, <2>4 DEF Robots!IInv
<1>2. CASE Robots!Stop
  BY <1>2, BotStop
<1>3. ASSUME NEW b \in BotThreads,
             Robots!Expired(b) \/ Robots!ReleaseWoman(b) \/ Robots!Leave(b)
      PROVE  Robots!IInv'
  BY <1>3, BotExpired, BotReleaseWoman, BotLeave
<1>4. QED
  BY <1>1, <1>2, <1>3, BotActs DEF Robots!Next

(* A woman is simulated by the one bot that took her, none is kept by nobody*)
(* when all can be simulated, and with one thread a man is talked to by the*)
(* bot that took him.                                                      *)
THEOREM BotsAreSafe == PluginsSpec => []BotsSafe
<1>1. ASSUME Robots!IInv, [PluginsNext]_pluginsVars PROVE Robots!IInv'
  <2>1. [Robots!Next]_(Robots!vars)
    BY <1>1, AloneStays DEF PluginsNext, Others, pluginsVars, botVars, Robots!vars
  <2>2. QED
    BY <1>1, <2>1, BotNext
<1>2. Robots!IInv => BotsSafe
  BY DEF BotsSafe, Robots!IInv
<1>3. QED
  BY <1>1, <1>2, BotInit, PTL DEF PluginsSpec

-----------------------------------------------------------------------------
(* Replies and who frees what.                                             *)

LEMMA SendInit == PluginsInit => Sender!IInv
<1> SUFFICES ASSUME PluginsInit PROVE Sender!IInv
  OBVIOUS
<1>1. Sender!Init
  BY DEF PluginsInit
<1>2. Sender!TypeOK
  BY <1>1, PartsAssumption DEF Sender!Init, Sender!TypeOK, Sender!Steps, Sender!Owners
<1>3. QED
  BY <1>1, <1>2 DEF Sender!Init, Sender!IInv, Sender!Given, Sender!Objects, Sender!FreedOnce,
    Sender!Request, Sender!String, Sender!Pieces, Sender!InHand, Sender!Calls

(* What a move and a free do to the objects.                               *)
LEMMA SendMoves ==
  ASSUME Sender!IInv, NEW O \in SUBSET Sender!Objects, NEW who \in Sender!Owners, Sender!Move(O, who)
  PROVE  /\ owner' \in [Sender!Objects -> Sender!Owners]
         /\ \A o \in Sender!Objects : owner'[o] = IF o \in O THEN who ELSE owner[o]
BY DEF Sender!IInv, Sender!TypeOK, Sender!Move

LEMMA SendFrees ==
  ASSUME Sender!IInv, NEW O \in SUBSET Sender!Objects, Sender!Free(O),
         \A o \in O : owner[o] # "freed"
  PROVE  /\ owner' \in [Sender!Objects -> Sender!Owners] /\ frees' \in [Sender!Objects -> Nat]
         /\ \A o \in Sender!Objects : owner'[o] = IF o \in O THEN "freed" ELSE owner[o]
         /\ Sender!FreedOnce'
<1>1. \A o \in Sender!Objects : frees'[o] = IF o \in O THEN frees[o] + 1 ELSE frees[o]
  BY DEF Sender!Free
<1>2. \A o \in Sender!Objects : owner'[o] = IF o \in O THEN "freed" ELSE owner[o]
  BY DEF Sender!Free, Sender!Move
<1>3. owner' \in [Sender!Objects -> Sender!Owners] /\ frees' \in [Sender!Objects -> Nat]
  BY DEF Sender!IInv, Sender!TypeOK, Sender!Free, Sender!Move, Sender!Owners
<1>4. Sender!FreedOnce'
  BY <1>1, <1>2 DEF Sender!IInv, Sender!FreedOnce
<1>5. QED
  BY <1>2, <1>3, <1>4

(* An object that nobody freed is moved: it is still freed once or never.  *)
LEMMA SendStays ==
  ASSUME Sender!IInv, NEW O \in SUBSET Sender!Objects, NEW who \in Sender!Owners \ {"freed"},
         Sender!Move(O, who), frees' = frees, \A o \in O : owner[o] # "freed"
  PROVE  Sender!FreedOnce'
BY SendMoves DEF Sender!IInv, Sender!FreedOnce

LEMMA SendCompile ==
  ASSUME Sender!IInv, Sender!Compile
  PROVE  Sender!IInv'
<1> USE DEF Sender!Compile, Sender!Keep, Sender!Go, Sender!Held
<1>1. Sender!TypeOK' /\ Sender!FreedOnce'
  BY SendMoves, SendFrees, SendStays DEF Sender!IInv, Sender!TypeOK, Sender!Steps, Sender!Objects, Sender!Owners, Sender!Request, Sender!Pieces, Sender!FreedOnce
<1>2. Sender!Request'
  BY SendMoves, SendFrees DEF Sender!IInv, Sender!TypeOK, Sender!Objects, Sender!Owners, Sender!Request
<1>3. Sender!String' /\ Sender!Pieces'
  BY SendMoves, SendFrees DEF Sender!IInv, Sender!TypeOK, Sender!Objects, Sender!Owners, Sender!String, Sender!Pieces, Sender!Request
<1>4. Sender!InHand'
  BY SendMoves, SendFrees DEF Sender!IInv, Sender!TypeOK, Sender!Objects, Sender!Owners, Sender!Request, Sender!InHand
<1>5. QED
  BY <1>1, <1>2, <1>3, <1>4 DEF Sender!IInv

LEMMA SendReplyInit ==
  ASSUME Sender!IInv, Sender!ReplyInit
  PROVE  Sender!IInv'
<1> USE DEF Sender!ReplyInit, Sender!Keep, Sender!Go, Sender!Held
<1>1. Sender!TypeOK' /\ Sender!FreedOnce'
  BY SendMoves, SendFrees, SendStays DEF Sender!IInv, Sender!TypeOK, Sender!Steps, Sender!Objects, Sender!Owners, Sender!Request, Sender!Pieces, Sender!FreedOnce
<1>2. Sender!Request'
  BY SendMoves, SendFrees DEF Sender!IInv, Sender!TypeOK, Sender!Objects, Sender!Owners, Sender!Request
<1>3. Sender!String' /\ Sender!Pieces'
  BY SendMoves, SendFrees DEF Sender!IInv, Sender!TypeOK, Sender!Objects, Sender!Owners, Sender!String, Sender!Pieces, Sender!Request
<1>4. Sender!InHand'
  BY SendMoves, SendFrees DEF Sender!IInv, Sender!TypeOK, Sender!Objects, Sender!Owners, Sender!Request, Sender!InHand
<1>5. QED
  BY <1>1, <1>2, <1>3, <1>4 DEF Sender!IInv

LEMMA SendSetHeader ==
  ASSUME Sender!IInv, Sender!SetHeader
  PROVE  Sender!IInv'
<1> USE DEF Sender!SetHeader, Sender!Keep, Sender!Go, Sender!Held, Sender!ReplyFree
<1>1. Sender!TypeOK' /\ Sender!FreedOnce'
  BY SendMoves, SendFrees, SendStays DEF Sender!IInv, Sender!TypeOK, Sender!Steps, Sender!Objects, Sender!Owners, Sender!Request, Sender!Pieces, Sender!FreedOnce
<1>2. Sender!Request'
  BY SendMoves, SendFrees DEF Sender!IInv, Sender!TypeOK, Sender!Objects, Sender!Owners, Sender!Request
<1>3. Sender!String' /\ Sender!Pieces'
  BY SendMoves, SendFrees DEF Sender!IInv, Sender!TypeOK, Sender!Objects, Sender!Owners, Sender!String, Sender!Pieces, Sender!Request
<1>4. Sender!InHand'
  BY SendMoves, SendFrees DEF Sender!IInv, Sender!TypeOK, Sender!Objects, Sender!Owners, Sender!Request, Sender!InHand
<1>5. QED
  BY <1>1, <1>2, <1>3, <1>4 DEF Sender!IInv

LEMMA SendSetFile ==
  ASSUME Sender!IInv, Sender!SetFile
  PROVE  Sender!IInv'
<1> USE DEF Sender!SetFile, Sender!Keep, Sender!Go, Sender!Held, Sender!ReplyFree
<1>1. Sender!TypeOK' /\ Sender!FreedOnce'
  BY SendMoves, SendFrees, SendStays DEF Sender!IInv, Sender!TypeOK, Sender!Steps, Sender!Objects, Sender!Owners, Sender!Request, Sender!Pieces, Sender!FreedOnce
<1>2. Sender!Request'
  BY SendMoves, SendFrees DEF Sender!IInv, Sender!TypeOK, Sender!Objects, Sender!Owners, Sender!Request
<1>3. Sender!String' /\ Sender!Pieces'
  BY SendMoves, SendFrees DEF Sender!IInv, Sender!TypeOK, Sender!Objects, Sender!Owners, Sender!String, Sender!Pieces, Sender!Request
<1>4. Sender!InHand'
  BY SendMoves, SendFrees DEF Sender!IInv, Sender!TypeOK, Sender!Objects, Sender!Owners, Sender!Request, Sender!InHand
<1>5. QED
  BY <1>1, <1>2, <1>3, <1>4 DEF Sender!IInv

LEMMA SendSetFooter ==
  ASSUME Sender!IInv, Sender!SetFooter
  PROVE  Sender!IInv'
<1> USE DEF Sender!SetFooter, Sender!Keep, Sender!Go, Sender!Held, Sender!ReplyFree
<1>1. Sender!TypeOK' /\ Sender!FreedOnce'
  BY SendMoves, SendFrees, SendStays DEF Sender!IInv, Sender!TypeOK, Sender!Steps, Sender!Objects, Sender!Owners, Sender!Request, Sender!Pieces, Sender!FreedOnce
<1>2. Sender!Request'
  BY SendMoves, SendFrees DEF Sender!IInv, Sender!TypeOK, Sender!Objects, Sender!Owners, Sender!Request
<1>3. Sender!String' /\ Sender!Pieces'
  BY SendMoves, SendFrees DEF Sender!IInv, Sender!TypeOK, Sender!Objects, Sender!Owners, Sender!String, Sender!Pieces, Sender!Request
<1>4. Sender!InHand'
  BY SendMoves, SendFrees DEF Sender!IInv, Sender!TypeOK, Sender!Objects, Sender!Owners, Sender!Request, Sender!InHand
<1>5. QED
  BY <1>1, <1>2, <1>3, <1>4 DEF Sender!IInv

LEMMA SendSendReply ==
  ASSUME Sender!IInv, Sender!SendReply
  PROVE  Sender!IInv'
<1> USE DEF Sender!SendReply, Sender!Keep, Sender!Go, Sender!Held
<1>1. Sender!TypeOK' /\ Sender!FreedOnce'
  BY SendMoves, SendFrees, SendStays DEF Sender!IInv, Sender!TypeOK, Sender!Steps, Sender!Objects, Sender!Owners, Sender!Request, Sender!Pieces, Sender!FreedOnce
<1>2. Sender!Request'
  <2>1. \E who \in {"queue", "freed"} :
          \A o \in Sender!Objects : owner'[o] = IF owner[o] = "reply" THEN who ELSE owner[o]
    BY SendMoves, SendFrees DEF Sender!IInv, Sender!Owners
  <2>2. "request" \in Sender!Objects /\ "compiled" \in Sender!Objects
    BY DEF Sender!Objects
  <2>3. CASE parts > 0
    BY <2>1, <2>2, <2>3 DEF Sender!IInv, Sender!TypeOK, Sender!Request
  <2>4. CASE parts = 0
    BY <2>1, <2>2, <2>4 DEF Sender!IInv, Sender!TypeOK, Sender!Request
  <2>5. QED
    BY <2>3, <2>4 DEF Sender!IInv, Sender!TypeOK
<1>3. Sender!String' /\ Sender!Pieces'
  BY SendMoves, SendFrees DEF Sender!IInv, Sender!TypeOK, Sender!Objects, Sender!Owners, Sender!String, Sender!Pieces, Sender!Request
<1>4. Sender!InHand'
  BY SendMoves, SendFrees DEF Sender!IInv, Sender!TypeOK, Sender!Objects, Sender!Owners, Sender!Request, Sender!InHand
<1>5. QED
  BY <1>1, <1>2, <1>3, <1>4 DEF Sender!IInv

LEMMA SendNextPart ==
  ASSUME Sender!IInv, Sender!NextPart
  PROVE  Sender!IInv'
<1> USE DEF Sender!NextPart, Sender!Keep, Sender!Go, Sender!Held
<1>1. Sender!TypeOK' /\ Sender!FreedOnce'
  BY SendMoves, SendFrees, SendStays DEF Sender!IInv, Sender!TypeOK, Sender!Steps, Sender!Objects, Sender!Owners, Sender!Request, Sender!Pieces, Sender!FreedOnce
<1>2. Sender!Request'
  BY SendMoves, SendFrees DEF Sender!IInv, Sender!TypeOK, Sender!Objects, Sender!Owners, Sender!Request
<1>3. Sender!String' /\ Sender!Pieces'
  BY SendMoves, SendFrees DEF Sender!IInv, Sender!TypeOK, Sender!Objects, Sender!Owners, Sender!String, Sender!Pieces, Sender!Request
<1>4. Sender!InHand'
  BY SendMoves, SendFrees DEF Sender!IInv, Sender!TypeOK, Sender!Objects, Sender!Owners, Sender!Request, Sender!InHand
<1>5. QED
  BY <1>1, <1>2, <1>3, <1>4 DEF Sender!IInv

LEMMA SendEnd ==
  ASSUME Sender!IInv, Sender!End
  PROVE  Sender!IInv'
<1> USE DEF Sender!End, Sender!Keep, Sender!Go, Sender!Held
<1>1. Sender!TypeOK' /\ Sender!FreedOnce'
  BY SendMoves, SendFrees, SendStays DEF Sender!IInv, Sender!TypeOK, Sender!Steps, Sender!Objects, Sender!Owners, Sender!Request, Sender!Pieces, Sender!FreedOnce
<1>2. Sender!Request'
  BY SendMoves, SendFrees DEF Sender!IInv, Sender!TypeOK, Sender!Objects, Sender!Owners, Sender!Request
<1>3. Sender!String' /\ Sender!Pieces'
  BY SendMoves, SendFrees DEF Sender!IInv, Sender!TypeOK, Sender!Objects, Sender!Owners, Sender!String, Sender!Pieces, Sender!Request
<1>4. Sender!InHand'
  BY SendMoves, SendFrees DEF Sender!IInv, Sender!TypeOK, Sender!Objects, Sender!Owners, Sender!Request, Sender!InHand
<1>5. QED
  BY <1>1, <1>2, <1>3, <1>4 DEF Sender!IInv

LEMMA SendReplySetHeader ==
  ASSUME Sender!IInv, Sender!ReplySetHeader
  PROVE  Sender!IInv'
<1> USE DEF Sender!ReplySetHeader, Sender!Keep, Sender!Go, Sender!Held, Sender!Build
<1>1. Sender!TypeOK' /\ Sender!FreedOnce'
  BY SendMoves, SendFrees, SendStays DEF Sender!IInv, Sender!TypeOK, Sender!Steps, Sender!Objects, Sender!Owners, Sender!Request, Sender!Pieces, Sender!FreedOnce
<1>2. Sender!Request'
  BY SendMoves, SendFrees DEF Sender!IInv, Sender!TypeOK, Sender!Objects, Sender!Owners, Sender!Request
<1>3. Sender!String' /\ Sender!Pieces'
  BY SendMoves, SendFrees DEF Sender!IInv, Sender!TypeOK, Sender!Objects, Sender!Owners, Sender!String, Sender!Pieces, Sender!Request
<1>4. Sender!InHand'
  BY SendMoves, SendFrees DEF Sender!IInv, Sender!TypeOK, Sender!Objects, Sender!Owners, Sender!Request, Sender!InHand
<1>5. QED
  BY <1>1, <1>2, <1>3, <1>4 DEF Sender!IInv

LEMMA SendReplySetFooter ==
  ASSUME Sender!IInv, Sender!ReplySetFooter
  PROVE  Sender!IInv'
<1> USE DEF Sender!ReplySetFooter, Sender!Keep, Sender!Go, Sender!Held, Sender!Build
<1>1. Sender!TypeOK' /\ Sender!FreedOnce'
  BY SendMoves, SendFrees, SendStays DEF Sender!IInv, Sender!TypeOK, Sender!Steps, Sender!Objects, Sender!Owners, Sender!Request, Sender!Pieces, Sender!FreedOnce
<1>2. Sender!Request'
  BY SendMoves, SendFrees DEF Sender!IInv, Sender!TypeOK, Sender!Objects, Sender!Owners, Sender!Request
<1>3. Sender!String' /\ Sender!Pieces'
  BY SendMoves, SendFrees DEF Sender!IInv, Sender!TypeOK, Sender!Objects, Sender!Owners, Sender!String, Sender!Pieces, Sender!Request
<1>4. Sender!InHand'
  BY SendMoves, SendFrees DEF Sender!IInv, Sender!TypeOK, Sender!Objects, Sender!Owners, Sender!Request, Sender!InHand
<1>5. QED
  BY <1>1, <1>2, <1>3, <1>4 DEF Sender!IInv

LEMMA SendReplySetFile ==
  ASSUME Sender!IInv, Sender!ReplySetFile
  PROVE  Sender!IInv'
<1> USE DEF Sender!ReplySetFile, Sender!Keep, Sender!Go, Sender!Held, Sender!Build
<1>1. Sender!TypeOK' /\ Sender!FreedOnce'
  BY SendMoves, SendFrees, SendStays DEF Sender!IInv, Sender!TypeOK, Sender!Steps, Sender!Objects, Sender!Owners, Sender!Request, Sender!Pieces, Sender!FreedOnce
<1>2. Sender!Request'
  BY SendMoves, SendFrees DEF Sender!IInv, Sender!TypeOK, Sender!Objects, Sender!Owners, Sender!Request
<1>3. Sender!String' /\ Sender!Pieces'
  BY SendMoves, SendFrees DEF Sender!IInv, Sender!TypeOK, Sender!Objects, Sender!Owners, Sender!String, Sender!Pieces, Sender!Request
<1>4. Sender!InHand'
  BY SendMoves, SendFrees DEF Sender!IInv, Sender!TypeOK, Sender!Objects, Sender!Owners, Sender!Request, Sender!InHand
<1>5. QED
  BY <1>1, <1>2, <1>3, <1>4 DEF Sender!IInv

LEMMA SendAbandon ==
  ASSUME Sender!IInv, Sender!Abandon
  PROVE  Sender!IInv'
<1> USE DEF Sender!Abandon, Sender!Keep, Sender!Go, Sender!Held, Sender!ReplyFree
<1>1. Sender!TypeOK' /\ Sender!FreedOnce'
  BY SendMoves, SendFrees, SendStays DEF Sender!IInv, Sender!TypeOK, Sender!Steps, Sender!Objects, Sender!Owners, Sender!Request, Sender!Pieces, Sender!FreedOnce
<1>2. Sender!Request'
  BY SendMoves, SendFrees DEF Sender!IInv, Sender!TypeOK, Sender!Objects, Sender!Owners, Sender!Request
<1>3. Sender!String' /\ Sender!Pieces'
  BY SendMoves, SendFrees DEF Sender!IInv, Sender!TypeOK, Sender!Objects, Sender!Owners, Sender!String, Sender!Pieces, Sender!Request
<1>4. Sender!InHand'
  BY SendMoves, SendFrees DEF Sender!IInv, Sender!TypeOK, Sender!Objects, Sender!Owners, Sender!Request, Sender!InHand
<1>5. QED
  BY <1>1, <1>2, <1>3, <1>4 DEF Sender!IInv

LEMMA SendFinished ==
  ASSUME Sender!IInv, Sender!Finished
  PROVE  Sender!IInv'
<1> USE DEF Sender!Finished, Sender!Keep, Sender!Go, Sender!Held
<1>1. Sender!TypeOK' /\ Sender!FreedOnce'
  BY SendMoves, SendFrees, SendStays DEF Sender!IInv, Sender!TypeOK, Sender!Steps, Sender!Objects, Sender!Owners, Sender!Request, Sender!Pieces, Sender!FreedOnce
<1>2. Sender!Request'
  BY SendMoves, SendFrees DEF Sender!IInv, Sender!TypeOK, Sender!Objects, Sender!Owners, Sender!Request
<1>3. Sender!String' /\ Sender!Pieces'
  BY SendMoves, SendFrees DEF Sender!IInv, Sender!TypeOK, Sender!Objects, Sender!Owners, Sender!String, Sender!Pieces, Sender!Request
<1>4. Sender!InHand'
  BY SendMoves, SendFrees DEF Sender!IInv, Sender!TypeOK, Sender!Objects, Sender!Owners, Sender!Request, Sender!InHand
<1>5. QED
  BY <1>1, <1>2, <1>3, <1>4 DEF Sender!IInv

LEMMA SendNext == Sender!IInv /\ [Sender!Next]_(Sender!vars) => Sender!IInv'
<1> SUFFICES ASSUME Sender!IInv, [Sender!Next]_(Sender!vars) PROVE Sender!IInv'
  OBVIOUS
<1>1. CASE UNCHANGED Sender!vars
  BY <1>1 DEF Sender!vars, Sender!IInv, Sender!TypeOK, Sender!FreedOnce, Sender!Request,
    Sender!String, Sender!Pieces, Sender!InHand
<1>2. CASE Sender!Next
  BY <1>2, SendCompile, SendReplyInit, SendSetHeader, SendSetFile, SendSetFooter, SendSendReply,
    SendNextPart, SendEnd, SendReplySetHeader, SendReplySetFooter, SendReplySetFile, SendAbandon,
    SendFinished DEF Sender!Next
<1>3. QED
  BY <1>1, <1>2

LEMMA SendSafe == Sender!IInv => Sender!SendingSafe
<1> SUFFICES ASSUME Sender!IInv PROVE Sender!SendingSafe
  OBVIOUS
<1> USE DEF Sender!IInv, Sender!TypeOK, Sender!Objects
<1>1. \A o \in Sender!Objects : frees[o] = IF owner[o] = "freed" THEN 1 ELSE 0
  BY DEF Sender!FreedOnce
<1>2. step = "done" => \A o \in Sender!Given(call) : call # "reply" => owner[o] # "caller"
  BY DEF Sender!Given, Sender!Calls, Sender!String, Sender!Request
<1>3. step = "failed" /\ call # "reply" => \A o \in Sender!Given(call) : owner[o] = "caller"
  BY DEF Sender!Given, Sender!Calls, Sender!String, Sender!Request
<1>4. step \in {"done", "failed"} =>
        Sender!Held = {} /\ \A o \in Sender!Objects \ {"compiled"} : owner[o] # "call"
  BY DEF Sender!InHand, Sender!Held
<1>5. step = "done" => owner["compiled"] # "call"
  BY DEF Sender!Request, Sender!InHand
<1>6. QED
  BY <1>1, <1>2, <1>3, <1>4, <1>5 DEF Sender!SendingSafe

(* Nothing a plugin sends is freed twice, or kept by a call that is over,  *)
(* whatever allocation fails.                                              *)
THEOREM RepliesAreFreed == PluginsSpec => []SendingSafe
<1>1. ASSUME Sender!IInv, [PluginsNext]_pluginsVars PROVE Sender!IInv'
  <2>1. [Sender!Next]_(Sender!vars)
    BY <1>1, AloneStays DEF PluginsNext, Others, pluginsVars, sendVars, Sender!vars
  <2>2. QED
    BY <1>1, <2>1, SendNext
<1>2. Sender!IInv => SendingSafe
  BY SendSafe DEF SendingSafe
<1>3. QED
  BY <1>1, <1>2, SendInit, PTL DEF PluginsSpec

-----------------------------------------------------------------------------
(* The requests of a client.                                               *)

(* The shapes: the first word of a packet tells its length, and is no      *)
(* other word of any.                                                      *)
LEMMA ShapeKinds ==
  /\ DOMAIN Client!Shape = {"list", "friends", "mail", "add", "grant", "status", "call",
                            "refresh", "host", "auth", "account", "mesg"}
  /\ Client!Shape["list"] = <<"LIST">> /\ Client!Shape["friends"] = <<"FRIENDS">>
  /\ Client!Shape["mail"] = <<"MAIL">> /\ Client!Shape["add"] = <<"ADD", "user">>
  /\ Client!Shape["grant"] = <<"GRANT", "uid", "sid">>
  /\ Client!Shape["status"] = <<"STATUS", "status">>
  /\ Client!Shape["call"] = <<"CALL", "param", "caller", "callee", "port">>
  /\ Client!Shape["refresh"] = <<"REFRESH", "uid", "changes">>
  /\ Client!Shape["host"] = <<"HOST", "uid">> /\ Client!Shape["auth"] = <<"AUTH", "text">>
  /\ Client!Shape["account"] = <<"ACCOUNT", "text">>
  /\ Client!Shape["mesg"] = <<"MESG", "sid", "text", "term">>
BY DEF Client!Shape

LEMMA ShapeFirst ==
  DOMAIN Client!Size = {"LIST", "FRIENDS", "MAIL", "ADD", "GRANT", "STATUS", "CALL", "REFRESH",
                        "HOST", "AUTH", "ACCOUNT", "MESG"}
<1> DEFINE W == {Client!Shape[k][1] : k \in DOMAIN Client!Shape}
<1>1. DOMAIN Client!Size = W
  BY DEF Client!Size
<1>2. W = {"LIST", "FRIENDS", "MAIL", "ADD", "GRANT", "STATUS", "CALL", "REFRESH",
           "HOST", "AUTH", "ACCOUNT", "MESG"}
  BY ShapeKinds
<1>3. QED
  BY Zenon, <1>1, <1>2

LEMMA ShapeUnique ==
  \A k, l \in DOMAIN Client!Shape : Client!Shape[k][1] = Client!Shape[l][1] => k = l
BY ShapeKinds

LEMMA ShapeSize ==
  ASSUME NEW k \in DOMAIN Client!Shape
  PROVE  /\ Client!Shape[k][1] \in DOMAIN Client!Size
         /\ Client!Size[Client!Shape[k][1]] = Len(Client!Shape[k])
<1> DEFINE w == Client!Shape[k][1]
           l == CHOOSE x \in DOMAIN Client!Shape : Client!Shape[x][1] = w
<1>1. w \in {Client!Shape[x][1] : x \in DOMAIN Client!Shape}
  OBVIOUS
<1>2. w \in DOMAIN Client!Size /\ Client!Size[w] = Len(Client!Shape[l])
  BY Zenon, <1>1 DEF Client!Size
<1>3. l \in DOMAIN Client!Shape /\ Client!Shape[l][1] = w
  OBVIOUS
<1>4. l = k
  BY <1>3, ShapeUnique
<1>5. QED
  BY Zenon, <1>2, <1>4

LEMMA ShapeForm ==
  ASSUME NEW k \in DOMAIN Client!Shape
  PROVE  /\ Client!Shape[k] \in Seq(Client!Words)
         /\ Len(Client!Shape[k]) \in 1 .. 5
         /\ \A i \in 2 .. Len(Client!Shape[k]) : Client!Shape[k][i] \notin DOMAIN Client!Size
         /\ Client!Shape[k][1] = "MESG" => Len(Client!Shape[k]) = 4 /\ Client!Shape[k][4] = "term"
         /\ Client!Shape[k][1] = "HOST" => Len(Client!Shape[k]) = 2
         /\ Client!Shape[k][1] \in {"LIST", "FRIENDS", "MAIL"} => Len(Client!Shape[k]) = 1
<1> DEFINE s == Client!Shape[k]
<1>1. \/ s = <<"LIST">> \/ s = <<"FRIENDS">> \/ s = <<"MAIL">> \/ s = <<"ADD", "user">>
      \/ s = <<"GRANT", "uid", "sid">> \/ s = <<"STATUS", "status">>
      \/ s = <<"CALL", "param", "caller", "callee", "port">> \/ s = <<"REFRESH", "uid", "changes">>
      \/ s = <<"HOST", "uid">> \/ s = <<"AUTH", "text">> \/ s = <<"ACCOUNT", "text">>
      \/ s = <<"MESG", "sid", "text", "term">>
  BY ShapeKinds
<1>2. Client!Range(s) \subseteq Client!Words
  BY DEF Client!Words
<1> HIDE DEF s
<1>3. s \in Seq(Client!Words)
  <2>1. Len(s) \in Nat /\ s = [i \in 1 .. Len(s) |-> s[i]]
    BY <1>1
  <2>2. \A i \in 1 .. Len(s) : s[i] \in Client!Range(s)
    BY <2>1 DEF Client!Range
  <2>3. s \in [1 .. Len(s) -> Client!Words]
    BY <1>2, <2>1, <2>2
  <2>4. QED
    BY <2>1, <2>3, SeqDef
<1>5. /\ Len(s) \in 1 .. 5
      /\ s[1] = "MESG" => Len(s) = 4 /\ s[4] = "term"
      /\ s[1] = "HOST" => Len(s) = 2
      /\ s[1] \in {"LIST", "FRIENDS", "MAIL"} => Len(s) = 1
  BY <1>1
<1>6. \A i \in 2 .. Len(s) : s[i] \in {"user", "uid", "sid", "status", "param", "caller", "callee",
                                       "port", "changes", "text", "term"}
  BY <1>1
<1>7. QED
  BY <1>3, <1>5, <1>6, ShapeFirst DEF s

LEMMA SizeOf ==
  ASSUME NEW w \in DOMAIN Client!Size
  PROVE  /\ Client!Size[w] \in 1 .. 5 /\ (w = "HOST" => Client!Size[w] = 2)
         /\ (w = "MESG" => Client!Size[w] = 4)
         /\ (w \in {"LIST", "FRIENDS", "MAIL"} => Client!Size[w] = 1)
<1>1. PICK k \in DOMAIN Client!Shape : w = Client!Shape[k][1]
  BY DEF Client!Size
<1>2. Client!Size[w] = Len(Client!Shape[k])
  BY <1>1, ShapeSize
<1>3. QED
  BY <1>1, <1>2, ShapeForm

(* Packets that follow one another: what remains after the first, and one  *)
(* more at the end.                                                        *)
LEMMA FramedRest ==
  ASSUME NEW s \in Seq(Client!Word), NEW k \in Nat, Client!Framed(s, k), s # <<>>
  PROVE  /\ s[1].w \in DOMAIN Client!Size /\ s[1].n = k + 1
         /\ Client!Size[s[1].w] \in 1 .. Len(s)
         /\ Client!Framed(SubSeq(s, Client!Size[s[1].w] + 1, Len(s)), k + 1)
<1> DEFINE n == Client!Size[s[1].w]
           r == SubSeq(s, n + 1, Len(s))
<1>1. s[1].w \in DOMAIN Client!Size /\ s[1].n = k + 1 /\ Len(s) \in Nat \ {0} /\ Client!Follows(s, 1)
  BY DEF Client!Framed, Client!Starts
<1>2. n \in 1 .. Len(s)
  BY <1>1, SizeOf DEF Client!Follows
<1>3. Len(r) = Len(s) - n /\ DOMAIN r = 1 .. Len(s) - n /\ \A i \in 1 .. Len(s) - n : r[i] = s[i + n]
  BY <1>1, <1>2
<1>4. r # <<>> => Client!Starts(r, 1) /\ r[1].n = k + 1 + 1
  <2>1. r # <<>> => n < Len(s) /\ r[1] = s[n + 1]
    BY <1>1, <1>2, <1>3
  <2>2. QED
    BY <1>1, <1>2, <2>1 DEF Client!Follows, Client!Starts
<1> HIDE DEF r
<1>5. ASSUME NEW i \in DOMAIN r, Client!Starts(r, i) PROVE Client!Follows(r, i)
  <2>1. /\ i + n \in DOMAIN s /\ s[i + n] = r[i] /\ i \in 1 .. Len(s) - n
        /\ s[i + n].w \in DOMAIN Client!Size
    BY <1>1, <1>2, <1>3, <1>5 DEF Client!Starts
  <2>2. Client!Follows(s, i + n)
    BY <2>1 DEF Client!Framed, Client!Starts
  <2> DEFINE z == Client!Size[r[i].w]
  <2>3. z \in 1 .. 5 /\ (r[i].w = "MESG" => z = 4)
    BY <2>1, SizeOf
  <2>4. /\ i + n + z - 1 <= Len(s) /\ \A j \in i + n .. i + n + z - 1 : s[j].n = s[i + n].n
        /\ s[i + n].w = "MESG" => s[i + n + 3].w = "term"
        /\ i + n + z - 1 < Len(s) => /\ s[i + n + z].w \in DOMAIN Client!Size
                                     /\ s[i + n + z].n = s[i + n].n + 1
    BY <2>1, <2>2, <2>3 DEF Client!Follows, Client!Starts
  <2> HIDE DEF z, n
  <2>5. i + z - 1 <= Len(r) /\ \A j \in i .. i + z - 1 : r[j].n = r[i].n
    <3>1. i + z - 1 <= Len(r) /\ Len(r) = Len(s) - n
      BY <1>1, <1>2, <1>3, <2>1, <2>3, <2>4
    <3>2. ASSUME NEW j \in i .. i + z - 1 PROVE r[j].n = r[i].n
      <4>1. j \in 1 .. Len(s) - n /\ j + n \in i + n .. i + n + z - 1
        BY <1>1, <1>2, <2>1, <2>3, <3>1
      <4>2. r[j] = s[j + n]
        BY <1>3, <4>1
      <4>3. QED
        BY <2>1, <2>4, <4>1, <4>2
    <3>3. QED
      BY <3>1, <3>2
  <2>6. r[i].w = "MESG" => r[i + 3].w = "term"
    BY <1>1, <1>2, <1>3, <2>1, <2>3, <2>4
  <2>7. ASSUME i + z - 1 < Len(r)
        PROVE  r[i + z].w \in DOMAIN Client!Size /\ r[i + z].n = r[i].n + 1
    <3>1. i + z \in 1 .. Len(s) - n /\ i + n + z - 1 < Len(s) /\ (i + z) + n = i + n + z
      <4>1. n \in Nat /\ Len(s) \in Nat /\ i \in Nat \ {0} /\ z \in Nat \ {0} /\ Len(r) = Len(s) - n
        BY <1>1, <1>2, <1>3, <2>1, <2>3
      <4>2. QED
        BY <2>7, <4>1
    <3>2. r[i + z] = s[(i + z) + n]
      BY <1>3, <3>1
    <3>3. QED
      BY <2>1, <2>4, <3>1, <3>2
  <2>8. QED
    BY <2>1, <2>3, <2>5, <2>6, <2>7 DEF Client!Follows, Client!Starts, z
<1>6. QED
  BY Zenon, <1>1, <1>2, <1>4, <1>5 DEF Client!Framed, r

LEMMA PacketWords ==
  ASSUME NEW m \in Nat, NEW kind \in DOMAIN Client!Shape
  PROVE  /\ Client!Packet(m, kind) \in Seq(Client!Word)
         /\ Len(Client!Packet(m, kind)) = Len(Client!Shape[kind])
         /\ \A i \in 1 .. Len(Client!Shape[kind]) :
              /\ Client!Packet(m, kind)[i].n = m
              /\ Client!Packet(m, kind)[i].w = Client!Shape[kind][i]
<1> DEFINE s == Client!Shape[kind]
<1>1. s \in Seq(Client!Words)
  BY ShapeForm
<1>2. DOMAIN s = 1 .. Len(s) /\ Len(s) \in Nat /\ \A i \in 1 .. Len(s) : s[i] \in Client!Words
  BY <1>1
<1> HIDE DEF s
<1>3. Client!Packet(m, kind) = [i \in 1 .. Len(s) |-> [n |-> m, w |-> s[i]]]
  BY <1>2 DEF Client!Packet, s
<1>4. Client!Packet(m, kind) \in [1 .. Len(s) -> Client!Word]
  BY <1>2, <1>3 DEF Client!Word
<1>5. Client!Packet(m, kind) \in Seq(Client!Word)
  BY <1>2, <1>4, SeqDef
<1>6. Len(Client!Packet(m, kind)) = Len(s)
  BY <1>2, <1>4, <1>5, LenProperties
<1>7. \A i \in 1 .. Len(s) : /\ Client!Packet(m, kind)[i].n = m
                            /\ Client!Packet(m, kind)[i].w = s[i]
  BY <1>3
<1>8. QED
  BY <1>5, <1>6, <1>7 DEF s

LEMMA FramedMore ==
  ASSUME NEW s \in Seq(Client!Word), Client!Framed(s, 0), NEW kind \in DOMAIN Client!Shape,
         NEW m \in Nat, m = IF s = <<>> THEN 1 ELSE s[Len(s)].n + 1
  PROVE  Client!Framed(s \o Client!Packet(m, kind), 0)
<1> DEFINE p == Client!Packet(m, kind)
           t == s \o p
           len == Len(Client!Shape[kind])
<1>1. /\ p \in Seq(Client!Word) /\ Len(p) = len /\ len \in 1 .. 5 /\ Len(s) \in Nat
      /\ \A i \in 1 .. len : p[i].n = m /\ p[i].w = Client!Shape[kind][i]
      /\ Client!Starts(p, 1) /\ Client!Size[p[1].w] = len
      /\ \A i \in 2 .. len : p[i].w \notin DOMAIN Client!Size
      /\ p[1].w = "MESG" => len = 4 /\ p[4].w = "term"
  <2>1. /\ p \in Seq(Client!Word) /\ Len(p) = len /\ len \in 1 .. 5 /\ Len(s) \in Nat
        /\ \A i \in 1 .. len : p[i].n = m /\ p[i].w = Client!Shape[kind][i]
    <3>1. /\ p \in Seq(Client!Word) /\ Len(p) = len
          /\ \A i \in 1 .. len : p[i].n = m /\ p[i].w = Client!Shape[kind][i]
      BY PacketWords
    <3>2. len \in 1 .. 5
      BY ShapeForm
    <3>3. Len(s) \in Nat
      OBVIOUS
    <3>4. QED
      BY <3>1, <3>2, <3>3
  <2>2. p[1].w = Client!Shape[kind][1] /\ (len = 4 => p[4].w = Client!Shape[kind][4])
    BY <2>1
  <2>3. \A i \in 2 .. len : p[i].w \notin DOMAIN Client!Size
    BY <2>1, ShapeForm
  <2>4. QED
    BY Zenon, <2>1, <2>2, <2>3, ShapeForm, ShapeSize DEF Client!Starts
<1> HIDE DEF p, len
<1>2. /\ Len(t) = Len(s) + len /\ DOMAIN t = 1 .. Len(s) + len
      /\ \A i \in 1 .. Len(s) : t[i] = s[i]
      /\ \A i \in 1 .. len : t[Len(s) + i] = p[i]
  BY <1>1
<1> HIDE DEF t
<1>3. Client!Starts(t, 1) /\ t[1].n = 1
  <2>1. CASE s = <<>>
    <3>1. m = 1 /\ Len(s) = 0 /\ t[1] = p[1] /\ p[1].n = m
      BY <1>1, <1>2, <2>1
    <3>2. QED
      BY <1>1, <3>1 DEF Client!Starts
  <2>2. CASE s # <<>>
    <3>1. t[1] = s[1] /\ Client!Starts(s, 1) /\ s[1].n = 1
      BY <1>1, <1>2, <2>2 DEF Client!Framed
    <3>2. QED
      BY <3>1 DEF Client!Starts
  <2>3. QED
    BY <2>1, <2>2
<1>4. ASSUME NEW i \in DOMAIN t, Client!Starts(t, i) PROVE Client!Follows(t, i)
  <2> DEFINE z == Client!Size[t[i].w]
  <2>1. z \in 1 .. 5 /\ (t[i].w = "MESG" => z = 4)
    BY <1>4, SizeOf DEF Client!Starts
  <2>2. CASE i <= Len(s)
    <3>1. i \in DOMAIN s /\ t[i] = s[i] /\ Client!Starts(s, i)
      BY <1>1, <1>2, <1>4, <2>2 DEF Client!Starts
    <3>2. Client!Follows(s, i)
      BY <3>1 DEF Client!Framed
    <3>3. /\ i + z - 1 <= Len(s) /\ \A j \in i .. i + z - 1 : s[j].n = s[i].n
          /\ s[i].w = "MESG" => s[i + 3].w = "term"
          /\ i + z - 1 < Len(s) => s[i + z].w \in DOMAIN Client!Size /\ s[i + z].n = s[i].n + 1
      BY <2>1, <3>1, <3>2 DEF Client!Follows, Client!Starts
    <3>4. i + z - 1 = Len(s) => t[i + z] = p[1] /\ p[1].n = m /\ m = s[i].n + 1
      <4>1. SUFFICES ASSUME i + z - 1 = Len(s)
                     PROVE  t[i + z] = p[1] /\ p[1].n = m /\ m = s[i].n + 1
        OBVIOUS
      <4>2. i + z = Len(s) + 1 /\ Len(s) \in i .. i + z - 1 /\ s # <<>>
        <5>1. i \in Nat /\ z \in 1 .. 5 /\ Len(s) \in Nat
          BY <1>1, <1>2, <1>4, <2>1
        <5> HIDE DEF z
        <5>2. i + z = Len(s) + 1 /\ Len(s) \in i .. i + z - 1
          BY <2>2, <4>1, <5>1
        <5>3. s # <<>>
          BY <3>1
        <5>4. QED
          BY <5>2, <5>3
      <4>3. QED
        BY <1>1, <1>2, <3>3, <4>2
    <3> HIDE DEF z
    <3>5. i + z - 1 <= Len(t) /\ \A j \in i .. i + z - 1 : t[j].n = t[i].n
      <4>1. i + z - 1 <= Len(t) /\ i \in 1 .. Len(s)
        BY <1>1, <1>2, <2>1, <3>1, <3>3
      <4>2. ASSUME NEW j \in i .. i + z - 1 PROVE t[j].n = t[i].n
        <5>1. j \in 1 .. Len(s)
          BY <1>1, <2>1, <3>3, <4>1
        <5>2. QED
          BY <1>2, <3>1, <3>3, <5>1
      <4>3. QED
        BY <4>1, <4>2
    <3>6. t[i].w = "MESG" => t[i + 3].w = "term"
      BY <1>1, <1>2, <2>1, <2>2, <3>1, <3>3
    <3>7. i + z - 1 < Len(t) => t[i + z].w \in DOMAIN Client!Size /\ t[i + z].n = t[i].n + 1
      <4>1. CASE i + z - 1 = Len(s)
        BY <1>1, <3>1, <3>4, <4>1 DEF Client!Starts
      <4>2. CASE i + z - 1 < Len(s)
        BY <1>1, <1>2, <2>1, <3>1, <3>3, <4>2
      <4>3. QED
        BY <1>1, <2>1, <3>3, <4>1, <4>2
    <3>8. QED
      <4>1. i + z - 1 \in Int /\ (i + z - 1) + 1 = i + z
        BY <1>2, <1>1, <2>1, <1>4
      <4>2. QED
        BY <4>1, <3>5, <3>6, <3>7 DEF Client!Follows, Client!Starts, z
  <2>3. CASE i > Len(s)
    <3>1. i - Len(s) \in 1 .. len /\ t[i] = p[i - Len(s)]
      BY <1>1, <1>2, <2>3
    <3>2. i = Len(s) + 1 /\ t[i] = p[1] /\ z = len
      BY <1>1, <1>2, <1>4, <2>3, <3>1 DEF Client!Starts
    <3> HIDE DEF z
    <3>3. i + z - 1 = Len(t) /\ \A j \in i .. i + z - 1 : t[j].n = t[i].n
      <4>1. i + z - 1 = Len(t) /\ Len(t) = Len(s) + len
        BY <1>1, <1>2, <3>2
      <4>2. ASSUME NEW j \in i .. i + z - 1 PROVE t[j].n = m
        <5>1. j - Len(s) \in 1 .. len /\ Len(s) + (j - Len(s)) = j
          BY <1>1, <3>2, <4>1
        <5>2. QED
          <6>1. t[j] = p[j - Len(s)]
            BY <1>2, <5>1
          <6>2. QED
            BY <1>1, <5>1, <6>1
      <4>3. t[i].n = m
        BY <1>1, <3>2
      <4>4. QED
        BY <4>1, <4>2, <4>3
    <3>4. t[i].w = "MESG" => t[i + 3].w = "term"
      BY <1>1, <1>2, <3>2
    <3>5. QED
      BY <1>1, <1>2, <3>2, <3>3, <3>4 DEF Client!Follows, Client!Starts, z
  <2>4. QED
    BY <1>1, <1>2, <2>2, <2>3
<1>5. QED
  BY <1>3, <1>4 DEF Client!Framed, t, p

-----------------------------------------------------------------------------
LEMMA ReqInit == PluginsInit => Client!IInv
<1> SUFFICES ASSUME PluginsInit PROVE Client!IInv
  OBVIOUS
<1>1. Client!Init
  BY DEF PluginsInit
<1>2. /\ stream = <<>> /\ buffer = <<>> /\ handled = <<>> /\ lists = 0
      /\ buffer \o stream = <<>> /\ stream \in Seq(Client!Word) /\ handled \in Seq(Nat)
  BY <1>1 DEF Client!Init
<1>3. Client!TypeOK
  <2>1. buffer \in Seq(Client!Word) /\ lists \in Nat
    BY <1>2
  <2>2. /\ running \in BOOLEAN /\ logged \in BOOLEAN /\ allow \in BOOLEAN
        /\ closed \in BOOLEAN /\ spoilt \in BOOLEAN
    BY <1>1, Zenon DEF Client!Init
  <2>3. QED
    BY <1>2, <2>1, <2>2, Zenon DEF Client!TypeOK
<1>4. Client!Framed(buffer \o stream, Len(handled))
  BY <1>2 DEF Client!Framed
<1>5. Client!InTurn /\ Client!NothingWaits /\ Client!OneList
  BY <1>1, <1>2 DEF Client!Init, Client!InTurn, Client!NothingWaits, Client!OneList
<1>6. QED
  BY <1>3, <1>4, <1>5 DEF Client!IInv, Client!RequestsSafe

(* The packets are in turn when what remains is framed.                    *)
LEMMA ReqInTurn ==
  ASSUME ~ spoilt => /\ \A i \in DOMAIN handled : handled[i] = i
                     /\ Client!Framed(buffer \o stream, Len(handled))
  PROVE  Client!InTurn
BY DEF Client!InTurn, Client!Framed, Client!Starts

LEMMA ReqKnown ==
  ASSUME Client!IInv
  PROVE  /\ stream \in Seq(Client!Word) /\ buffer \in Seq(Client!Word) /\ handled \in Seq(Nat)
         /\ ~ spoilt => \A i \in DOMAIN handled : handled[i] = i
         /\ ~ spoilt => Client!Framed(buffer \o stream, Len(handled))
BY DEF Client!IInv, Client!TypeOK, Client!RequestsSafe, Client!InTurn

(* What the first words of the buffer are.                                 *)
LEMMA ReqHead ==
  ASSUME Client!IInv, ~ spoilt, buffer # <<>>
  PROVE  /\ buffer \o stream \in Seq(Client!Word) /\ buffer \o stream # <<>>
         /\ Len(buffer) \in Nat \ {0} /\ Len(stream) \in Nat
         /\ Len(buffer \o stream) = Len(buffer) + Len(stream)
         /\ \A i \in 1 .. Len(buffer) : (buffer \o stream)[i] = buffer[i]
         /\ Client!Framed(buffer \o stream, Len(handled)) /\ Len(handled) \in Nat
         /\ Client!Header = (buffer \o stream)[1].w /\ Client!Header \in DOMAIN Client!Size
         /\ Client!Header = buffer[1].w /\ Head(buffer) = buffer[1]
<1>1. /\ stream \in Seq(Client!Word) /\ buffer \in Seq(Client!Word) /\ handled \in Seq(Nat)
      /\ Client!Framed(buffer \o stream, Len(handled))
  BY ReqKnown
<1>2. /\ buffer \o stream \in Seq(Client!Word) /\ buffer \o stream # <<>>
      /\ Len(buffer) \in Nat \ {0} /\ Len(stream) \in Nat /\ Len(handled) \in Nat
      /\ Len(buffer \o stream) = Len(buffer) + Len(stream)
      /\ \A i \in 1 .. Len(buffer) : (buffer \o stream)[i] = buffer[i]
      /\ Head(buffer) = buffer[1] /\ (buffer \o stream)[1] = buffer[1]
  BY <1>1
<1>3. QED
  BY <1>1, <1>2 DEF Client!Framed, Client!Starts, Client!Header

(* The first n words are taken out of the buffer.                          *)
LEMMA ReqTaken ==
  ASSUME Client!IInv, ~ spoilt, buffer # <<>>, NEW n \in 1 .. Len(buffer), Client!Consume(n),
         stream' = stream
  PROVE  /\ buffer' \in Seq(Client!Word) /\ handled' \in Seq(Nat) /\ spoilt' \in BOOLEAN
         /\ n = Len(buffer) => buffer' = <<>>
         /\ ~ spoilt' => /\ \A i \in DOMAIN handled' : handled'[i] = i
                         /\ Client!Framed(buffer' \o stream', Len(handled'))
<1> DEFINE rest == buffer \o stream
<1>0. /\ stream \in Seq(Client!Word) /\ buffer \in Seq(Client!Word) /\ handled \in Seq(Nat)
      /\ \A i \in DOMAIN handled : handled[i] = i
  BY ReqKnown
<1>1. /\ rest \in Seq(Client!Word) /\ rest # <<>> /\ Len(buffer) \in Nat \ {0} /\ Len(stream) \in Nat
      /\ Len(rest) = Len(buffer) + Len(stream)
      /\ Client!Framed(rest, Len(handled)) /\ Len(handled) \in Nat
      /\ Client!Header = rest[1].w /\ Head(buffer) = buffer[1] /\ rest[1] = buffer[1]
  BY ReqHead
<1>2. /\ buffer' = SubSeq(buffer, n + 1, Len(buffer))
      /\ handled' = Append(handled, buffer[1].n)
      /\ spoilt' = ~ Client!Whole(n)
  BY <1>1 DEF Client!Consume
<1>3. buffer[1] \in Client!Word /\ buffer[1].n \in Nat
  <2>1. buffer[1] \in Client!Word
    BY <1>0, <1>1
  <2>2. QED
    BY <2>1 DEF Client!Word
<1>4. buffer' \in Seq(Client!Word) /\ handled' \in Seq(Nat) /\ (n = Len(buffer) => buffer' = <<>>)
  BY <1>0, <1>1, <1>2, <1>3
<1>5. spoilt' \in BOOLEAN
  BY <1>2 DEF Client!Whole
<1>6. ASSUME ~ spoilt'
      PROVE  /\ \A i \in DOMAIN handled' : handled'[i] = i
             /\ Client!Framed(buffer' \o stream', Len(handled'))
  <2>1. n = Client!Size[rest[1].w]
    BY Zenon, <1>1, <1>2, <1>6 DEF Client!Whole
  <2>2. buffer' \o stream = SubSeq(rest, n + 1, Len(rest))
    <3>1. /\ buffer' \o stream \in Seq(Client!Word) /\ SubSeq(rest, n + 1, Len(rest)) \in Seq(Client!Word)
          /\ Len(buffer' \o stream) = Len(rest) - n /\ Len(SubSeq(rest, n + 1, Len(rest))) = Len(rest) - n
      <4>1. Len(buffer') = Len(buffer) - n
        BY <1>0, <1>1, <1>2
      <4>2. buffer' \o stream \in Seq(Client!Word) /\ Len(buffer' \o stream) = Len(buffer') + Len(stream)
        BY <1>0, <1>4, ConcatProperties
      <4>3. /\ SubSeq(rest, n + 1, Len(rest)) \in Seq(Client!Word)
            /\ Len(SubSeq(rest, n + 1, Len(rest))) = Len(rest) - n
        BY <1>1
      <4> HIDE DEF rest
      <4>4. QED
        BY <1>1, <4>1, <4>2, <4>3
    <3>2. ASSUME NEW i \in 1 .. Len(rest) - n
          PROVE  (buffer' \o stream)[i] = SubSeq(rest, n + 1, Len(rest))[i]
      <4>1. SubSeq(rest, n + 1, Len(rest))[i] = rest[i + n]
        BY <1>1
      <4>2. CASE i <= Len(buffer) - n
        BY <1>0, <1>1, <1>2, <4>1, <4>2
      <4>3. CASE i > Len(buffer) - n
        <5>1. Len(buffer') = Len(buffer) - n
          BY <1>0, <1>1, <1>2
        <5>2. (buffer' \o stream)[i] = stream[i - (Len(buffer) - n)]
          <6>1. i \in Len(buffer') + 1 .. Len(buffer') + Len(stream)
            BY <1>1, <4>3, <5>1
          <6>2. (buffer' \o stream)[i] = stream[i - Len(buffer')]
            BY <1>0, <1>4, <6>1, ConcatProperties
          <6>3. QED
            BY <5>1, <6>2
        <5>3. rest[i + n] = stream[i + n - Len(buffer)]
          BY <1>0, <1>1, <4>3
        <5>4. i - (Len(buffer) - n) = i + n - Len(buffer)
          BY <1>1
        <5>5. QED
          BY <4>1, <5>2, <5>3, <5>4
      <4>4. i \in Nat /\ Len(buffer) - n \in Nat
        BY <1>1
      <4>5. i <= Len(buffer) - n \/ i > Len(buffer) - n
        BY <4>4
      <4>6. QED
        BY <4>2, <4>3, <4>5, Zenon
    <3>3. QED
      BY Zenon, <1>1, <3>1, <3>2, SeqEqual
  <2> HIDE DEF rest
  <2>3. rest[1].n = Len(handled) + 1 /\ Client!Framed(SubSeq(rest, n + 1, Len(rest)), Len(handled) + 1)
    BY Zenon, <1>1, <2>1, FramedRest
  <2>4. Len(handled') = Len(handled) + 1 /\ \A i \in DOMAIN handled' : handled'[i] = i
    BY <1>0, <1>1, <1>2, <1>3, <2>3
  <2>5. QED
    BY <2>2, <2>3, <2>4
<1>7. QED
  BY <1>4, <1>5, <1>6

(* A handler: it takes n words, and sets flags.                            *)
LEMMA ReqHandled ==
  ASSUME Client!IInv, ~ spoilt, buffer # <<>>, NEW n \in 1 .. Len(buffer), Client!Consume(n),
         stream' = stream, lists' \in Nat, running' \in BOOLEAN, logged' \in BOOLEAN,
         allow' \in BOOLEAN, closed' \in BOOLEAN, Client!OneList',
         running' \/ closed' \/ n = Len(buffer)
  PROVE  Client!IInv'
<1>1. /\ buffer' \in Seq(Client!Word) /\ handled' \in Seq(Nat) /\ spoilt' \in BOOLEAN
      /\ n = Len(buffer) => buffer' = <<>>
      /\ ~ spoilt' => /\ \A i \in DOMAIN handled' : handled'[i] = i
                      /\ Client!Framed(buffer' \o stream', Len(handled'))
  BY ReqTaken
<1>2. Client!TypeOK'
  BY <1>1, ReqKnown DEF Client!TypeOK
<1>3. Client!InTurn'
  BY <1>1 DEF Client!InTurn, Client!Framed, Client!Starts
<1>4. Client!NothingWaits'
  BY <1>1 DEF Client!NothingWaits
<1>5. QED
  BY <1>1, <1>2, <1>3, <1>4 DEF Client!IInv, Client!RequestsSafe

LEMMA ReqUntouched ==
  ASSUME Client!IInv, UNCHANGED <<stream, buffer, handled, spoilt>>, lists' \in Nat,
         running' \in BOOLEAN, allow' \in BOOLEAN, logged' = logged, closed' = closed,
         Client!OneList', Client!NothingWaits'
  PROVE  Client!IInv'
<1>1. Client!TypeOK'
  BY DEF Client!IInv, Client!TypeOK
<1>2. Client!InTurn'
  BY DEF Client!IInv, Client!RequestsSafe, Client!InTurn
<1>3. ~ spoilt' => Client!Framed(buffer' \o stream', Len(handled'))
  BY ReqKnown
<1>4. QED
  BY <1>1, <1>2, <1>3 DEF Client!IInv, Client!RequestsSafe

(* The client, and the network.                                            *)
LEMMA ReqSend ==
  ASSUME Client!IInv, NEW kind \in DOMAIN Client!Shape, Client!Send(kind)
  PROVE  Client!IInv'
<1> DEFINE m == IF stream = <<>> THEN 1 ELSE stream[Len(stream)].n + 1
<1>1. /\ buffer = <<>> /\ handled = <<>> /\ stream' = stream \o Client!Packet(m, kind)
      /\ UNCHANGED <<buffer, running, logged, allow, lists, handled, closed, spoilt>>
  BY DEF Client!Send, Client!Last
<1>2. m \in Nat
  <2>1. ASSUME stream # <<>> PROVE stream[Len(stream)] \in Client!Word
    BY <2>1, ReqKnown
  <2>2. stream # <<>> => stream[Len(stream)].n \in Nat
    BY <2>1 DEF Client!Word
  <2>3. QED
    BY <2>2
<1> HIDE DEF m
<1>3. Client!Packet(m, kind) \in Seq(Client!Word)
  BY Zenon, <1>2, PacketWords
<1>4. stream' \in Seq(Client!Word)
  BY <1>1, <1>3, ReqKnown, ConcatProperties
<1>5. Client!TypeOK'
  BY <1>1, <1>4 DEF Client!IInv, Client!TypeOK
<1>6. ~ spoilt' => Client!Framed(buffer' \o stream', Len(handled'))
  <2>1. SUFFICES ASSUME ~ spoilt PROVE Client!Framed(buffer' \o stream', Len(handled'))
    BY <1>1
  <2>2. buffer \o stream = stream /\ Len(handled) = 0 /\ stream \in Seq(Client!Word)
        /\ buffer' \o stream' = stream'
    BY <1>1, <1>4, ReqKnown
  <2>3. Client!Framed(stream, 0)
    BY <2>1, <2>2, ReqKnown
  <2>4. Client!Framed(stream \o Client!Packet(m, kind), 0)
    BY <1>2, <2>2, <2>3, FramedMore DEF m
  <2>5. QED
    BY <1>1, <2>2, <2>4
<1>7. Client!InTurn'
  BY <1>1, <1>6 DEF Client!InTurn, Client!Framed, Client!Starts
<1>8. Client!NothingWaits' /\ Client!OneList'
  BY <1>1 DEF Client!IInv, Client!RequestsSafe, Client!NothingWaits, Client!OneList
<1>9. QED
  BY <1>5, <1>6, <1>7, <1>8 DEF Client!IInv, Client!RequestsSafe

LEMMA ReqArrive ==
  ASSUME Client!IInv, NEW n \in 1 .. Len(stream), Client!Arrive(n)
  PROVE  Client!IInv'
<1>1. /\ buffer' = buffer \o SubSeq(stream, 1, n)
      /\ stream' = SubSeq(stream, n + 1, Len(stream)) /\ running' = TRUE
      /\ UNCHANGED <<logged, allow, lists, handled, closed, spoilt>>
  BY DEF Client!Arrive
<1>2. stream \in Seq(Client!Word) /\ buffer \in Seq(Client!Word) /\ Len(stream) \in Nat
  BY ReqKnown
<1>3. SubSeq(stream, 1, n) \in Seq(Client!Word) /\ stream' \in Seq(Client!Word)
  BY <1>1, <1>2
<1>4. buffer' \o stream' = buffer \o stream
  <2>1. SubSeq(stream, 1, n) \o SubSeq(stream, n + 1, Len(stream)) = stream
    <3>1. SubSeq(stream, 1, Len(stream)) = stream
      BY <1>2, SubSeqFull
    <3>2. /\ 1 \in 1 .. Len(stream) + 1 /\ n \in 1 - 1 .. Len(stream)
          /\ Len(stream) \in n .. Len(stream)
      BY <1>2
    <3>3. SubSeq(stream, 1, n) \o SubSeq(stream, n + 1, Len(stream)) = SubSeq(stream, 1, Len(stream))
      BY <1>2, <3>2, ConcatAdjacentSubSeq
    <3>4. QED
      BY Zenon, <3>1, <3>3
  <2>2. (buffer \o SubSeq(stream, 1, n)) \o stream' = buffer \o (SubSeq(stream, 1, n) \o stream')
    BY <1>2, <1>3, ConcatAssociative
  <2>3. QED
    BY Zenon, <1>1, <2>1, <2>2
<1>5. buffer' \in Seq(Client!Word)
  BY <1>1, <1>2, <1>3, ConcatProperties
<1>6. Client!TypeOK'
  BY <1>1, <1>3, <1>5, Zenon DEF Client!IInv, Client!TypeOK
<1>7. Client!InTurn'
  BY Zenon, <1>1, <1>4 DEF Client!IInv, Client!RequestsSafe, Client!InTurn
<1>8. Client!NothingWaits' /\ Client!OneList'
  BY <1>1 DEF Client!IInv, Client!RequestsSafe, Client!NothingWaits, Client!OneList
<1>9. QED
  BY Zenon, <1>1, <1>4, <1>6, <1>7, <1>8 DEF Client!IInv, Client!RequestsSafe

(* What is left in the buffer when the plugin returns: a message whose end *)
(* has not come.                                                           *)
LEMMA ReqReturn ==
  ASSUME Client!IInv, Client!Return
  PROVE  Client!IInv'
<1>1. /\ ~ spoilt /\ (buffer # <<>> => ~ Client!Ready) /\ running' = FALSE
      /\ UNCHANGED <<stream, buffer, logged, allow, lists, handled, closed, spoilt>>
  BY DEF Client!Return
<1>2. ASSUME buffer # <<>>
      PROVE  Client!Header = "MESG" /\ \A i \in DOMAIN buffer : buffer[i].n = buffer[1].n
  <2> DEFINE rest == buffer \o stream
  <2>1. /\ Len(buffer) \in Nat \ {0} /\ Len(stream) \in Nat /\ Len(rest) = Len(buffer) + Len(stream)
        /\ \A i \in 1 .. Len(buffer) : rest[i] = buffer[i]
        /\ Client!Framed(rest, Len(handled))
        /\ Client!Header = rest[1].w /\ Client!Header \in DOMAIN Client!Size
        /\ rest \in Seq(Client!Word)
    BY <1>1, <1>2, ReqHead
  <2>2. buffer \in Seq(Client!Word) /\ DOMAIN buffer = 1 .. Len(buffer)
    BY ReqKnown
  <2>3. Client!Header = "MESG" /\ \A i \in 1 .. Len(buffer) : buffer[i].w # "term"
    BY <1>1, <1>2, <2>2 DEF Client!Ready
  <2> HIDE DEF rest
  <2>4. Client!Follows(rest, 1)
    BY <2>1 DEF Client!Framed, Client!Starts
  <2>5. Client!Size[rest[1].w] = 4
    BY <2>1, <2>3, SizeOf
  <2>6. 4 <= Len(rest) /\ (\A j \in 1 .. 4 : rest[j].n = rest[1].n) /\ rest[4].w = "term"
    BY <2>1, <2>3, <2>4, <2>5 DEF Client!Follows
  <2>7. Len(buffer) < 4
    BY <2>1, <2>3, <2>6
  <2>8. QED
    BY <2>1, <2>2, <2>3, <2>6, <2>7
<1>3. Client!NothingWaits'
  BY <1>1, <1>2 DEF Client!NothingWaits, Client!Header
<1>4. Client!OneList' /\ lists' \in Nat /\ running' \in BOOLEAN /\ allow' \in BOOLEAN
  BY Zenon, <1>1 DEF Client!IInv, Client!RequestsSafe, Client!OneList, Client!TypeOK
<1>5. QED
  BY <1>1, <1>3, <1>4, ReqUntouched

LEMMA ReqTransmitted ==
  ASSUME Client!IInv, Client!Transmitted
  PROVE  Client!IInv'
<1>1. /\ lists > 0 /\ lists' = lists - 1 /\ allow' = TRUE
      /\ UNCHANGED <<stream, buffer, running, logged, handled, closed, spoilt>>
  BY DEF Client!Transmitted
<1>2. lists \in Nat /\ lists <= 1
  BY DEF Client!IInv, Client!RequestsSafe, Client!OneList, Client!TypeOK
<1>3. lists' = 0
  BY <1>1, <1>2
<1>4. Client!OneList' /\ lists' \in Nat
  BY <1>3 DEF Client!OneList
<1>5. Client!NothingWaits' /\ running' \in BOOLEAN /\ allow' \in BOOLEAN
  BY <1>1, Zenon DEF Client!IInv, Client!RequestsSafe, Client!NothingWaits, Client!TypeOK, Client!Header
<1>6. QED
  BY <1>1, <1>4, <1>5, ReqUntouched

(* The handlers, and how many words each takes.                            *)
LEMMA ReqOn ==
  ASSUME Client!IInv, NEW ws, Client!On(ws)
  PROVE  /\ running /\ ~ spoilt /\ ~ closed /\ buffer # <<>> /\ Client!Header \in ws
         /\ Client!Header \in DOMAIN Client!Size /\ Client!Size[Client!Header] \in 1 .. 5
         /\ Len(buffer) \in Nat \ {0} /\ Len(buffer) \in 1 .. Len(buffer) /\ 1 \in 1 .. Len(buffer)
         /\ ~ Client!Missing => Client!Size[Client!Header] \in 1 .. Len(buffer)
<1>1. running /\ ~ spoilt /\ ~ closed /\ buffer # <<>> /\ Client!Header \in ws
  BY DEF Client!On
<1>2. Client!Header \in DOMAIN Client!Size /\ Len(buffer) \in Nat \ {0}
  BY <1>1, ReqHead
<1>3. Client!Size[Client!Header] \in 1 .. 5
  BY <1>2, SizeOf
<1>4. ~ Client!Missing => Client!Size[Client!Header] \in 1 .. Len(buffer)
  BY <1>2, <1>3 DEF Client!Missing
<1>5. QED
  BY <1>1, <1>2, <1>3, <1>4

LEMMA ReqLists ==
  ASSUME Client!IInv
  PROVE  /\ lists \in Nat /\ lists <= 1 /\ (allow => lists = 0)
         /\ running \in BOOLEAN /\ logged \in BOOLEAN /\ allow \in BOOLEAN
         /\ closed \in BOOLEAN
         /\ UNCHANGED <<lists, allow>> => Client!OneList'
BY DEF Client!IInv, Client!RequestsSafe, Client!OneList, Client!TypeOK

LEMMA ReqAbort ==
  ASSUME Client!IInv, NEW ws, Client!On(ws), Client!Abort
  PROVE  Client!IInv'
<1>1. /\ closed' = TRUE /\ Client!Consume(Len(buffer)) /\ UNCHANGED <<stream, running, logged, allow, lists>>
  BY DEF Client!Abort, Client!Flush
<1>2. QED
  BY <1>1, ReqOn, ReqLists, ReqHandled

LEMMA ReqAuth ==
  ASSUME Client!IInv, Client!Auth
  PROVE  Client!IInv'
<1>1. Client!On({"AUTH"})
  BY DEF Client!Auth
<1>2. CASE Client!Abort
  BY <1>1, <1>2, ReqAbort
<1>3. CASE /\ logged' \in {TRUE, logged} /\ closed' \in BOOLEAN /\ Client!Flush
           /\ UNCHANGED <<stream, running, allow, lists>>
  <2>1. Client!Consume(Len(buffer)) /\ logged' \in BOOLEAN
    BY Zenon, <1>3, ReqLists DEF Client!Flush
  <2>2. QED
    BY <1>1, <1>3, <2>1, ReqOn, ReqLists, ReqHandled
<1>4. QED
  BY Zenon, <1>2, <1>3 DEF Client!Auth

LEMMA ReqList ==
  ASSUME Client!IInv, Client!List
  PROVE  Client!IInv'
<1>1. /\ Client!On({"LIST"}) /\ Client!Consume(1) /\ allow' = FALSE
      /\ IF allow THEN lists' \in {lists, lists + 1} ELSE lists' = lists
      /\ UNCHANGED <<stream, running, logged, closed>>
  BY DEF Client!List, Client!GetConnected
<1>2. lists' \in Nat /\ lists' <= 1
  <2>1. CASE allow
    BY <1>1, <2>1, ReqLists
  <2>2. CASE ~ allow
    BY <1>1, <2>2, ReqLists
  <2>3. QED
    BY <2>1, <2>2
<1>3. Client!OneList'
  BY <1>1, <1>2 DEF Client!OneList
<1>4. QED
  BY Zenon, <1>1, <1>2, <1>3, ReqOn, ReqLists, ReqHandled

(* The other handlers leave the lists alone.                               *)
LEMMA ReqTakes ==
  ASSUME Client!IInv, NEW ws, Client!On(ws), NEW n \in 1 .. Len(buffer), Client!Consume(n),
         UNCHANGED <<stream, logged, allow, lists>>, closed' \in BOOLEAN,
         running' = running \/ (n = Len(buffer) /\ running' \in BOOLEAN)
  PROVE  Client!IInv'
<1>1. running /\ running \in BOOLEAN
  BY ReqOn, ReqLists
<1>2. running' \in BOOLEAN /\ (running' \/ n = Len(buffer))
  <2>1. CASE running' = running
    BY <1>1, <2>1, Zenon
  <2>2. CASE n = Len(buffer) /\ running' \in BOOLEAN
    BY <2>2
  <2>3. QED
    BY <2>1, <2>2, Zenon
<1>3. QED
  BY <1>2, ReqOn, ReqLists, ReqHandled

LEMMA ReqParams ==
  ASSUME Client!IInv, NEW ws, Client!Params(ws),
         running' = running \/ (Client!Missing /\ running' \in BOOLEAN)
  PROVE  Client!IInv'
<1>1. /\ Client!On(ws) /\ UNCHANGED <<stream, logged, allow, lists, closed>>
      /\ Client!Missing => Client!Consume(Len(buffer))
      /\ ~ Client!Missing => Client!Consume(Client!Size[Client!Header])
  BY DEF Client!Params, Client!Flush
<1>2. closed' \in BOOLEAN
  BY <1>1, ReqLists
<1>3. CASE Client!Missing
  BY <1>1, <1>2, <1>3, ReqOn, ReqTakes
<1>4. CASE ~ Client!Missing
  BY <1>1, <1>2, <1>4, ReqOn, ReqTakes
<1>5. QED
  BY <1>3, <1>4

LEMMA ReqHandlers ==
  ASSUME Client!IInv,
         \/ Client!GetMisc \/ Client!ListUser \/ Client!Info \/ Client!Exec \/ Client!HostOnline
         \/ Client!Account \/ Client!Mail \/ Client!Mesg
  PROVE  Client!IInv'
<1>1. CASE Client!GetMisc
  <2>1. Client!On({"FRIENDS"}) /\ Client!Consume(1) /\ UNCHANGED <<stream, running, logged, allow, lists, closed>>
    BY <1>1 DEF Client!GetMisc
  <2>2. QED
    BY <2>1, ReqOn, ReqLists, ReqTakes
<1>2. CASE Client!ListUser
  BY <1>2, ReqParams DEF Client!ListUser
<1>3. CASE Client!Info
  BY <1>3, ReqParams DEF Client!Info
<1>4. CASE Client!Exec
  <2>1. CASE Client!Params({"STATUS", "CALL"}) /\ UNCHANGED running
    BY <2>1, ReqParams
  <2>2. CASE Client!Params({"REFRESH"}) /\ running' = ~ Client!Missing
    <3>1. Client!On({"REFRESH"})
      BY <2>2 DEF Client!Params
    <3>2. Client!Missing => Client!Missing /\ running' \in BOOLEAN
      BY <2>2, Zenon DEF Client!Missing
    <3>3. ~ Client!Missing => running' = running
      BY <2>2, <3>1, ReqOn, ReqLists, Zenon
    <3>4. QED
      BY <2>2, <3>2, <3>3, ReqParams
  <2>3. QED
    BY <1>4, <2>1, <2>2 DEF Client!Exec
<1>5. CASE Client!HostOnline
  <2>1. /\ Client!On({"HOST"}) /\ UNCHANGED <<stream, running, logged, allow, lists, closed>>
        /\ Client!Missing => Client!Consume(1)
        /\ ~ Client!Missing => Client!Consume(2)
    BY <1>5 DEF Client!HostOnline
  <2>2. ~ Client!Missing => 2 \in 1 .. Len(buffer)
    <3>1. Client!Size[Client!Header] = 2
      BY <2>1, ReqOn, SizeOf
    <3>2. QED
      BY <2>1, <3>1, ReqOn
  <2>3. closed' \in BOOLEAN
    BY <2>1, ReqLists
  <2>4. CASE Client!Missing
    BY <2>1, <2>3, <2>4, ReqOn, ReqTakes
  <2>5. CASE ~ Client!Missing
    BY <2>1, <2>2, <2>3, <2>5, ReqTakes
  <2>6. QED
    BY <2>4, <2>5
<1>6. CASE Client!Account
  <2>1. /\ Client!On({"ACCOUNT"}) /\ Client!Consume(Len(buffer)) /\ running' = FALSE
        /\ closed' \in BOOLEAN /\ UNCHANGED <<stream, logged, allow, lists>>
    BY <1>6 DEF Client!Account, Client!Flush
  <2>2. QED
    BY Zenon, <2>1, ReqOn, ReqTakes
<1>7. CASE Client!Mail
  <2>1. /\ Client!On({"MAIL"}) /\ UNCHANGED <<stream, logged, allow, lists, closed>>
        /\ \/ Client!Consume(1) /\ running' = running
           \/ Client!Consume(Len(buffer)) /\ running' = FALSE
    BY <1>7 DEF Client!Mail, Client!Flush
  <2>2. closed' \in BOOLEAN
    BY <2>1, ReqLists
  <2>3. CASE Client!Consume(1) /\ running' = running
    BY <2>1, <2>2, <2>3, ReqOn, ReqTakes
  <2>4. CASE Client!Consume(Len(buffer)) /\ running' = FALSE
    BY Zenon, <2>1, <2>2, <2>4, ReqOn, ReqTakes
  <2>5. QED
    BY Zenon, <2>1, <2>3, <2>4
<1>8. CASE Client!Mesg
  <2>1. /\ Client!On({"MESG"}) /\ UNCHANGED <<stream, running, logged, allow, lists, closed>>
        /\ Client!Consume(Len(buffer)) \/ \E n \in DOMAIN buffer : Client!Consume(n)
    BY <1>8 DEF Client!Mesg, Client!Flush
  <2>2. closed' \in BOOLEAN /\ DOMAIN buffer = 1 .. Len(buffer)
    BY <2>1, ReqLists, ReqKnown
  <2>3. PICK n \in 1 .. Len(buffer) : Client!Consume(n)
    BY <2>1, <2>2, ReqOn
  <2>4. QED
    BY <2>1, <2>2, <2>3, ReqTakes
<1>9. QED
  BY <1>1, <1>2, <1>3, <1>4, <1>5, <1>6, <1>7, <1>8

LEMMA ReqNext == Client!IInv /\ [Client!Next]_(Client!vars) => Client!IInv'
<1> SUFFICES ASSUME Client!IInv, [Client!Next]_(Client!vars) PROVE Client!IInv'
  OBVIOUS
<1>1. CASE UNCHANGED Client!vars
  <2>1. UNCHANGED <<stream, buffer, running, logged, allow, lists, handled, closed, spoilt>>
    BY <1>1 DEF Client!vars
  <2>2. Client!OneList' /\ Client!NothingWaits' /\ lists' \in Nat /\ running' \in BOOLEAN /\ allow' \in BOOLEAN
    BY <2>1, Zenon DEF Client!IInv, Client!RequestsSafe, Client!OneList, Client!NothingWaits,
      Client!Header, Client!TypeOK
  <2>3. QED
    BY <2>1, <2>2, ReqUntouched
<1>2. ASSUME NEW kind \in Kinds, Client!Send(kind) PROVE Client!IInv'
  BY <1>2, ReqSend, RequestAssumption
<1>3. CASE Client!Refuse
  BY <1>3, ReqAbort DEF Client!Refuse
<1>4. QED
  BY <1>1, <1>2, <1>3, ReqArrive, ReqReturn, ReqAuth, ReqList, ReqTransmitted, ReqHandlers
    DEF Client!Next

(* The packets of a connection are handled once, in order, however they were*)
(* cut, until a flush takes a part of another; only a message that has not *)
(* ended waits; and one list at most is on its way.                        *)
THEOREM RequestsAreSafe == PluginsSpec => []RequestsSafe
<1>1. ASSUME Client!IInv, [PluginsNext]_pluginsVars PROVE Client!IInv'
  <2>1. [Client!Next]_(Client!vars)
    BY <1>1, AloneStays DEF PluginsNext, Others, pluginsVars, requestVars, Client!vars
  <2>2. QED
    BY <1>1, <2>1, ReqNext
<1>2. Client!IInv => RequestsSafe
  BY DEF RequestsSafe, Client!IInv
<1>3. QED
  BY <1>1, <1>2, ReqInit, PTL DEF PluginsSpec

-----------------------------------------------------------------------------
(* Who is online.                                                          *)

LEMMA ChatCount == \A S : Users!Cardinality(S) = Cardinality(S) /\ Users!IsFiniteSet(S) = IsFiniteSet(S)
BY DEF Users!Cardinality, Cardinality, Users!IsFiniteSet, IsFiniteSet

(* One woman more makes room for one man more at most.                     *)
LEMMA LimitGrows ==
  ASSUME NEW n \in Nat
  PROVE  /\ Users!Limit(n) \in Nat /\ Users!Limit(n + 1) \in Nat
         /\ Users!Limit(n) <= Users!Limit(n + 1) /\ Users!Limit(n + 1) <= Users!Limit(n) + 1
<1>1. Percent \in 0 .. 100
  BY ChatAssumption
<1> DEFINE p == n * Percent
           q == (n + 1) * Percent
<1>2. p \in Nat /\ q = p + Percent
  BY <1>1
<1>3. Users!Limit(n) = p \div 100 /\ Users!Limit(n + 1) = q \div 100
  BY DEF Users!Limit
<1> HIDE DEF p, q
<1>4. QED
  BY <1>1, <1>2, <1>3

LEMMA ChatIds ==
  /\ IsFiniteSet(Users!Ids) /\ Users!Ids \subseteq Nat \ {0}
  /\ Sessions \subseteq Users!Ids /\ Users!Sims \subseteq Users!Ids /\ Sessions \cap Users!Sims = {}
  /\ 0 \notin Sessions
<1>1. IsFiniteSet(1 .. UserMax)
  BY ChatAssumption, FS_Interval
<1>2. Users!Ids \subseteq 1 .. UserMax
  BY ChatAssumption DEF Users!Ids
<1>3. IsFiniteSet(Users!Ids)
  BY Zenon, <1>1, <1>2, FS_Subset
<1>4. QED
  BY <1>3, ChatAssumption DEF Users!Ids, Users!Sims

LEMMA ChatSet ==
  ASSUME NEW S \in SUBSET Users!Ids
  PROVE  /\ Users!Cardinality(S) \in Nat /\ (Users!Cardinality(S) = 0 <=> S = {})
         /\ \A x : Users!Cardinality(S \cup {x}) =
                     IF x \in S THEN Users!Cardinality(S) ELSE Users!Cardinality(S) + 1
         /\ \A x : Users!Cardinality(S \ {x}) =
                     IF x \in S THEN Users!Cardinality(S) - 1 ELSE Users!Cardinality(S)
<1>1. IsFiniteSet(S)
  BY Zenon, ChatIds, FS_Subset
<1>2. QED
  BY <1>1, ChatCount, FS_CardinalityType, FS_EmptySet, FS_AddElement, FS_RemoveElement

LEMMA LeastNat ==
  ASSUME NEW T \in SUBSET Nat, T # {}
  PROVE  \E n \in T : \A m \in T : n <= m
<1>1. PICK n \in T : \A m \in T : ~ (<<m, n>> \in OpToRel(<, Nat))
  BY Zenon, WFMin, NatLessThanWellFounded
<1>2. \A m \in T : ~ (m < n)
  BY Zenon, <1>1 DEF OpToRel
<1>3. QED
  BY <1>2

LEMMA ChatMin ==
  ASSUME NEW S \in SUBSET Users!Ids, S # {}
  PROVE  Users!Min(S) \in S
<1>1. S \subseteq Nat
  BY ChatIds
<1>2. QED
  BY Zenon, <1>1, LeastNat DEF Users!Min

(* The sets of users, when one is written.                                 *)
LEMMA OfPut ==
  ASSUME NEW us, NEW vs, NEW i \in Users!Ids, vs[i] \in Users!User,
         \A x \in Users!Ids : x # i => vs[x] = us[x], NEW who, NEW vis
  PROVE  Users!Of(vs, who, vis) =
           IF vs[i].uid \in who /\ vs[i].visible \in vis
           THEN Users!Of(us, who, vis) \cup {i} ELSE Users!Of(us, who, vis) \ {i}
<1>1. vs[i] # None
  BY ChatAssumption DEF Users!User, Users!Accounts
<1>2. QED
  BY <1>1, Zenon DEF Users!Of

LEMMA OfDrop ==
  ASSUME NEW us, NEW vs, NEW i \in Users!Ids, vs[i] = None,
         \A x \in Users!Ids : x # i => vs[x] = us[x], NEW who, NEW vis
  PROVE  Users!Of(vs, who, vis) = Users!Of(us, who, vis) \ {i}
BY Zenon DEF Users!Of

(* A user is shown or hidden: nothing else of it changes.                  *)
LEMMA ChatShow ==
  ASSUME NEW us \in [Users!Ids -> Users!User \cup {None}], NEW i \in Users!Ids, us[i] # None,
         NEW v \in BOOLEAN, NEW vs, vs = Users!Show(us, i, v)
  PROVE  /\ vs \in [Users!Ids -> Users!User \cup {None}]
         /\ vs[i] # None /\ vs[i].uid = us[i].uid /\ vs[i].nick = us[i].nick
         /\ \A x \in Users!Ids : x # i => vs[x] = us[x]
         /\ \A who, vis : Users!Of(vs, who, vis) =
              IF us[i].uid \in who /\ v \in vis
              THEN Users!Of(us, who, vis) \cup {i} ELSE Users!Of(us, who, vis) \ {i}
<1> DEFINE rec == [us[i] EXCEPT !.visible = v]
<1>1. us[i] \in Users!User
  OBVIOUS
<1>2. rec \in Users!User /\ rec.uid = us[i].uid /\ rec.nick = us[i].nick /\ rec.visible = v
  BY <1>1, Zenon DEF Users!User
<1>3. rec # None
  BY <1>2, ChatAssumption DEF Users!User, Users!Accounts
<1>4. vs = [us EXCEPT ![i] = rec]
  BY Zenon DEF Users!Show
<1> HIDE DEF rec
<1>5. vs[i] = rec /\ \A x \in Users!Ids : x # i => vs[x] = us[x]
  BY <1>4
<1>6. vs \in [Users!Ids -> Users!User \cup {None}]
  BY <1>2, <1>4
<1>7. ASSUME NEW who, NEW vis
      PROVE  Users!Of(vs, who, vis) = IF us[i].uid \in who /\ v \in vis
                                      THEN Users!Of(us, who, vis) \cup {i} ELSE Users!Of(us, who, vis) \ {i}
  <2>1. Users!Of(vs, who, vis) = IF vs[i].uid \in who /\ vs[i].visible \in vis
                                 THEN Users!Of(us, who, vis) \cup {i} ELSE Users!Of(us, who, vis) \ {i}
    <3>1. vs[i] \in Users!User
      BY <1>2, <1>5
    <3>2. QED
      BY <1>5, <3>1, OfPut
  <2>2. QED
    BY <1>2, <1>5, <2>1, Zenon
<1>8. vs[i] # None /\ vs[i].uid = us[i].uid /\ vs[i].nick = us[i].nick
  BY <1>2, <1>3, <1>5, Zenon
<1>9. QED
  BY <1>5, <1>6, <1>7, <1>8, Zenon

SeenIn(us) == Users!Of(us, Men, {TRUE})
HiddenIn(us) == Users!Of(us, Men, {FALSE})
WomenIn(us) == Users!Of(us, Women, BOOLEAN)
There == {x \in Users!Ids : users[x] # None}
Seen == SeenIn(users)
Hidden == HiddenIn(users)
TheWomen == WomenIn(users)

Moves(us, vs, i) ==
  /\ vs \in [Users!Ids -> Users!User \cup {None}]
  /\ vs[i] # None /\ vs[i].uid = us[i].uid /\ vs[i].nick = us[i].nick
  /\ \A x \in Users!Ids : x # i => vs[x] = us[x]
  /\ WomenIn(vs) = WomenIn(us)

(* A man is shown, or hidden.                                              *)
Shown(us, i) == Users!Show(us, i, TRUE)
NotShown(us, i) == Users!Show(us, i, FALSE)

LEMMA ChatManShown ==
  ASSUME NEW us \in [Users!Ids -> Users!User \cup {None}], NEW i \in HiddenIn(us), NEW vs,
         vs = Shown(us, i)
  PROVE  Moves(us, vs, i) /\ SeenIn(vs) = SeenIn(us) \cup {i} /\ HiddenIn(vs) = HiddenIn(us) \ {i}
<1>1. i \in Users!Ids /\ us[i] # None /\ us[i].uid \in Men /\ us[i].uid \notin Women
  BY ChatAssumption, Zenon DEF HiddenIn, Users!Of
<1> DEFINE v == TRUE
<1>a. v \in BOOLEAN /\ vs = Users!Show(us, i, v)
  BY Zenon DEF Shown
<1> HIDE DEF v
<1>b. \A who, vis : Users!Of(vs, who, vis) =
              IF us[i].uid \in who /\ v \in vis
              THEN Users!Of(us, who, vis) \cup {i} ELSE Users!Of(us, who, vis) \ {i}
  BY <1>1, <1>a, ChatShow
<1>c. /\ vs \in [Users!Ids -> Users!User \cup {None}]
      /\ vs[i] # None /\ vs[i].uid = us[i].uid /\ vs[i].nick = us[i].nick
      /\ \A x \in Users!Ids : x # i => vs[x] = us[x]
  BY <1>1, <1>a, ChatShow
<1>2. v = TRUE
  BY DEF v
<1>3. SeenIn(vs) = SeenIn(us) \cup {i} /\ HiddenIn(vs) = HiddenIn(us) \ {i} /\ WomenIn(vs) = WomenIn(us) \ {i}
  BY <1>1, <1>2, <1>b, Zenon DEF SeenIn, HiddenIn, WomenIn
<1>4. i \notin WomenIn(us)
  BY <1>1, Zenon DEF WomenIn, Users!Of
<1>5. Moves(us, vs, i) \/ WomenIn(vs) # WomenIn(us)
  BY <1>c, Zenon DEF Moves
<1>6. QED
  BY <1>3, <1>4, <1>5

LEMMA ChatManHidden ==
  ASSUME NEW us \in [Users!Ids -> Users!User \cup {None}], NEW i \in SeenIn(us), NEW vs,
         vs = NotShown(us, i)
  PROVE  Moves(us, vs, i) /\ HiddenIn(vs) = HiddenIn(us) \cup {i} /\ SeenIn(vs) = SeenIn(us) \ {i}
<1>1. i \in Users!Ids /\ us[i] # None /\ us[i].uid \in Men /\ us[i].uid \notin Women
  BY ChatAssumption, Zenon DEF SeenIn, Users!Of
<1> DEFINE v == FALSE
<1>a. v \in BOOLEAN /\ vs = Users!Show(us, i, v)
  BY Zenon DEF NotShown
<1> HIDE DEF v
<1>b. \A who, vis : Users!Of(vs, who, vis) =
              IF us[i].uid \in who /\ v \in vis
              THEN Users!Of(us, who, vis) \cup {i} ELSE Users!Of(us, who, vis) \ {i}
  BY <1>1, <1>a, ChatShow
<1>c. /\ vs \in [Users!Ids -> Users!User \cup {None}]
      /\ vs[i] # None /\ vs[i].uid = us[i].uid /\ vs[i].nick = us[i].nick
      /\ \A x \in Users!Ids : x # i => vs[x] = us[x]
  BY <1>1, <1>a, ChatShow
<1>2. v = FALSE
  BY DEF v
<1>3. HiddenIn(vs) = HiddenIn(us) \cup {i} /\ SeenIn(vs) = SeenIn(us) \ {i} /\ WomenIn(vs) = WomenIn(us) \ {i}
  BY <1>1, <1>2, <1>b, Zenon DEF SeenIn, HiddenIn, WomenIn
<1>4. i \notin WomenIn(us)
  BY <1>1, Zenon DEF WomenIn, Users!Of
<1>5. Moves(us, vs, i) \/ WomenIn(vs) # WomenIn(us)
  BY <1>c, Zenon DEF Moves
<1>6. QED
  BY <1>3, <1>4, <1>5

(* What the table keeps, in these sets.                                    *)
TableIs ==
  /\ counts.online = Users!Cardinality(There) /\ (There # {} => list = users)
  /\ Quotas => /\ counts.women = Users!Cardinality(TheWomen)
               /\ counts.men = Users!Cardinality(Seen)
               /\ counts.men <= Users!Limit(counts.women) + 1
               /\ Hidden # {} => counts.men >= Users!Limit(counts.women)
TableType == users \in [Users!Ids -> Users!User \cup {None}]
             /\ counts \in [online : Nat, women : Nat, men : Nat]

LEMMA ChatTable == (Users!Table <=> TableIs) /\ (Users!Table' <=> TableIs')
<1>1. Users!Table <=> TableIs
  BY DEF Users!Table, Users!Counted, Users!Quota, TableIs, There, Seen, Hidden, TheWomen,
     SeenIn, HiddenIn, WomenIn
<1>2. Users!Table' <=> TableIs'
  BY DEF Users!Table, Users!Counted, Users!Quota, TableIs, There, Seen, Hidden, TheWomen,
     SeenIn, HiddenIn, WomenIn
<1>3. QED
  BY <1>1, <1>2

LEMMA ChatSets ==
  ASSUME TableType
  PROVE  /\ There \in SUBSET Users!Ids /\ Seen \in SUBSET There /\ Hidden \in SUBSET There
         /\ TheWomen \in SUBSET There /\ Seen \cap Hidden = {}
         /\ \A x \in There : users[x] \in Users!User
<1>1. There \in SUBSET Users!Ids /\ Seen \in SUBSET There /\ Hidden \in SUBSET There
      /\ TheWomen \in SUBSET There
  BY Zenon DEF There, Seen, Hidden, TheWomen, SeenIn, HiddenIn, WomenIn, Users!Of
<1>2. Seen \cap Hidden = {}
  BY Zenon DEF Seen, Hidden, SeenIn, HiddenIn, Users!Of
<1>3. \A x \in There : users[x] \in Users!User
  BY DEF There, TableType
<1>4. QED
  BY <1>1, <1>2, <1>3

(* What is known of the others after a change at one identifier.           *)
Kept(i) ==
  \A x \in Users!Ids : x # i =>
    /\ users'[x] = None <=> users[x] = None
    /\ users[x] # None => users'[x].uid = users[x].uid /\ users'[x].nick = users[x].nick

LEMMA ChatEnter ==
  ASSUME TableType, Users!Table, NEW u \in Users!Accounts, NEW i \in Users!Ids, users[i] = None,
         Users!Enter(u, i)
  PROVE  /\ TableType' /\ Users!Table' /\ Kept(i)
         /\ users'[i] # None /\ users'[i].uid = u /\ users'[i].nick = u
<1> DEFINE n == counts.women + (IF Quotas /\ u \in Women THEN 1 ELSE 0)
           place == Quotas /\ counts.men <= Users!Limit(n)
           rec == [uid |-> u, visible |-> ~ Quotas \/ u \in Women \/ place,
                   nick |-> u, away |-> FALSE]
           with == [users EXCEPT ![i] = rec]
           hidden == HiddenIn(with)
           show == place /\ u \in Women /\ hidden # {}
           table == IF show THEN Users!Show(with, Users!Min(hidden), TRUE) ELSE with
<1>1. /\ users' = table
      /\ counts' = [online |-> counts.online + 1, women |-> n,
                    men |-> counts.men + (IF show \/ (place /\ u \in Men) THEN 1 ELSE 0)]
      /\ list' = IF \E x \in Users!Ids : table[x] # None THEN table ELSE list
  BY Zenon DEF Users!Enter, Users!Publish, HiddenIn
<1>2. TableIs
  BY ChatTable
<1>3. /\ rec \in Users!User /\ rec.uid = u /\ rec.nick = u
      /\ u \in Women \/ (Quotas /\ place) => rec.visible = TRUE
      /\ u \notin Women /\ Quotas /\ ~ place => rec.visible = FALSE
  BY Zenon DEF Users!User
<1>4. place \in BOOLEAN /\ (place <=> Quotas /\ counts.men <= Users!Limit(n))
  OBVIOUS
<1>5. with[i] = rec /\ \A x \in Users!Ids : x # i => with[x] = users[x]
  BY DEF TableType
<1> HIDE DEF rec, place
<1>6. with \in [Users!Ids -> Users!User \cup {None}] /\ with[i] # None
  BY <1>3, <1>5, ChatAssumption DEF TableType, Users!User, Users!Accounts
<1> HIDE DEF with
<1>7. /\ i \notin There /\ i \notin Seen /\ i \notin Hidden /\ i \notin TheWomen
      /\ {x \in Users!Ids : with[x] # None} = There \cup {i}
  BY <1>5, <1>6, Zenon DEF There, Seen, Hidden, TheWomen, SeenIn, HiddenIn, WomenIn, Users!Of
<1>8. with[i] \in Users!User /\ with[i].uid = u
  BY <1>3, <1>5, Zenon
<1>8a. ASSUME NEW who, NEW vis
       PROVE  Users!Of(with, who, vis) = IF with[i].uid \in who /\ with[i].visible \in vis
                THEN Users!Of(users, who, vis) \cup {i} ELSE Users!Of(users, who, vis) \ {i}
  <2>1. with[i] \in Users!User /\ \A x \in Users!Ids : x # i => with[x] = users[x]
    BY <1>5, <1>8
  <2>2. QED
    BY <2>1, OfPut
<1>9. /\ u \in Women => WomenIn(with) = TheWomen \cup {i}
      /\ u \notin Women => WomenIn(with) = TheWomen
  <2>1. Users!Of(with, Women, BOOLEAN) = IF with[i].uid \in Women /\ with[i].visible \in BOOLEAN
            THEN Users!Of(users, Women, BOOLEAN) \cup {i} ELSE Users!Of(users, Women, BOOLEAN) \ {i}
    BY <1>8a, Zenon
  <2>2. with[i].visible \in BOOLEAN
    BY <1>8, Zenon DEF Users!User
  <2>3. QED
    BY <1>7, <1>8, <2>1, <2>2, Zenon DEF TheWomen, WomenIn
<1>10. /\ u \in Women => SeenIn(with) = Seen /\ hidden = Hidden
       /\ Quotas /\ u \notin Women /\ place => SeenIn(with) = Seen \cup {i} /\ hidden = Hidden
       /\ Quotas /\ u \notin Women /\ ~ place => SeenIn(with) = Seen /\ hidden = Hidden \cup {i}
  <2> DEFINE yes == {TRUE}
             no == {FALSE}
  <2> HIDE DEF yes, no
  <2>1. /\ Users!Of(with, Men, yes) = IF with[i].uid \in Men /\ with[i].visible \in yes
            THEN Users!Of(users, Men, yes) \cup {i} ELSE Users!Of(users, Men, yes) \ {i}
        /\ Users!Of(with, Men, no) = IF with[i].uid \in Men /\ with[i].visible \in no
            THEN Users!Of(users, Men, no) \cup {i} ELSE Users!Of(users, Men, no) \ {i}
    BY <1>8a, Zenon
  <2> USE DEF yes, no
  <2>2. (u \in Women /\ u \notin Men) \/ (u \in Men /\ u \notin Women)
    BY ChatAssumption DEF Users!Accounts
  <2>3. CASE u \in Women
    BY <1>7, <1>8, <2>1, <2>2, <2>3, ChatAssumption, Zenon DEF Seen, Hidden, SeenIn, HiddenIn
  <2>4. CASE u \notin Women /\ Quotas /\ place
    <3>1. with[i].visible \in {TRUE} /\ with[i].visible \notin {FALSE}
      BY <1>3, <1>5, <2>4, Zenon
    <3>2. QED
      BY <1>7, <1>8, <2>1, <2>2, <2>4, <3>1, Zenon DEF Seen, Hidden, SeenIn, HiddenIn
  <2>5. CASE u \notin Women /\ Quotas /\ ~ place
    <3>1. with[i].visible \in {FALSE} /\ with[i].visible \notin {TRUE}
      BY <1>3, <1>5, <2>5, Zenon
    <3>2. QED
      BY <1>7, <1>8, <2>1, <2>2, <2>5, <3>1, Zenon DEF Seen, Hidden, SeenIn, HiddenIn
  <2>6. QED
    BY <2>3, <2>4, <2>5, Zenon
<1>11. show \in BOOLEAN /\ (show <=> place /\ u \in Women /\ hidden # {})
  OBVIOUS
<1>11a. counts' \in [online : Nat, women : Nat, men : Nat]
  BY <1>1 DEF TableType
<1>12. ASSUME show
       PROVE  /\ TableType' /\ Kept(i) /\ users'[i] # None /\ users'[i].uid = u /\ users'[i].nick = u
              /\ There' = There \cup {i} /\ TheWomen' = TheWomen \cup {i}
              /\ \E x \in Hidden : Seen' = Seen \cup {x} /\ Hidden' = Hidden \ {x}
  <2> DEFINE first == Users!Min(hidden)
  <2>1. /\ hidden = Hidden /\ SeenIn(with) = Seen /\ hidden \in SUBSET Users!Ids
        /\ WomenIn(with) = TheWomen \cup {i} /\ Hidden # {}
    BY <1>2, <1>9, <1>10, <1>11, <1>12, ChatSets, Zenon
  <2>2. first \in hidden /\ first \in Hidden /\ first \in Users!Ids /\ first # i
    BY <1>7, <2>1, ChatMin
  <2>3. users' = Shown(with, first)
    BY <1>1, <1>12 DEF Shown
  <2> HIDE DEF first
  <2>4. Moves(with, users', first) /\ Seen' = Seen \cup {first} /\ Hidden' = Hidden \ {first}
    BY <1>6, <2>1, <2>2, <2>3, ChatManShown DEF Seen, Hidden
  <2>4a. /\ users'[first] # None /\ with[first] # None /\ users'[first].uid = with[first].uid
         /\ users'[first].nick = with[first].nick /\ WomenIn(users') = WomenIn(with)
         /\ \A x \in Users!Ids : x # first => users'[x] = with[x]
    BY <2>2, <2>4, Zenon DEF Moves, HiddenIn, Users!Of
  <2>4b. TheWomen' = TheWomen \cup {i}
    BY <2>1, <2>4a DEF TheWomen
  <2>4c. There' = {x \in Users!Ids : with[x] # None}
    BY <2>4a, Zenon DEF There
  <2>5. TheWomen' = TheWomen \cup {i} /\ There' = There \cup {i}
    BY <1>7, <2>4b, <2>4c
  <2>5a. users'[i] # None /\ users'[i].uid = u /\ users'[i].nick = u
    BY <1>3, <1>5, <1>6, <2>2, <2>4a, Zenon
  <2>5b. ASSUME NEW x \in Users!Ids, x # i
         PROVE  /\ users'[x] = None <=> users[x] = None
                /\ users[x] # None => users'[x].uid = users[x].uid /\ users'[x].nick = users[x].nick
    <3>1. with[x] = users[x]
      BY <1>5, <2>5b
    <3>2. CASE x = first
      BY <2>4a, <3>1, <3>2
    <3>3. CASE x # first
      BY <2>4a, <3>1, <3>3
    <3>4. QED
      BY <3>2, <3>3
  <2>6. Kept(i) /\ users'[i] # None /\ users'[i].uid = u /\ users'[i].nick = u
    BY <2>5a, <2>5b, Zenon DEF Kept
  <2>7. TableType'
    BY <1>11a, <2>4 DEF TableType, Moves
  <2>8. QED
    BY <2>2, <2>4, <2>5, <2>6, <2>7
<1>13. ASSUME ~ show
       PROVE  /\ TableType' /\ Kept(i) /\ users'[i] # None /\ users'[i].uid = u /\ users'[i].nick = u
              /\ There' = There \cup {i}
              /\ u \in Women => TheWomen' = TheWomen \cup {i} /\ Seen' = Seen /\ Hidden' = Hidden
              /\ u \notin Women => TheWomen' = TheWomen
              /\ Quotas /\ u \notin Women /\ place => Seen' = Seen \cup {i} /\ Hidden' = Hidden
              /\ Quotas /\ u \notin Women /\ ~ place => Seen' = Seen /\ Hidden' = Hidden \cup {i}
  <2>1. users' = with
    BY Zenon, <1>1, <1>13
  <2>2. There' = There \cup {i}
    BY <1>7, <2>1, Zenon DEF There
  <2>3. /\ Seen' = SeenIn(with) /\ Hidden' = hidden /\ TheWomen' = WomenIn(with)
    BY <2>1, Zenon DEF Seen, Hidden, TheWomen
  <2>4. Kept(i) /\ users'[i] # None /\ users'[i].uid = u /\ users'[i].nick = u
    BY <1>3, <1>5, <1>6, <2>1, Zenon DEF Kept
  <2>5. TableType'
    BY <1>6, <1>11a, <2>1 DEF TableType
  <2>6. QED
    BY <1>9, <1>10, <2>2, <2>3, <2>4, <2>5, Zenon
<1>14. /\ counts'.online = counts.online + 1 /\ counts'.women = n
       /\ counts'.men = counts.men + (IF show \/ (place /\ u \in Men) THEN 1 ELSE 0)
       /\ There' # {} => list' = users'
  <2>1. There' # {} => list' = users'
    BY <1>1, Zenon DEF There
  <2>2. QED
    BY Zenon, <1>1, <2>1
<1> HIDE DEF show, hidden, n, table
<1>15. /\ counts.online \in Nat /\ counts.women \in Nat /\ counts.men \in Nat
       /\ Users!Limit(counts.women) \in Nat /\ Users!Limit(counts.women + 1) \in Nat
       /\ Users!Limit(counts.women) <= Users!Limit(counts.women + 1)
       /\ Users!Limit(counts.women + 1) <= Users!Limit(counts.women) + 1
  BY LimitGrows DEF TableType
<1>16. /\ There \in SUBSET Users!Ids /\ Seen \in SUBSET Users!Ids /\ Hidden \in SUBSET Users!Ids
       /\ TheWomen \in SUBSET Users!Ids /\ Seen \cap Hidden = {}
  BY ChatSets
<1>17. /\ There' = There \cup {i} /\ counts'.online = counts.online + 1
       /\ counts.online = Users!Cardinality(There) /\ (There' # {} => list' = users')
  BY <1>2, <1>12, <1>13, <1>14 DEF TableIs
<1>18. counts'.online = Users!Cardinality(There')
  BY <1>7, <1>16, <1>17, ChatSet
<1>19. ASSUME Quotas
       PROVE  /\ counts'.women = Users!Cardinality(TheWomen')
              /\ counts'.men = Users!Cardinality(Seen')
              /\ counts'.men <= Users!Limit(counts'.women) + 1
              /\ Hidden' # {} => counts'.men >= Users!Limit(counts'.women)
  <2>1. /\ counts.women = Users!Cardinality(TheWomen) /\ counts.men = Users!Cardinality(Seen)
        /\ counts.men <= Users!Limit(counts.women) + 1
        /\ Hidden # {} => counts.men >= Users!Limit(counts.women)
    BY <1>2, <1>19 DEF TableIs
  <2>2. n = IF u \in Women THEN counts.women + 1 ELSE counts.women
    BY <1>15, <1>19 DEF n
  <2>3. (u \in Women /\ u \notin Men) \/ (u \notin Women /\ u \in Men)
    BY ChatAssumption DEF Users!Accounts
  <2>4. place <=> counts.men <= Users!Limit(n)
    BY <1>4, <1>19
  <2>5. CASE show
    <3>1. PICK x \in Hidden : Seen' = Seen \cup {x} /\ Hidden' = Hidden \ {x}
      BY <1>12, <2>5
    <3>2. u \in Women /\ TheWomen' = TheWomen \cup {i} /\ place
      BY <1>11, <1>12, <2>5
    <3>3. counts'.women = counts.women + 1 /\ counts'.men = counts.men + 1
      BY <1>14, <2>2, <2>5, <3>2
    <3>4. /\ Users!Cardinality(TheWomen \cup {i}) = Users!Cardinality(TheWomen) + 1
          /\ Users!Cardinality(Seen \cup {x}) = Users!Cardinality(Seen) + 1
      BY <1>7, <1>16, <3>1, ChatSet
    <3>5. QED
      BY <1>15, <2>1, <2>2, <2>4, <3>1, <3>2, <3>3, <3>4
  <2>6. CASE ~ show /\ u \in Women
    <3>1. TheWomen' = TheWomen \cup {i} /\ Seen' = Seen /\ Hidden' = Hidden
      BY <1>13, <2>6
    <3>2. counts'.women = counts.women + 1 /\ counts'.men = counts.men
      BY <1>14, <1>15, <2>2, <2>3, <2>6
    <3>3. Users!Cardinality(TheWomen \cup {i}) = Users!Cardinality(TheWomen) + 1
      BY <1>7, <1>16, ChatSet
    <3>4. place => Hidden = {}
      BY <1>10, <1>11, <2>6
    <3>5. QED
      BY <1>15, <2>1, <2>2, <2>4, <2>6, <3>1, <3>2, <3>3, <3>4
  <2>7. CASE ~ show /\ u \notin Women /\ place
    <3>1. TheWomen' = TheWomen /\ Seen' = Seen \cup {i} /\ Hidden' = Hidden
      BY <1>13, <1>19, <2>7
    <3>2. counts'.women = counts.women /\ counts'.men = counts.men + 1
      BY <1>14, <2>2, <2>3, <2>7
    <3>3. Users!Cardinality(Seen \cup {i}) = Users!Cardinality(Seen) + 1
      BY <1>7, <1>16, ChatSet
    <3>4. QED
      BY <1>15, <2>1, <2>2, <2>4, <2>7, <3>1, <3>2, <3>3
  <2>8. CASE ~ show /\ u \notin Women /\ ~ place
    <3>1. TheWomen' = TheWomen /\ Seen' = Seen
      BY <1>13, <1>19, <2>8
    <3>2. counts'.women = counts.women /\ counts'.men = counts.men
      BY <1>14, <1>15, <2>2, <2>8
    <3>3. QED
      BY <1>15, <2>1, <2>2, <2>4, <2>8, <3>1, <3>2
  <2>9. QED
    BY <2>5, <2>6, <2>7, <2>8
<1>20. TableIs'
  BY <1>17, <1>18, <1>19 DEF TableIs
<1>21. QED
  BY <1>12, <1>13, <1>20, ChatTable, Zenon

(* A user leaves; a man may be shown or hidden for it.                     *)
LEMMA ChatLeave ==
  ASSUME TableType, Users!Table, NEW i \in Users!Ids, users[i] # None, Users!Leave(i)
  PROVE  /\ TableType' /\ Users!Table' /\ Kept(i) /\ users'[i] = None
<1> DEFINE with == [users EXCEPT ![i] = None]
           c == [counts EXCEPT !.online = IF @ = 0 THEN 0 ELSE @ - 1,
                   !.women = IF Quotas /\ users[i].uid \in Women /\ @ > 0 THEN @ - 1 ELSE @,
                   !.men = IF Quotas /\ i \in Seen THEN @ - 1 ELSE @]
           hidden == HiddenIn(with)
           seen == SeenIn(with)
           show == Quotas /\ users[i].uid \in Men /\ c.men <= Users!Limit(c.women) /\ hidden # {}
           hide == Quotas /\ users[i].uid \in Women /\ c.men > Users!Limit(c.women) /\ seen # {}
           table == IF show THEN Shown(with, Users!Min(hidden))
                    ELSE IF hide THEN NotShown(with, Users!Min(seen)) ELSE with
<1>1. /\ users' = table
      /\ counts' = [c EXCEPT !.men = IF show THEN @ + 1 ELSE IF hide /\ @ > 0 THEN @ - 1 ELSE @]
      /\ list' = IF \E x \in Users!Ids : table[x] # None THEN table ELSE list
  BY Zenon DEF Users!Leave, Users!Publish, HiddenIn, SeenIn, Seen, Shown, NotShown
<1>2. TableIs
  BY ChatTable
<1>3. /\ counts.online \in Nat /\ counts.women \in Nat /\ counts.men \in Nat
      /\ DOMAIN counts = {"online", "women", "men"}
  BY DEF TableType
<1>4. /\ c.online = IF counts.online = 0 THEN 0 ELSE counts.online - 1
      /\ c.women = IF Quotas /\ users[i].uid \in Women /\ counts.women > 0 THEN counts.women - 1 ELSE counts.women
      /\ c.men = IF Quotas /\ i \in Seen THEN counts.men - 1 ELSE counts.men
      /\ c = [online |-> c.online, women |-> c.women, men |-> c.men]
  <2>1. PICK a \in Nat, b \in Nat, d \in Nat : counts = [online |-> a, women |-> b, men |-> d]
    BY DEF TableType
  <2>2. /\ c.online = IF counts.online = 0 THEN 0 ELSE counts.online - 1
        /\ c.women = IF Quotas /\ users[i].uid \in Women /\ counts.women > 0 THEN counts.women - 1 ELSE counts.women
    BY <1>3
  <2>3. c.men = IF Quotas /\ i \in Seen THEN counts.men - 1 ELSE counts.men
    BY <1>3
  <2> DEFINE e == IF counts.online = 0 THEN 0 ELSE counts.online - 1
             f == IF Quotas /\ users[i].uid \in Women /\ counts.women > 0 THEN counts.women - 1 ELSE counts.women
             g == IF Quotas /\ i \in Seen THEN counts.men - 1 ELSE counts.men
  <2>4. c = [counts EXCEPT !.online = e, !.women = f, !.men = g]
    BY Zenon
  <2> HIDE DEF e, f, g, c
  <2>5. c = [online |-> e, women |-> f, men |-> g]
    BY Zenon, <2>1, <2>4
  <2>6. c = [online |-> c.online, women |-> c.women, men |-> c.men]
    BY <2>5
  <2>7. QED
    BY <2>2, <2>3, <2>6
<1>5. with[i] = None /\ (\A x \in Users!Ids : x # i => with[x] = users[x])
      /\ with \in [Users!Ids -> Users!User \cup {None}]
  BY DEF TableType
<1>6. /\ There \in SUBSET Users!Ids /\ Seen \in SUBSET Users!Ids /\ Hidden \in SUBSET Users!Ids
      /\ TheWomen \in SUBSET Users!Ids /\ Seen \cap Hidden = {}
      /\ i \in There /\ users[i] \in Users!User
      /\ (users[i].uid \in Women /\ users[i].uid \notin Men) \/ (users[i].uid \in Men /\ users[i].uid \notin Women)
  BY ChatSets, ChatAssumption DEF There, Users!User, Users!Accounts
<1>7. /\ users[i].uid \in Women => i \in TheWomen /\ i \notin Seen /\ i \notin Hidden
      /\ users[i].uid \in Men => i \notin TheWomen /\ (i \in Seen \/ i \in Hidden)
  <2>1. users[i].visible \in BOOLEAN
    BY <1>6, Zenon DEF Users!User
  <2>2. users[i].visible \in {TRUE} \/ users[i].visible \in {FALSE}
    BY <2>1, Zenon
  <2>3. QED
    BY <1>6, <2>1, <2>2, Zenon DEF TheWomen, Seen, Hidden, WomenIn, SeenIn, HiddenIn, Users!Of
<1> HIDE DEF with
<1>8. WomenIn(with) = TheWomen \ {i} /\ seen = Seen \ {i} /\ hidden = Hidden \ {i}
  <2>1. ASSUME NEW who, NEW vis PROVE Users!Of(with, who, vis) = Users!Of(users, who, vis) \ {i}
    BY <1>5, OfDrop
  <2>2. QED
    BY <2>1, Zenon DEF TheWomen, Seen, Hidden, WomenIn, SeenIn, HiddenIn
<1>9. {x \in Users!Ids : with[x] # None} = There \ {i}
  BY <1>5, Zenon DEF There
<1> DEFINE nw == c.women
           nm == c.men
<1>10. /\ show \in BOOLEAN /\ hide \in BOOLEAN
       /\ show <=> Quotas /\ users[i].uid \in Men /\ nm <= Users!Limit(nw) /\ hidden # {}
       /\ hide <=> Quotas /\ users[i].uid \in Women /\ nm > Users!Limit(nw) /\ seen # {}
       /\ ~ (show /\ hide)
  BY <1>6
<1>11. /\ counts.online = Users!Cardinality(There) /\ counts.online > 0
       /\ c.online = counts.online - 1 /\ c.online = Users!Cardinality(There \ {i})
  <2>1. /\ Users!Cardinality(There) \in Nat /\ Users!Cardinality(There) # 0
        /\ Users!Cardinality(There \ {i}) = Users!Cardinality(There) - 1
    BY <1>6, ChatSet
  <2>2. QED
    BY <1>2, <1>4, <2>1 DEF TableIs
<1>12. ASSUME Quotas
       PROVE  /\ nw = Users!Cardinality(TheWomen \ {i}) /\ nw \in Nat
              /\ users[i].uid \in Women => nw = counts.women - 1
              /\ users[i].uid \in Men => nw = counts.women
              /\ nm = Users!Cardinality(Seen \ {i}) /\ nm \in Nat
              /\ i \in Seen => nm = counts.men - 1
              /\ i \notin Seen => nm = counts.men
  <2>1. counts.women = Users!Cardinality(TheWomen) /\ counts.men = Users!Cardinality(Seen)
    BY <1>2, <1>12 DEF TableIs
  <2>2. /\ i \in TheWomen => /\ Users!Cardinality(TheWomen) # 0
                             /\ Users!Cardinality(TheWomen \ {i}) = Users!Cardinality(TheWomen) - 1
        /\ i \notin TheWomen => Users!Cardinality(TheWomen \ {i}) = Users!Cardinality(TheWomen)
        /\ i \in Seen => /\ Users!Cardinality(Seen) # 0
                         /\ Users!Cardinality(Seen \ {i}) = Users!Cardinality(Seen) - 1
        /\ i \notin Seen => Users!Cardinality(Seen \ {i}) = Users!Cardinality(Seen)
    BY <1>6, ChatSet
  <2>3. QED
    BY <1>3, <1>4, <1>6, <1>7, <1>12, <2>1, <2>2
<1>13. c.women \in Nat /\ (c.men \in Nat \/ Quotas) /\ c.online \in Nat
  BY <1>3, <1>4, <1>11
<1>14. nm \in Nat
  BY <1>12, <1>13
<1> HIDE DEF c, nw, nm, show, hide, table
<1>15. /\ counts'.online = c.online /\ counts'.women = nw
       /\ counts'.men = (IF show THEN nm + 1 ELSE IF hide /\ nm > 0 THEN nm - 1 ELSE nm)
       /\ There' # {} => list' = users'
       /\ counts' \in [online : Nat, women : Nat, men : Nat]
  <2>1. There' # {} => list' = users'
    BY <1>1, Zenon DEF There
  <2>2. counts' = [online |-> c.online, women |-> nw,
                   men |-> IF show THEN nm + 1 ELSE IF hide /\ nm > 0 THEN nm - 1 ELSE nm]
    BY <1>1, <1>4 DEF nw, nm
  <2>3. QED
    BY <1>13, <1>14, <2>1, <2>2 DEF nw
<1>16. ASSUME NEW other \in Users!Ids, Moves(with, users', other), with[other] # None
       PROVE  TableType' /\ Kept(i) /\ users'[i] = None /\ There' = There \ {i} /\ TheWomen' = TheWomen \ {i}
  <2>1. /\ users'[other] # None /\ users'[other].uid = with[other].uid
        /\ users'[other].nick = with[other].nick /\ WomenIn(users') = WomenIn(with)
        /\ \A x \in Users!Ids : x # other => users'[x] = with[x]
        /\ other # i
    BY <1>5, <1>16, Zenon DEF Moves
  <2>2. TheWomen' = TheWomen \ {i}
    BY <1>8, <2>1 DEF TheWomen
  <2>3. There' = {x \in Users!Ids : with[x] # None}
    BY <1>16, <2>1, Zenon DEF There
  <2>4. ASSUME NEW x \in Users!Ids, x # i
        PROVE  /\ users'[x] = None <=> users[x] = None
               /\ users[x] # None => users'[x].uid = users[x].uid /\ users'[x].nick = users[x].nick
    <3>1. with[x] = users[x]
      BY <1>5, <2>4
    <3>2. CASE x = other
      BY <1>16, <2>1, <3>1, <3>2
    <3>3. CASE x # other
      BY <2>1, <3>1, <3>3
    <3>4. QED
      BY <3>2, <3>3
  <2>5. Kept(i)
    BY <2>4, Zenon DEF Kept
  <2>6. TableType'
    BY <1>15, <1>16 DEF TableType, Moves
  <2>7. QED
    BY <1>5, <1>9, <2>1, <2>2, <2>3, <2>5, <2>6
<1>17. CASE show
  <2> DEFINE first == Users!Min(hidden)
  <2>1. users' = Shown(with, first)
    BY <1>1, <1>17 DEF table
  <2>2. first \in hidden /\ first \in Users!Ids
    BY <1>6, <1>8, <1>10, <1>17, ChatMin
  <2> HIDE DEF first
  <2>3. /\ Moves(with, users', first)
        /\ SeenIn(users') = SeenIn(with) \cup {first} /\ HiddenIn(users') = HiddenIn(with) \ {first}
    BY <1>5, <2>1, <2>2, ChatManShown
  <2>4. with[first] # None
    BY <2>2, Zenon DEF HiddenIn, Users!Of
  <2>5. TableType' /\ Kept(i) /\ users'[i] = None /\ There' = There \ {i} /\ TheWomen' = TheWomen \ {i}
    BY <1>16, <2>2, <2>3, <2>4
  <2>6. Seen' = (Seen \ {i}) \cup {first} /\ first \in Hidden
    BY <1>8, <2>2, <2>3 DEF Seen
  <2>7. Users!Cardinality(Seen') = Users!Cardinality(Seen \ {i}) + 1
    BY <1>6, <2>2, <2>6, ChatSet
  <2>8. TableIs'
    <3>1. Quotas /\ ~ hide /\ nm <= Users!Limit(nw)
      BY <1>10, <1>17
    <3>2. counts'.men = nm + 1 /\ counts'.women = nw /\ counts'.online = Users!Cardinality(There')
      BY <1>11, <1>15, <1>17, <2>5
    <3>3. Users!Limit(nw) \in Nat /\ Users!Limit(nw) <= nm + 1
      <4>1. nw = counts.women /\ Hidden # {} /\ counts.men <= nm + 1
        BY <1>3, <1>6, <1>10, <1>12, <1>14, <1>17, <2>6, <3>1
      <4>2. Users!Limit(counts.women) <= counts.men /\ Users!Limit(counts.women) \in Nat
        BY <1>2, <1>3, <3>1, <4>1, LimitGrows DEF TableIs
      <4>3. QED
        BY <1>3, <1>14, <4>1, <4>2
    <3>4. QED
      BY <1>12, <1>14, <1>15, <2>5, <2>7, <3>1, <3>2, <3>3 DEF TableIs
  <2>9. QED
    BY <2>5, <2>8, ChatTable
<1>18. CASE hide
  <2> DEFINE first == Users!Min(seen)
  <2>1. users' = NotShown(with, first)
    BY <1>1, <1>10, <1>18 DEF table
  <2>2. first \in seen /\ first \in Users!Ids
    BY <1>6, <1>8, <1>10, <1>18, ChatMin
  <2> HIDE DEF first
  <2>3. /\ Moves(with, users', first)
        /\ SeenIn(users') = SeenIn(with) \ {first} /\ HiddenIn(users') = HiddenIn(with) \cup {first}
    BY <1>5, <2>1, <2>2, ChatManHidden
  <2>4. with[first] # None
    BY <2>2, Zenon DEF SeenIn, Users!Of
  <2>5. TableType' /\ Kept(i) /\ users'[i] = None /\ There' = There \ {i} /\ TheWomen' = TheWomen \ {i}
    BY <1>16, <2>2, <2>3, <2>4
  <2>6. Seen' = Seen \ {first} /\ first \in Seen /\ Seen \ {i} = Seen
    BY <1>6, <1>7, <1>8, <1>10, <1>18, <2>2, <2>3 DEF Seen
  <2>7. Users!Cardinality(Seen') = Users!Cardinality(Seen) - 1
    BY <1>6, <2>6, ChatSet
  <2>8. TableIs'
    <3>1. Quotas /\ ~ show /\ nm > Users!Limit(nw) /\ users[i].uid \in Women
      BY <1>10, <1>18
    <3>2. nw = counts.women - 1 /\ nm = counts.men /\ nw \in Nat
      BY <1>6, <1>7, <1>12, <3>1
    <3>3. /\ Users!Limit(nw) \in Nat /\ Users!Limit(nw + 1) \in Nat
          /\ Users!Limit(nw + 1) <= Users!Limit(nw) + 1 /\ nw + 1 = counts.women
      BY <1>3, <3>2, LimitGrows
    <3>4. counts'.men = nm - 1 /\ counts'.women = nw /\ counts'.online = Users!Cardinality(There')
      BY <1>11, <1>14, <1>15, <1>18, <2>5, <3>1, <3>3
    <3>5. counts.men <= Users!Limit(counts.women) + 1 /\ counts.men = Users!Cardinality(Seen)
      BY <1>2, <3>1 DEF TableIs
    <3>6. QED
      BY <1>12, <1>14, <1>15, <2>5, <2>7, <3>1, <3>2, <3>3, <3>4, <3>5 DEF TableIs
  <2>9. QED
    BY <2>5, <2>8, ChatTable
<1>19. CASE ~ show /\ ~ hide
  <2>1. users' = with
    BY <1>1, <1>19 DEF table
  <2>2. /\ There' = There \ {i} /\ TheWomen' = TheWomen \ {i} /\ Seen' = Seen \ {i} /\ Hidden' = Hidden \ {i}
    BY <1>8, <1>9, <2>1 DEF There, TheWomen, Seen, Hidden
  <2>3. Kept(i) /\ users'[i] = None
    BY <1>5, <2>1, Zenon DEF Kept
  <2>4. TableType'
    BY <1>5, <1>15, <2>1 DEF TableType
  <2>5. counts'.men = nm /\ counts'.women = nw /\ counts'.online = Users!Cardinality(There')
    BY <1>11, <1>15, <1>19, <2>2
  <2>6. ASSUME Quotas
        PROVE  nm <= Users!Limit(nw) + 1 /\ (Hidden' # {} => nm >= Users!Limit(nw))
    <3>1. /\ counts.men <= Users!Limit(counts.women) + 1
          /\ Hidden # {} => counts.men >= Users!Limit(counts.women)
      BY <1>2, <2>6 DEF TableIs
    <3>2. CASE users[i].uid \in Men
      <4>1. /\ nw = counts.women /\ nm \in {counts.men, counts.men - 1} /\ Users!Limit(nw) \in Nat
        BY <1>3, <1>12, <2>6, <3>2, LimitGrows
      <4>2. Hidden' # {} => nm > Users!Limit(nw)
        BY <1>8, <1>10, <1>14, <1>19, <2>2, <2>6, <3>2, <4>1
      <4>3. QED
        BY <1>3, <1>14, <3>1, <4>1, <4>2
    <3>3. CASE users[i].uid \in Women
      <4>1. nw = counts.women - 1 /\ nm = counts.men /\ nw \in Nat /\ Seen \ {i} = Seen
        BY <1>6, <1>7, <1>12, <2>6, <3>3
      <4>2. /\ Users!Limit(nw) \in Nat /\ Users!Limit(nw + 1) \in Nat /\ Users!Limit(nw) <= Users!Limit(nw + 1)
            /\ Users!Limit(nw + 1) <= Users!Limit(nw) + 1 /\ nw + 1 = counts.women
        BY <1>3, <4>1, LimitGrows
      <4>3. nm > Users!Limit(nw) => Seen = {}
        BY <1>8, <1>10, <1>19, <2>6, <3>3, <4>1
      <4>4. Seen = {} => nm = 0
        BY <1>2, <1>6, <2>6, <4>1, ChatSet DEF TableIs
      <4>5. nm <= Users!Limit(nw)
        BY <1>14, <4>2, <4>3, <4>4
      <4>6. Hidden' # {} => Hidden # {}
        BY <2>2
      <4>7. QED
        BY <1>14, <3>1, <4>1, <4>2, <4>5, <4>6
    <3>4. QED
      BY <1>6, <3>2, <3>3
  <2>7. TableIs'
    BY <1>12, <1>15, <2>2, <2>5, <2>6 DEF TableIs
  <2>8. QED
    BY <2>3, <2>4, <2>7, ChatTable
<1>20. QED
  BY <1>17, <1>18, <1>19

-----------------------------------------------------------------------------
(* The threads.                                                            *)
Simulates(t) == chatThread[t].op \in {"host", "feed"}
Locked == {"take", "next", "clear", "remove", "update", "insert", "give"}

LEMMA ChatWorks ==
  ASSUME Users!IInv, NEW t \in ChatThreads
  PROVE  /\ chatThread[t] \in Users!Thread
         /\ chatThread[t].op = "none" => chatThread[t] = Users!Idle
         /\ chatThread[t].op = "login" =>
              /\ chatThread[t].at \in {"clear", "remove", "update", "insert"}
              /\ chatThread[t].u \in Users!Accounts /\ chatThread[t].s \in Sessions
              /\ users[chatThread[t].s] = None
              /\ chatThread[t].at \in {"clear", "remove"} => chatThread[t].old \in Users!Ids
         /\ chatThread[t].op = "hangup" =>
              /\ chatThread[t].at \in {"clear", "remove"}
              /\ chatThread[t].s \in Sessions /\ chatThread[t].old = chatThread[t].s
         /\ chatThread[t].op = "refresh" =>
              /\ chatThread[t].at = "refresh" /\ chatThread[t].u \in Users!Accounts
              /\ chatThread[t].s = 0 /\ chatThread[t].old \in Users!Ids
         /\ Simulates(t) =>
              /\ chatThread[t].at \in Locked \cup {"lock", "each"} /\ chatThread[t].s \notin Sessions
              /\ chatThread[t].at \in {"lock", "take", "update", "insert"} => chatThread[t].u \in Hosts
              /\ chatThread[t].at \in {"clear", "remove", "update", "insert", "give"} =>
                   chatThread[t].s \in Users!Sims
              /\ chatThread[t].at \in {"clear", "remove"} => chatThread[t].old = chatThread[t].s
              /\ chatThread[t].at \in {"update", "insert", "give"} => users[chatThread[t].s] = None
              /\ chatThread[t].at \in Locked => hlock = t /\ chatThread[t].gone \subseteq hostess
              /\ chatThread[t].at \in {"lock", "take", "each", "update", "insert"} => chatThread[t].gone = {}
              /\ chatThread[t].at \in {"take", "update", "insert"} =>
                   Users!Cardinality(hostess) < HostessMax
              /\ chatThread[t].op = "host" => chatThread[t].gone = {}
<1>1. chatThread[t] \in Users!Thread /\ Users!Working(t)
  BY DEF Users!IInv, Users!TypeOK
<1>2. QED
  BY <1>1 DEF Users!Working, Users!InHand, Simulates, Locked

(* The same, of the next state.                                            *)
LEMMA ChatWorking ==
  ASSUME NEW t \in ChatThreads,
         chatThread'[t].op \in {"none", "login", "hangup", "refresh", "host", "feed"},
         chatThread'[t].op = "none" => chatThread'[t] = Users!Idle,
         chatThread'[t].op = "login" =>
              /\ chatThread'[t].at \in {"clear", "remove", "update", "insert"}
              /\ chatThread'[t].u \in Users!Accounts /\ chatThread'[t].s \in Sessions
              /\ users'[chatThread'[t].s] = None
              /\ chatThread'[t].at \in {"clear", "remove"} => chatThread'[t].old \in Users!Ids,
         chatThread'[t].op = "hangup" =>
              /\ chatThread'[t].at \in {"clear", "remove"}
              /\ chatThread'[t].s \in Sessions /\ chatThread'[t].old = chatThread'[t].s,
         chatThread'[t].op = "refresh" =>
              /\ chatThread'[t].at = "refresh" /\ chatThread'[t].u \in Users!Accounts
              /\ chatThread'[t].s = 0 /\ chatThread'[t].old \in Users!Ids,
         Simulates(t)' =>
              /\ chatThread'[t].at \in Locked \cup {"lock", "each"} /\ chatThread'[t].s \notin Sessions
              /\ chatThread'[t].at \in {"lock", "take", "update", "insert"} => chatThread'[t].u \in Hosts
              /\ chatThread'[t].at \in {"clear", "remove", "update", "insert", "give"} =>
                   chatThread'[t].s \in Users!Sims
              /\ chatThread'[t].at \in {"clear", "remove"} => chatThread'[t].old = chatThread'[t].s
              /\ chatThread'[t].at \in {"update", "insert", "give"} => users'[chatThread'[t].s] = None
              /\ chatThread'[t].at \in Locked => hlock' = t /\ chatThread'[t].gone \subseteq hostess'
              /\ chatThread'[t].at \in {"lock", "take", "each", "update", "insert"} => chatThread'[t].gone = {}
              /\ chatThread'[t].at \in {"take", "update", "insert"} =>
                   Users!Cardinality(hostess') < HostessMax
              /\ chatThread'[t].op = "host" => chatThread'[t].gone = {}
  PROVE  Users!Working(t)'
BY DEF Users!Working, Users!InHand, Simulates, Locked

(* A step of one thread, and what the others rely on.                      *)
Steps(t) ==
  /\ \A r \in ChatThreads : r # t => chatThread'[r] = chatThread[r]
  /\ chatThread' \in [ChatThreads -> Users!Thread]
  /\ hlock \in {t, None} \/ UNCHANGED <<hlock, hostess>>
  /\ \A x \in Users!Ids : users[x] = None /\ users'[x] # None =>
       x = chatThread[t].s /\ (x \in Sessions \/ hlock = t)
  /\ chatThread'[t].s \in {chatThread[t].s} \cup {0} \cup Users!Sims
     \/ \A r \in ChatThreads : chatThread[r].s # chatThread'[t].s

LEMMA ChatOthers ==
  ASSUME Users!IInv, NEW t \in ChatThreads, Steps(t), NEW r \in ChatThreads, r # t
  PROVE  Users!Working(r)'
<1>2. chatThread'[r] = chatThread[r]
  BY DEF Steps
<1>3. /\ chatThread[r].op = "login" => users'[chatThread[r].s] = None
      /\ Simulates(r) /\ chatThread[r].at \in {"update", "insert", "give"} => users'[chatThread[r].s] = None
  <2>1. ASSUME chatThread[r].op = "login" PROVE users'[chatThread[r].s] = None
    <3>1. chatThread[r].s \in Sessions /\ chatThread[r].s \in Users!Ids /\ users[chatThread[r].s] = None
      BY Zenon, <2>1, ChatWorks, ChatIds
    <3>2. chatThread[t].s # chatThread[r].s
      BY <3>1 DEF Users!IInv, Users!Apart
    <3>3. QED
      BY <3>1, <3>2 DEF Steps
  <2>2. ASSUME Simulates(r), chatThread[r].at \in {"update", "insert", "give"}
        PROVE  users'[chatThread[r].s] = None
    <3>1. /\ chatThread[r].s \in Users!Sims /\ chatThread[r].s \in Users!Ids
          /\ users[chatThread[r].s] = None /\ chatThread[r].s \notin Sessions /\ hlock = r
      BY Zenon, <2>2, ChatWorks, ChatIds DEF Locked
    <3>2. QED
      BY <3>1 DEF Steps
  <2>3. QED
    BY <2>1, <2>2
<1>4. Simulates(r) /\ chatThread[r].at \in Locked => UNCHANGED <<hlock, hostess>>
  BY <1>2, ChatWorks, ChatAssumption DEF Steps
<1>5. chatThread[r] \in Users!Thread
  BY ChatWorks
<1>6. chatThread[r].op \in {"none", "login", "hangup", "refresh", "host", "feed"}
  BY <1>5 DEF Users!Thread
<1>7. QED
  BY <1>2, <1>3, <1>4, <1>6, ChatWorks, ChatWorking DEF Simulates, Locked

LEMMA ChatApart ==
  ASSUME Users!IInv, NEW t \in ChatThreads, Steps(t)
  PROVE  Users!Apart'
<1>1. ASSUME NEW q \in ChatThreads, NEW r \in ChatThreads, chatThread'[q].s \in Sessions,
             chatThread'[r].s = chatThread'[q].s
      PROVE  q = r
  <2>1. chatThread'[t].s \in Sessions =>
          chatThread'[t].s = chatThread[t].s \/ \A x \in ChatThreads : chatThread[x].s # chatThread'[t].s
    BY Zenon, ChatIds DEF Steps
  <2>2. \A x, y \in ChatThreads : chatThread[x].s \in Sessions /\ chatThread[y].s = chatThread[x].s => x = y
    BY DEF Users!IInv, Users!Apart
  <2>3. QED
    BY <1>1, <2>1, <2>2 DEF Steps
<1>2. QED
  BY <1>1 DEF Users!Apart

(* The simulated identifiers, when none moves.                             *)
LEMMA ChatOnce ==
  ASSUME Users!IInv, NEW t \in ChatThreads, Steps(t), UNCHANGED <<free, nextId, hostess>>,
         Users!InHand(t)' <=> Users!InHand(t),
         Users!InHand(t) => chatThread'[t].s = chatThread[t].s,
         \A x \in Users!Sims \ (Users!Held \cup Users!Hand) : users'[x] = None
  PROVE  Users!Once'
<1>1. Users!Once
  BY DEF Users!IInv
<1>2. \A r \in ChatThreads : (Users!InHand(r)' <=> Users!InHand(r))
                             /\ (Users!InHand(r) => chatThread'[r].s = chatThread[r].s)
  BY DEF Steps, Users!InHand
<1>3. Users!Hand' = Users!Hand
  BY <1>2, Zenon DEF Users!Hand
<1>4. Users!Held' = Users!Held /\ Users!Freed' = Users!Freed
  BY DEF Users!Held, Users!Freed
<1>5. QED
  BY <1>1, <1>3, <1>4 DEF Users!Once

-----------------------------------------------------------------------------
(* One thread.                                                             *)
OwnSets(us, d, gone, new) ==
  /\ \A u \in Users!Accounts :
       {x \in Users!Ids \ gone : us[x] # None /\ us[x].uid = u} = IF u \in new THEN {} ELSE {d[u]} \ {0}
  /\ \A x \in Users!Ids : us[x] # None => us[x].nick = us[x].uid
OwnEach(us, d, gone, new) ==
  /\ \A u \in Users!Accounts : \A x \in Users!Ids : x \notin gone =>
       ((us[x] # None /\ us[x].uid = u) <=> (u \notin new /\ d[u] = x))
  /\ \A u \in Users!Accounts : u \notin new /\ d[u] # 0 => d[u] \notin gone
  /\ \A x \in Users!Ids : us[x] # None => us[x].nick = us[x].uid

LEMMA ChatOwn ==
  ASSUME NEW us, NEW d \in [Users!Accounts -> Users!Ids \cup {0}], NEW gone, NEW new
  PROVE  OwnSets(us, d, gone, new) <=> OwnEach(us, d, gone, new)
<1>1. 0 \notin Users!Ids
  BY ChatIds
<1> DEFINE S(u) == {x \in Users!Ids \ gone : us[x] # None /\ us[x].uid = u}
           D(u) == IF u \in new THEN {} ELSE {d[u]} \ {0}
<1>2. ASSUME NEW u \in Users!Accounts
      PROVE  S(u) = D(u) <=>
               /\ \A x \in Users!Ids : x \notin gone =>
                    ((us[x] # None /\ us[x].uid = u) <=> (u \notin new /\ d[u] = x))
               /\ u \notin new /\ d[u] # 0 => d[u] \notin gone
  <2>1. d[u] \in Users!Ids \cup {0}
    OBVIOUS
  <2>2. QED
    BY <1>1, <2>1
<1>3. QED
  BY <1>2 DEF OwnSets, OwnEach

GoneAt(t) == IF chatThread[t].at = "remove" THEN {chatThread[t].old} ELSE {}
NewAt(t) == IF chatThread[t].at = "insert" THEN {chatThread[t].u} ELSE {}
OwnMore(t) ==
  /\ chatThread[t].at \in {"take", "update"} => db[chatThread[t].u] = 0
  /\ chatThread[t].op = "login" /\ chatThread[t].at = "clear" => chatThread[t].old = db[chatThread[t].u]
  /\ chatThread[t].op = "login" /\ chatThread[t].at = "remove" => db[chatThread[t].u] = 0
  /\ chatThread[t].at = "insert" => db[chatThread[t].u] = chatThread[t].s
  /\ chatThread[t].at = "refresh" => db[chatThread[t].u] = chatThread[t].old
May(t) == chatThread[t].at = "idle" => \A r \in ChatThreads : chatThread[r].at = "idle"

LEMMA ChatOwns ==
  ASSUME Users!IInv, alone, NEW t \in ChatThreads, May(t)
  PROVE  /\ OwnEach(users, db, GoneAt(t), NewAt(t)) /\ OwnMore(t)
         /\ \A r \in ChatThreads : r # t => chatThread[r].at = "idle"
         /\ db \in [Users!Accounts -> Users!Ids \cup {0}]
<1>1. Users!Alone /\ db \in [Users!Accounts -> Users!Ids \cup {0}]
  BY DEF Users!IInv, Users!TypeOK
<1>2. \A r \in ChatThreads : r # t => chatThread[r].at = "idle"
  BY <1>1 DEF May, Users!Alone, Users!At
<1>3. CASE chatThread[t].at = "idle"
  <2>1. Users!Own({}, {}) /\ GoneAt(t) = {} /\ NewAt(t) = {}
    BY <1>1, <1>3 DEF May, Users!Alone, Users!At, GoneAt, NewAt
  <2>2. OwnSets(users, db, GoneAt(t), NewAt(t))
    BY <2>1 DEF Users!Own, OwnSets
  <2>3. QED
    BY <1>1, <1>2, <1>3, <2>2, ChatOwn DEF OwnMore
<1>4. CASE chatThread[t].at # "idle"
  <2>1. Users!OwnIn(t)
    BY <1>1, <1>4 DEF Users!Alone, Users!At
  <2>2. OwnSets(users, db, GoneAt(t), NewAt(t)) /\ OwnMore(t)
    BY <2>1 DEF Users!OwnIn, Users!Own, OwnSets, OwnMore, GoneAt, NewAt
  <2>3. QED
    BY <1>1, <1>2, <2>2, ChatOwn
<1>5. QED
  BY <1>3, <1>4

LEMMA ChatAlone ==
  ASSUME Users!IInv, UNCHANGED alone, NEW t \in ChatThreads, Steps(t), alone => May(t),
         db' \in [Users!Accounts -> Users!Ids \cup {0}],
         alone => OwnEach(users', db', GoneAt(t)', NewAt(t)') /\ OwnMore(t)'
  PROVE  Users!Alone'
<1> SUFFICES ASSUME alone
             PROVE  /\ \A q, r \in ChatThreads : q # r => chatThread'[q].at = "idle" \/ chatThread'[r].at = "idle"
                    /\ (\A r \in ChatThreads : chatThread'[r].at = "idle") => Users!Own({}, {})'
                    /\ \A r \in ChatThreads : chatThread'[r].at # "idle" => Users!OwnIn(r)'
  BY DEF Users!Alone, Users!At
<1>1. \A r \in ChatThreads : r # t => chatThread'[r].at = "idle"
  BY ChatOwns DEF Steps
<1>2. OwnSets(users', db', GoneAt(t)', NewAt(t)') /\ OwnMore(t)'
  BY ChatOwn
<1>3. CASE chatThread'[t].at = "idle"
  <2>1. GoneAt(t)' = {} /\ NewAt(t)' = {}
    BY <1>3 DEF GoneAt, NewAt
  <2>2. Users!Own({}, {})'
    BY <1>2, <2>1 DEF Users!Own, OwnSets
  <2>3. QED
    BY <1>1, <1>3, <2>2
<1>4. CASE chatThread'[t].at # "idle"
  <2>1. Users!OwnIn(t)'
    BY <1>2 DEF Users!OwnIn, Users!Own, OwnSets, OwnMore, GoneAt, NewAt
  <2>2. QED
    BY <1>1, <1>4, <2>1
<1>5. QED
  BY <1>3, <1>4

-----------------------------------------------------------------------------
(* The steps.                                                              *)
LEMMA ChatStep ==
  ASSUME Users!IInv, NEW t \in ChatThreads, Steps(t), UNCHANGED alone,
         Users!TypeOK', Users!Table', Users!Once', Users!Working(t)',
         alone => May(t) /\ OwnEach(users', db', GoneAt(t)', NewAt(t)') /\ OwnMore(t)'
  PROVE  Users!IInv'
<1>1. Users!Apart'
  BY ChatApart
<1>2. \A r \in ChatThreads : Users!Working(r)'
  BY ChatOthers
<1>3. db' \in [Users!Accounts -> Users!Ids \cup {0}]
  BY DEF Users!TypeOK
<1>4. Users!Alone'
  BY <1>3, ChatAlone
<1>5. QED
  BY <1>1, <1>2, <1>4 DEF Users!IInv

(* A step that leaves the table and the identifiers alone.                 *)
LEMMA ChatQuiet ==
  ASSUME Users!IInv, NEW t \in ChatThreads,
         UNCHANGED <<alone, users, counts, list, free, nextId, hostess>>,
         NEW th \in Users!Thread, chatThread' = [chatThread EXCEPT ![t] = th],
         hlock \in {t, None} \/ UNCHANGED hlock, hlock' \in ChatThreads \cup {None},
         db' \in [Users!Accounts -> Users!Ids \cup {0}],
         th.s \in {chatThread[t].s, 0} \/ \A r \in ChatThreads : chatThread[r].s # th.s,
         Users!InHand(t)' <=> Users!InHand(t),
         Users!InHand(t) => th.s = chatThread[t].s,
         Users!Working(t)',
         alone => May(t) /\ OwnEach(users, db', GoneAt(t)', NewAt(t)') /\ OwnMore(t)'
  PROVE  Users!IInv'
<1>1. Users!TypeOK
  BY DEF Users!IInv
<1>2. chatThread \in [ChatThreads -> Users!Thread]
  BY <1>1 DEF Users!TypeOK
<1>3. /\ chatThread' \in [ChatThreads -> Users!Thread] /\ chatThread'[t] = th
      /\ \A r \in ChatThreads : r # t => chatThread'[r] = chatThread[r]
  BY <1>2
<1>4. Steps(t)
  BY <1>3 DEF Steps
<1>5. Users!TypeOK'
  BY <1>1, <1>3 DEF Users!TypeOK
<1>6. Users!Table'
  BY DEF Users!IInv, Users!Table, Users!Counted, Users!Quota
<1>7. \A x \in Users!Sims \ (Users!Held \cup Users!Hand) : users'[x] = None
  BY DEF Users!IInv, Users!Once
<1>8. Users!Once'
  BY <1>3, <1>4, <1>7, ChatOnce
<1>9. alone => May(t) /\ OwnEach(users', db', GoneAt(t)', NewAt(t)') /\ OwnMore(t)'
  OBVIOUS
<1>10. QED
  BY <1>4, <1>5, <1>6, <1>8, <1>9, ChatStep

LEMMA ChatTyped ==
  ASSUME Users!IInv, NEW t \in ChatThreads
  PROVE  /\ chatThread \in [ChatThreads -> Users!Thread] /\ chatThread[t] \in Users!Thread
         /\ db \in [Users!Accounts -> Users!Ids \cup {0}] /\ hlock \in ChatThreads \cup {None}
         /\ chatThread[t].op \in {"none", "login", "hangup", "refresh", "host", "feed"}
         /\ chatThread[t].at \in Users!Places
         /\ chatThread[t] = [at |-> chatThread[t].at, op |-> chatThread[t].op, u |-> chatThread[t].u,
                             s |-> chatThread[t].s, old |-> chatThread[t].old,
                             gone |-> chatThread[t].gone, new |-> chatThread[t].new]
         /\ None \notin ChatThreads /\ None \notin Users!Accounts /\ Hosts \subseteq Users!Accounts
         /\ 0 \notin Sessions /\ 0 \notin Users!Sims /\ 0 \notin Users!Ids
<1>1. chatThread \in [ChatThreads -> Users!Thread] /\ chatThread[t] \in Users!Thread
  BY DEF Users!IInv, Users!TypeOK
<1>2. /\ db \in [Users!Accounts -> Users!Ids \cup {0}] /\ hlock \in ChatThreads \cup {None}
  BY DEF Users!IInv, Users!TypeOK
<1>3. /\ chatThread[t].op \in {"none", "login", "hangup", "refresh", "host", "feed"}
      /\ chatThread[t].at \in Users!Places
      /\ chatThread[t] = [at |-> chatThread[t].at, op |-> chatThread[t].op, u |-> chatThread[t].u,
                             s |-> chatThread[t].s, old |-> chatThread[t].old,
                             gone |-> chatThread[t].gone, new |-> chatThread[t].new]
  BY <1>1 DEF Users!Thread
<1>4. QED
  BY <1>1, <1>2, <1>3, ChatIds, ChatAssumption, BotAssumption DEF Users!Accounts

LEMMA ChatNat == \A d \in Users!Ids \cup {0} : d \in Nat /\ (d = 0 \/ (d \in Users!Ids /\ d > 0))
<1> SUFFICES ASSUME NEW d \in Users!Ids \cup {0} PROVE d \in Nat /\ (d = 0 \/ (d \in Users!Ids /\ d > 0))
  OBVIOUS
<1>1. CASE d = 0
  BY <1>1
<1>2. CASE d \in Users!Ids
  BY <1>2, ChatIds
<1>3. QED
  BY <1>1, <1>2

LEMMA ChatLogin ==
  ASSUME Users!IInv, NEW t \in ChatThreads, NEW u \in Users!Accounts \ Hosts, NEW x \in Sessions,
         Users!Login(t, u, x)
  PROVE  Users!IInv'
<1> DEFINE at == IF db[u] > 0 THEN "clear" ELSE "update"
           th == [at |-> at, op |-> "login", u |-> u, s |-> x,
                  old |-> db[u], gone |-> {}, new |-> {}]
<1>1. /\ Users!Start(t, "login") /\ (\A r \in ChatThreads : chatThread[r].s # x) /\ users[x] = None
      /\ UNCHANGED <<alone, users, counts, list, free, nextId, db, hostess, hlock>>
  BY Zenon DEF Users!Login
<1>a. chatThread' = [chatThread EXCEPT ![t] = th]
  BY DEF Users!Login, Users!Work
<1>2. db[u] \in Users!Ids \cup {0} /\ db[u] \in Nat /\ (db[u] = 0 \/ (db[u] \in Users!Ids /\ db[u] > 0))
  BY Zenon, ChatTyped, ChatNat
<1>b. at \in {"clear", "update"} /\ (at = "clear" <=> db[u] # 0)
  BY <1>2
<1> HIDE DEF at
<1>3. th \in Users!Thread
  BY <1>2, <1>b, ChatIds DEF Users!Thread, Users!Places
<1>4. chatThread'[t] = th
  BY Zenon, <1>a, ChatTyped
<1>5. chatThread[t].at = "idle" /\ (alone => May(t))
  BY <1>1 DEF Users!Start, Users!At, May
<1>6. ~ Users!InHand(t) /\ ~ Users!InHand(t)'
  BY <1>4, <1>5 DEF Users!InHand
<1>7. Users!Working(t)'
  BY <1>1, <1>2, <1>b, <1>4, ChatWorking DEF Simulates
<1>8. ASSUME alone
      PROVE  May(t) /\ OwnEach(users, db', GoneAt(t)', NewAt(t)') /\ OwnMore(t)'
  <2>1. GoneAt(t) = {} /\ NewAt(t) = {} /\ GoneAt(t)' = {} /\ NewAt(t)' = {}
    BY <1>4, <1>5, <1>b DEF GoneAt, NewAt
  <2>2. OwnEach(users, db, {}, {})
    BY Zenon, <1>5, <1>8, <2>1, ChatOwns
  <2>3. OwnMore(t)'
    BY <1>1, <1>4, <1>b DEF OwnMore
  <2>4. QED
    BY <1>1, <1>5, <1>8, <2>1, <2>2, <2>3
<1>9. QED
  BY Zenon, <1>1, <1>a, <1>3, <1>4, <1>5, <1>6, <1>7, <1>8, ChatQuiet, ChatTyped

(* What the place of a thread tells.                                       *)
LEMMA ChatAt ==
  ASSUME Users!IInv, NEW t \in ChatThreads
  PROVE  /\ chatThread[t].at \in {"clear", "remove"} =>
              /\ chatThread[t].op \in {"login", "hangup", "host", "feed"} /\ chatThread[t].old \in Users!Ids
         /\ chatThread[t].at \in {"update", "insert"} =>
              /\ chatThread[t].op \in {"login", "host", "feed"} /\ chatThread[t].u \in Users!Accounts
              /\ chatThread[t].s \in Users!Ids /\ chatThread[t].s # 0 /\ users[chatThread[t].s] = None
         /\ chatThread[t].at \in {"lock", "take", "next", "each", "give"} => Simulates(t)
         /\ chatThread[t].at = "refresh" => chatThread[t].op = "refresh"
         /\ chatThread[t].at = "idle" => chatThread[t].op = "none"
<1> DEFINE r == chatThread[t]
<1>1. r.op \in {"none", "login", "hangup", "refresh", "host", "feed"}
  BY Zenon, ChatTyped
<1>2. CASE r.op = "none"
  <2>1. r.at = "idle"
    BY <1>2, ChatWorks DEF Users!Idle, Users!Work
  <2>2. QED
    BY <1>2, <2>1
<1>3. CASE r.op = "login"
  <2>1. /\ r.at \in {"clear", "remove", "update", "insert"}
        /\ r.u \in Users!Accounts /\ r.s \in Sessions /\ users[r.s] = None
        /\ r.at \in {"clear", "remove"} => r.old \in Users!Ids
    BY <1>3, ChatWorks
  <2>2. r.s \in Users!Ids /\ r.s # 0
    BY Zenon, <2>1, ChatIds
  <2>3. QED
    BY <1>3, <2>1, <2>2
<1>4. CASE r.op = "hangup"
  <2>1. r.at \in {"clear", "remove"} /\ r.s \in Sessions /\ r.old = r.s
    BY <1>4, ChatWorks
  <2>2. r.old \in Users!Ids
    BY Zenon, <2>1, ChatIds
  <2>3. QED
    BY <1>4, <2>1, <2>2
<1>5. CASE r.op = "refresh"
  BY <1>5, ChatWorks
<1>6. CASE Simulates(t)
  <2>1. /\ r.at \in Locked \cup {"lock", "each"}
        /\ r.at \in {"update", "insert"} => r.u \in Hosts /\ users[r.s] = None
        /\ r.at \in {"clear", "remove", "update", "insert"} => r.s \in Users!Sims
        /\ r.at \in {"clear", "remove"} => r.old = r.s
    BY <1>6, ChatWorks
  <2>2. /\ r.at \in {"clear", "remove", "update", "insert"} => r.s \in Users!Ids /\ r.s # 0
        /\ r.at \in {"update", "insert"} => r.u \in Users!Accounts
    BY Zenon, <2>1, ChatIds, ChatTyped
  <2>3. QED
    BY <1>6, <2>1, <2>2 DEF Simulates, Locked
<1>7. QED
  BY <1>1, <1>2, <1>3, <1>4, <1>5, <1>6 DEF Simulates

(* A thread goes on, or has done.                                          *)
Moved(t, l) ==
  [at |-> l, op |-> chatThread[t].op, u |-> chatThread[t].u, s |-> chatThread[t].s,
   old |-> chatThread[t].old, gone |-> chatThread[t].gone, new |-> chatThread[t].new]

LEMMA ChatTo ==
  ASSUME Users!IInv, NEW t \in ChatThreads, NEW l \in Users!Places, Users!To(t, l)
  PROVE  /\ Moved(t, l) \in Users!Thread /\ chatThread' = [chatThread EXCEPT ![t] = Moved(t, l)]
         /\ chatThread'[t].at = l /\ chatThread'[t].op = chatThread[t].op
         /\ chatThread'[t].u = chatThread[t].u /\ chatThread'[t].s = chatThread[t].s
         /\ chatThread'[t].old = chatThread[t].old /\ chatThread'[t].gone = chatThread[t].gone
         /\ Simulates(t)' <=> Simulates(t)
<1> DEFINE r == chatThread[t]
<1>1. r \in Users!Thread /\ chatThread \in [ChatThreads -> Users!Thread]
  BY Zenon, ChatTyped
<1>2. [r EXCEPT !.at = l] = Moved(t, l) /\ Moved(t, l) \in Users!Thread
  BY <1>1 DEF Users!Thread, Moved
<1>3. chatThread' = [chatThread EXCEPT ![t] = [r EXCEPT !.at = l]]
  BY DEF Users!To
<1>4. chatThread' = [chatThread EXCEPT ![t] = Moved(t, l)]
  BY Zenon, <1>2, <1>3
<1>5. chatThread'[t] = Moved(t, l)
  BY <1>1, <1>4
<1>6. QED
  BY <1>2, <1>4, <1>5 DEF Moved, Simulates

LEMMA ChatDone ==
  ASSUME Users!IInv, NEW t \in ChatThreads, Users!Done(t)
  PROVE  /\ Users!Idle \in Users!Thread /\ chatThread' = [chatThread EXCEPT ![t] = Users!Idle]
         /\ chatThread'[t].at = "idle" /\ chatThread'[t].op = "none" /\ chatThread'[t].s = 0
         /\ Users!Idle.s = 0 /\ Users!Working(t)' /\ OwnMore(t)' /\ GoneAt(t)' = {} /\ NewAt(t)' = {}
         /\ ~ Users!InHand(t)'
<1>1. Users!Idle \in Users!Thread
  BY DEF Users!Idle, Users!Work, Users!Thread, Users!Places
<1>2. chatThread' = [chatThread EXCEPT ![t] = Users!Idle]
  BY DEF Users!Done
<1>3. chatThread'[t] = Users!Idle
  BY Zenon, <1>2, ChatTyped
<1>4. Users!Idle.at = "idle" /\ Users!Idle.op = "none" /\ Users!Idle.s = 0
  BY DEF Users!Idle, Users!Work
<1>5. Users!Working(t)'
  BY <1>3, <1>4, ChatWorking DEF Simulates
<1>6. QED
  BY <1>1, <1>2, <1>3, <1>4, <1>5 DEF OwnMore, GoneAt, NewAt, Users!InHand

(* What is in the table and in the database stays, and what is due.        *)
LEMMA ChatSame ==
  ASSUME Users!IInv, NEW t \in ChatThreads, alone, May(t), UNCHANGED db,
         chatThread[t].at \notin {"remove", "insert"}, chatThread'[t].at \notin {"remove", "insert"}
  PROVE  OwnEach(users, db', GoneAt(t)', NewAt(t)')
<1>1. GoneAt(t) = {} /\ NewAt(t) = {} /\ GoneAt(t)' = {} /\ NewAt(t)' = {}
  BY DEF GoneAt, NewAt
<1>2. OwnEach(users, db, {}, {})
  BY Zenon, <1>1, ChatOwns
<1>3. QED
  BY <1>1, <1>2

(* An operation begins, with this to do.                                   *)
LEMMA ChatStart ==
  ASSUME Users!IInv, NEW t \in ChatThreads, NEW op, Users!Start(t, op)
  PROVE  chatThread[t].at = "idle" /\ (alone => May(t)) /\ ~ Users!InHand(t)
BY DEF Users!Start, Users!At, May, Users!InHand

LEMMA ChatHangup ==
  ASSUME Users!IInv, NEW t \in ChatThreads, NEW x \in Sessions, Users!Hangup(t, x)
  PROVE  Users!IInv'
<1> DEFINE th == [at |-> "clear", op |-> "hangup", u |-> None, s |-> x, old |-> x, gone |-> {}, new |-> {}]
<1>1. /\ Users!Start(t, "hangup") /\ (\A r \in ChatThreads : chatThread[r].s # x)
      /\ UNCHANGED <<alone, users, counts, list, free, nextId, db, hostess, hlock>>
      /\ chatThread' = [chatThread EXCEPT ![t] = th]
  BY DEF Users!Hangup, Users!Work
<1>2. th \in Users!Thread
  BY ChatIds DEF Users!Thread, Users!Places
<1>3. chatThread'[t] = th
  BY Zenon, <1>1, ChatTyped
<1>4. chatThread[t].at = "idle" /\ (alone => May(t)) /\ ~ Users!InHand(t) /\ ~ Users!InHand(t)'
  BY <1>1, <1>3, ChatStart DEF Users!InHand
<1>5. Users!Working(t)'
  BY <1>3, ChatWorking DEF Simulates
<1>6. alone => May(t) /\ OwnEach(users, db', GoneAt(t)', NewAt(t)') /\ OwnMore(t)'
  BY <1>1, <1>3, <1>4, ChatSame DEF OwnMore
<1>7. QED
  BY Zenon, <1>1, <1>2, <1>3, <1>4, <1>5, <1>6, ChatQuiet, ChatTyped

LEMMA ChatReread ==
  ASSUME Users!IInv, NEW t \in ChatThreads, NEW u \in Restless, Users!Reread(t, u)
  PROVE  Users!IInv'
<1> DEFINE th == [at |-> "refresh", op |-> "refresh", u |-> u, s |-> 0, old |-> db[u], gone |-> {}, new |-> {}]
<1>1. /\ Users!Start(t, "refresh") /\ db[u] # 0
      /\ UNCHANGED <<alone, users, counts, list, free, nextId, db, hostess, hlock>>
      /\ chatThread' = [chatThread EXCEPT ![t] = th]
  BY DEF Users!Reread, Users!Work
<1>2. u \in Users!Accounts /\ db[u] \in Users!Ids
  BY Zenon, <1>1, ChatTyped, ChatAssumption DEF Users!Accounts
<1>3. th \in Users!Thread
  BY <1>2 DEF Users!Thread, Users!Places
<1>4. chatThread'[t] = th
  BY Zenon, <1>1, ChatTyped
<1>5. chatThread[t].at = "idle" /\ (alone => May(t)) /\ ~ Users!InHand(t) /\ ~ Users!InHand(t)'
  BY <1>1, <1>4, ChatStart DEF Users!InHand
<1>6. Users!Working(t)'
  BY <1>2, <1>4, ChatWorking DEF Simulates
<1>7. alone => May(t) /\ OwnEach(users, db', GoneAt(t)', NewAt(t)') /\ OwnMore(t)'
  BY <1>1, <1>4, <1>5, ChatSame DEF OwnMore
<1>8. QED
  BY Zenon, <1>1, <1>3, <1>4, <1>5, <1>6, <1>7, ChatQuiet, ChatTyped

LEMMA ChatHostOnline ==
  ASSUME Users!IInv, NEW t \in ChatThreads, NEW u \in Hosts, Users!HostOnline(t, u)
  PROVE  Users!IInv'
<1> DEFINE th == [at |-> "lock", op |-> "host", u |-> u, s |-> 0, old |-> 0, gone |-> {}, new |-> {}]
<1>1. /\ Users!Start(t, "host")
      /\ UNCHANGED <<alone, users, counts, list, free, nextId, db, hostess, hlock>>
      /\ chatThread' = [chatThread EXCEPT ![t] = th]
  BY DEF Users!HostOnline, Users!Work
<1>2. u \in Users!Accounts
  BY Zenon, ChatTyped
<1>3. th \in Users!Thread
  BY <1>2 DEF Users!Thread, Users!Places
<1>4. chatThread'[t] = th
  BY Zenon, <1>1, ChatTyped
<1>5. chatThread[t].at = "idle" /\ (alone => May(t)) /\ ~ Users!InHand(t) /\ ~ Users!InHand(t)'
  BY <1>1, <1>4, ChatStart DEF Users!InHand
<1>6. Users!Working(t)'
  BY <1>4, ChatWorking, ChatIds DEF Simulates, Locked
<1>7. alone => May(t) /\ OwnEach(users, db', GoneAt(t)', NewAt(t)') /\ OwnMore(t)'
  BY <1>1, <1>4, <1>5, ChatSame DEF OwnMore
<1>8. QED
  BY Zenon, <1>1, <1>3, <1>4, <1>5, <1>6, <1>7, ChatQuiet, ChatTyped

LEMMA ChatFeed ==
  ASSUME Users!IInv, NEW t \in ChatThreads, NEW listed \in SUBSET Hosts, Users!Feed(t, listed)
  PROVE  Users!IInv'
<1> DEFINE gone == {h \in hostess : h[1] \notin listed}
           new == {u \in listed : \A h \in hostess : h[1] # u}
           work == [at |-> "next", op |-> "feed", u |-> None, s |-> 0, old |-> 0, gone |-> {}, new |-> {}]
           th == [at |-> "next", op |-> "feed", u |-> None, s |-> 0, old |-> 0, gone |-> gone, new |-> new]
<1>1. /\ Users!Start(t, "feed") /\ hlock = None /\ hlock' = t
      /\ UNCHANGED <<alone, users, counts, list, free, nextId, db, hostess>>
      /\ chatThread' = [chatThread EXCEPT ![t] = [work EXCEPT !.gone = gone, !.new = new]]
  BY DEF Users!Feed, Users!Work
<1>2. gone \subseteq hostess /\ gone \in SUBSET (Hosts \X Users!Sims) /\ new \in SUBSET Hosts
  BY DEF Users!IInv, Users!TypeOK
<1> HIDE DEF gone, new
<1>3. [work EXCEPT !.gone = gone, !.new = new] = th
  <2>1. [work EXCEPT !.gone = gone] =
          [at |-> "next", op |-> "feed", u |-> None, s |-> 0, old |-> 0, gone |-> gone, new |-> {}]
    OBVIOUS
  <2>2. [[at |-> "next", op |-> "feed", u |-> None, s |-> 0, old |-> 0, gone |-> gone, new |-> {}]
           EXCEPT !.new = new] = th
    OBVIOUS
  <2>3. QED
    BY <2>1, <2>2, Zenon
<1>4. chatThread' = [chatThread EXCEPT ![t] = th]
  BY Zenon, <1>1, <1>3
<1>5. th \in Users!Thread
  BY <1>2 DEF Users!Thread, Users!Places
<1>6. chatThread'[t] = th
  BY Zenon, <1>4, ChatTyped
<1>7. chatThread[t].at = "idle" /\ (alone => May(t)) /\ ~ Users!InHand(t) /\ ~ Users!InHand(t)'
  BY <1>1, <1>6, ChatStart DEF Users!InHand
<1>8. Users!Working(t)'
  BY <1>1, <1>2, <1>6, ChatWorking, ChatIds DEF Simulates, Locked
<1>9. alone => May(t) /\ OwnEach(users, db', GoneAt(t)', NewAt(t)') /\ OwnMore(t)'
  BY <1>1, <1>6, <1>7, ChatSame DEF OwnMore
<1>10. QED
  BY Zenon, <1>1, <1>4, <1>5, <1>6, <1>7, <1>8, <1>9, ChatQuiet, ChatTyped

LEMMA ChatClear ==
  ASSUME Users!IInv, NEW t \in ChatThreads, Users!Clear(t)
  PROVE  Users!IInv'
<1> DEFINE r == chatThread[t]
<1>1. /\ r.at = "clear" /\ Users!To(t, "remove") /\ "remove" \in Users!Places
      /\ db' = [v \in Users!Accounts |-> IF db[v] = r.old THEN 0 ELSE db[v]]
      /\ UNCHANGED <<alone, users, counts, list, free, nextId, hostess, hlock>>
  BY DEF Users!Clear, Users!At, Users!Places
<1>2. /\ Moved(t, "remove") \in Users!Thread /\ chatThread' = [chatThread EXCEPT ![t] = Moved(t, "remove")]
      /\ chatThread'[t].at = "remove" /\ chatThread'[t].op = r.op
      /\ chatThread'[t].u = r.u /\ chatThread'[t].s = r.s
      /\ chatThread'[t].old = r.old /\ chatThread'[t].gone = r.gone
      /\ Simulates(t)' <=> Simulates(t)
  BY <1>1, ChatTo
<1>3. Moved(t, "remove").s = r.s
  BY DEF Moved
<1>4. r.op \in {"login", "hangup", "host", "feed"} /\ r.old \in Users!Ids
  BY <1>1, ChatAt
<1>5. Users!InHand(t)' <=> Users!InHand(t)
  BY <1>1, <1>2 DEF Users!InHand
<1>6. Users!Working(t)'
  BY <1>1, <1>2, <1>4, ChatWorks, ChatWorking DEF Simulates, Locked
<1>7. db' \in [Users!Accounts -> Users!Ids \cup {0}]
  BY Zenon, <1>1, ChatTyped
<1>8. ASSUME alone
      PROVE  May(t) /\ OwnEach(users, db', GoneAt(t)', NewAt(t)') /\ OwnMore(t)'
  <2>1. May(t) /\ GoneAt(t) = {} /\ NewAt(t) = {} /\ GoneAt(t)' = {r.old} /\ NewAt(t)' = {}
    BY <1>1, <1>2 DEF May, GoneAt, NewAt
  <2>2. OwnEach(users, db, {}, {}) /\ OwnMore(t)
    BY <1>8, <2>1, ChatOwns
  <2>3. \A v \in Users!Accounts : db'[v] = IF db[v] = r.old THEN 0 ELSE db[v]
    BY <1>1
  <2>4. OwnEach(users, db', {r.old}, {})
    BY <2>2, <2>3, ChatIds DEF OwnEach
  <2>5. OwnMore(t)'
    BY <1>1, <1>2, <2>2, <2>3, ChatWorks DEF OwnMore
  <2>6. QED
    BY <2>1, <2>4, <2>5
<1>9. QED
  BY Zenon, <1>1, <1>2, <1>3, <1>5, <1>6, <1>7, <1>8, ChatQuiet, ChatTyped

LEMMA ChatUpdate ==
  ASSUME Users!IInv, NEW t \in ChatThreads, Users!Update(t)
  PROVE  Users!IInv'
<1> DEFINE r == chatThread[t]
<1>1. /\ r.at = "update" /\ {"insert", "give"} \subseteq Users!Places
      /\ UNCHANGED <<alone, users, counts, list, free, nextId, hostess, hlock>>
  BY DEF Users!Update, Users!At, Users!Places
<1>2. /\ r.op \in {"login", "host", "feed"} /\ r.u \in Users!Accounts /\ r.s \in Users!Ids /\ r.s # 0
      /\ users[r.s] = None
  BY <1>1, ChatAt
<1>3. CASE db' = [db EXCEPT ![r.u] = r.s] /\ Users!To(t, "insert")
  <2>1. /\ Moved(t, "insert") \in Users!Thread /\ chatThread' = [chatThread EXCEPT ![t] = Moved(t, "insert")]
        /\ chatThread'[t].at = "insert" /\ chatThread'[t].op = r.op
        /\ chatThread'[t].u = r.u /\ chatThread'[t].s = r.s
        /\ chatThread'[t].old = r.old /\ chatThread'[t].gone = r.gone
        /\ Simulates(t)' <=> Simulates(t)
    BY <1>1, <1>3, ChatTo
  <2>2. Moved(t, "insert").s = r.s
    BY DEF Moved
  <2>3. Users!InHand(t)' <=> Users!InHand(t)
    BY <1>1, <2>1 DEF Users!InHand
  <2>4. Users!Working(t)'
    BY <1>1, <1>2, <2>1, ChatWorks, ChatWorking DEF Simulates, Locked
  <2>5. db' \in [Users!Accounts -> Users!Ids \cup {0}]
    BY Zenon, <1>2, <1>3, ChatTyped
  <2>6. ASSUME alone
        PROVE  May(t) /\ OwnEach(users, db', GoneAt(t)', NewAt(t)') /\ OwnMore(t)'
    <3>1. May(t) /\ GoneAt(t) = {} /\ NewAt(t) = {} /\ GoneAt(t)' = {} /\ NewAt(t)' = {r.u}
      BY <1>1, <2>1 DEF May, GoneAt, NewAt
    <3>2. OwnEach(users, db, {}, {}) /\ OwnMore(t)
      BY <2>6, <3>1, ChatOwns
    <3>3. db'[r.u] = r.s /\ \A v \in Users!Accounts : v # r.u => db'[v] = db[v]
      BY Zenon, <1>2, <1>3, ChatTyped
    <3>4. db[r.u] = 0
      BY <1>1, <3>2 DEF OwnMore
    <3>5. OwnEach(users, db', {}, {r.u})
      BY <1>2, <3>2, <3>3, <3>4, ChatIds DEF OwnEach
    <3>6. OwnMore(t)'
      BY <2>1, <3>3 DEF OwnMore
    <3>7. QED
      BY <3>1, <3>5, <3>6
  <2>7. QED
    BY Zenon, <1>1, <2>1, <2>2, <2>3, <2>4, <2>5, <2>6, ChatQuiet, ChatTyped
<1>4. CASE UNCHANGED db /\ r.op = "login" /\ Users!Done(t)
  <2>1. ~ Users!InHand(t)
    BY <1>4 DEF Users!InHand
  <2>2. alone => May(t) /\ OwnEach(users, db', GoneAt(t)', NewAt(t)')
    BY <1>1, <1>4, ChatDone, ChatSame DEF May
  <2>3. QED
    BY Zenon, <1>1, <1>4, <2>1, <2>2, ChatDone, ChatQuiet, ChatTyped
<1>5. CASE UNCHANGED db /\ r.op # "login" /\ Users!To(t, "give")
  <2>1. /\ Moved(t, "give") \in Users!Thread /\ chatThread' = [chatThread EXCEPT ![t] = Moved(t, "give")]
        /\ chatThread'[t].at = "give" /\ chatThread'[t].op = r.op
        /\ chatThread'[t].u = r.u /\ chatThread'[t].s = r.s
        /\ chatThread'[t].old = r.old /\ chatThread'[t].gone = r.gone
        /\ Simulates(t)' <=> Simulates(t)
    BY <1>1, <1>5, ChatTo
  <2>2. Moved(t, "give").s = r.s
    BY DEF Moved
  <2>3. Users!InHand(t)' <=> Users!InHand(t)
    BY <1>1, <2>1 DEF Users!InHand
  <2>4. Users!Working(t)'
    BY <1>1, <1>2, <1>5, <2>1, ChatWorks, ChatWorking DEF Simulates, Locked
  <2>5. alone => May(t) /\ OwnEach(users, db', GoneAt(t)', NewAt(t)')
    BY <1>1, <1>5, <2>1, ChatSame DEF May
  <2>6. OwnMore(t)'
    BY <1>2, <1>5, <2>1 DEF OwnMore
  <2>7. QED
    BY Zenon, <1>1, <1>5, <2>1, <2>2, <2>3, <2>4, <2>5, <2>6, ChatQuiet, ChatTyped
<1>6. QED
  BY <1>3, <1>4, <1>5 DEF Users!Update

LEMMA ChatUnlock ==
  ASSUME Users!IInv, NEW t \in ChatThreads, Users!Unlock(t)
  PROVE  Users!IInv'
<1> DEFINE r == chatThread[t]
<1>1. /\ r.at = "next" /\ r.gone = {} /\ hlock' = None /\ "each" \in Users!Places
      /\ UNCHANGED <<alone, users, counts, list, free, nextId, db, hostess>>
  BY DEF Users!Unlock, Users!At, Users!Places
<1>2. Simulates(t) /\ hlock = t /\ ~ Users!InHand(t)
  BY <1>1, ChatAt, ChatWorks DEF Locked, Users!InHand
<1>3. CASE Users!Done(t)
  <2>1. alone => May(t) /\ OwnEach(users, db', GoneAt(t)', NewAt(t)')
    BY <1>1, <1>3, ChatDone, ChatSame DEF May
  <2>2. QED
    BY Zenon, <1>1, <1>2, <1>3, <2>1, ChatDone, ChatQuiet, ChatTyped
<1>4. CASE Users!To(t, "each")
  <2>1. /\ Moved(t, "each") \in Users!Thread /\ chatThread' = [chatThread EXCEPT ![t] = Moved(t, "each")]
        /\ chatThread'[t].at = "each" /\ chatThread'[t].op = r.op
        /\ chatThread'[t].u = r.u /\ chatThread'[t].s = r.s
        /\ chatThread'[t].old = r.old /\ chatThread'[t].gone = r.gone
        /\ Simulates(t)' <=> Simulates(t)
    BY <1>1, <1>4, ChatTo
  <2>2. Moved(t, "each").s = r.s
    BY DEF Moved
  <2>3. ~ Users!InHand(t)'
    BY <2>1 DEF Users!InHand
  <2>4. Users!Working(t)'
    BY <1>1, <1>2, <2>1, ChatWorks, ChatWorking DEF Simulates, Locked
  <2>5. alone => May(t) /\ OwnEach(users, db', GoneAt(t)', NewAt(t)')
    BY <1>1, <1>4, <2>1, ChatSame DEF May
  <2>6. OwnMore(t)'
    BY <1>2, <2>1 DEF OwnMore, Simulates
  <2>7. QED
    BY Zenon, <1>1, <1>2, <2>1, <2>2, <2>3, <2>4, <2>5, <2>6, ChatQuiet, ChatTyped
<1>5. QED
  BY <1>3, <1>4 DEF Users!Unlock

LEMMA ChatLock ==
  ASSUME Users!IInv, NEW t \in ChatThreads, Users!Lock(t)
  PROVE  Users!IInv'
<1> DEFINE r == chatThread[t]
<1>1. /\ r.at = "lock" /\ hlock = None /\ hlock' = t
      /\ UNCHANGED <<alone, users, counts, list, free, nextId, db, hostess>>
  BY DEF Users!Lock, Users!At
<1>2. PICK l \in {"take", "next"} :
        /\ Users!To(t, l) /\ l \in Users!Places
        /\ l = "take" => Users!Cardinality(hostess) < HostessMax /\ db[r.u] = 0
  BY DEF Users!Lock, Users!Places
<1>3. Simulates(t) /\ ~ Users!InHand(t) /\ r.gone = {} /\ r.s \notin Sessions /\ r.u \in Hosts
  <2>1. Simulates(t)
    BY <1>1, ChatAt
  <2>2. QED
    BY <1>1, <2>1, ChatWorks DEF Users!InHand
<1>4. /\ Moved(t, l) \in Users!Thread /\ chatThread' = [chatThread EXCEPT ![t] = Moved(t, l)]
      /\ chatThread'[t].at = l /\ chatThread'[t].op = r.op
      /\ chatThread'[t].u = r.u /\ chatThread'[t].s = r.s
      /\ chatThread'[t].old = r.old /\ chatThread'[t].gone = r.gone
      /\ Simulates(t)' <=> Simulates(t)
  BY <1>2, ChatTo
<1>5. Moved(t, l).s = r.s
  BY DEF Moved
<1>6. ~ Users!InHand(t)'
  BY <1>4 DEF Users!InHand
<1>7. Users!Working(t)'
  BY <1>1, <1>2, <1>3, <1>4, ChatWorking DEF Simulates, Locked
<1>8. alone => May(t) /\ OwnEach(users, db', GoneAt(t)', NewAt(t)')
  BY <1>1, <1>2, <1>4, ChatSame DEF May
<1>9. OwnMore(t)'
  BY <1>1, <1>2, <1>3, <1>4 DEF OwnMore, Simulates
<1>10. QED
  BY Zenon, <1>1, <1>3, <1>4, <1>5, <1>6, <1>7, <1>8, <1>9, ChatQuiet, ChatTyped

LEMMA ChatImpersonate ==
  ASSUME Users!IInv, NEW t \in ChatThreads, Users!Impersonate(t)
  PROVE  Users!IInv'
<1> DEFINE r == chatThread[t]
<1>1. /\ r.at = "each"
      /\ UNCHANGED <<alone, users, counts, list, free, nextId, db, hostess, hlock>>
  BY DEF Users!Impersonate, Users!At
<1>2. /\ Simulates(t) /\ ~ Users!InHand(t) /\ r.gone = {} /\ r.s \notin Sessions /\ r.new \in SUBSET Hosts
      /\ r \in Users!Thread
  <2>1. Simulates(t) /\ r \in Users!Thread
    BY Zenon, <1>1, ChatAt, ChatTyped
  <2>2. QED
    BY <1>1, <2>1, ChatWorks DEF Users!InHand, Users!Thread
<1>3. CASE Users!Done(t)
  <2>1. alone => May(t) /\ OwnEach(users, db', GoneAt(t)', NewAt(t)')
    BY <1>1, <1>3, ChatDone, ChatSame DEF May
  <2>2. QED
    BY Zenon, <1>1, <1>2, <1>3, <2>1, ChatDone, ChatQuiet, ChatTyped
<1>4. ASSUME NEW u \in r.new,
             chatThread' = [chatThread EXCEPT ![t] = [r EXCEPT !.at = "lock", !.u = u, !.s = 0, !.new = r.new \ {u}]]
      PROVE  Users!IInv'
  <2> DEFINE th == [at |-> "lock", op |-> r.op, u |-> u, s |-> 0, old |-> r.old, gone |-> {}, new |-> r.new \ {u}]
             th1 == [r EXCEPT !.at = "lock"]
             th2 == [th1 EXCEPT !.u = u]
             th3 == [th2 EXCEPT !.s = 0]
  <2>1. u \in Hosts /\ u \in Users!Accounts /\ r.new \ {u} \in SUBSET Hosts
    BY Zenon, <1>2, ChatTyped
  <2>2. th1 \in Users!Thread
    BY <1>2 DEF Users!Thread, Users!Places
  <2>2a. th1.at = "lock" /\ th1.op = r.op /\ th1.s = r.s /\ th1.old = r.old /\ th1.gone = {}
    BY <1>2 DEF Users!Thread
  <2> HIDE DEF th1
  <2>3. th2 \in Users!Thread
    BY <2>1, <2>2 DEF Users!Thread
  <2>3a. th2.at = "lock" /\ th2.op = r.op /\ th2.u = u /\ th2.old = r.old /\ th2.gone = {}
    BY <2>2, <2>2a DEF Users!Thread
  <2> HIDE DEF th2
  <2>4. th3 \in Users!Thread
    BY <2>1, <2>3 DEF Users!Thread
  <2>4a. th3.at = "lock" /\ th3.op = r.op /\ th3.u = u /\ th3.s = 0 /\ th3.old = r.old /\ th3.gone = {}
    BY <2>3, <2>3a DEF Users!Thread
  <2> HIDE DEF th3
  <2>5. [th3 EXCEPT !.new = r.new \ {u}] = th
    BY <2>4, <2>4a DEF Users!Thread
  <2>6. th \in Users!Thread
    BY <1>2, <2>1 DEF Users!Thread, Users!Places
  <2>7. chatThread' = [chatThread EXCEPT ![t] = th]
    <3>1. chatThread' = [chatThread EXCEPT ![t] = [th3 EXCEPT !.new = r.new \ {u}]]
      BY <1>4 DEF th1, th2, th3
    <3>2. QED
      BY Zenon, <2>5, <3>1
  <2>8. chatThread'[t] = th
    BY Zenon, <2>7, ChatTyped
  <2>9. ~ Users!InHand(t)'
    BY <2>8 DEF Users!InHand
  <2>10. Users!Working(t)'
    BY <1>2, <2>1, <2>8, ChatWorking, ChatIds DEF Simulates, Locked
  <2>11. alone => May(t) /\ OwnEach(users, db', GoneAt(t)', NewAt(t)')
    BY <1>1, <2>8, ChatSame DEF May
  <2>12. OwnMore(t)'
    BY <1>2, <2>8 DEF OwnMore, Simulates
  <2>13. QED
    BY Zenon, <1>1, <1>2, <2>6, <2>7, <2>8, <2>9, <2>10, <2>11, <2>12, ChatQuiet, ChatTyped
<1>5. ASSUME NEW u \in r.new, chatThread' = [chatThread EXCEPT ![t].new = r.new \ {u}]
      PROVE  Users!IInv'
  <2> DEFINE th == [at |-> "each", op |-> r.op, u |-> r.u, s |-> r.s, old |-> r.old, gone |-> {},
                    new |-> r.new \ {u}]
  <2>1. [r EXCEPT !.new = r.new \ {u}] = th
    BY <1>1, <1>2 DEF Users!Thread
  <2>2. th \in Users!Thread
    BY <1>2 DEF Users!Thread, Users!Places
  <2>3. chatThread' = [chatThread EXCEPT ![t] = th]
    BY Zenon, <1>5, <2>1
  <2>4. chatThread'[t] = th
    BY Zenon, <2>3, ChatTyped
  <2>5. ~ Users!InHand(t)'
    BY <2>4 DEF Users!InHand
  <2>6. Users!Working(t)'
    BY <1>2, <2>4, ChatWorking, ChatIds DEF Simulates, Locked
  <2>7. alone => May(t) /\ OwnEach(users, db', GoneAt(t)', NewAt(t)')
    BY <1>1, <2>4, ChatSame DEF May
  <2>8. OwnMore(t)'
    BY <1>2, <2>4 DEF OwnMore, Simulates
  <2>9. QED
    BY Zenon, <1>1, <1>2, <2>2, <2>3, <2>4, <2>5, <2>6, <2>7, <2>8, ChatQuiet, ChatTyped
<1>6. QED
  BY Zenon, <1>3, <1>4, <1>5 DEF Users!Impersonate

-----------------------------------------------------------------------------
(* The table changes at one identifier.                                    *)
LEMMA ChatChange ==
  ASSUME Users!IInv, NEW t \in ChatThreads, UNCHANGED <<alone, free, nextId, db, hostess, hlock>>,
         TableType', Users!Table', NEW i \in Users!Ids, Kept(i),
         users[i] = None /\ users'[i] # None => i = chatThread[t].s /\ i \in Sessions,
         NEW th \in Users!Thread, chatThread' = [chatThread EXCEPT ![t] = th],
         th.s \in {chatThread[t].s, 0},
         Users!InHand(t)' <=> Users!InHand(t),
         Users!InHand(t) => th.s = chatThread[t].s,
         Users!Working(t)',
         alone => May(t) /\ OwnEach(users', db, GoneAt(t)', NewAt(t)') /\ OwnMore(t)'
  PROVE  Users!IInv'
<1>1. Users!TypeOK
  BY DEF Users!IInv
<1>2. chatThread \in [ChatThreads -> Users!Thread]
  BY <1>1 DEF Users!TypeOK
<1>3. /\ chatThread' \in [ChatThreads -> Users!Thread] /\ chatThread'[t] = th
      /\ \A r \in ChatThreads : r # t => chatThread'[r] = chatThread[r]
  BY <1>2
<1>4. \A x \in Users!Ids : users[x] = None /\ users'[x] # None => x = chatThread[t].s /\ x \in Sessions
  BY DEF Kept
<1>5. Steps(t)
  BY <1>3, <1>4 DEF Steps
<1>6. Users!TypeOK'
  BY <1>1, <1>3 DEF Users!TypeOK, TableType
<1>7. \A x \in Users!Sims \ (Users!Held \cup Users!Hand) : users'[x] = None
  <2>1. \A x \in Users!Sims \ (Users!Held \cup Users!Hand) : users[x] = None
    BY DEF Users!IInv, Users!Once
  <2>2. QED
    BY Zenon, <1>4, <2>1, ChatIds
<1>8. Users!Once'
  BY <1>3, <1>5, <1>7, ChatOnce
<1>9. QED
  BY <1>5, <1>6, <1>8, ChatStep

LEMMA ChatTyping ==
  ASSUME Users!IInv
  PROVE  TableType /\ Users!Table
BY DEF Users!IInv, Users!TypeOK, TableType

LEMMA ChatRemove ==
  ASSUME Users!IInv, NEW t \in ChatThreads, Users!Remove(t)
  PROVE  Users!IInv'
<1> DEFINE r == chatThread[t]
           i == chatThread[t].old
<1>1. /\ r.at = "remove" /\ {"update", "give"} \subseteq Users!Places
      /\ UNCHANGED <<alone, free, nextId, db, hostess, hlock>>
  BY DEF Users!Remove, Users!At, Users!Places
<1>2. r.op \in {"login", "hangup", "host", "feed"} /\ i \in Users!Ids
  BY <1>1, ChatAt
<1>3. TableType' /\ Users!Table' /\ Kept(i) /\ users'[i] = None
  <2>1. CASE users[i] # None
    <3>1. Users!Leave(i)
      BY <2>1 DEF Users!Remove
    <3>2. QED
      BY <1>2, <2>1, <3>1, ChatTyping, ChatLeave
  <2>2. CASE users[i] = None
    <3>1. UNCHANGED <<users, counts, list>>
      BY <2>2 DEF Users!Remove
    <3>2. TableType' /\ Kept(i)
      BY <3>1, ChatTyping DEF TableType, Kept
    <3>3. Users!Table'
      BY <3>1, ChatTyping DEF Users!Table, Users!Counted, Users!Quota
    <3>4. QED
      BY <2>2, <3>1, <3>2, <3>3
  <2>3. QED
    BY <2>1, <2>2
<1>4. ASSUME alone
      PROVE  May(t) /\ OwnEach(users', db, {}, {}) /\ OwnMore(t)
  <2>1. May(t) /\ GoneAt(t) = {i} /\ NewAt(t) = {}
    BY <1>1 DEF May, GoneAt, NewAt
  <2>2. OwnEach(users, db, {i}, {}) /\ OwnMore(t)
    BY Zenon, <1>4, <2>1, ChatOwns
  <2>3. OwnEach(users', db, {}, {})
    BY <1>2, <1>3, <2>2, ChatIds DEF OwnEach, Kept
  <2>4. QED
    BY <2>1, <2>2, <2>3
<1>5. CASE r.op = "hangup"
  <2>1. Users!Done(t)
    BY <1>5 DEF Users!Remove
  <2>2. ~ Users!InHand(t)
    BY <1>5 DEF Users!InHand
  <2>3. QED
    BY Zenon, <1>1, <1>2, <1>3, <1>4, <2>1, <2>2, ChatDone, ChatChange
<1>6. ASSUME NEW l \in {"update", "give"}, Users!To(t, l),
             l = "update" => r.op = "login", l = "give" => r.op \in {"host", "feed"}
      PROVE  Users!IInv'
  <2>1. /\ Moved(t, l) \in Users!Thread /\ chatThread' = [chatThread EXCEPT ![t] = Moved(t, l)]
        /\ chatThread'[t].at = l /\ chatThread'[t].op = r.op
        /\ chatThread'[t].u = r.u /\ chatThread'[t].s = r.s
        /\ chatThread'[t].old = r.old /\ chatThread'[t].gone = r.gone
        /\ Simulates(t)' <=> Simulates(t)
    BY <1>1, <1>6, ChatTo
  <2>2. Moved(t, l).s = r.s
    BY DEF Moved
  <2>3. Users!InHand(t)' <=> Users!InHand(t)
    BY <1>1, <1>6, <2>1 DEF Users!InHand
  <2>4. /\ r.op = "login" => /\ r.u \in Users!Accounts /\ r.s \in Sessions /\ users'[r.s] = None
        /\ Simulates(t) => r.s = i /\ r.s \notin Sessions /\ r.s \in Users!Sims /\ hlock = t /\ r.gone \subseteq hostess
                           /\ (r.op = "host" => r.gone = {})
    <3>1. r.op = "login" => r.u \in Users!Accounts /\ r.s \in Sessions /\ users[r.s] = None
      BY ChatWorks
    <3>2. r.op = "login" => users'[r.s] = None
      BY Zenon, <1>3, <3>1, ChatIds DEF Kept
    <3>3. QED
      BY <1>1, <3>1, <3>2, ChatWorks DEF Locked
  <2>5. Users!Working(t)'
    BY <1>1, <1>2, <1>3, <1>6, <2>1, <2>4, ChatWorking DEF Simulates, Locked
  <2>6. GoneAt(t)' = {} /\ NewAt(t)' = {}
    BY <1>6, <2>1 DEF GoneAt, NewAt
  <2>7. alone => OwnMore(t)'
    BY <1>1, <1>4, <1>6, <2>1 DEF OwnMore
  <2>8. QED
    BY Zenon, <1>1, <1>2, <1>3, <1>4, <2>1, <2>2, <2>3, <2>5, <2>6, <2>7, ChatChange
<1>7. QED
  BY <1>2, <1>5, <1>6 DEF Users!Remove

(* A user changes, but neither account nor place.                          *)
LEMMA ChatField ==
  ASSUME Users!IInv, NEW i \in Users!Ids, users[i] # None, NEW rec \in Users!User,
         rec.uid = users[i].uid, rec.visible = users[i].visible,
         Users!Publish([users EXCEPT ![i] = rec]), UNCHANGED counts
  PROVE  /\ TableType' /\ Users!Table' /\ Kept(i) /\ users'[i] = rec /\ rec # None
         /\ \A x \in Users!Ids : x # i => users'[x] = users[x]
<1>1. TableType /\ TableIs
  BY ChatTyping, ChatTable
<1>2. rec # None
  BY ChatAssumption DEF Users!User, Users!Accounts
<1>3. users' = [users EXCEPT ![i] = rec] /\ (list' = users' \/ ~ \E x \in Users!Ids : users'[x] # None)
  BY DEF Users!Publish
<1>4. users'[i] = rec /\ \A x \in Users!Ids : x # i => users'[x] = users[x]
  BY <1>1, <1>3 DEF TableType
<1>5. TableType'
  BY <1>1, <1>3 DEF TableType
<1>6. \A who, vis : Users!Of(users', who, vis) = Users!Of(users, who, vis)
  BY <1>2, <1>4, Zenon DEF Users!Of
<1>7. There' = There
  BY <1>2, <1>4, Zenon DEF There
<1>8. TheWomen' = TheWomen /\ Seen' = Seen /\ Hidden' = Hidden
  BY <1>6, Zenon DEF TheWomen, Seen, Hidden, WomenIn, SeenIn, HiddenIn
<1>9. TableIs'
  <2>1. list' = users'
    BY <1>2, <1>3, <1>4
  <2>2. QED
    BY <1>1, <1>7, <1>8, <2>1 DEF TableIs
<1>10. Kept(i) \/ \E x \in Users!Ids : x # i /\ users'[x] # users[x]
  BY Zenon DEF Kept
<1>11. QED
  BY <1>2, <1>4, <1>5, <1>9, <1>10, ChatTable

LEMMA ChatSetStatus ==
  ASSUME Users!IInv, NEW t \in ChatThreads, NEW i \in Sessions, Users!SetStatus(t, i)
  PROVE  Users!IInv'
<1> DEFINE th == chatThread[t]
<1>1. /\ Users!Start(t, "status") /\ users[i] # None /\ i \in Users!Ids
      /\ UNCHANGED <<alone, counts, free, nextId, db, hostess, hlock, chatThread>>
  BY ChatIds DEF Users!SetStatus
<1>2. PICK away \in BOOLEAN : Users!Publish([users EXCEPT ![i].away = away])
  BY Zenon DEF Users!SetStatus
<1> DEFINE rec == [users[i] EXCEPT !.away = away]
<1>3. users[i] \in Users!User
  BY <1>1, ChatTyping DEF TableType
<1>4. rec \in Users!User /\ rec.uid = users[i].uid /\ rec.visible = users[i].visible /\ rec.nick = users[i].nick
  BY <1>3, Zenon DEF Users!User
<1>5. Users!Publish([users EXCEPT ![i] = rec])
  BY <1>2
<1> HIDE DEF rec
<1>6. /\ TableType' /\ Users!Table' /\ Kept(i) /\ users'[i] = rec /\ rec # None
      /\ \A x \in Users!Ids : x # i => users'[x] = users[x]
  BY <1>1, <1>4, <1>5, ChatField
<1>7. th \in Users!Thread /\ chatThread' = [chatThread EXCEPT ![t] = th]
  BY Zenon, <1>1, ChatTyped
<1>8. chatThread[t].at = "idle" /\ (alone => May(t)) /\ ~ Users!InHand(t) /\ ~ Users!InHand(t)'
  BY <1>1, ChatStart DEF Users!InHand
<1>9. Users!Working(t)'
  <2>1. chatThread[t].op = "none" /\ chatThread[t] = Users!Idle
    BY <1>8, ChatAt, ChatWorks
  <2>2. QED
    BY <1>1, <2>1, ChatWorking DEF Simulates
<1>10. ASSUME alone
       PROVE  May(t) /\ OwnEach(users', db, GoneAt(t)', NewAt(t)') /\ OwnMore(t)'
  <2>1. GoneAt(t) = {} /\ NewAt(t) = {} /\ GoneAt(t)' = {} /\ NewAt(t)' = {}
    BY <1>1, <1>8 DEF GoneAt, NewAt
  <2>2. OwnEach(users, db, {}, {}) /\ OwnMore(t)
    BY <1>8, <1>10, <2>1, ChatOwns
  <2>3. \A x \in Users!Ids : /\ users'[x] = None <=> users[x] = None
                             /\ users[x] # None => users'[x].uid = users[x].uid /\ users'[x].nick = users[x].nick
    BY <1>1, <1>4, <1>6
  <2>4. OwnEach(users', db, {}, {})
    BY <2>2, <2>3 DEF OwnEach
  <2>5. OwnMore(t)'
    BY <1>1, <2>2 DEF OwnMore
  <2>6. QED
    BY <1>8, <1>10, <2>1, <2>4, <2>5
<1>11. QED
  BY Zenon, <1>1, <1>6, <1>7, <1>8, <1>9, <1>10, ChatChange

LEMMA ChatRefresh ==
  ASSUME Users!IInv, NEW t \in ChatThreads, Users!Refresh(t)
  PROVE  Users!IInv'
<1> DEFINE r == chatThread[t]
           i == chatThread[t].old
           rec == [users[i] EXCEPT !.nick = r.u]
<1>1. /\ r.at = "refresh" /\ Users!Done(t)
      /\ UNCHANGED <<alone, counts, free, nextId, db, hostess, hlock>>
  BY DEF Users!Refresh, Users!At
<1>2. r.op = "refresh" /\ i \in Users!Ids /\ r.u \in Users!Accounts /\ ~ Users!InHand(t)
  BY <1>1, ChatAt, ChatWorks DEF Users!InHand
<1>3. /\ TableType' /\ Users!Table' /\ Kept(i) /\ (users[i] = None <=> users'[i] = None)
      /\ users[i] # None => users'[i].uid = users[i].uid /\ users'[i].nick = r.u
      /\ \A x \in Users!Ids : x # i => users'[x] = users[x]
  <2>1. CASE users[i] # None
    <3>1. users[i] \in Users!User
      BY <1>2, <2>1, ChatTyping DEF TableType
    <3>2. rec \in Users!User /\ rec.uid = users[i].uid /\ rec.visible = users[i].visible /\ rec.nick = r.u
      BY <1>2, <3>1, Zenon DEF Users!User
    <3>3. Users!Publish([users EXCEPT ![i] = rec])
      BY <2>1 DEF Users!Refresh
    <3> HIDE DEF rec
    <3>4. /\ TableType' /\ Users!Table' /\ Kept(i) /\ users'[i] = rec /\ rec # None
          /\ \A x \in Users!Ids : x # i => users'[x] = users[x]
      BY <1>1, <1>2, <2>1, <3>2, <3>3, ChatField
    <3>5. QED
      BY <2>1, <3>2, <3>4
  <2>2. CASE users[i] = None
    <3>1. UNCHANGED <<users, counts, list>>
      BY <1>1, <2>2 DEF Users!Refresh
    <3>2. TableType' /\ Kept(i)
      BY <3>1, ChatTyping DEF TableType, Kept
    <3>3. Users!Table'
      BY <3>1, ChatTyping DEF Users!Table, Users!Counted, Users!Quota
    <3>4. QED
      BY <2>2, <3>1, <3>2, <3>3
  <2>3. QED
    BY <2>1, <2>2
<1>4. ASSUME alone
      PROVE  May(t) /\ OwnEach(users', db, {}, {})
  <2>1. May(t) /\ GoneAt(t) = {} /\ NewAt(t) = {}
    BY <1>1 DEF May, GoneAt, NewAt
  <2>2. OwnEach(users, db, {}, {}) /\ db[r.u] = i
    BY <1>1, <1>4, <2>1, ChatOwns DEF OwnMore
  <2>3. users[i] # None => users[i].uid = r.u
    BY <1>2, <2>2 DEF OwnEach
  <2>4. \A x \in Users!Ids : /\ users'[x] = None <=> users[x] = None
                             /\ users[x] # None => users'[x].uid = users[x].uid /\ users'[x].nick = users[x].nick
    BY <1>2, <1>3, <2>2, <2>3 DEF OwnEach
  <2>5. OwnEach(users', db, {}, {})
    BY <2>2, <2>4 DEF OwnEach
  <2>6. QED
    BY <2>1, <2>5
<1>5. /\ Users!Idle \in Users!Thread /\ chatThread' = [chatThread EXCEPT ![t] = Users!Idle]
      /\ Users!Idle.s = 0 /\ Users!Working(t)' /\ OwnMore(t)' /\ GoneAt(t)' = {} /\ NewAt(t)' = {}
      /\ ~ Users!InHand(t)'
  BY <1>1, ChatDone
<1>6. QED
  BY Zenon, <1>1, <1>2, <1>3, <1>4, <1>5, ChatChange

-----------------------------------------------------------------------------
(* A simulated identifier moves: only who has the lock has one in hand.    *)
LEMMA ChatHand ==
  ASSUME Users!IInv, NEW t \in ChatThreads, Steps(t), hlock = t
  PROVE  /\ Users!Hand = IF Users!InHand(t) THEN {chatThread[t].s} ELSE {}
         /\ Users!Hand' = IF Users!InHand(t)' THEN {chatThread'[t].s} ELSE {}
<1>1. \A r \in ChatThreads : r # t => ~ Users!InHand(r)
  <2>1. \A r \in ChatThreads : Users!InHand(r) => hlock = r
    BY ChatWorks DEF Users!InHand, Simulates, Locked
  <2>2. QED
    BY <2>1
<1>2. \A r \in ChatThreads : r # t => ~ Users!InHand(r)'
  BY <1>1 DEF Steps, Users!InHand
<1>3. Users!Hand = IF Users!InHand(t) THEN {chatThread[t].s} ELSE {}
  BY <1>1, Zenon DEF Users!Hand
<1>4. Users!Hand' = IF Users!InHand(t)' THEN {chatThread'[t].s} ELSE {}
  BY <1>2, Zenon DEF Users!Hand
<1>5. QED
  BY <1>3, <1>4

LEMMA ChatInsert ==
  ASSUME Users!IInv, NEW t \in ChatThreads, Users!Insert(t)
  PROVE  Users!IInv'
<1> DEFINE r == chatThread[t]
           i == chatThread[t].s
<1>1. /\ r.at = "insert" /\ Users!Enter(r.u, i) /\ "next" \in Users!Places
      /\ UNCHANGED <<alone, free, nextId, db, hlock>>
  BY DEF Users!Insert, Users!At, Users!Places
<1>2. /\ r.op \in {"login", "host", "feed"} /\ r.u \in Users!Accounts /\ i \in Users!Ids /\ i # 0
      /\ users[i] = None
  BY <1>1, ChatAt
<1>3. /\ TableType' /\ Users!Table' /\ Kept(i) /\ users'[i] # None /\ users'[i].uid = r.u /\ users'[i].nick = r.u
  BY <1>1, <1>2, ChatTyping, ChatEnter
<1>4. ASSUME alone
      PROVE  May(t) /\ OwnEach(users', db, {}, {})
  <2>1. May(t) /\ GoneAt(t) = {} /\ NewAt(t) = {r.u}
    BY <1>1 DEF May, GoneAt, NewAt
  <2>2. OwnEach(users, db, {}, {r.u}) /\ db[r.u] = i
    BY Zenon, <1>1, <1>4, <2>1, ChatOwns DEF OwnMore
  <2>3. OwnEach(users', db, {}, {})
    BY <1>2, <1>3, <2>2 DEF OwnEach, Kept
  <2>4. QED
    BY <2>1, <2>3
<1>5. CASE r.op = "login"
  <2>1. Users!Done(t) /\ UNCHANGED hostess
    BY <1>5 DEF Users!Insert
  <2>2. ~ Users!InHand(t) /\ i \in Sessions
    BY <1>5, ChatWorks DEF Users!InHand
  <2>3. QED
    BY Zenon, <1>1, <1>2, <1>3, <1>4, <2>1, <2>2, ChatDone, ChatChange
<1>6. CASE r.op \in {"host", "feed"}
  <2>1. Users!To(t, "next") /\ hostess' = hostess \cup {<<r.u, i>>}
    BY <1>6 DEF Users!Insert
  <2>2. /\ Moved(t, "next") \in Users!Thread /\ chatThread' = [chatThread EXCEPT ![t] = Moved(t, "next")]
        /\ chatThread'[t].at = "next" /\ chatThread'[t].op = r.op
        /\ chatThread'[t].u = r.u /\ chatThread'[t].s = i
        /\ chatThread'[t].old = r.old /\ chatThread'[t].gone = r.gone
        /\ Simulates(t)' <=> Simulates(t)
    BY <1>1, <2>1, ChatTo
  <2>3. /\ Simulates(t) /\ Users!InHand(t) /\ ~ Users!InHand(t)'
    BY <1>1, <1>6, <2>2 DEF Simulates, Users!InHand
  <2>4. /\ hlock = t /\ i \in Users!Sims /\ i \notin Sessions /\ r.gone = {} /\ r.u \in Hosts
        /\ Users!Cardinality(hostess) < HostessMax
    BY <1>1, <2>3, ChatWorks DEF Locked
  <2>5. /\ chatThread' \in [ChatThreads -> Users!Thread]
        /\ \A q \in ChatThreads : q # t => chatThread'[q] = chatThread[q]
    BY Zenon, <2>2, ChatTyped
  <2>6. \A x \in Users!Ids : users[x] = None /\ users'[x] # None => x = i
    BY <1>3 DEF Kept
  <2>7. Steps(t)
    BY <2>2, <2>4, <2>5, <2>6 DEF Steps
  <2>8. Users!Hand = {i} /\ Users!Hand' = {}
    BY <2>3, <2>4, <2>7, ChatHand
  <2>9. hostess \subseteq Hosts \X Users!Sims /\ IsFiniteSet(hostess)
    BY ChatCount DEF Users!IInv, Users!TypeOK
  <2>10. Users!Held' = Users!Held \cup {i}
    <3>1. <<r.u, i>>[2] = i
      OBVIOUS
    <3>2. QED
      BY <2>1, <3>1, Zenon DEF Users!Held
  <2>11. Users!Once /\ Users!Freed' = Users!Freed
    BY <1>1 DEF Users!IInv, Users!Freed
  <2>12. i \notin Users!Held /\ i \notin Users!Freed
    BY <2>8, <2>11 DEF Users!Once
  <2> DEFINE e == <<r.u, i>>
  <2>a. e \in Hosts \X Users!Sims /\ hostess' = hostess \cup {e}
    BY <2>1, <2>4
  <2> HIDE DEF e
  <2>13. IsFiniteSet(hostess') /\ hostess' \subseteq Hosts \X Users!Sims
    BY <2>a, <2>9, FS_AddElement
  <2>14. Users!Cardinality(hostess') <= HostessMax
    <3>a. Cardinality(hostess) \in Nat
      BY <2>9, FS_CardinalityType
    <3>b. Cardinality(hostess') = IF e \in hostess THEN Cardinality(hostess) ELSE Cardinality(hostess) + 1
      BY Zenon, <2>a, <2>9, FS_AddElement
    <3>1. Cardinality(hostess') <= Cardinality(hostess) + 1 /\ Cardinality(hostess) \in Nat
      BY <3>a, <3>b
    <3>2. QED
      BY <2>4, <2>13, <3>1, ChatCount, FS_CardinalityType, ChatAssumption
  <2>15. Users!Once'
    <3>1. \A h, g \in hostess' : h[2] = g[2] => h = g
      <4>1. \A h \in hostess : h[2] \in Users!Held
        BY Zenon DEF Users!Held
      <4>2. \A h, g \in hostess : h[2] = g[2] => h = g
        BY <2>11 DEF Users!Once
      <4>3. <<r.u, i>>[2] = i
        OBVIOUS
      <4>4. QED
        BY <2>1, <2>12, <4>1, <4>2, <4>3
    <3>2. \A x \in Users!Sims \ (Users!Held' \cup Users!Hand') : users'[x] = None
      BY <1>3, <2>8, <2>10, <2>11, ChatIds DEF Users!Once, Kept
    <3>3. QED
      BY <1>1, <2>8, <2>10, <2>11, <2>12, <2>14, <3>1, <3>2 DEF Users!Once
  <2>16. Users!TypeOK'
    BY <1>1, <1>3, <2>5, <2>13, ChatCount DEF Users!IInv, Users!TypeOK, TableType
  <2>17. Users!Working(t)'
    BY <1>1, <1>6, <2>2, <2>3, <2>4, ChatWorking DEF Simulates, Locked
  <2>18. GoneAt(t)' = {} /\ NewAt(t)' = {} /\ (alone => OwnMore(t)')
    BY <1>6, <2>2 DEF GoneAt, NewAt, OwnMore
  <2>19. alone => May(t) /\ OwnEach(users', db', GoneAt(t)', NewAt(t)') /\ OwnMore(t)'
    BY <1>1, <1>4, <2>18
  <2>20. QED
    BY <1>1, <1>3, <2>7, <2>15, <2>16, <2>17, <2>19, ChatStep
<1>7. QED
  BY <1>2, <1>5, <1>6

LEMMA ChatEndSim ==
  ASSUME Users!IInv, NEW t \in ChatThreads, NEW h \in hostess, Users!EndSim(t, h)
  PROVE  Users!IInv'
<1> DEFINE r == chatThread[t]
           i == h[2]
           rest == r.gone \ {h}
           th == [at |-> "clear", op |-> r.op, u |-> r.u, s |-> i, old |-> i, gone |-> rest, new |-> r.new]
           th1 == [r EXCEPT !.at = "clear"]
           th2 == [th1 EXCEPT !.s = i]
           th3 == [th2 EXCEPT !.old = i]
<1>1. /\ r.at = "next" /\ h \in r.gone /\ hostess' = hostess \ {h}
      /\ UNCHANGED <<alone, users, counts, list, free, nextId, db, hlock>>
      /\ chatThread' = [chatThread EXCEPT ![t] = [r EXCEPT !.at = "clear", !.s = i, !.old = i, !.gone = rest]]
  BY DEF Users!EndSim, Users!At
<1>2. hostess \subseteq Hosts \X Users!Sims /\ IsFiniteSet(hostess) /\ Users!Once
  BY ChatCount DEF Users!IInv, Users!TypeOK
<1>3. i \in Users!Sims /\ i \in Users!Ids /\ i \notin Sessions
  BY Zenon, <1>2, ChatIds
<1>4. /\ Simulates(t) /\ hlock = t /\ r.gone \subseteq hostess /\ ~ Users!InHand(t)
      /\ r \in Users!Thread /\ r.op # "host" /\ r.gone \in SUBSET (Hosts \X Users!Sims)
  <2>1. Simulates(t) /\ r \in Users!Thread
    BY Zenon, <1>1, ChatAt, ChatTyped
  <2>2. hlock = t /\ r.gone \subseteq hostess /\ r.op # "host"
    BY <1>1, <2>1, ChatWorks DEF Locked
  <2>3. QED
    BY <1>1, <1>2, <2>1, <2>2 DEF Users!InHand
<1>5. rest \in SUBSET (Hosts \X Users!Sims) /\ rest \subseteq hostess \ {h}
  BY <1>4
<1> HIDE DEF i, rest
<1>6. th1 \in Users!Thread
  BY <1>4 DEF Users!Thread, Users!Places
<1>6a. th1.at = "clear" /\ th1.op = r.op /\ th1.u = r.u /\ th1.new = r.new /\ th1.gone = r.gone
  BY <1>4 DEF Users!Thread
<1> HIDE DEF th1
<1>7. th2 \in Users!Thread
  BY <1>3, <1>6 DEF Users!Thread
<1>7a. th2.at = "clear" /\ th2.op = r.op /\ th2.u = r.u /\ th2.s = i /\ th2.new = r.new /\ th2.gone = r.gone
  BY <1>6, <1>6a DEF Users!Thread
<1> HIDE DEF th2
<1>8. th3 \in Users!Thread
  BY <1>3, <1>7 DEF Users!Thread
<1>8a. th3.at = "clear" /\ th3.op = r.op /\ th3.u = r.u /\ th3.s = i /\ th3.old = i /\ th3.new = r.new /\ th3.gone = r.gone
  BY <1>7, <1>7a DEF Users!Thread
<1> HIDE DEF th3
<1>9. [th3 EXCEPT !.gone = rest] = th
  BY <1>8, <1>8a DEF Users!Thread
<1>10. th \in Users!Thread
  BY <1>3, <1>4, <1>5 DEF Users!Thread, Users!Places
<1>11. chatThread' = [chatThread EXCEPT ![t] = th]
  <2>1. chatThread' = [chatThread EXCEPT ![t] = [th3 EXCEPT !.gone = rest]]
    BY <1>1 DEF th1, th2, th3
  <2>2. QED
    BY Zenon, <1>9, <2>1
<1>12. /\ chatThread'[t] = th /\ chatThread' \in [ChatThreads -> Users!Thread]
       /\ \A q \in ChatThreads : q # t => chatThread'[q] = chatThread[q]
  BY Zenon, <1>10, <1>11, ChatTyped
<1>13. Steps(t)
  BY <1>1, <1>3, <1>4, <1>12 DEF Steps
<1>14. Users!InHand(t)'
  BY <1>4, <1>12 DEF Users!InHand, Simulates
<1>15. Users!Hand = {} /\ Users!Hand' = {i}
  BY <1>4, <1>12, <1>13, <1>14, ChatHand
<1>16. Users!Held' = Users!Held \ {i} /\ i \in Users!Held
  <2>1. \A g \in hostess : g # h => g[2] # i
    BY <1>2 DEF Users!Once, i
  <2>2. i = h[2]
    BY DEF i
  <2>3. QED
    BY <1>1, <2>1, <2>2, Zenon DEF Users!Held
<1>17. Users!Freed' = Users!Freed
  BY <1>1 DEF Users!Freed
<1>18. IsFiniteSet(hostess') /\ Users!Cardinality(hostess') <= HostessMax
  <2>a. Cardinality(hostess) \in Nat
    BY <1>2, FS_CardinalityType
  <2>b. /\ IsFiniteSet(hostess')
        /\ Cardinality(hostess') = IF h \in hostess THEN Cardinality(hostess) - 1 ELSE Cardinality(hostess)
    BY <1>1, <1>2, FS_RemoveElement
  <2>1. IsFiniteSet(hostess') /\ Cardinality(hostess') <= Cardinality(hostess)
    BY <2>a, <2>b
  <2>2. Cardinality(hostess') \in Nat /\ Cardinality(hostess) \in Nat
    BY <1>2, <2>1, FS_CardinalityType
  <2>3. Cardinality(hostess) <= HostessMax
    BY <1>2, ChatCount DEF Users!Once
  <2>4. QED
    BY <2>1, <2>2, <2>3, ChatCount, ChatAssumption
<1>19. Users!Once'
  BY <1>1, <1>2, <1>15, <1>16, <1>17, <1>18 DEF Users!Once
<1>20. Users!TypeOK'
  BY <1>1, <1>2, <1>12, <1>18, ChatCount DEF Users!IInv, Users!TypeOK
<1>21. Users!Working(t)'
  <2>1. /\ chatThread'[t].at = "clear" /\ chatThread'[t].op = "feed" /\ Simulates(t)'
        /\ chatThread'[t].s = i /\ chatThread'[t].old = i /\ chatThread'[t].gone = rest
    BY <1>4, <1>12 DEF Simulates
  <2>2. rest \subseteq hostess'
    BY <1>1, <1>5
  <2>3. QED
    BY <1>1, <1>3, <1>4, <2>1, <2>2, ChatWorking DEF Locked
<1>22. Users!Table'
  BY <1>1 DEF Users!IInv, Users!Table, Users!Counted, Users!Quota
<1>23. alone => May(t) /\ OwnEach(users', db', GoneAt(t)', NewAt(t)')
  BY <1>1, <1>12, ChatSame DEF May
<1>24. OwnMore(t)'
  BY <1>4, <1>12 DEF OwnMore, Simulates
<1>25. QED
  BY <1>1, <1>13, <1>19, <1>20, <1>21, <1>22, <1>23, <1>24, ChatStep

(* An identifier is taken, a used one or a new one.                        *)
LEMMA ChatTake ==
  ASSUME Users!IInv, NEW t \in ChatThreads, Users!Take(t)
  PROVE  Users!IInv'
<1> DEFINE r == chatThread[t]
<1>1. /\ r.at = "take" /\ {"update", "next"} \subseteq Users!Places
      /\ UNCHANGED <<alone, users, counts, list, db, hostess, hlock>>
  BY DEF Users!Take, Users!At, Users!Places
<1>2. /\ Simulates(t) /\ hlock = t /\ r.gone = {} /\ r.u \in Hosts /\ r.s \notin Sessions /\ r.u \in Users!Accounts
      /\ Users!Cardinality(hostess) < HostessMax
      /\ ~ Users!InHand(t) /\ r \in Users!Thread
  <2>1. Simulates(t) /\ r \in Users!Thread
    BY Zenon, <1>1, ChatAt, ChatTyped
  <2>2. /\ hlock = t /\ r.gone = {} /\ r.u \in Hosts /\ Users!Cardinality(hostess) < HostessMax
        /\ r.s \notin Sessions
    BY <1>1, <2>1, ChatWorks DEF Locked
  <2>3. QED
    BY Zenon, <1>1, <2>1, <2>2, ChatTyped DEF Users!InHand
<1>3. Users!Once /\ Users!TypeOK /\ free \in Seq(Users!Sims) /\ nextId \in FirstSim .. UserMax
  BY DEF Users!IInv, Users!TypeOK
<1>4. ASSUME NEW i \in Users!Sims, i \notin Users!Held, i \notin Users!Hand,
             chatThread' = [chatThread EXCEPT ![t] = [r EXCEPT !.at = "update", !.s = i]],
             free' \in Seq(Users!Sims), nextId' \in FirstSim .. UserMax,
             Users!Freed' \cup {i} \cup Users!Held = FirstSim .. nextId' - 1, i \notin Users!Freed',
             Users!Freed' \subseteq Users!Freed,
             \A j, k \in DOMAIN free' : free'[j] = free'[k] => j = k
      PROVE  Users!IInv'
  <2> DEFINE th == [at |-> "update", op |-> r.op, u |-> r.u, s |-> i, old |-> r.old, gone |-> {}, new |-> r.new]
             th1 == [r EXCEPT !.at = "update"]
  <2>1. th1 \in Users!Thread
    BY <1>2 DEF Users!Thread, Users!Places
  <2>2. th1.at = "update" /\ th1.op = r.op /\ th1.u = r.u /\ th1.old = r.old /\ th1.gone = {} /\ th1.new = r.new
    BY <1>2 DEF Users!Thread
  <2> HIDE DEF th1
  <2>3. [th1 EXCEPT !.s = i] = th
    BY <2>1, <2>2 DEF Users!Thread
  <2>4. th \in Users!Thread
    BY <1>2, ChatIds DEF Users!Thread, Users!Places
  <2>5. chatThread' = [chatThread EXCEPT ![t] = th]
    <3>1. chatThread' = [chatThread EXCEPT ![t] = [th1 EXCEPT !.s = i]]
      BY <1>4 DEF th1
    <3>2. QED
      BY Zenon, <2>3, <3>1
  <2>6. /\ chatThread'[t] = th /\ chatThread' \in [ChatThreads -> Users!Thread]
        /\ \A q \in ChatThreads : q # t => chatThread'[q] = chatThread[q]
    BY Zenon, <2>4, <2>5, ChatTyped
  <2>7. Steps(t)
    BY <1>1, <1>2, <1>4, <2>6 DEF Steps
  <2>8. Users!InHand(t)'
    BY <1>2, <2>6 DEF Users!InHand, Simulates
  <2>9. Users!Hand = {} /\ Users!Hand' = {i}
    BY <1>2, <2>6, <2>7, <2>8, ChatHand
  <2>10. Users!Held' = Users!Held
    BY <1>1 DEF Users!Held
  <2>11. users[i] = None
    BY <1>3, <1>4 DEF Users!Once
  <2>12. Users!Once'
    BY <1>1, <1>3, <1>4, <2>9, <2>10 DEF Users!Once
  <2>13. Users!TypeOK'
    BY <1>1, <1>3, <1>4, <2>6 DEF Users!TypeOK
  <2>14. Users!Working(t)'
    BY <1>1, <1>2, <2>6, <2>11, ChatWorking, ChatIds DEF Simulates, Locked
  <2>15. Users!Table'
    BY <1>1 DEF Users!IInv, Users!Table, Users!Counted, Users!Quota
  <2>16. alone => May(t) /\ OwnEach(users', db', GoneAt(t)', NewAt(t)')
    BY <1>1, <2>6, ChatSame DEF May
  <2>17. alone => OwnMore(t)'
    <3>1. alone => OwnMore(t)
      BY <1>1, ChatOwns DEF May
    <3>2. QED
      BY <1>1, <1>2, <2>6, <3>1 DEF OwnMore, Simulates
  <2>18. QED
    BY <1>1, <2>7, <2>12, <2>13, <2>14, <2>15, <2>16, <2>17, ChatStep
<1>5. CASE /\ free # <<>> /\ UNCHANGED nextId /\ free' = SubSeq(free, 1, Len(free) - 1)
           /\ chatThread' = [chatThread EXCEPT ![t] = [r EXCEPT !.at = "update", !.s = free[Len(free)]]]
  <2> DEFINE n == Len(free)
             i == free[n]
  <2>1. n \in Nat \ {0} /\ i \in Users!Sims /\ n \in DOMAIN free /\ DOMAIN free = 1 .. n
    BY <1>3, <1>5
  <2>2. free' \in Seq(Users!Sims) /\ DOMAIN free' = 1 .. n - 1 /\ \A j \in 1 .. n - 1 : free'[j] = free[j]
    BY <1>3, <1>5, <2>1
  <2>3. i \in Users!Freed /\ Users!Freed = {free[j] : j \in 1 .. n}
    BY <2>1 DEF Users!Freed
  <2>4. Users!Freed' = {free[j] : j \in 1 .. n - 1}
    BY <2>2 DEF Users!Freed
  <2>5. \A j, k \in 1 .. n : free[j] = free[k] => j = k
    BY <1>3, <2>1 DEF Users!Once
  <2> HIDE DEF i
  <2>5a. i = free[n]
    BY DEF i
  <2> HIDE DEF n
  <2>6. i \notin Users!Freed' /\ Users!Freed' \cup {i} = Users!Freed
    BY <2>1, <2>3, <2>4, <2>5, <2>5a
  <2>7. \A j, k \in DOMAIN free' : free'[j] = free'[k] => j = k
    BY <2>1, <2>2, <2>5
  <2>8. Users!Hand = {} /\ i \notin Users!Held
    <3>1. \A q \in ChatThreads : ~ Users!InHand(q)
      BY <1>2, ChatWorks DEF Users!InHand, Simulates, Locked
    <3>2. Users!Hand = {}
      BY <3>1, Zenon DEF Users!Hand
    <3>3. QED
      BY <1>3, <2>3, <3>2 DEF Users!Once
  <2>9. chatThread' = [chatThread EXCEPT ![t] = [r EXCEPT !.at = "update", !.s = i]]
    BY <1>5 DEF i, n
  <2>10. Users!Freed' \cup {i} \cup Users!Held = FirstSim .. nextId' - 1 /\ nextId' \in FirstSim .. UserMax
    BY <1>3, <1>5, <2>6, <2>8 DEF Users!Once
  <2>11. QED
    BY Zenon, <1>4, <2>1, <2>2, <2>6, <2>7, <2>8, <2>9, <2>10
<1>6. CASE /\ free = <<>> /\ nextId < UserMax /\ nextId' = nextId + 1 /\ UNCHANGED free
           /\ chatThread' = [chatThread EXCEPT ![t] = [r EXCEPT !.at = "update", !.s = nextId]]
  <2>1. Users!Freed = {} /\ Users!Freed' = {}
    BY <1>6 DEF Users!Freed
  <2>2. Users!Hand = {}
    <3>1. \A q \in ChatThreads : ~ Users!InHand(q)
      BY <1>2, ChatWorks DEF Users!InHand, Simulates, Locked
    <3>2. QED
      BY <3>1, Zenon DEF Users!Hand
  <2>3. Users!Held = FirstSim .. nextId - 1
    BY <1>3, <2>1, <2>2 DEF Users!Once
  <2>4. nextId \in Users!Sims /\ nextId' \in FirstSim .. UserMax /\ nextId \notin Users!Held
        /\ Users!Held \cup {nextId} = FirstSim .. nextId' - 1
    BY <1>3, <1>6, <2>3, ChatAssumption DEF Users!Sims
  <2>5. \A j, k \in DOMAIN free' : free'[j] = free'[k] => j = k
    BY <1>6
  <2>6. QED
    BY Zenon, <1>3, <1>4, <1>6, <2>1, <2>2, <2>4, <2>5
<1>7. CASE UNCHANGED <<free, nextId>> /\ Users!To(t, "next")
  <2>1. /\ Moved(t, "next") \in Users!Thread /\ chatThread' = [chatThread EXCEPT ![t] = Moved(t, "next")]
        /\ chatThread'[t].at = "next" /\ chatThread'[t].op = r.op
        /\ chatThread'[t].u = r.u /\ chatThread'[t].s = r.s
        /\ chatThread'[t].old = r.old /\ chatThread'[t].gone = r.gone
        /\ Simulates(t)' <=> Simulates(t)
    BY <1>1, <1>7, ChatTo
  <2>2. Moved(t, "next").s = r.s
    BY DEF Moved
  <2>3. ~ Users!InHand(t)'
    BY <2>1 DEF Users!InHand
  <2>4. Users!Working(t)'
    BY <1>1, <1>2, <2>1, ChatWorking DEF Simulates, Locked
  <2>5. alone => May(t) /\ OwnEach(users, db', GoneAt(t)', NewAt(t)')
    BY <1>1, <2>1, ChatSame DEF May
  <2>6. OwnMore(t)'
    BY <1>2, <2>1 DEF OwnMore, Simulates
  <2>7. QED
    BY Zenon, <1>1, <1>2, <1>7, <2>1, <2>2, <2>3, <2>4, <2>5, <2>6, ChatQuiet, ChatTyped
<1>8. QED
  BY <1>5, <1>6, <1>7 DEF Users!Take

LEMMA ChatGive ==
  ASSUME Users!IInv, NEW t \in ChatThreads, Users!Give(t)
  PROVE  Users!IInv'
<1> DEFINE r == chatThread[t]
           i == chatThread[t].s
           n == Len(free)
<1>1. /\ r.at = "give" /\ Users!To(t, "next") /\ "next" \in Users!Places /\ free' = Append(free, i)
      /\ UNCHANGED <<alone, users, counts, list, nextId, db, hostess, hlock>>
  BY DEF Users!Give, Users!At, Users!Places
<1>2. Simulates(t) /\ Users!InHand(t)
  BY <1>1, ChatAt DEF Simulates, Users!InHand
<1>3. /\ hlock = t /\ i \in Users!Sims /\ i \notin Sessions /\ users[i] = None
      /\ r.gone \subseteq hostess /\ (r.op = "host" => r.gone = {})
  BY <1>1, <1>2, ChatWorks DEF Locked
<1>4. /\ Moved(t, "next") \in Users!Thread /\ chatThread' = [chatThread EXCEPT ![t] = Moved(t, "next")]
      /\ chatThread'[t].at = "next" /\ chatThread'[t].op = r.op
      /\ chatThread'[t].u = r.u /\ chatThread'[t].s = i
      /\ chatThread'[t].old = r.old /\ chatThread'[t].gone = r.gone
      /\ Simulates(t)' <=> Simulates(t)
  BY <1>1, ChatTo
<1>5. /\ chatThread' \in [ChatThreads -> Users!Thread]
      /\ \A q \in ChatThreads : q # t => chatThread'[q] = chatThread[q]
  BY Zenon, <1>4, ChatTyped
<1>6. Steps(t)
  BY <1>1, <1>3, <1>4, <1>5 DEF Steps
<1>7. ~ Users!InHand(t)'
  BY <1>4 DEF Users!InHand
<1>8. Users!Hand = {i} /\ Users!Hand' = {}
  BY <1>2, <1>3, <1>6, <1>7, ChatHand
<1>9. Users!Once /\ Users!TypeOK /\ free \in Seq(Users!Sims)
  BY DEF Users!IInv, Users!TypeOK
<1>10. Users!Held' = Users!Held
  BY <1>1 DEF Users!Held
<1>11. n \in Nat /\ DOMAIN free = 1 .. n
  BY <1>9
<1>12. /\ free' \in Seq(Users!Sims) /\ DOMAIN free' = 1 .. n + 1
       /\ free'[n + 1] = i /\ \A j \in 1 .. n : free'[j] = free[j]
  BY <1>1, <1>3, <1>9
<1> HIDE DEF i, n
<1>13. Users!Freed' = Users!Freed \cup {i}
  <2>1. Users!Freed = {free[j] : j \in 1 .. n} /\ Users!Freed' = {free'[j] : j \in 1 .. n + 1}
    BY <1>11, <1>12 DEF Users!Freed
  <2>2. QED
    BY <1>11, <1>12, <2>1
<1>14. i \notin Users!Freed
  BY <1>8, <1>9 DEF Users!Once
<1>15. \A j, k \in DOMAIN free' : free'[j] = free'[k] => j = k
  <2>1. \A j, k \in 1 .. n : free[j] = free[k] => j = k
    BY <1>9, <1>11 DEF Users!Once
  <2>2. \A j \in 1 .. n : free[j] # i
    BY <1>11, <1>14 DEF Users!Freed
  <2>3. QED
    BY <1>11, <1>12, <2>1, <2>2
<1>16. Users!Once'
  BY <1>1, <1>3, <1>8, <1>9, <1>10, <1>13, <1>14, <1>15 DEF Users!Once
<1>17. Users!TypeOK'
  BY <1>1, <1>5, <1>9, <1>12 DEF Users!TypeOK
<1>18. Users!Working(t)'
  BY <1>1, <1>2, <1>3, <1>4, ChatWorking DEF Simulates, Locked
<1>19. Users!Table'
  BY <1>1 DEF Users!IInv, Users!Table, Users!Counted, Users!Quota
<1>20. alone => May(t) /\ OwnEach(users', db', GoneAt(t)', NewAt(t)')
  BY <1>1, <1>4, ChatSame DEF May
<1>21. OwnMore(t)'
  BY <1>2, <1>4 DEF OwnMore, Simulates
<1>22. QED
  BY <1>1, <1>6, <1>16, <1>17, <1>18, <1>19, <1>20, <1>21, ChatStep

-----------------------------------------------------------------------------
LEMMA ChatInit == PluginsInit => Users!IInv
<1> SUFFICES ASSUME PluginsInit PROVE Users!IInv
  OBVIOUS
<1>1. /\ users = [x \in Users!Ids |-> None]
      /\ counts = [online |-> 0, women |-> 0, men |-> 0] /\ list = <<>>
      /\ free = <<>> /\ nextId = FirstSim
      /\ db = [u \in Users!Accounts |-> 0] /\ hostess = {} /\ hlock = None
      /\ chatThread = [t \in ChatThreads |-> Users!Idle]
  BY DEF PluginsInit, Users!Init
<1>2. Users!Idle \in Users!Thread /\ Users!Idle.at = "idle" /\ Users!Idle.op = "none" /\ Users!Idle.s = 0
  BY DEF Users!Idle, Users!Work, Users!Thread, Users!Places
<1>3. \A t \in ChatThreads : chatThread[t] = Users!Idle
  BY <1>1
<1>4. Users!TypeOK
  BY <1>1, <1>2, ChatAssumption, ChatCount, FS_EmptySet DEF Users!TypeOK
<1>5. There = {} /\ Seen = {} /\ Hidden = {} /\ TheWomen = {}
  BY <1>1, Zenon DEF There, Seen, Hidden, TheWomen, SeenIn, HiddenIn, WomenIn, Users!Of
<1>6. Users!Cardinality({}) = 0
  BY ChatCount, FS_EmptySet
<1>7. 0 <= Users!Limit(0) + 1
  BY LimitGrows
<1>8. Users!Table
  BY <1>1, <1>5, <1>6, <1>7, ChatTable DEF TableIs
<1>9. \A t \in ChatThreads : ~ Users!InHand(t)
  BY <1>2, <1>3 DEF Users!InHand
<1>10. Users!Held = {} /\ Users!Freed = {}
  BY <1>1 DEF Users!Held, Users!Freed
<1>11. Users!Hand = {}
  BY <1>9, Zenon DEF Users!Hand
<1>12. Users!Once
  BY <1>1, <1>6, <1>10, <1>11, ChatIds, ChatAssumption DEF Users!Once
<1>13. Users!Apart
  BY <1>2, <1>3, ChatIds DEF Users!Apart
<1>14. \A t \in ChatThreads : Users!Working(t)
  BY <1>2, <1>3 DEF Users!Working
<1>15. Users!Alone
  <2>1. OwnEach(users, db, {}, {})
    BY <1>1, ChatIds DEF OwnEach
  <2>2. Users!Own({}, {})
    BY <1>4, <2>1, ChatOwn DEF OwnSets, Users!Own, Users!TypeOK
  <2>3. QED
    BY <1>2, <1>3, <2>2 DEF Users!Alone, Users!At
<1>16. QED
  BY <1>4, <1>8, <1>12, <1>13, <1>14, <1>15 DEF Users!IInv

LEMMA ChatIdle == ASSUME Users!IInv, UNCHANGED Users!vars PROVE Users!IInv'
<1>1. UNCHANGED <<alone, users, counts, list, free, nextId, db, hostess, hlock, chatThread>>
  BY DEF Users!vars
<1>2. Users!TypeOK' /\ Users!Table'
  BY <1>1 DEF Users!IInv, Users!TypeOK, Users!Table, Users!Counted, Users!Quota
<1>3. Users!Once'
  BY <1>1 DEF Users!IInv, Users!Once, Users!Held, Users!Hand, Users!InHand, Users!Freed
<1>4. Users!Apart' /\ \A t \in ChatThreads : Users!Working(t)'
  BY <1>1 DEF Users!IInv, Users!Apart, Users!Working, Users!InHand
<1>5. Users!Alone'
  BY <1>1 DEF Users!IInv, Users!Alone, Users!At, Users!Own, Users!OwnIn
<1>6. QED
  BY <1>2, <1>3, <1>4, <1>5 DEF Users!IInv

LEMMA ChatNext == Users!IInv /\ [Users!Next]_(Users!vars) => Users!IInv'
<1> SUFFICES ASSUME Users!IInv, [Users!Next]_(Users!vars) PROVE Users!IInv'
  OBVIOUS
<1>1. ASSUME NEW t \in ChatThreads, NEW i \in Sessions, Users!Hangup(t, i) \/ Users!SetStatus(t, i)
      PROVE  Users!IInv'
  BY <1>1, ChatHangup, ChatSetStatus
<1>2. ASSUME NEW t \in ChatThreads, NEW i \in Sessions, NEW u \in Users!Accounts \ Hosts, Users!Login(t, u, i)
      PROVE  Users!IInv'
  BY <1>2, ChatLogin
<1>3. ASSUME NEW t \in ChatThreads, NEW u \in Restless, Users!Reread(t, u) PROVE Users!IInv'
  BY <1>3, ChatReread
<1>4. ASSUME NEW t \in ChatThreads, NEW u \in Hosts, Users!HostOnline(t, u) PROVE Users!IInv'
  BY <1>4, ChatHostOnline
<1>5. ASSUME NEW t \in ChatThreads, NEW listed \in SUBSET Hosts, Users!Feed(t, listed) PROVE Users!IInv'
  BY <1>5, ChatFeed
<1>6. ASSUME NEW t \in ChatThreads, NEW h \in hostess, Users!EndSim(t, h) PROVE Users!IInv'
  BY <1>6, ChatEndSim
<1>7. ASSUME NEW t \in ChatThreads,
             Users!Clear(t) \/ Users!Remove(t) \/ Users!Update(t) \/ Users!Insert(t) \/ Users!Refresh(t)
      PROVE  Users!IInv'
  BY <1>7, ChatClear, ChatRemove, ChatUpdate, ChatInsert, ChatRefresh
<1>8. ASSUME NEW t \in ChatThreads,
             Users!Unlock(t) \/ Users!Impersonate(t) \/ Users!Lock(t) \/ Users!Take(t) \/ Users!Give(t)
      PROVE  Users!IInv'
  BY <1>8, ChatUnlock, ChatImpersonate, ChatLock, ChatTake, ChatGive
<1>9. ASSUME UNCHANGED Users!vars PROVE Users!IInv'
  BY <1>9, ChatIdle
<1>10. QED
  BY <1>1, <1>2, <1>3, <1>4, <1>5, <1>6, <1>7, <1>8, <1>9 DEF Users!Next

(* The places of the free identifiers are as many as they are.             *)
LEMMA ChatFreed ==
  ASSUME Users!IInv
  PROVE  Users!Cardinality(Users!Freed) = Len(free)
<1> DEFINE n == Len(free)
<1>1. free \in Seq(Users!Sims) /\ \A i, j \in DOMAIN free : free[i] = free[j] => i = j
  BY DEF Users!IInv, Users!TypeOK, Users!Once
<1>2. n \in Nat /\ DOMAIN free = 1 .. n
  BY <1>1
<1>3. Users!Freed = {free[i] : i \in 1 .. n}
  BY <1>2 DEF Users!Freed
<1>4. free \in Bijection(1 .. n, Users!Freed)
  <2>1. free \in [1 .. n -> Users!Freed]
    BY <1>1, <1>2, <1>3
  <2>2. free \in Injection(1 .. n, Users!Freed)
    BY <1>1, <1>2, <2>1 DEF Injection, IsInjective
  <2>3. free \in Surjection(1 .. n, Users!Freed)
    BY <1>2, <1>3, <2>1 DEF Surjection
  <2>4. QED
    BY <2>2, <2>3 DEF Bijection
<1>5. IsFiniteSet(1 .. n) /\ Cardinality(1 .. n) = n
  <2>1. /\ IsFiniteSet(1 .. n)
        /\ Cardinality(1 .. n) = IF 1 > n THEN 0 ELSE n - 1 + 1
    BY <1>2, FS_Interval
  <2>2. QED
    BY <1>2, <2>1
<1> HIDE DEF n
<1>6. Cardinality(Users!Freed) = Cardinality(1 .. n)
  <2>1. ExistsBijection(1 .. n, Users!Freed)
    BY <1>4, Zenon DEF ExistsBijection
  <2>2. QED
    BY <1>5, <2>1, FS_Bijection
<1>7. QED
  BY <1>5, <1>6, ChatCount DEF n

LEMMA ChatIsSafe1 == Users!IInv => Users!ChatSafe
<1> SUFFICES ASSUME Users!IInv PROVE Users!ChatSafe
  OBVIOUS
<1>1. Users!Table /\ Users!Once /\ Users!TypeOK /\ Users!Alone
  BY DEF Users!IInv
<1>2. Users!Counted /\ Users!Quota
  BY <1>1 DEF Users!Table
<1>3. Users!SimIds
  <2>1. \A x \in Users!Freed : users[x] = None
    <3>1. Users!Freed \subseteq Users!Sims
      BY <1>1 DEF Users!Freed, Users!TypeOK
    <3>2. QED
      BY <1>1, <3>1 DEF Users!Once
  <2>2. QED
    BY <1>1, <2>1, ChatFreed DEF Users!Once, Users!SimIds
<1>4. Users!Listed
  <2>1. TableType /\ TableIs
    BY ChatTyping, ChatTable
  <2>2. counts.online > 0 => There # {}
    BY <2>1, ChatSets, ChatSet DEF TableIs
  <2>3. QED
    BY <2>1, <2>2 DEF TableIs, Users!Listed
<1>5. Users!OneSession
  BY <1>1 DEF Users!OneSession, Users!Alone, Users!Own
<1>6. QED
  BY <1>2, <1>3, <1>4, <1>5 DEF Users!ChatSafe

(* The counters are those of the table, the quota is kept, no simulated    *)
(* identifier is given twice or lost, the list is what the table was, and with*)
(* one thread an account has one session, that of the database.            *)
THEOREM ChatIsSafe == PluginsSpec => []ChatSafe
<1>1. ASSUME Users!IInv, [PluginsNext]_pluginsVars PROVE Users!IInv'
  <2>1. [Users!Next]_(Users!vars)
    BY <1>1, AloneStays DEF PluginsNext, Others, pluginsVars, chatVars, Users!vars
  <2>2. QED
    BY <1>1, <2>1, ChatNext
<1>2. Users!IInv => ChatSafe
  BY ChatIsSafe1 DEF ChatSafe
<1>3. QED
  BY <1>1, <1>2, ChatInit, PTL DEF PluginsSpec

-----------------------------------------------------------------------------
(* The JSON tokenizer: what it has open, beside the brackets of the        *)
(* grammar.                                                                *)
Brackets == {"object", "array"}
OpenTokens == [type : Parser!Types, parts : 0 .. 2]

LEMMA JsonTop ==
  ASSUME NEW k, NEW o \in Seq(Brackets), NEW x, NEW m, Parser!Nested(k, o, x, m)
  PROVE  /\ k # <<>> /\ k \in Seq(OpenTokens)
         /\ x = "bracket" => /\ Parser!Last(k).type = IF o = <<>> THEN "root" ELSE Parser!Last(o)
                             /\ o # <<>> => Parser!Last(k).parts \in m
         /\ x = "string" => Parser!Last(k).type = "dstring"
         /\ x = "number" => Parser!Last(k).type = "primitive" /\ Parser!Last(k).parts = 0
         /\ x = "escape" => Parser!Last(k).type = "escape"
<1>1. k \in Seq(OpenTokens) /\ Len(k) = Len(o) + 1 + Parser!Above(x) /\ Len(o) \in Nat
  BY DEF Parser!Nested, OpenTokens
<1>2. k # <<>>
  BY <1>1 DEF Parser!Above
<1>3. x = "bracket" => /\ Parser!Last(k).type = IF o = <<>> THEN "root" ELSE Parser!Last(o)
                       /\ o # <<>> => Parser!Last(k).parts \in m
  <2> SUFFICES ASSUME x = "bracket"
               PROVE  /\ Parser!Last(k).type = IF o = <<>> THEN "root" ELSE Parser!Last(o)
                      /\ o # <<>> => Parser!Last(k).parts \in m
    OBVIOUS
  <2>1. Len(k) = Len(o) + 1
    BY <1>1 DEF Parser!Above
  <2>2. CASE o = <<>>
    <3>1. k[1].type = "root"
      BY DEF Parser!Nested
    <3>2. Len(k) = 1
      BY <2>1, <2>2
    <3>3. QED
      BY <3>1, <3>2, <2>2 DEF Parser!Last
  <2>3. CASE o # <<>>
    <3>1. Len(o) \in DOMAIN o
      BY <2>3
    <3>2. k[Len(o) + 1].type = o[Len(o)] /\ k[Len(o) + 1].parts \in m
      BY <3>1, <2>3 DEF Parser!Nested
    <3>3. QED
      BY <3>2, <2>1, <2>3 DEF Parser!Last
  <2>4. QED
    BY <2>2, <2>3
<1>4. x \in {"string", "number"} => Len(k) = Len(o) + 2
  BY <1>1 DEF Parser!Above
<1>5. x = "escape" => Len(k) = Len(o) + 3
  BY <1>1 DEF Parser!Above
<1>6. QED
  BY <1>1, <1>2, <1>3, <1>4, <1>5 DEF Parser!Nested, Parser!Last, Parser!Token

LEMMA JsonBounds ==
  ASSUME NEW k, NEW o \in Seq(Brackets), NEW x, NEW m, Parser!Nested(k, o, x, m)
  PROVE  /\ k \in Seq(OpenTokens) /\ k # <<>> /\ Len(o) \in Nat
         /\ Len(k) = Len(o) + 1 + Parser!Above(x)
         /\ k[1].type = "root" /\ \A i \in 1 .. Len(o) : k[i + 1].type = o[i]
         /\ \A i \in 1 .. Len(o) - 1 : k[i + 1].parts \in Parser!Full(o[i])
         /\ o # <<>> => k[Len(o) + 1].parts \in m
<1>1. k # <<>>
  BY JsonTop
<1>2. QED
  BY <1>1 DEF Parser!Nested, OpenTokens

(* What a container has counted only matters inside of one, and a larger   *)
(* set of numbers says less.                                               *)
LEMMA JsonWeaker ==
  ASSUME NEW k, NEW o \in Seq(Brackets), NEW x, NEW m, NEW n, Parser!Nested(k, o, x, m),
         o # <<>> => m \subseteq n
  PROVE  Parser!Nested(k, o, x, n)
<1>1. o # <<>> => k[Len(o) + 1].parts \in n
  BY DEF Parser!Nested
<1>2. QED
  BY <1>1 DEF Parser!Nested

(* A token is added.                                                       *)
LEMMA JsonPushed ==
  ASSUME NEW k \in Seq(OpenTokens), k # <<>>, NEW t \in Parser!Types
  PROVE  /\ Parser!Push(k, t) \in Seq(OpenTokens) /\ Len(Parser!Push(k, t)) = Len(k) + 1
         /\ \A i \in 1 .. Len(k) : Parser!Push(k, t)[i].type = k[i].type
         /\ \A i \in 1 .. Len(k) - 1 : Parser!Push(k, t)[i].parts = k[i].parts
         /\ Parser!Push(k, t)[Len(k)].parts = Parser!Up(k[Len(k)].parts)
         /\ Parser!Push(k, t)[Len(k) + 1] = Parser!Token(t, 0)
<1> DEFINE u == [i \in DOMAIN k |-> IF i = Len(k) THEN Parser!Token(k[i].type, Parser!Up(k[i].parts))
                                    ELSE k[i]]
<1>1. \A y \in OpenTokens : Parser!Token(y.type, Parser!Up(y.parts)) \in OpenTokens
  BY DEF OpenTokens, Parser!Token, Parser!Up
<1>2. \A i \in 1 .. Len(k) : u[i] \in OpenTokens
  BY <1>1
<1>3. u \in Seq(OpenTokens) /\ Len(u) = Len(k)
  <2>1. DOMAIN k = 1 .. Len(k) /\ Len(k) \in Nat
    OBVIOUS
  <2>2. u \in [1 .. Len(k) -> OpenTokens]
    BY <1>2, <2>1
  <2> HIDE DEF u
  <2>3. u \in Seq(OpenTokens) /\ DOMAIN u = 1 .. Len(k)
    BY <2>1, <2>2, SeqDef
  <2>4. QED
    BY <2>1, <2>3, LenProperties
<1>4. \A i \in 1 .. Len(k) : u[i].type = k[i].type
  BY DEF Parser!Token
<1>5. \A i \in 1 .. Len(k) - 1 : u[i].parts = k[i].parts
  OBVIOUS
<1>6. u[Len(k)].parts = Parser!Up(k[Len(k)].parts)
  BY DEF Parser!Token
<1>7. Parser!Token(t, 0) \in OpenTokens
  BY DEF Parser!Token, OpenTokens
<1>8. Parser!Push(k, t) = Append(u, Parser!Token(t, 0))
  BY DEF Parser!Push
<1> HIDE DEF u
<1>9. /\ Append(u, Parser!Token(t, 0)) \in Seq(OpenTokens)
      /\ Len(Append(u, Parser!Token(t, 0))) = Len(k) + 1
      /\ \A i \in 1 .. Len(k) : Append(u, Parser!Token(t, 0))[i] = u[i]
      /\ Append(u, Parser!Token(t, 0))[Len(k) + 1] = Parser!Token(t, 0)
  BY <1>3, <1>7
<1>10. QED
  BY <1>4, <1>5, <1>6, <1>8, <1>9

LEMMA JsonPush ==
  ASSUME NEW k, NEW o \in Seq(Brackets), NEW m, Parser!Nested(k, o, "bracket", m),
         NEW n, o # <<>> => \A i \in m : Parser!Up(i) \in n,
         NEW t, NEW x, (t = "dstring" /\ x = "string") \/ (t = "primitive" /\ x = "number")
  PROVE  Parser!Nested(Parser!Push(k, t), o, x, n)
<1> DEFINE p == Parser!Push(k, t)
<1>0. Parser!Above("bracket") = 0 /\ Parser!Above(x) = 1 /\ t \in Parser!Types
  BY DEF Parser!Above, Parser!Types
<1>1. k \in Seq(OpenTokens) /\ k # <<>> /\ Len(k) = Len(o) + 1 /\ Len(o) \in Nat
  BY <1>0, JsonBounds
<1>2. /\ p \in Seq(OpenTokens) /\ Len(p) = Len(k) + 1
      /\ \A i \in 1 .. Len(k) : p[i].type = k[i].type
      /\ \A i \in 1 .. Len(k) - 1 : p[i].parts = k[i].parts
      /\ p[Len(k)].parts = Parser!Up(k[Len(k)].parts)
      /\ p[Len(k) + 1] = Parser!Token(t, 0)
  BY <1>0, <1>1, JsonPushed
<1> HIDE DEF p
<1>k. /\ k[1].type = "root" /\ \A i \in 1 .. Len(o) : k[i + 1].type = o[i]
      /\ \A i \in 1 .. Len(o) - 1 : k[i + 1].parts \in Parser!Full(o[i])
      /\ o # <<>> => k[Len(o) + 1].parts \in m
  BY JsonBounds
<1>3. p[1].type = "root" /\ \A i \in DOMAIN o : p[i + 1].type = o[i]
  <2>1. p[1].type = "root"
    BY <1>1, <1>2, <1>k
  <2>2. \A i \in 1 .. Len(o) : i + 1 \in 1 .. Len(k)
    BY <1>1
  <2>3. \A i \in 1 .. Len(o) : p[i + 1].type = o[i]
    BY <1>2, <1>k, <2>2
  <2>4. QED
    BY <2>1, <2>3
<1>4. \A i \in 1 .. Len(o) - 1 : p[i + 1].parts \in Parser!Full(o[i])
  <2>1. \A i \in 1 .. Len(o) - 1 : i + 1 \in 1 .. Len(k) - 1
    BY <1>1
  <2>2. QED
    BY <2>1, <1>2, <1>k
<1>5. o # <<>> => p[Len(o) + 1].parts \in n
  BY <1>1, <1>2, <1>k
<1>6. QED
  BY <1>0, <1>1, <1>2, <1>3, <1>4, <1>5 DEF Parser!Nested, Parser!Token, OpenTokens, p

LEMMA JsonOpen ==
  ASSUME NEW k, NEW o \in Seq(Brackets), NEW m, Parser!Nested(k, o, "bracket", m),
         o # <<>> => \A i \in m : Parser!Up(i) \in Parser!Full(Parser!Last(o)),
         NEW t \in Brackets
  PROVE  Parser!Nested(Parser!Push(k, t), Append(o, t), "bracket", {0})
<1> DEFINE p == Parser!Push(k, t)
           a == Append(o, t)
<1>0. Parser!Above("bracket") = 0 /\ t \in Parser!Types
  BY DEF Parser!Above, Parser!Types, Brackets
<1>1. k \in Seq(OpenTokens) /\ k # <<>> /\ Len(k) = Len(o) + 1 /\ Len(o) \in Nat
  BY <1>0, JsonBounds
<1>2. /\ p \in Seq(OpenTokens) /\ Len(p) = Len(k) + 1
      /\ \A i \in 1 .. Len(k) : p[i].type = k[i].type
      /\ \A i \in 1 .. Len(k) - 1 : p[i].parts = k[i].parts
      /\ p[Len(k)].parts = Parser!Up(k[Len(k)].parts)
      /\ p[Len(k) + 1] = Parser!Token(t, 0)
  BY <1>0, <1>1, JsonPushed
<1>3. /\ a \in Seq(Brackets) /\ Len(a) = Len(o) + 1 /\ DOMAIN a = 1 .. Len(o) + 1
      /\ \A i \in DOMAIN o : a[i] = o[i]
      /\ a[Len(o) + 1] = t
  OBVIOUS
<1> HIDE DEF p, a
<1>k. /\ k[1].type = "root" /\ \A i \in 1 .. Len(o) : k[i + 1].type = o[i]
      /\ \A i \in 1 .. Len(o) - 1 : k[i + 1].parts \in Parser!Full(o[i])
      /\ o # <<>> => k[Len(o) + 1].parts \in m
  BY JsonBounds
<1>4. p[1].type = "root" /\ \A i \in DOMAIN a : p[i + 1].type = a[i]
  <2>1. p[1].type = "root"
    BY <1>1, <1>2, <1>k
  <2>2. \A i \in 1 .. Len(o) : p[i + 1].type = a[i]
    <3>1. \A i \in 1 .. Len(o) : i + 1 \in 1 .. Len(k) /\ i \in DOMAIN o
      BY <1>1
    <3>2. QED
      BY <1>2, <1>3, <1>k, <3>1
  <2>3. p[Len(o) + 2].type = a[Len(o) + 1]
    BY <1>1, <1>2, <1>3 DEF Parser!Token
  <2>4. \A i \in DOMAIN a : i \in 1 .. Len(o) \/ i = Len(o) + 1
    BY <1>1, <1>3
  <2>5. QED
    BY <2>1, <2>2, <2>3, <2>4, <1>1
<1>5. \A i \in 1 .. Len(a) - 1 : p[i + 1].parts \in Parser!Full(a[i])
  <2>1. \A i \in 1 .. Len(o) - 1 : p[i + 1].parts \in Parser!Full(a[i])
    <3>1. \A i \in 1 .. Len(o) - 1 : i + 1 \in 1 .. Len(k) - 1 /\ i \in DOMAIN o
      BY <1>1
    <3>2. QED
      BY <1>2, <1>3, <1>k, <3>1
  <2>2. o # <<>> => p[Len(o) + 1].parts \in Parser!Full(a[Len(o)])
    <3>1. o # <<>> => k[Len(o) + 1].parts \in m
      BY <1>k
    <3>2. o # <<>> => Len(o) \in DOMAIN o
      OBVIOUS
    <3>3. QED
      BY <3>1, <3>2, <1>1, <1>2, <1>3 DEF Parser!Last
  <2>3. \A i \in 1 .. Len(a) - 1 : i \in 1 .. Len(o) - 1 \/ (i = Len(o) /\ o # <<>>)
    BY <1>1, <1>3
  <2>4. QED
    BY <2>1, <2>2, <2>3
<1>6. p[Len(a) + 1].parts \in {0}
  BY <1>1, <1>2, <1>3 DEF Parser!Token
<1>7. QED
  BY <1>0, <1>1, <1>2, <1>3, <1>4, <1>5, <1>6 DEF Parser!Nested, OpenTokens, p, a

(* All but the last.                                                        *)
LEMMA ShorterSeq ==
  ASSUME NEW T, NEW s \in Seq(T), s # <<>>
  PROVE  /\ SubSeq(s, 1, Len(s) - 1) \in Seq(T) /\ Len(SubSeq(s, 1, Len(s) - 1)) = Len(s) - 1
         /\ \A i \in 1 .. Len(s) - 1 : SubSeq(s, 1, Len(s) - 1)[i] = s[i]
<1> DEFINE n == Len(s) - 1
           q == SubSeq(s, 1, n)
<1>1. Len(s) \in Nat \ {0} /\ n \in Nat /\ n = Len(s) - 1
  OBVIOUS
<1>2. \A i \in 1 .. n : s[i] \in T
  BY <1>1
<1> HIDE DEF n
<1>3. /\ q \in Seq(T) /\ Len(q) = IF 1 <= n THEN n - 1 + 1 ELSE 0
      /\ \A i \in 1 .. n - 1 + 1 : q[i] = s[1 + i - 1]
  BY <1>1, <1>2, SubSeqProperties
<1> HIDE DEF q
<1>4. n - 1 + 1 = n /\ \A i \in 1 .. n : 1 + i - 1 = i
  BY <1>1
<1>5. Len(q) = n
  BY <1>1, <1>3, <1>4
<1>6. \A i \in 1 .. n : q[i] = s[i]
  BY <1>3, <1>4
<1>7. QED
  BY <1>3, <1>5, <1>6 DEF n, q

(* A token ends.                                                           *)
LEMMA JsonFront ==
  ASSUME NEW k \in Seq(OpenTokens), k # <<>>
  PROVE  /\ Parser!Front(k) \in Seq(OpenTokens) /\ Len(Parser!Front(k)) = Len(k) - 1
         /\ \A i \in 1 .. Len(k) - 1 : Parser!Front(k)[i] = k[i]
BY ShorterSeq DEF Parser!Front

LEMMA JsonLeave ==
  ASSUME NEW k, NEW o \in Seq(Brackets), NEW m, NEW x \in {"string", "number"},
         Parser!Nested(k, o, x, m)
  PROVE  Parser!Nested(Parser!Front(k), o, "bracket", m)
<1> DEFINE f == Parser!Front(k)
<1>0. Parser!Above(x) = 1 /\ Parser!Above("bracket") = 0
  BY DEF Parser!Above
<1>1. k \in Seq(OpenTokens) /\ k # <<>> /\ Len(k) = Len(o) + 2 /\ Len(o) \in Nat
  BY <1>0, JsonBounds
<1>2. f \in Seq(OpenTokens) /\ Len(f) = Len(o) + 1 /\ \A i \in 1 .. Len(o) + 1 : f[i] = k[i]
  <2>1. Len(k) - 1 = Len(o) + 1
    BY <1>1
  <2>2. QED
    BY <1>1, <2>1, JsonFront
<1> HIDE DEF f
<1>3. QED
  BY <1>1, <1>2 DEF Parser!Nested, Parser!Above, OpenTokens, f

LEMMA JsonEscape ==
  ASSUME NEW k, NEW o \in Seq(Brackets), NEW m, Parser!Nested(k, o, "string", m)
  PROVE  Parser!Nested(Append(k, Parser!Token("escape", 0)), o, "escape", m)
<1> DEFINE f == Append(k, Parser!Token("escape", 0))
<1>0. Parser!Above("string") = 1 /\ Parser!Above("escape") = 2
  BY DEF Parser!Above
<1>1. k \in Seq(OpenTokens) /\ Len(k) = Len(o) + 2 /\ Len(o) \in Nat
  BY <1>0, JsonBounds
<1>2. Parser!Token("escape", 0) \in OpenTokens /\ Parser!Token("escape", 0).type = "escape"
  BY DEF Parser!Token, OpenTokens, Parser!Types
<1>3. /\ f \in Seq(OpenTokens) /\ Len(f) = Len(o) + 3 /\ \A i \in 1 .. Len(o) + 2 : f[i] = k[i]
      /\ f[Len(o) + 3] = Parser!Token("escape", 0)
  BY <1>1, <1>2
<1> HIDE DEF f
<1>4. QED
  BY <1>1, <1>2, <1>3 DEF Parser!Nested, Parser!Above, OpenTokens, f

LEMMA JsonEscaped ==
  ASSUME NEW k, NEW o \in Seq(Brackets), NEW m, Parser!Nested(k, o, "escape", m)
  PROVE  Parser!Nested(Parser!Front(k), o, "string", m)
<1> DEFINE f == Parser!Front(k)
<1>0. Parser!Above("string") = 1 /\ Parser!Above("escape") = 2
  BY DEF Parser!Above
<1>1. k \in Seq(OpenTokens) /\ k # <<>> /\ Len(k) = Len(o) + 3 /\ Len(o) \in Nat
  BY <1>0, JsonBounds
<1>2. f \in Seq(OpenTokens) /\ Len(f) = Len(o) + 2 /\ \A i \in 1 .. Len(o) + 2 : f[i] = k[i]
  <2>1. Len(k) - 1 = Len(o) + 2
    BY <1>1
  <2>2. QED
    BY <1>1, <2>1, JsonFront
<1> HIDE DEF f
<1>3. QED
  BY <1>1, <1>2 DEF Parser!Nested, Parser!Above, OpenTokens, f

(* A bracket closes; what holds it had counted it.                         *)
LEMMA JsonClose ==
  ASSUME NEW k, NEW o \in Seq(Brackets), NEW m, NEW n, o # <<>>, Parser!Nested(k, o, "bracket", m),
         Len(o) > 1 => Parser!Full(o[Len(o) - 1]) \subseteq n
  PROVE  Parser!Nested(Parser!Front(k), Parser!Front(o), "bracket", n)
<1> DEFINE f == Parser!Front(k)
           a == Parser!Front(o)
<1>0. Parser!Above("bracket") = 0
  BY DEF Parser!Above
<1>1. k \in Seq(OpenTokens) /\ k # <<>> /\ Len(k) = Len(o) + 1 /\ Len(o) \in Nat \ {0}
  BY <1>0, JsonBounds
<1>k. /\ k[1].type = "root" /\ \A i \in 1 .. Len(o) : k[i + 1].type = o[i]
      /\ \A i \in 1 .. Len(o) - 1 : k[i + 1].parts \in Parser!Full(o[i])
  BY JsonBounds
<1>2. f \in Seq(OpenTokens) /\ Len(f) = Len(o) /\ \A i \in 1 .. Len(o) : f[i] = k[i]
  <2>1. Len(k) - 1 = Len(o)
    BY <1>1
  <2>2. QED
    BY <1>1, <2>1, JsonFront
<1>3. a \in Seq(Brackets) /\ Len(a) = Len(o) - 1 /\ DOMAIN a = 1 .. Len(o) - 1
      /\ \A i \in 1 .. Len(o) - 1 : a[i] = o[i]
  <2>1. a = SubSeq(o, 1, Len(o) - 1) /\ o # <<>>
    BY DEF Parser!Front
  <2> HIDE DEF a
  <2>2. a \in Seq(Brackets) /\ Len(a) = Len(o) - 1 /\ \A i \in 1 .. Len(o) - 1 : a[i] = o[i]
    BY <2>1, ShorterSeq
  <2>3. QED
    BY <2>2
<1> HIDE DEF f, a
<1>4. f[1].type = "root" /\ \A i \in DOMAIN a : f[i + 1].type = a[i]
  <2>1. \A i \in 1 .. Len(o) - 1 : i + 1 \in 1 .. Len(o) /\ i \in 1 .. Len(o)
    BY <1>1
  <2>2. f[1].type = "root"
    BY <1>1, <1>2, <1>k
  <2>3. QED
    BY <2>1, <2>2, <1>2, <1>3, <1>k
<1>5. \A i \in 1 .. Len(a) - 1 : f[i + 1].parts \in Parser!Full(a[i])
  <2>1. \A i \in 1 .. Len(a) - 1 : i + 1 \in 1 .. Len(o) /\ i \in 1 .. Len(o) - 1
    BY <1>1, <1>3
  <2>2. QED
    BY <2>1, <1>2, <1>3, <1>k
<1>6. a # <<>> => f[Len(a) + 1].parts \in n
  <2>1. a # <<>> => Len(o) - 1 \in 1 .. Len(o) - 1 /\ Len(o) > 1
    BY <1>1, <1>3
  <2>2. a # <<>> => k[Len(o)].parts \in Parser!Full(o[Len(o) - 1])
    BY <2>1, <1>1 DEF Parser!Nested
  <2>3. QED
    BY <2>1, <2>2, <1>1, <1>2, <1>3
<1>7. QED
  BY <1>1, <1>2, <1>3, <1>4, <1>5, <1>6 DEF Parser!Nested, Parser!Above, OpenTokens, f, a

(* What one character does to both: when the grammar takes it, so does the *)
(* tokenizer, which lets nothing slip, and they still agree.               *)
JsonStep(c) ==
  LET s == Parser!Parse(Parser!S, c)  g == Parser!Grammar(c) IN
  /\ g.open \in Seq(Brackets) /\ g.want \in Parser!Wants
  /\ g.want # "bad" => s # Parser!Bad /\ Parser!Slip(Parser!S, c) = {} /\ Parser!Agree(s, c, g)
  /\ strict /\ s # Parser!Bad /\ Parser!Slip(Parser!S, c) = {} => g.want # "bad"

LEMMA JsonTaken ==
  ASSUME NEW c, NEW k, NEW f, NEW d, NEW o \in Seq(Brackets), NEW w \in Parser!Wants, w # "bad",
         Parser!Parse(Parser!S, c) = Parser!Leaves(k, f, d), Parser!Grammar(c) = Parser!G(o, w),
         Parser!Slip(Parser!S, c) = {},
         Parser!Nested(k, o, Parser!Inside(w), Parser!Parts(o, w)),
         Parser!Expects(Parser!Leaves(k, f, d), Parser!G(o, w)),
         Parser!Read(Parser!Leaves(k, f, d), c, w)
  PROVE  JsonStep(c)
<1>1. k # <<>>
  BY JsonTop
<1>2. Parser!Leaves(k, f, d) # Parser!Bad
  BY <1>1 DEF Parser!Leaves, Parser!Bad
<1>3. Parser!Agree(Parser!Leaves(k, f, d), c, Parser!G(o, w))
  BY DEF Parser!Agree, Parser!G, Parser!Leaves
<1>4. Parser!G(o, w).open = o /\ Parser!G(o, w).want = w
  BY DEF Parser!G
<1>5. QED
  BY <1>2, <1>3, <1>4 DEF JsonStep

LEMMA JsonRefused ==
  ASSUME NEW c, open \in Seq(Brackets), Parser!Grammar(c) = Parser!G(open, "bad"),
         strict => Parser!Parse(Parser!S, c) = Parser!Bad \/ Parser!Slip(Parser!S, c) # {}
  PROVE  JsonStep(c)
<1>1. Parser!G(open, "bad").open = open /\ Parser!G(open, "bad").want = "bad"
  BY DEF Parser!G
<1>2. QED
  BY <1>1 DEF JsonStep, Parser!Wants

(* In a string.                                                            *)
LEMMA JsonInString ==
  ASSUME open \in Seq(Brackets), Parser!Agree(Parser!S, prev, Parser!G(open, want)),
         want \in {"string", "key string"}, NEW c \in Parser!Chars
  PROVE  JsonStep(c)
<1> DEFINE m == Parser!Parts(open, want)
<1>1. /\ Parser!Nested(stack, open, "string", m)
      /\ Parser!Expects(Parser!S, Parser!G(open, want)) /\ Parser!Read(Parser!S, prev, want)
  BY DEF Parser!Agree, Parser!G, Parser!S, Parser!Leaves, Parser!Inside, Parser!InNumber
<1>2. /\ Parser!Type(Parser!S) = "dstring" /\ Parser!InString(Parser!S)
      /\ ~ Parser!Prim(Parser!S) /\ ~ Parser!Holds(Parser!S)
  <2>1. Parser!Last(stack).type = "dstring"
    BY <1>1, JsonTop
  <2>2. QED
    BY <2>1 DEF Parser!Type, Parser!InString, Parser!Prim, Parser!Holds, Parser!S, Parser!Leaves
<1>3. Parser!Slip(Parser!S, c) = {}
  BY <1>2 DEF Parser!Slip
<1>4. Parser!Number(c) = "bad" /\ ~ Parser!EndOf(want)
  BY DEF Parser!Number, Parser!EndOf
<1>5. Parser!Grammar(c) = Parser!Follow(want, c)
  BY <1>4 DEF Parser!Grammar
<1>6. /\ ~ Parser!Has(Parser!S, "BUG") /\ (Parser!Has(Parser!S, "KEY") <=> want = "key string")
      /\ ~ Parser!Has(Parser!S, "VAL") /\ digit = "none"
      /\ want = "key string" => open # <<>> /\ Parser!Last(open) = "object"
  BY <1>1 DEF Parser!Expects, Parser!Read, Parser!InKey, Parser!G, Parser!S, Parser!Leaves
<1>7. CASE c = "quote"
  <2> DEFINE w == IF want = "string" THEN Parser!AfterValue ELSE "colon"
  <2>1. Parser!Parse(Parser!S, c) = Parser!Leaves(Parser!Front(stack), state, digit)
    BY <1>2, <1>7 DEF Parser!Parse, Parser!Quote, Parser!Delim, Parser!S, Parser!Leaves
  <2>2. Parser!Grammar(c) = Parser!G(open, w) /\ w \in Parser!Wants /\ w # "bad"
    BY <1>5, <1>7 DEF Parser!Follow, Parser!AfterValue, Parser!Wants
  <2>3. Parser!Nested(Parser!Front(stack), open, "bracket", m)
    BY <1>1, JsonLeave
  <2>4. Parser!Inside(w) = "bracket" /\ (open # <<>> => m \subseteq Parser!Parts(open, w))
    BY DEF Parser!Inside, Parser!Parts, Parser!AfterValue, Parser!InNumber, Parser!InKey
  <2>5. Parser!Nested(Parser!Front(stack), open, Parser!Inside(w), Parser!Parts(open, w))
    BY <2>3, <2>4, JsonWeaker
  <2>6. /\ Parser!Expects(Parser!Leaves(Parser!Front(stack), state, digit), Parser!G(open, w))
        /\ Parser!Read(Parser!Leaves(Parser!Front(stack), state, digit), c, w)
    BY <1>6 DEF Parser!Expects, Parser!Read, Parser!InKey, Parser!InNumber, Parser!G, Parser!S,
       Parser!Leaves, Parser!Has, Parser!AfterValue
  <2> HIDE DEF w
  <2>7. QED
    BY <2>1, <2>2, <2>5, <2>6, <1>3, JsonTaken
<1>8. CASE c = "\\"
  <2> DEFINE w == IF want = "string" THEN "escape" ELSE "key escape"
             k == Append(stack, Parser!Token("escape", 0))
  <2>1. Parser!Parse(Parser!S, c) = Parser!Leaves(k, state, digit)
    BY <1>2, <1>8 DEF Parser!Parse, Parser!Escape, Parser!S, Parser!Leaves
  <2>2. Parser!Grammar(c) = Parser!G(open, w) /\ w \in Parser!Wants /\ w # "bad"
    BY <1>5, <1>8 DEF Parser!Follow, Parser!Wants
  <2>3. Parser!Nested(k, open, "escape", m)
    BY <1>1, JsonEscape
  <2>4. Parser!Inside(w) = "escape" /\ m = Parser!Parts(open, w)
    BY DEF Parser!Inside, Parser!Parts, Parser!InNumber, Parser!InKey
  <2>5. Parser!Nested(k, open, Parser!Inside(w), Parser!Parts(open, w))
    BY <2>3, <2>4
  <2>6. /\ Parser!Expects(Parser!Leaves(k, state, digit), Parser!G(open, w))
        /\ Parser!Read(Parser!Leaves(k, state, digit), c, w)
    BY <1>6 DEF Parser!Expects, Parser!Read, Parser!InKey, Parser!InNumber, Parser!G, Parser!S,
       Parser!Leaves, Parser!Has
  <2> HIDE DEF w, k
  <2>7. QED
    BY <2>1, <2>2, <2>5, <2>6, <1>3, JsonTaken
<1>9. CASE c \in {"newline", "control"}
  <2>1. Parser!Grammar(c) = Parser!G(open, "bad")
    BY <1>5, <1>9 DEF Parser!Follow
  <2>2. strict => Parser!Parse(Parser!S, c) = Parser!Bad
    BY <1>2, <1>9 DEF Parser!Parse, Parser!Blank
  <2>3. QED
    BY <2>1, <2>2, JsonRefused
<1>10. CASE c \notin {"quote", "\\", "newline", "control"}
  <2>1. Parser!Parse(Parser!S, c) = Parser!Leaves(stack, state, digit)
    BY <1>2, <1>10 DEF Parser!Parse, Parser!Quote, Parser!Blank, Parser!S
  <2>2. Parser!Grammar(c) = Parser!G(open, want) /\ want \in Parser!Wants /\ want # "bad"
    BY <1>5, <1>10 DEF Parser!Follow, Parser!Wants
  <2>3. Parser!Inside(want) = "string"
    BY DEF Parser!Inside, Parser!InNumber
  <2>4. /\ Parser!Expects(Parser!Leaves(stack, state, digit), Parser!G(open, want))
        /\ Parser!Read(Parser!Leaves(stack, state, digit), c, want)
    BY <1>6 DEF Parser!Expects, Parser!Read, Parser!InKey, Parser!InNumber, Parser!G, Parser!S,
       Parser!Leaves, Parser!Has
  <2>5. QED
    BY <2>1, <2>2, <2>3, <2>4, <1>1, <1>3, JsonTaken
<1>11. QED
  BY <1>7, <1>8, <1>9, <1>10

(* After a backslash.                                                      *)
LEMMA JsonInEscape ==
  ASSUME open \in Seq(Brackets), Parser!Agree(Parser!S, prev, Parser!G(open, want)),
         want \in {"escape", "key escape"}, NEW c \in Parser!Chars
  PROVE  JsonStep(c)
<1> DEFINE m == Parser!Parts(open, want)
           w == IF want = "escape" THEN "string" ELSE "key string"
<1>1. /\ Parser!Nested(stack, open, "escape", m)
      /\ Parser!Expects(Parser!S, Parser!G(open, want)) /\ Parser!Read(Parser!S, prev, want)
  BY DEF Parser!Agree, Parser!G, Parser!S, Parser!Leaves, Parser!Inside, Parser!InNumber
<1>2. /\ Parser!Type(Parser!S) = "escape"
      /\ ~ Parser!Prim(Parser!S) /\ ~ Parser!Holds(Parser!S)
  <2>1. Parser!Last(stack).type = "escape"
    BY <1>1, JsonTop
  <2>2. QED
    BY <2>1 DEF Parser!Type, Parser!InString, Parser!Prim, Parser!Holds, Parser!S, Parser!Leaves
<1>3. Parser!Slip(Parser!S, c) = {}
  BY <1>2 DEF Parser!Slip
<1>4. Parser!Grammar(c) = Parser!Follow(want, c)
  BY DEF Parser!Grammar, Parser!Number, Parser!EndOf
<1>5. /\ ~ Parser!Has(Parser!S, "BUG") /\ (Parser!Has(Parser!S, "KEY") <=> want = "key escape")
      /\ ~ Parser!Has(Parser!S, "VAL") /\ digit = "none"
      /\ want = "key escape" => open # <<>> /\ Parser!Last(open) = "object"
  BY <1>1 DEF Parser!Expects, Parser!Read, Parser!InKey, Parser!G, Parser!S, Parser!Leaves
<1>6. Parser!Parse(Parser!S, c) = Parser!Escaped(Parser!S, c)
  BY <1>2 DEF Parser!Parse
<1>7. CASE c \in {"quote", "\\", "true"}
  <2>1. Parser!Parse(Parser!S, c) = Parser!Leaves(Parser!Front(stack), state, digit)
    BY <1>6, <1>7 DEF Parser!Escaped, Parser!Delim, Parser!S, Parser!Leaves
  <2>2. Parser!Grammar(c) = Parser!G(open, w) /\ w \in Parser!Wants /\ w # "bad"
    BY <1>4, <1>7 DEF Parser!Follow, Parser!Wants
  <2>3. Parser!Nested(Parser!Front(stack), open, "string", m)
    BY <1>1, JsonEscaped
  <2>4. Parser!Inside(w) = "string" /\ m = Parser!Parts(open, w)
    BY DEF Parser!Inside, Parser!Parts, Parser!InNumber, Parser!InKey
  <2>5. Parser!Nested(Parser!Front(stack), open, Parser!Inside(w), Parser!Parts(open, w))
    BY <2>3, <2>4
  <2>6. /\ Parser!Expects(Parser!Leaves(Parser!Front(stack), state, digit), Parser!G(open, w))
        /\ Parser!Read(Parser!Leaves(Parser!Front(stack), state, digit), c, w)
    BY <1>5 DEF Parser!Expects, Parser!Read, Parser!InKey, Parser!InNumber, Parser!G, Parser!S,
       Parser!Leaves, Parser!Has
  <2> HIDE DEF w
  <2>7. QED
    BY <2>1, <2>2, <2>5, <2>6, <1>3, JsonTaken
<1>8. CASE c \notin {"quote", "\\", "true"}
  <2>1. Parser!Grammar(c) = Parser!G(open, "bad")
    BY <1>4, <1>8 DEF Parser!Follow
  <2>2. strict => Parser!Parse(Parser!S, c) = Parser!Bad
    BY <1>6, <1>8 DEF Parser!Escaped
  <2>3. QED
    BY <2>1, <2>2, JsonRefused
<1>9. QED
  BY <1>7, <1>8

(* Where a value ends, where the next begins, and where a bracket closes.  *)
LEMMA JsonValued ==
  ASSUME NEW c, NEW k, NEW f, NEW m, open \in Seq(Brackets),
         Parser!Parse(Parser!S, c) = Parser!Leaves(k, f, "none"),
         Parser!Grammar(c) = Parser!G(open, Parser!AfterValue), Parser!Slip(Parser!S, c) = {},
         Parser!Nested(k, open, "bracket", m), open # <<>> => m \subseteq Parser!Full(Parser!Last(open)),
         "KEY" \notin f, "VAL" \notin f, "BUG" \notin f
  PROVE  JsonStep(c)
<1> DEFINE w == IF open = <<>> THEN "value" ELSE "next"
<1>1. Parser!Grammar(c) = Parser!G(open, w) /\ w \in Parser!Wants /\ w # "bad"
  BY DEF Parser!AfterValue, Parser!Wants
<1>2. Parser!Inside(w) = "bracket" /\ (open # <<>> => m \subseteq Parser!Parts(open, w))
  BY DEF Parser!Inside, Parser!Parts, Parser!InNumber, Parser!InKey
<1>3. Parser!Nested(k, open, Parser!Inside(w), Parser!Parts(open, w))
  BY <1>2, JsonWeaker
<1>4. /\ Parser!Expects(Parser!Leaves(k, f, "none"), Parser!G(open, w))
      /\ Parser!Read(Parser!Leaves(k, f, "none"), c, w)
  BY DEF Parser!Expects, Parser!Read, Parser!InKey, Parser!InNumber, Parser!G, Parser!Leaves, Parser!Has
<1> HIDE DEF w
<1>5. QED
  BY <1>1, <1>3, <1>4, JsonTaken

LEMMA JsonNextPart ==
  ASSUME NEW c, NEW k, NEW f, NEW m, open \in Seq(Brackets), open # <<>>,
         NEW w, w = (IF Parser!Last(open) = "object" THEN "key" ELSE "value"),
         Parser!Parse(Parser!S, c) = Parser!Leaves(k, f, "none"),
         Parser!Grammar(c) = Parser!G(open, w), Parser!Slip(Parser!S, c) = {},
         Parser!Nested(k, open, "bracket", m), m \subseteq Parser!Full(Parser!Last(open)),
         "KEY" \in f <=> w = "key", "VAL" \in f, "BUG" \notin f
  PROVE  JsonStep(c)
<1>1. w \in Parser!Wants /\ w # "bad"
  BY DEF Parser!Wants
<1>2. Parser!Inside(w) = "bracket" /\ m \subseteq Parser!Parts(open, w)
  BY DEF Parser!Inside, Parser!Parts, Parser!InNumber, Parser!InKey
<1>3. Parser!Nested(k, open, Parser!Inside(w), Parser!Parts(open, w))
  BY <1>2, JsonWeaker
<1>4. /\ Parser!Expects(Parser!Leaves(k, f, "none"), Parser!G(open, w))
      /\ Parser!Read(Parser!Leaves(k, f, "none"), c, w)
  BY DEF Parser!Expects, Parser!Read, Parser!InKey, Parser!InNumber, Parser!G, Parser!Leaves, Parser!Has
<1>5. QED
  BY <1>1, <1>3, <1>4, JsonTaken

LEMMA JsonClosed ==
  ASSUME NEW c, NEW k, NEW f, NEW m, open \in Seq(Brackets), open # <<>>,
         Parser!Parse(Parser!S, c) = Parser!Leaves(Parser!Front(k), f, "none"),
         Parser!Grammar(c) = Parser!Pop, Parser!Slip(Parser!S, c) = {},
         Parser!Nested(k, open, "bracket", m), "KEY" \notin f, "VAL" \notin f, "BUG" \notin f
  PROVE  JsonStep(c)
<1> DEFINE w == IF Len(open) = 1 THEN "value" ELSE "next"
           o == Parser!Front(open)
           p == Parser!Leaves(Parser!Front(k), f, "none")
<1>1. Parser!Grammar(c) = Parser!G(o, w) /\ w \in Parser!Wants /\ w # "bad"
  BY DEF Parser!Pop, Parser!Wants
<1>2. /\ o \in Seq(Brackets) /\ Len(o) = Len(open) - 1 /\ \A i \in 1 .. Len(open) - 1 : o[i] = open[i]
      /\ Len(open) \in Nat \ {0}
  BY ShorterSeq DEF Parser!Front
<1> HIDE DEF o
<1>3. w = "next" => o # <<>>
  BY <1>2
<1>4. w = "value" => o = <<>>
  BY <1>2
<1>5. Parser!Inside(w) = "bracket"
  BY DEF Parser!Inside, Parser!InNumber
<1>6. Len(open) > 1 => Parser!Full(open[Len(open) - 1]) \subseteq Parser!Parts(o, w)
  <2> SUFFICES ASSUME Len(open) > 1
               PROVE  Parser!Full(open[Len(open) - 1]) \subseteq Parser!Parts(o, w)
    OBVIOUS
  <2>1. Parser!Last(o) = open[Len(open) - 1]
    BY <1>2 DEF Parser!Last
  <2>2. Parser!Parts(o, w) = Parser!Full(Parser!Last(o))
    BY <1>2 DEF Parser!Parts, Parser!InKey
  <2>3. QED
    BY <2>1, <2>2
<1>7. Parser!Nested(Parser!Front(k), o, Parser!Inside(w), Parser!Parts(o, w))
  BY <1>5, <1>6, JsonClose DEF o
<1>8. Parser!Expects(p, Parser!G(o, w)) /\ Parser!Read(p, c, w)
  BY <1>3, <1>4 DEF Parser!Expects, Parser!Read, Parser!InKey, Parser!InNumber, Parser!G, Parser!Leaves, Parser!Has
<1> HIDE DEF w
<1>9. QED
  BY <1>1, <1>2, <1>7, <1>8, JsonTaken

(* In a number.                                                            *)
LEMMA JsonInNumber ==
  ASSUME open \in Seq(Brackets), Parser!Agree(Parser!S, prev, Parser!G(open, want)),
         Parser!InNumber(want), strict \in BOOLEAN, NEW c \in Parser!Chars
  PROVE  JsonStep(c)
<1> DEFINE m == Parser!Full(Parser!Last(open))
           f == Parser!Front(stack)
           last == IF open = <<>> THEN "root" ELSE Parser!Last(open)
<1>1. /\ Parser!Nested(stack, open, "number", m)
      /\ Parser!Expects(Parser!S, Parser!G(open, want)) /\ Parser!Read(Parser!S, prev, want)
  <2>1. Parser!Inside(want) = "number" /\ Parser!Parts(open, want) = m
    BY DEF Parser!Inside, Parser!Parts, Parser!InNumber, Parser!InKey
  <2>2. QED
    BY <2>1 DEF Parser!Agree, Parser!G, Parser!S, Parser!Leaves
<1>2. Parser!Last(stack).type = "primitive" /\ Parser!Last(stack).parts = 0
  BY <1>1, JsonTop
<1>3. /\ Parser!Type(Parser!S) = "primitive" /\ Parser!Prim(Parser!S)
      /\ ~ Parser!Holds(Parser!S) /\ ~ Parser!InString(Parser!S)
  BY <1>2 DEF Parser!Type, Parser!InString, Parser!Prim, Parser!Holds, Parser!S, Parser!Leaves
<1>4. /\ "BUG" \notin state /\ "KEY" \notin state
      /\ "VAL" \in state <=> want \in {"e", "esign"} \/ (want = "minus" /\ open # <<>>)
                             \/ (want = "dot" /\ strict)
      /\ digit = "none" <=> want = "minus"
      /\ want = "zero" => digit = "0"
      /\ want \in {"int", "frac", "exp"} => digit = "1"
  BY <1>1 DEF Parser!Expects, Parser!Read, Parser!InKey, Parser!InNumber, Parser!G, Parser!S, Parser!Leaves, Parser!Has
<1>5. /\ want \in {"minus", "zero", "int"} => "RAD" \notin state
      /\ want \in {"dot", "frac"} => "RAD" \in state
      /\ "EXP" \in state <=> want \in {"e", "esign", "exp"}
      /\ want = "e" => "SIG" \notin state
      /\ want = "esign" => "SIG" \in state
  BY <1>1 DEF Parser!Read, Parser!InNumber, Parser!S, Parser!Leaves, Parser!Has
<1>6. /\ want = "minus" => prev = "-"
      /\ prev = "." <=> want = "dot"
  BY <1>1 DEF Parser!Read, Parser!InNumber
<1>7. Parser!Nested(f, open, "bracket", m)
  BY <1>1, JsonLeave
<1>8. Parser!Last(f).type = last
  BY <1>7, JsonTop
<1>9. open # <<>> => Parser!Last(open) \in Brackets
  BY DEF Parser!Last
<1> HIDE DEF m, f, last
<1>10. /\ Parser!S.stack = stack /\ Parser!S.state = state /\ Parser!S.digit = digit
       /\ Parser!EndPrim(Parser!S) = Parser!Leaves(f, state, "none")
       /\ Parser!Type(Parser!Leaves(f, state, "none")) = last
       /\ Parser!Leaves(f, state, "none").stack = f /\ Parser!Leaves(f, state, "none").state = state
       /\ Parser!Leaves(f, state, "none").digit = "none"
  BY <1>8 DEF Parser!S, Parser!Leaves, Parser!EndPrim, Parser!Lead, Parser!Delim, f, Parser!Type
<1>11. Parser!EndOf(want) <=> want \in {"zero", "int", "frac", "exp"}
  BY DEF Parser!EndOf
<1>12. CASE c \in {"quote", "single", "\\", "control", "true", "x"}
  <2>1. Parser!Grammar(c) = Parser!G(open, "bad")
    BY <1>12, <1>11 DEF Parser!Grammar, Parser!Number, Parser!Follow, Parser!AfterValue, Parser!Closes,
       Parser!InNumber
  <2>2. strict => Parser!Parse(Parser!S, c) = Parser!Bad
    BY <1>3, <1>4, <1>10, <1>12 DEF Parser!Parse, Parser!Quote, Parser!Escape, Parser!Literal, Parser!Other, Parser!Has
  <2>3. QED
    BY <2>1, <2>2, JsonRefused
<1>13. CASE c \in {" ", "newline"}
  <2>1. CASE Parser!EndOf(want)
    <3> DEFINE e == state \ {"BUG", "KEY"}
    <3>1. Parser!Grammar(c) = Parser!G(open, Parser!AfterValue)
      BY <1>13, <2>1 DEF Parser!Grammar, Parser!Number
    <3>2. "VAL" \notin state
      BY <1>4, <1>11, <2>1
    <3>3. Parser!Parse(Parser!S, c) = Parser!Leaves(f, e, "none")
      <4>1. Parser!Parse(Parser!S, c) = Parser!Set(Parser!EndPrim(Parser!S), {}, {"BUG", "KEY"})
        BY <1>3, <1>4, <1>10, <1>13, <3>2 DEF Parser!Parse, Parser!Blank, Parser!Has
      <4>2. QED
        BY <4>1, <1>10 DEF Parser!Set
    <3>4. Parser!Slip(Parser!S, c) = {}
      <4>1. prev \in {"0", "1"}
        BY <1>1, <1>11, <2>1 DEF Parser!Read, Parser!InNumber
      <4>2. QED
        BY <4>1, <1>3, <1>13 DEF Parser!Slip
    <3>5. "KEY" \notin e /\ "VAL" \notin e /\ "BUG" \notin e
      BY <3>2
    <3> HIDE DEF e
    <3>6. QED
      BY <3>1, <3>3, <3>4, <3>5, <1>7, JsonValued DEF m
  <2>2. CASE ~ Parser!EndOf(want)
    <3>1. Parser!Grammar(c) = Parser!G(open, "bad")
      BY <1>13, <1>11, <2>2 DEF Parser!Grammar, Parser!Number, Parser!Follow, Parser!InNumber
    <3>2. CASE want = "minus"
      BY <3>1, <3>2, <1>3, <1>6, <1>13, JsonRefused DEF Parser!Slip
    <3>3. CASE want # "minus"
      <4>1. strict => "VAL" \in state
        BY <3>3, <1>4, <1>11, <2>2 DEF Parser!InNumber
      <4>2. strict => Parser!Parse(Parser!S, c) = Parser!Bad
        BY <4>1, <1>3, <1>10, <1>13 DEF Parser!Parse, Parser!Blank, Parser!Has
      <4>3. QED
        BY <3>1, <4>2, JsonRefused
    <3>4. QED
      BY <3>2, <3>3
  <2>3. QED
    BY <2>1, <2>2
<1>14. ASSUME NEW w \in Parser!Wants, NEW e, NEW d, Parser!InNumber(w),
              Parser!Parse(Parser!S, c) = Parser!Leaves(stack, e, d),
              Parser!Grammar(c) = Parser!G(open, w), Parser!Slip(Parser!S, c) = {},
              Parser!Expects(Parser!Leaves(stack, e, d), Parser!G(open, w)),
              Parser!Read(Parser!Leaves(stack, e, d), c, w)
       PROVE  JsonStep(c)
  <2>1. Parser!Inside(w) = "number" /\ Parser!Parts(open, w) = m /\ w # "bad"
    BY <1>14 DEF Parser!Inside, Parser!Parts, Parser!InNumber, Parser!InKey, m
  <2>2. QED
    BY <1>1, <1>14, <2>1, JsonTaken
<1>15. c \in {"e", ".", "+", "-", "0", "1"} => Parser!Slip(Parser!S, c) = {}
  BY <1>3 DEF Parser!Slip
<1>16. c \in {"e", ".", "+", "-", "0", "1"} => Parser!Grammar(c) = Parser!G(open, Parser!Number(c))
  BY <1>11 DEF Parser!Grammar, Parser!Follow, Parser!AfterValue, Parser!Closes, Parser!InNumber
<1>17. CASE c = "e"
  <2>1. CASE want \in {"zero", "int", "frac"}
    <3> DEFINE e == (state \ {"SIG"}) \cup {"EXP", "VAL"}
    <3>1. Parser!Number(c) = "e"
      BY <1>17, <2>1 DEF Parser!Number
    <3>2. Parser!Parse(Parser!S, c) = Parser!Leaves(stack, e, digit)
      <4>1. Parser!Parse(Parser!S, c) = Parser!Exponent(Parser!S)
        BY <1>3, <1>17 DEF Parser!Parse
      <4>2. Parser!Exponent(Parser!S) = Parser!Set(Parser!S, {"EXP", "VAL"}, {"SIG"})
        BY <1>4, <1>5, <1>6, <1>10, <2>1 DEF Parser!Exponent, Parser!Has
      <4>3. QED
        BY <4>1, <4>2, <1>10 DEF Parser!Set
    <3>3. "BUG" \notin e /\ "KEY" \notin e /\ "VAL" \in e /\ "EXP" \in e /\ "SIG" \notin e
      BY <1>4
    <3> HIDE DEF e
    <3>4. digit \in {"0", "1"}
      BY <1>1, <2>1 DEF Parser!Read, Parser!S, Parser!Leaves
    <3>5. /\ Parser!Expects(Parser!Leaves(stack, e, digit), Parser!G(open, "e"))
          /\ Parser!Read(Parser!Leaves(stack, e, digit), c, "e")
      BY <1>17, <3>3, <3>4 DEF Parser!Expects, Parser!Read, Parser!InKey, Parser!InNumber, Parser!G,
         Parser!Leaves, Parser!Has
    <3>6. QED
      BY <1>14, <1>15, <1>16, <1>17, <3>1, <3>2, <3>5 DEF Parser!Wants, Parser!InNumber
  <2>2. CASE want \notin {"zero", "int", "frac"}
    <3>1. Parser!Number(c) = "bad"
      BY <1>17, <2>2 DEF Parser!Number
    <3>2. strict => Parser!Exponent(Parser!S) = Parser!Bad
      BY <1>4, <1>5, <1>6, <1>10, <2>2 DEF Parser!Exponent, Parser!Has, Parser!InNumber
    <3>3. QED
      BY <1>3, <1>16, <1>17, <3>1, <3>2, JsonRefused DEF Parser!Parse
  <2>3. QED
    BY <2>1, <2>2
<1>18. CASE c = "."
  <2>1. CASE want \in {"zero", "int"}
    <3> DEFINE e == (state \ {"SIG"}) \cup ({"RAD"} \cup IF strict THEN {"VAL"} ELSE {})
    <3>1. Parser!Number(c) = "dot"
      BY <1>18, <2>1 DEF Parser!Number
    <3>2. Parser!Parse(Parser!S, c) = Parser!Leaves(stack, e, digit)
      <4>1. Parser!Parse(Parser!S, c) = Parser!Radix(Parser!S)
        BY <1>3, <1>18 DEF Parser!Parse
      <4>2. Parser!Radix(Parser!S) = Parser!Set(Parser!S, {"RAD"} \cup (IF strict THEN {"VAL"} ELSE {}), {"SIG"})
        BY <1>4, <1>5, <1>10, <2>1 DEF Parser!Radix, Parser!Has
      <4>3. QED
        BY <4>1, <4>2, <1>10 DEF Parser!Set
    <3>3. /\ "BUG" \notin e /\ "KEY" \notin e /\ ("VAL" \in e <=> strict) /\ "RAD" \in e
          /\ "EXP" \notin e
      BY <1>4, <1>5, <2>1
    <3> HIDE DEF e
    <3>4. digit \in {"0", "1"}
      BY <1>1, <2>1 DEF Parser!Read, Parser!S, Parser!Leaves
    <3>5. /\ Parser!Expects(Parser!Leaves(stack, e, digit), Parser!G(open, "dot"))
          /\ Parser!Read(Parser!Leaves(stack, e, digit), c, "dot")
      BY <1>18, <3>3, <3>4 DEF Parser!Expects, Parser!Read, Parser!InKey, Parser!InNumber, Parser!G,
         Parser!Leaves, Parser!Has
    <3>6. QED
      BY <1>14, <1>15, <1>16, <1>18, <3>1, <3>2, <3>5 DEF Parser!Wants, Parser!InNumber
  <2>2. CASE want \notin {"zero", "int"}
    <3>1. Parser!Number(c) = "bad"
      BY <1>18, <2>2 DEF Parser!Number
    <3>2. Parser!Radix(Parser!S) = Parser!Bad
      BY <1>4, <1>5, <1>10, <2>2 DEF Parser!Radix, Parser!Has, Parser!InNumber
    <3>3. QED
      BY <1>3, <1>16, <1>18, <3>1, <3>2, JsonRefused DEF Parser!Parse
  <2>3. QED
    BY <2>1, <2>2
<1>19. CASE c \in {"+", "-"}
  <2>1. Parser!AfterExp(Parser!S) <=> want = "e"
    BY <1>4, <1>5, <1>10 DEF Parser!AfterExp, Parser!InNumber
  <2>2. CASE want = "e"
    <3> DEFINE e == IF c = "+" THEN state \cup {"SIG", "VAL"} ELSE state \cup {"SIG"}
    <3>1. Parser!Number(c) = "esign"
      BY <1>19, <2>2 DEF Parser!Number
    <3>2. Parser!Parse(Parser!S, c) = Parser!Leaves(stack, e, digit)
      <4>1. Parser!Parse(Parser!S, c) = IF c = "+" THEN Parser!Plus(Parser!S) ELSE Parser!Minus(Parser!S)
        BY <1>3, <1>19 DEF Parser!Parse
      <4>2. Parser!Parse(Parser!S, c)
              = Parser!Set(Parser!S, IF c = "+" THEN {"SIG", "VAL"} ELSE {"SIG"}, {})
        BY <4>1, <1>3, <2>1, <2>2, <1>19 DEF Parser!Plus, Parser!Minus
      <4>3. QED
        BY <4>2, <1>10, <1>19 DEF Parser!Set
    <3>3. /\ "BUG" \notin e /\ "KEY" \notin e /\ "VAL" \in e /\ "EXP" \in e /\ "SIG" \in e
      BY <1>4, <1>5, <2>2
    <3> HIDE DEF e
    <3>4. digit \in {"0", "1"}
      BY <1>1, <2>2 DEF Parser!Read, Parser!S, Parser!Leaves
    <3>5. /\ Parser!Expects(Parser!Leaves(stack, e, digit), Parser!G(open, "esign"))
          /\ Parser!Read(Parser!Leaves(stack, e, digit), c, "esign")
      BY <1>19, <3>3, <3>4 DEF Parser!Expects, Parser!Read, Parser!InKey, Parser!InNumber, Parser!G,
         Parser!Leaves, Parser!Has
    <3>6. QED
      BY <1>14, <1>15, <1>16, <1>19, <3>1, <3>2, <3>5 DEF Parser!Wants, Parser!InNumber
  <2>3. CASE want # "e"
    <3>1. Parser!Number(c) = "bad"
      BY <1>19, <2>3 DEF Parser!Number
    <3>2. Parser!Plus(Parser!S) = Parser!Bad /\ Parser!Minus(Parser!S) = Parser!Bad
      BY <2>1, <2>3, <1>3 DEF Parser!Plus, Parser!Minus
    <3>3. QED
      BY <1>3, <1>16, <1>19, <3>1, <3>2, JsonRefused DEF Parser!Parse
  <2>4. QED
    BY <2>2, <2>3
<1>20. CASE c \in {"0", "1"}
  <2> DEFINE w == IF want = "minus" THEN (IF c = "0" THEN "zero" ELSE "int")
                  ELSE IF want = "int" THEN "int" ELSE IF want \in {"dot", "frac"} THEN "frac" ELSE "exp"
             e == state \ {"VAL"}
             d == IF want = "minus" THEN c ELSE "1"
  <2>1. CASE want # "zero"
    <3>1. Parser!Number(c) = w
      BY <1>20, <2>1 DEF Parser!Number, Parser!InNumber
    <3>2. Parser!Parse(Parser!S, c) = Parser!Leaves(stack, e, d)
      <4>1. Parser!Parse(Parser!S, c) = Parser!Digit(Parser!S, c)
        BY <1>3, <1>20 DEF Parser!Parse
      <4>2. CASE want = "minus"
        <5>1. Parser!Prim(Parser!Lead(Parser!S, c))
          BY <1>2, <1>10 DEF Parser!Prim, Parser!Type, Parser!Lead, Parser!Leaves
        <5>2. Parser!Digit(Parser!S, c) = Parser!Set(Parser!Lead(Parser!S, c), {}, {"VAL"})
          BY <5>1, <4>2, <1>3, <1>4, <1>10 DEF Parser!Digit
        <5>3. QED
          BY <5>2, <4>1, <4>2, <1>10 DEF Parser!Set, Parser!Lead, Parser!Leaves
      <4>3. CASE want # "minus"
        <5>1. digit # "none" /\ ~ (digit = "0" /\ state \cap {"RAD", "EXP"} = {})
          BY <4>3, <2>1, <1>4, <1>5 DEF Parser!InNumber
        <5>2. Parser!Digit(Parser!S, c) = Parser!Lead(Parser!Set(Parser!S, {}, {"VAL"}), "1")
          BY <5>1, <1>10 DEF Parser!Digit
        <5>3. QED
          BY <5>2, <4>1, <4>3, <1>10 DEF Parser!Set, Parser!Lead, Parser!Leaves
      <4>4. QED
        BY <4>2, <4>3
    <3>3. /\ "BUG" \notin e /\ "KEY" \notin e /\ "VAL" \notin e
          /\ "EXP" \in e <=> want \in {"e", "esign", "exp"}
          /\ want \in {"minus", "zero", "int"} => "RAD" \notin e
          /\ want \in {"dot", "frac"} => "RAD" \in e
      BY <1>4, <1>5
    <3> HIDE DEF e
    <3>4. w \in {"zero", "int", "frac", "exp"}
      OBVIOUS
    <3>5. Parser!Expects(Parser!Leaves(stack, e, d), Parser!G(open, w))
      BY <3>3, <3>4 DEF Parser!Expects, Parser!InKey, Parser!G, Parser!Leaves, Parser!Has
    <3>6. Parser!Read(Parser!Leaves(stack, e, d), c, w)
      BY <1>20, <2>1, <3>3 DEF Parser!Read, Parser!InNumber, Parser!Leaves, Parser!Has
    <3> HIDE DEF w, d
    <3>7. w \in Parser!Wants /\ Parser!InNumber(w)
      BY <3>4 DEF Parser!Wants, Parser!InNumber
    <3>8. QED
      BY <1>14, <1>15, <1>16, <1>20, <3>1, <3>2, <3>5, <3>6, <3>7
  <2>2. CASE want = "zero"
    <3>1. Parser!Number(c) = "bad"
      BY <1>20, <2>2 DEF Parser!Number
    <3>2. Parser!Digit(Parser!S, c) = Parser!Bad
      BY <1>4, <1>5, <1>10, <2>2 DEF Parser!Digit, Parser!Has
    <3>3. QED
      BY <1>3, <1>16, <1>20, <3>1, <3>2, JsonRefused DEF Parser!Parse
  <2>3. QED
    BY <2>1, <2>2
<1>21. CASE c = ","
  <2> DEFINE t == Parser!EndPrim(Parser!S)
             in == IF last = "object" THEN {"KEY", "VAL"} ELSE {"VAL"}
             e == (state \ {"KEY"}) \cup in
             w == IF Parser!Last(open) = "object" THEN "key" ELSE "value"
  <2>1. Parser!Slip(Parser!S, c) = {}
    BY <1>3, <1>21 DEF Parser!Slip
  <2>2. Parser!Parse(Parser!S, c) = Parser!Comma(Parser!S)
    BY <1>3, <1>21 DEF Parser!Parse
  <2>3. Parser!Holds(t) <=> open # <<>>
    BY <1>9, <1>10 DEF Parser!Holds, last, Brackets
  <2>4. CASE Parser!EndOf(want) /\ open # <<>>
    <3>1. Parser!Grammar(c) = Parser!G(open, w)
      BY <1>21, <2>4 DEF Parser!Grammar, Parser!Number, Parser!EndOf, Parser!Follow, Parser!AfterValue, Parser!Closes
    <3>2. Parser!Comma(Parser!S) = Parser!Set(t, in, {"KEY"})
      BY <1>3, <1>4, <1>10, <1>11, <2>3, <2>4 DEF Parser!Comma, Parser!Has
    <3>3. Parser!Parse(Parser!S, c) = Parser!Leaves(f, e, "none")
      BY <2>2, <3>2, <1>10 DEF Parser!Set
    <3>4. ("KEY" \in e <=> w = "key") /\ "VAL" \in e /\ "BUG" \notin e
      BY <1>4, <2>4 DEF last
    <3> HIDE DEF e
    <3>5. QED
      BY <2>1, <2>4, <3>1, <3>3, <3>4, <1>7, JsonNextPart DEF m
  <2>5. CASE ~ (Parser!EndOf(want) /\ open # <<>>)
    <3>1. Parser!Grammar(c) = Parser!G(open, "bad")
      BY <1>21, <2>5, <1>11 DEF Parser!Grammar, Parser!Number, Parser!Follow, Parser!AfterValue, Parser!Closes, Parser!InNumber
    <3>2. strict => "VAL" \in state \/ open = <<>>
      BY <2>5, <1>4, <1>11 DEF Parser!InNumber
    <3>3. strict => Parser!Comma(Parser!S) = Parser!Bad
      BY <3>2, <2>3, <1>3, <1>10 DEF Parser!Comma, Parser!Has
    <3>4. QED
      BY <3>1, <3>3, <2>2, JsonRefused
  <2>6. QED
    BY <2>4, <2>5
<1>22. CASE c = ":"
  <2>1. Parser!Grammar(c) = Parser!G(open, "bad")
    BY <1>22, <1>11 DEF Parser!Grammar, Parser!Number, Parser!Follow, Parser!AfterValue, Parser!Closes, Parser!InNumber
  <2>2. strict => Parser!Parse(Parser!S, c) = Parser!Bad
    BY <1>3, <1>4, <1>10, <1>22 DEF Parser!Parse, Parser!Colon
  <2>3. QED
    BY <2>1, <2>2, JsonRefused
<1>23. CASE c \in {"{", "["}
  <2>1. Parser!Grammar(c) = Parser!G(open, "bad")
    BY <1>23, <1>11 DEF Parser!Grammar, Parser!Number, Parser!Follow, Parser!AfterValue, Parser!Closes, Parser!InNumber
  <2>2. Parser!Slip(Parser!S, c) # {}
    BY <1>3, <1>23 DEF Parser!Slip
  <2>3. QED
    BY <2>1, <2>2, JsonRefused
<1>24. CASE c \in {"}", "]"}
  <2> DEFINE t == Parser!EndPrim(Parser!S)
             e == state \ {"KEY", "VAL"}
             end == IF c = "}" THEN "object" ELSE "array"
  <2>1. Parser!Slip(Parser!S, c) = {}
    BY <1>3, <1>24 DEF Parser!Slip
  <2>2. Parser!Parse(Parser!S, c) = Parser!Close(Parser!S, c)
    BY <1>3, <1>24 DEF Parser!Parse
  <2>3. Parser!Closes(c) <=> last = end
    BY <1>9, <1>24 DEF Parser!Closes, last, Brackets
  <2>4. Parser!Close(Parser!S, c) =
          IF "VAL" \in state \/ last # end THEN Parser!Bad
          ELSE Parser!Leaves(Parser!Front(f), e, "none")
    BY <1>2, <1>3, <1>4, <1>10 DEF Parser!Close, Parser!Has, Parser!Set, Parser!Delim, Parser!Leaves
  <2>5. CASE Parser!EndOf(want) /\ Parser!Closes(c)
    <3>1. Parser!Grammar(c) = Parser!Pop /\ open # <<>>
      BY <1>24, <2>5 DEF Parser!Grammar, Parser!Number, Parser!EndOf, Parser!Follow, Parser!AfterValue, Parser!Closes
    <3>2. Parser!Parse(Parser!S, c) = Parser!Leaves(Parser!Front(f), e, "none")
      BY <2>2, <2>3, <2>4, <2>5, <1>4, <1>11
    <3>3. "KEY" \notin e /\ "VAL" \notin e /\ "BUG" \notin e
      BY <1>4
    <3> HIDE DEF e
    <3>4. QED
      BY <2>1, <3>1, <3>2, <3>3, <1>7, JsonClosed
  <2>6. CASE ~ (Parser!EndOf(want) /\ Parser!Closes(c))
    <3>1. Parser!Grammar(c) = Parser!G(open, "bad")
      BY <1>24, <2>6, <1>11 DEF Parser!Grammar, Parser!Number, Parser!Follow, Parser!AfterValue, Parser!InNumber
    <3>2. strict => "VAL" \in state \/ last # end
      <4>1. strict /\ ~ Parser!EndOf(want) => "VAL" \in state \/ open = <<>>
        BY <1>4, <1>11 DEF Parser!InNumber
      <4>2. open = <<>> => last # end
        BY DEF last
      <4>3. QED
        BY <4>1, <4>2, <2>3, <2>6
    <3>3. QED
      BY <3>1, <3>2, <2>2, <2>4, JsonRefused
  <2>7. QED
    BY <2>5, <2>6
<1>25. QED
  BY <1>12, <1>13, <1>17, <1>18, <1>19, <1>20, <1>21, <1>22, <1>23, <1>24 DEF Parser!Chars

(* Between the tokens of a bracket, or outside of all.                     *)
LEMMA JsonInBracket ==
  ASSUME open \in Seq(Brackets), Parser!Agree(Parser!S, prev, Parser!G(open, want)),
         want \in {"value", "first", "firstkey", "key", "colon", "next"},
         strict \in BOOLEAN, NEW c \in Parser!Chars
  PROVE  JsonStep(c)
<1> DEFINE m == Parser!Parts(open, want)
           type == IF open = <<>> THEN "root" ELSE Parser!Last(open)
           starts == want \in {"value", "first"}
<1>1. /\ Parser!Nested(stack, open, "bracket", m)
      /\ Parser!Expects(Parser!S, Parser!G(open, want)) /\ Parser!Read(Parser!S, prev, want)
  BY DEF Parser!Agree, Parser!G, Parser!S, Parser!Leaves, Parser!Inside, Parser!InNumber
<1>2. open # <<>> => Parser!Last(open) \in Brackets
  BY DEF Parser!Last
<1>3. Parser!Last(stack).type = type /\ (open # <<>> => Parser!Last(stack).parts \in m)
  BY <1>1, JsonTop
<1>4. /\ Parser!S.stack = stack /\ Parser!S.state = state /\ Parser!S.digit = digit
      /\ Parser!Type(Parser!S) = type /\ ~ Parser!Prim(Parser!S) /\ ~ Parser!InString(Parser!S)
      /\ Parser!Holds(Parser!S) <=> open # <<>>
  BY <1>2, <1>3 DEF Parser!Type, Parser!InString, Parser!Prim, Parser!Holds, Parser!S, Parser!Leaves, Brackets
<1>5. /\ "BUG" \notin state /\ digit = "none"
      /\ "KEY" \in state <=> want \in {"firstkey", "key", "colon"}
      /\ "VAL" \in state <=> want \in {"first", "firstkey", "key"} \/ (want = "value" /\ open # <<>>)
      /\ want \in {"firstkey", "key", "colon"} => open # <<>> /\ Parser!Last(open) = "object"
      /\ want = "first" => open # <<>> /\ Parser!Last(open) = "array"
      /\ want = "next" => open # <<>>
  BY <1>1 DEF Parser!Expects, Parser!Read, Parser!InKey, Parser!G, Parser!S, Parser!Leaves, Parser!Has
<1>6. /\ m = CASE want \in {"first", "firstkey"} -> {0}
               [] want = "colon" \/ (want = "value" /\ Parser!Last(open) = "object") -> {1}
               [] OTHER -> Parser!Full(Parser!Last(open))
  BY DEF Parser!Parts, Parser!InKey
<1>7. starts /\ open # <<>> => \A i \in m : Parser!Up(i) \in Parser!Full(Parser!Last(open))
  BY <1>2, <1>5, <1>6 DEF Parser!Full, Parser!Up, Brackets
<1>8. want \in {"key", "firstkey"} => \A i \in m : Parser!Up(i) \in {1}
  BY <1>5, <1>6 DEF Parser!Full, Parser!Up
<1>9. Parser!Grammar(c) = Parser!Follow(want, c)
  BY DEF Parser!Grammar, Parser!Number, Parser!EndOf
<1> HIDE DEF m, type
<1>10. CASE c = "quote"
  <2> DEFINE w == IF starts THEN "string" ELSE "key string"
             e == state \ {"VAL"}
             k == Parser!Push(stack, "dstring")
  <2>1. CASE want \in {"value", "first", "key", "firstkey"}
    <3>1. Parser!Grammar(c) = Parser!G(open, w)
      BY <1>9, <1>10, <2>1 DEF Parser!Follow, Parser!Closes, Parser!Value
    <3>2. Parser!Parse(Parser!S, c) = Parser!Leaves(k, e, digit)
      <4>1. Parser!Type(Parser!S) # "escape" /\ Parser!Type(Parser!S) # "dstring" /\ Parser!Type(Parser!S) # "sstring"
        BY <1>2, <1>4 DEF type, Brackets
      <4>1a. Parser!Parse(Parser!S, c) = Parser!Quote(Parser!S, c)
        BY <4>1, <1>10 DEF Parser!Parse
      <4>2. open # <<>> => "VAL" \in state
        BY <2>1, <1>5
      <4>3. Parser!Quote(Parser!S, c) = Parser!Set(Parser!Add(Parser!S, "dstring"), {}, {"VAL"})
        BY <4>1, <4>2, <1>4, <1>10 DEF Parser!Quote, Parser!Has
      <4>4. QED
        BY <4>1a, <4>3, <1>4 DEF Parser!Set, Parser!Add, Parser!Leaves
    <3>3. Parser!Slip(Parser!S, c) = {}
      BY <1>10 DEF Parser!Slip
    <3>4. open # <<>> => \A i \in m : Parser!Up(i) \in Parser!Parts(open, w)
      BY <1>7, <1>8, <2>1 DEF Parser!Parts, Parser!InKey
    <3>5. Parser!Nested(k, open, "string", Parser!Parts(open, w))
      BY <1>1, <3>4, JsonPush
    <3>6. Parser!Inside(w) = "string" /\ w \in Parser!Wants /\ w # "bad"
      BY DEF Parser!Inside, Parser!InNumber, Parser!Wants
    <3>7. "BUG" \notin e /\ "VAL" \notin e /\ ("KEY" \in e <=> ~ starts)
      BY <1>5, <2>1
    <3> HIDE DEF e
    <3>8. /\ Parser!Expects(Parser!Leaves(k, e, digit), Parser!G(open, w))
          /\ Parser!Read(Parser!Leaves(k, e, digit), c, w)
      BY <1>5, <2>1, <3>7 DEF Parser!Expects, Parser!Read, Parser!InKey, Parser!InNumber, Parser!G,
         Parser!Leaves, Parser!Has
    <3> HIDE DEF w, k
    <3>9. QED
      BY <3>1, <3>2, <3>3, <3>5, <3>6, <3>8, JsonTaken
  <2>2. CASE want \in {"colon", "next"}
    <3>1. Parser!Grammar(c) = Parser!G(open, "bad")
      BY <1>9, <1>10, <2>2 DEF Parser!Follow, Parser!Closes
    <3>2. Parser!Type(Parser!S) # "escape" /\ Parser!Type(Parser!S) # "dstring" /\ Parser!Type(Parser!S) # "sstring"
      BY <1>2, <1>4 DEF type, Brackets
    <3>3. strict => Parser!Parse(Parser!S, c) = Parser!Bad
      BY <3>2, <1>4, <1>5, <1>10, <2>2 DEF Parser!Parse, Parser!Quote, Parser!Has
    <3>4. QED
      BY <3>1, <3>3, JsonRefused
  <2>3. QED
    BY <2>1, <2>2
<1>11. Parser!Type(Parser!S) # "escape" /\ Parser!Type(Parser!S) # "dstring" /\ Parser!Type(Parser!S) # "sstring"
  BY <1>2, <1>4 DEF type, Brackets
<1>12. CASE c \in {"single", "\\", "control", "e", ".", "x"}
  <2>1. Parser!Grammar(c) = Parser!G(open, "bad")
    BY <1>9, <1>12 DEF Parser!Follow, Parser!Closes, Parser!Value
  <2>2. strict => Parser!Parse(Parser!S, c) = Parser!Bad
    BY <1>4, <1>5, <1>11, <1>12 DEF Parser!Parse, Parser!Quote, Parser!Escape, Parser!Exponent, Parser!Radix, Parser!Other
  <2>3. QED
    BY <2>1, <2>2, JsonRefused
<1>13. CASE c \in {" ", "newline"}
  <2>1. Parser!Grammar(c) = Parser!G(open, want) /\ want \in Parser!Wants /\ want # "bad"
    BY <1>9, <1>13 DEF Parser!Follow, Parser!Wants
  <2>2. Parser!Parse(Parser!S, c) = Parser!Leaves(stack, state, digit)
    BY <1>4, <1>11, <1>13 DEF Parser!Parse, Parser!Blank, Parser!S
  <2>3. Parser!Slip(Parser!S, c) = {}
    BY <1>4, <1>13 DEF Parser!Slip
  <2>4. Parser!Inside(want) = "bracket"
    BY DEF Parser!Inside, Parser!InNumber
  <2>5. /\ Parser!Expects(Parser!Leaves(stack, state, digit), Parser!G(open, want))
        /\ Parser!Read(Parser!Leaves(stack, state, digit), c, want)
    BY <1>1 DEF Parser!S, Parser!Read, Parser!InNumber
  <2>6. QED
    BY <2>1, <2>2, <2>3, <2>4, <2>5, <1>1, JsonTaken DEF m
<1>14. CASE c = "true"
  <2> DEFINE e == state \ {"VAL", "RAD", "EXP", "SIG"}
             k == Parser!Push(stack, "primitive")
  <2>1. Parser!Parse(Parser!S, c) = Parser!Literal(Parser!S)
    BY <1>4, <1>11, <1>14 DEF Parser!Parse
  <2>2. CASE starts
    <3>1. Parser!Grammar(c) = Parser!G(open, Parser!AfterValue)
      BY <1>9, <1>14, <2>2 DEF Parser!Follow, Parser!Closes, Parser!Value
    <3>2. Parser!Literal(Parser!S) = Parser!Delim(Parser!Set(Parser!Add(Parser!S, "primitive"), {}, {"VAL", "RAD", "EXP", "SIG"}))
      BY <1>4, <1>5, <2>2 DEF Parser!Literal, Parser!Has
    <3>3. Parser!Parse(Parser!S, c) = Parser!Leaves(Parser!Front(k), e, "none")
      BY <2>1, <3>2, <1>4, <1>5 DEF Parser!Set, Parser!Add, Parser!Delim, Parser!Leaves
    <3>4. Parser!Slip(Parser!S, c) = {}
      BY <1>14 DEF Parser!Slip
    <3>5. Parser!Nested(k, open, "number", Parser!Full(Parser!Last(open)))
      BY <1>1, <1>7, <2>2, JsonPush
    <3>6. Parser!Nested(Parser!Front(k), open, "bracket", Parser!Full(Parser!Last(open)))
      BY <3>5, JsonLeave
    <3>7. "KEY" \notin e /\ "VAL" \notin e /\ "BUG" \notin e
      BY <1>5, <2>2
    <3> HIDE DEF e, k
    <3>8. QED
      BY <3>1, <3>3, <3>4, <3>6, <3>7, JsonValued
  <2>3. CASE ~ starts
    <3>1. Parser!Grammar(c) = Parser!G(open, "bad")
      BY <1>9, <1>14, <2>3 DEF Parser!Follow, Parser!Closes
    <3>2. strict => Parser!Literal(Parser!S) = Parser!Bad
      BY <1>4, <1>5, <2>3 DEF Parser!Literal, Parser!Has
    <3>3. QED
      BY <3>1, <3>2, <2>1, JsonRefused
  <2>4. QED
    BY <2>2, <2>3
<1>15. CASE c = "+"
  <2>1. Parser!Grammar(c) = Parser!G(open, "bad")
    BY <1>9, <1>15 DEF Parser!Follow, Parser!Closes, Parser!Value
  <2>2. Parser!Parse(Parser!S, c) = Parser!Plus(Parser!S)
    BY <1>4, <1>11, <1>15 DEF Parser!Parse
  <2>3. Parser!AfterExp(Parser!S) => open # <<>>
    BY <1>4, <1>5 DEF Parser!AfterExp
  <2>4. Parser!Plus(Parser!S) = Parser!Bad \/ Parser!Slip(Parser!S, c) # {}
    BY <2>3, <1>4, <1>15 DEF Parser!Plus, Parser!Slip
  <2>5. QED
    BY <2>1, <2>2, <2>4, JsonRefused
<1>16. CASE c \in {"-", "0", "1"}
  <2> DEFINE w == IF c = "-" THEN "minus" ELSE IF c = "0" THEN "zero" ELSE "int"
             e == IF c = "-" THEN (state \ {"RAD", "EXP"}) \cup {"SIG"}
                  ELSE state \ {"VAL", "RAD", "EXP", "SIG"}
             d == IF c = "-" THEN "none" ELSE c
             k == Parser!Push(stack, "primitive")
  <2>1. Parser!Parse(Parser!S, c) = IF c = "-" THEN Parser!Minus(Parser!S) ELSE Parser!Digit(Parser!S, c)
    BY <1>4, <1>11, <1>16 DEF Parser!Parse
  <2>2. CASE starts
    <3>1. Parser!Grammar(c) = Parser!G(open, w)
      BY <1>9, <1>16, <2>2 DEF Parser!Follow, Parser!Closes, Parser!Value
    <3>2. Parser!Parse(Parser!S, c) = Parser!Leaves(k, e, d)
      <4>1. CASE c = "-"
        <5>1. Parser!Minus(Parser!S) =
                Parser!Lead(Parser!Set(Parser!Add(Parser!S, "primitive"), {"SIG"}, {"RAD", "EXP"}), "none")
          BY <1>4, <1>5, <2>2 DEF Parser!Minus, Parser!Has
        <5>2. QED
          BY <5>1, <2>1, <4>1, <1>4 DEF Parser!Set, Parser!Add, Parser!Lead, Parser!Leaves
      <4>2. CASE c # "-"
        <5> DEFINE y == Parser!Lead(Parser!S, c)
        <5>1. /\ y.stack = stack /\ y.state = state /\ y.digit = c
              /\ Parser!Type(y) = type
          BY <1>3, <1>4 DEF Parser!Lead, Parser!Leaves, Parser!Type
        <5>2. Parser!Digit(Parser!S, c) = Parser!Set(Parser!Add(y, "primitive"), {}, {"VAL", "RAD", "EXP", "SIG"})
          BY <1>4, <1>5, <2>2 DEF Parser!Digit, Parser!Has
        <5> HIDE DEF y
        <5>3. QED
          BY <5>1, <5>2, <2>1, <4>2 DEF Parser!Set, Parser!Add, Parser!Leaves
      <4>3. QED
        BY <4>1, <4>2
    <3>3. Parser!Slip(Parser!S, c) = {}
      BY <1>16 DEF Parser!Slip
    <3>4. open # <<>> => \A i \in m : Parser!Up(i) \in Parser!Parts(open, w)
      BY <1>7, <2>2 DEF Parser!Parts, Parser!InKey
    <3>5. Parser!Nested(k, open, "number", Parser!Parts(open, w))
      BY <1>1, <3>4, JsonPush
    <3>6. Parser!Inside(w) = "number" /\ w \in Parser!Wants /\ w # "bad"
      BY DEF Parser!Inside, Parser!InNumber, Parser!Wants
    <3>7. /\ "BUG" \notin e /\ "KEY" \notin e /\ "RAD" \notin e /\ "EXP" \notin e
          /\ "VAL" \in e <=> c = "-" /\ open # <<>>
      BY <1>5, <1>16, <2>2
    <3> HIDE DEF e
    <3>8. Parser!Expects(Parser!Leaves(k, e, d), Parser!G(open, w))
      BY <1>5, <1>16, <3>7 DEF Parser!Expects, Parser!InKey, Parser!G, Parser!Leaves, Parser!Has
    <3>9. Parser!Read(Parser!Leaves(k, e, d), c, w)
      BY <1>16, <3>7 DEF Parser!Read, Parser!InNumber, Parser!Leaves, Parser!Has
    <3> HIDE DEF w, k, d
    <3>10. QED
      BY <3>1, <3>2, <3>3, <3>5, <3>6, <3>8, <3>9, JsonTaken
  <2>3. CASE ~ starts
    <3>1. Parser!Grammar(c) = Parser!G(open, "bad")
      BY <1>9, <1>16, <2>3 DEF Parser!Follow, Parser!Closes
    <3>2. Parser!Minus(Parser!S) = Parser!Bad
      BY <1>4, <1>5, <2>3 DEF Parser!Minus, Parser!Has
    <3>3. strict => Parser!Digit(Parser!S, c) = Parser!Bad
      <4> DEFINE y == Parser!Lead(Parser!S, c)
      <4>1. Parser!Type(y) = type
        BY <1>3, <1>4 DEF Parser!Lead, Parser!Leaves, Parser!Type
      <4>2. ~ Parser!Prim(y)
        BY <4>1, <1>2 DEF Parser!Prim, type, Brackets
      <4> HIDE DEF y
      <4>3. QED
        BY <4>2, <1>4, <1>5, <2>3 DEF Parser!Digit, Parser!Has, y
    <3>4. QED
      BY <3>1, <3>2, <3>3, <2>1, <1>16, JsonRefused
  <2>4. QED
    BY <2>2, <2>3
<1>17. CASE c = ","
  <2> DEFINE in == IF type = "object" THEN {"KEY", "VAL"} ELSE {"VAL"}
             e == (state \ {"KEY"}) \cup in
             w == IF Parser!Last(open) = "object" THEN "key" ELSE "value"
  <2>1. Parser!Parse(Parser!S, c) = Parser!Comma(Parser!S)
    BY <1>4, <1>11, <1>17 DEF Parser!Parse
  <2>2. CASE want = "next"
    <3>1. Parser!Grammar(c) = Parser!G(open, w)
      BY <1>9, <1>17, <2>2 DEF Parser!Follow, Parser!Closes
    <3>2. Parser!Comma(Parser!S) = Parser!Set(Parser!S, in, {"KEY"})
      BY <1>4, <1>5, <2>2 DEF Parser!Comma, Parser!Has
    <3>3. Parser!Parse(Parser!S, c) = Parser!Leaves(stack, e, "none")
      BY <2>1, <3>2, <1>4, <1>5 DEF Parser!Set
    <3>4. Parser!Slip(Parser!S, c) = {}
      BY <1>4, <1>5, <1>17, <2>2 DEF Parser!Slip, Parser!Has
    <3>5. ("KEY" \in e <=> w = "key") /\ "VAL" \in e /\ "BUG" \notin e
      BY <1>5, <2>2 DEF type
    <3>6. m \subseteq Parser!Full(Parser!Last(open)) /\ open # <<>>
      BY <1>5, <1>6, <2>2
    <3> HIDE DEF e
    <3>7. QED
      BY <3>1, <3>3, <3>4, <3>5, <3>6, <1>1, JsonNextPart
  <2>3. CASE want # "next"
    <3>1. Parser!Grammar(c) = Parser!G(open, "bad")
      BY <1>9, <1>17, <2>3 DEF Parser!Follow, Parser!Closes, Parser!Value
    <3>2. strict => Parser!Comma(Parser!S) = Parser!Bad \/ Parser!Slip(Parser!S, c) # {}
      <4>1. CASE "VAL" \in state
        BY <4>1, <1>4 DEF Parser!Comma, Parser!Has
      <4>2. CASE want = "colon"
        BY <4>2, <1>4, <1>5, <1>17 DEF Parser!Slip, Parser!Has, type
      <4>3. CASE open = <<>>
        BY <4>3, <1>4 DEF Parser!Comma
      <4>4. QED
        BY <4>1, <4>2, <4>3, <2>3, <1>5
    <3>3. QED
      BY <3>1, <3>2, <2>1, JsonRefused
  <2>4. QED
    BY <2>2, <2>3
<1>18. CASE c = ":"
  <2> DEFINE e == (state \ {"KEY"}) \cup {"VAL"}
  <2>1. Parser!Parse(Parser!S, c) = Parser!Colon(Parser!S)
    BY <1>4, <1>11, <1>18 DEF Parser!Parse
  <2>2. CASE want = "colon"
    <3>1. Parser!Grammar(c) = Parser!G(open, "value")
      BY <1>9, <1>18, <2>2 DEF Parser!Follow, Parser!Closes
    <3>2. Parser!Colon(Parser!S) = Parser!Set(Parser!S, {"VAL"}, {"KEY"})
      BY <1>4, <1>5, <2>2 DEF Parser!Colon
    <3>3. Parser!Parse(Parser!S, c) = Parser!Leaves(stack, e, "none")
      BY <2>1, <3>2, <1>4, <1>5 DEF Parser!Set
    <3>4. Parser!Slip(Parser!S, c) = {}
      BY <1>18 DEF Parser!Slip
    <3>5. Parser!Inside("value") = "bracket" /\ m = Parser!Parts(open, "value") /\ "value" \in Parser!Wants
      BY <1>5, <1>6, <2>2 DEF Parser!Inside, Parser!InNumber, Parser!Parts, Parser!InKey, Parser!Wants
    <3>6. "KEY" \notin e /\ "VAL" \in e /\ "BUG" \notin e
      BY <1>5
    <3> HIDE DEF e
    <3>7. /\ Parser!Expects(Parser!Leaves(stack, e, "none"), Parser!G(open, "value"))
          /\ Parser!Read(Parser!Leaves(stack, e, "none"), c, "value")
      BY <3>6, <1>5, <2>2 DEF Parser!Expects, Parser!Read, Parser!InKey, Parser!InNumber, Parser!G,
         Parser!Leaves, Parser!Has
    <3>8. QED
      BY <3>1, <3>3, <3>4, <3>5, <3>7, <1>1, JsonTaken
  <2>3. CASE want # "colon"
    <3>1. Parser!Grammar(c) = Parser!G(open, "bad")
      BY <1>9, <1>18, <2>3 DEF Parser!Follow, Parser!Closes, Parser!Value
    <3>2. Parser!Colon(Parser!S) = Parser!Bad
      BY <1>4, <1>5, <2>3 DEF Parser!Colon
    <3>3. QED
      BY <3>1, <3>2, <2>1, JsonRefused
  <2>4. QED
    BY <2>2, <2>3
<1>19. CASE c \in {"{", "["}
  <2> DEFINE t == IF c = "{" THEN "object" ELSE "array"
             w == IF c = "{" THEN "firstkey" ELSE "first"
             e == IF c = "{" THEN state \cup {"KEY", "VAL"} ELSE (state \ {"KEY"}) \cup {"VAL"}
             k == Parser!Push(stack, t)
             o == Append(open, t)
  <2>1. Parser!Parse(Parser!S, c) = Parser!Open(Parser!S, c)
    BY <1>4, <1>11, <1>19 DEF Parser!Parse
  <2>2. CASE starts
    <3>1. Parser!Grammar(c) = Parser!G(o, w)
      BY <1>9, <1>19, <2>2 DEF Parser!Follow, Parser!Closes, Parser!Value
    <3>2. Parser!Parse(Parser!S, c) = Parser!Leaves(k, e, "none")
      <4>1. ~ ("KEY" \in state \/ ("VAL" \notin state /\ type # "root"))
        BY <1>5, <2>2 DEF type
      <4>2. CASE c = "{"
        <5>1. Parser!Open(Parser!S, c) = Parser!Set(Parser!Add(Parser!S, "object"), {"KEY", "VAL"}, {})
          BY <4>1, <4>2, <1>4 DEF Parser!Open, Parser!Has
        <5>2. QED
          BY <5>1, <4>2, <2>1, <1>4, <1>5 DEF Parser!Set, Parser!Add, Parser!Leaves
      <4>3. CASE c = "["
        <5>1. Parser!Open(Parser!S, c) = Parser!Set(Parser!Add(Parser!S, "array"), {"VAL"}, {"KEY"})
          BY <4>1, <4>3, <1>4 DEF Parser!Open, Parser!Has
        <5>2. QED
          BY <5>1, <4>3, <2>1, <1>4, <1>5 DEF Parser!Set, Parser!Add, Parser!Leaves
      <4>4. QED
        BY <4>2, <4>3, <1>19
    <3>3. Parser!Slip(Parser!S, c) = {}
      BY <1>4, <1>19 DEF Parser!Slip
    <3>4. t \in Brackets
      BY DEF Brackets
    <3>5. Parser!Nested(k, o, "bracket", {0})
      BY <1>1, <1>7, <2>2, <3>4, JsonOpen
    <3>6. /\ o \in Seq(Brackets) /\ o # <<>> /\ Parser!Last(o) = t
      <4> HIDE DEF t
      <4>1. o \in Seq(Brackets) /\ Len(o) = Len(open) + 1 /\ o[Len(open) + 1] = t
        BY <3>4
      <4> HIDE DEF o
      <4>2. QED
        BY <4>1 DEF Parser!Last
    <3>7. Parser!Inside(w) = "bracket" /\ w \in Parser!Wants /\ w # "bad" /\ Parser!Parts(o, w) = {0}
      <4>1. w \in {"first", "firstkey"}
        OBVIOUS
      <4> HIDE DEF w, o
      <4>2. QED
        BY <4>1 DEF Parser!Inside, Parser!InNumber, Parser!InKey, Parser!Wants, Parser!Parts
    <3>8. ("KEY" \in e <=> c = "{") /\ "VAL" \in e /\ "BUG" \notin e
      BY <1>5
    <3> HIDE DEF e, o
    <3>9. /\ Parser!Expects(Parser!Leaves(k, e, "none"), Parser!G(o, w))
          /\ Parser!Read(Parser!Leaves(k, e, "none"), c, w)
      BY <3>6, <3>8 DEF Parser!Expects, Parser!Read, Parser!InKey, Parser!InNumber, Parser!G,
         Parser!Leaves, Parser!Has
    <3> HIDE DEF w, k
    <3>10. QED
      BY <3>1, <3>2, <3>3, <3>5, <3>6, <3>7, <3>9, JsonTaken
  <2>3. CASE ~ starts
    <3>1. Parser!Grammar(c) = Parser!G(open, "bad")
      BY <1>9, <1>19, <2>3 DEF Parser!Follow, Parser!Closes
    <3>2. "KEY" \in state \/ ("VAL" \notin state /\ type # "root")
      BY <1>2, <1>5, <2>3 DEF type, Brackets
    <3>3. Parser!Open(Parser!S, c) = Parser!Bad
      BY <3>2, <1>4 DEF Parser!Open, Parser!Has
    <3>4. QED
      BY <3>1, <3>3, <2>1, JsonRefused
  <2>4. QED
    BY <2>2, <2>3
<1>20. CASE c \in {"}", "]"}
  <2> DEFINE n == Parser!Last(stack).parts
             e == state \ {"KEY", "VAL"}
             end == IF c = "}" THEN "object" ELSE "array"
             bad == \/ strict /\ (("KEY" \in state /\ n % 2 = 1) \/ ("VAL" \in state /\ n > 0))
                    \/ "VAL" \in state /\ open = <<>>
                    \/ type # end
  <2>1. Parser!Parse(Parser!S, c) = Parser!Close(Parser!S, c)
    BY <1>4, <1>11, <1>20 DEF Parser!Parse
  <2>2. Parser!Closes(c) <=> type = end
    BY <1>2, <1>20 DEF Parser!Closes, type, Brackets
  <2>3. Parser!Close(Parser!S, c) =
          IF bad THEN Parser!Bad ELSE Parser!Leaves(Parser!Front(stack), e, "none")
    BY <1>4, <1>5 DEF Parser!Close, Parser!Has, Parser!Set, Parser!Delim, Parser!Leaves
  <2>4. CASE want \in {"first", "firstkey", "next"} /\ Parser!Closes(c)
    <3>1. Parser!Grammar(c) = Parser!Pop /\ open # <<>>
      BY <1>9, <1>20, <2>4 DEF Parser!Follow, Parser!Closes
    <3>2. want # "next" => n = 0
      BY <2>4, <3>1, <1>3, <1>6
    <3>3. ~ bad
      <4>1. CASE want = "next"
        <5>1. "KEY" \notin state /\ "VAL" \notin state
          BY <4>1, <1>5
        <5>2. QED
          BY <5>1, <2>2, <2>4
      <4>2. CASE want # "next"
        <5>1. n % 2 = 0 /\ ~ (n > 0) /\ n % 2 # 1
          BY <4>2, <3>2
        <5>2. QED
          BY <5>1, <3>1, <2>2, <2>4
      <4>3. QED
        BY <4>1, <4>2
    <3>4. Parser!Parse(Parser!S, c) = Parser!Leaves(Parser!Front(stack), e, "none")
      BY <2>1, <2>3, <3>3
    <3>5. Parser!Slip(Parser!S, c) = {}
      <4>1. "KEY" \in state => ~ (Parser!Last(Parser!S.stack).parts > 0)
        <5>1. "KEY" \in state => n = 0
          BY <1>5, <3>2
        <5>2. Parser!Last(Parser!S.stack).parts = n
          BY <1>4
        <5> HIDE DEF n
        <5>3. QED
          BY <5>1, <5>2
      <4>2. Parser!Has(Parser!S, "KEY") <=> "KEY" \in state
        BY <1>4 DEF Parser!Has
      <4>3. QED
        BY <4>1, <4>2, <1>20 DEF Parser!Slip
    <3>6. "KEY" \notin e /\ "VAL" \notin e /\ "BUG" \notin e
      BY <1>5
    <3> HIDE DEF e
    <3>7. QED
      BY <3>1, <3>4, <3>5, <3>6, <1>1, JsonClosed
  <2>5. CASE ~ (want \in {"first", "firstkey", "next"} /\ Parser!Closes(c))
    <3>1. Parser!Grammar(c) = Parser!G(open, "bad")
      BY <1>9, <1>20, <2>5 DEF Parser!Follow, Parser!Value
    <3>2. strict => bad
      <4>1. CASE open = <<>>
        BY <4>1 DEF type
      <4>2. CASE open # <<>> /\ type = end
        <5>1. want \in {"value", "key", "colon"}
          BY <2>2, <2>5, <4>2
        <5>2. n \in {1, 2} /\ (want = "colon" => n = 1)
          BY <5>1, <4>2, <1>2, <1>3, <1>5, <1>6 DEF Parser!Full, Brackets
        <5>3. n > 0 /\ (n = 1 => n % 2 = 1)
          BY <5>2
        <5>4. "VAL" \in state \/ ("KEY" \in state /\ n = 1)
          BY <5>1, <5>2, <4>2, <1>5
        <5>5. QED
          BY <5>3, <5>4
      <4>3. CASE type # end
        BY <4>3
      <4>4. QED
        BY <4>1, <4>2, <4>3
    <3>3. QED
      BY <3>1, <3>2, <2>1, <2>3, JsonRefused
  <2>6. QED
    BY <2>4, <2>5
<1>21. QED
  BY <1>10, <1>12, <1>13, <1>14, <1>15, <1>16, <1>17, <1>18, <1>19, <1>20 DEF Parser!Chars

LEMMA JsonEvery ==
  ASSUME Parser!IInv, ok, want # "bad", NEW c \in Parser!Chars
  PROVE  JsonStep(c)
<1>1. /\ open \in Seq(Brackets) /\ strict \in BOOLEAN /\ want \in Parser!Wants
      /\ Parser!Agree(Parser!S, prev, Parser!G(open, want))
  BY DEF Parser!IInv, Parser!TypeOK, Brackets
<1>2. CASE want \in {"string", "key string"}
  BY <1>1, <1>2, JsonInString
<1>3. CASE want \in {"escape", "key escape"}
  BY <1>1, <1>3, JsonInEscape
<1>4. CASE Parser!InNumber(want)
  BY <1>1, <1>4, JsonInNumber
<1>5. CASE want \in {"value", "first", "firstkey", "key", "colon", "next"}
  BY <1>1, <1>5, JsonInBracket
<1>6. QED
  BY <1>1, <1>2, <1>3, <1>4, <1>5 DEF Parser!Wants, Parser!InNumber

LEMMA JsonInit == PluginsInit => Parser!IInv
<1> SUFFICES ASSUME PluginsInit PROVE Parser!IInv
  OBVIOUS
<1> DEFINE root == Parser!Token("root", 0)
           top == Parser!Leaves(<<root>>, {}, "none")
<1>1. /\ strict \in BOOLEAN /\ stack = <<root>> /\ state = {} /\ digit = "none" /\ prev = "none"
      /\ ok = TRUE /\ slips = {} /\ open = <<>> /\ want = "value"
  BY DEF PluginsInit, Parser!Init
<1>2. Parser!Inside("value") = "bracket" /\ Parser!Above("bracket") = 0
  BY DEF Parser!Inside, Parser!Above, Parser!InNumber
<1>3. Parser!Nested(<<root>>, <<>>, "bracket", Parser!Parts(<<>>, "value"))
  <2>1. root.type = "root" /\ root \in OpenTokens
    BY DEF Parser!Token, OpenTokens, Parser!Types
  <2> HIDE DEF root
  <2>2. <<root>> \in Seq(OpenTokens) /\ Len(<<root>>) = 1 /\ <<root>>[1] = root
    BY <2>1
  <2> DEFINE k == <<root>>
  <2> HIDE DEF k
  <2>3. k \in Seq(OpenTokens) /\ Len(k) = 1 /\ k[1].type = "root"
    BY <2>1, <2>2 DEF k
  <2>4. Parser!Nested(k, <<>>, "bracket", Parser!Parts(<<>>, "value"))
    BY <2>3, <1>2 DEF Parser!Nested, OpenTokens
  <2>5. QED
    BY <2>4 DEF k
<1>4. /\ Parser!Expects(top, Parser!G(<<>>, "value")) /\ Parser!Read(top, "none", "value")
  BY DEF Parser!Expects, Parser!Read, Parser!G, Parser!Leaves, Parser!Has, Parser!InKey, Parser!InNumber
<1>5. Parser!Agree(top, "none", Parser!G(<<>>, "value"))
  BY <1>2, <1>3, <1>4 DEF Parser!Agree, Parser!G, Parser!Leaves
<1>6. Parser!S = top
  BY <1>1 DEF Parser!S
<1>7. Parser!TypeOK
  BY <1>1 DEF Parser!TypeOK, Parser!Wants
<1>8. Parser!JsonSafe
  BY <1>1 DEF Parser!JsonSafe, Parser!JsonSound, Parser!JsonComplete
<1> HIDE DEF top
<1>9. QED
  BY <1>1, <1>5, <1>6, <1>7, <1>8 DEF Parser!IInv

LEMMA JsonNext == Parser!IInv /\ [Parser!Next]_(Parser!vars) => Parser!IInv'
<1> SUFFICES ASSUME Parser!IInv, [Parser!Next]_(Parser!vars) PROVE Parser!IInv'
  OBVIOUS
<1>1. CASE UNCHANGED Parser!vars
  <2>1. /\ strict' = strict /\ ok' = ok /\ slips' = slips /\ prev' = prev /\ Parser!S' = Parser!S
        /\ open' = open /\ want' = want
    BY <1>1 DEF Parser!vars, Parser!parser, Parser!grammar, Parser!S
  <2>2. Parser!Agree(Parser!S, prev, Parser!G(open, want))
        => Parser!Agree(Parser!S, prev, Parser!G(open, want))'
    BY <2>1 DEF Parser!Agree, Parser!Expects, Parser!Read, Parser!Has
  <2>3. QED
    BY <2>1, <2>2 DEF Parser!IInv, Parser!TypeOK, Parser!JsonSafe, Parser!JsonSound, Parser!JsonComplete
<1>2. CASE Parser!Next
  <2>1. PICK c \in Parser!Chars :
          /\ ok /\ want # "bad"
          /\ stack' = Parser!Parse(Parser!S, c).stack
          /\ state' = Parser!Parse(Parser!S, c).state
          /\ digit' = Parser!Parse(Parser!S, c).digit
          /\ ok' = (Parser!Parse(Parser!S, c) # Parser!Bad) /\ prev' = c
          /\ slips' = IF Parser!Parse(Parser!S, c) = Parser!Bad THEN slips
                      ELSE slips \cup Parser!Slip(Parser!S, c)
          /\ open' = Parser!Grammar(c).open /\ want' = Parser!Grammar(c).want /\ strict' = strict
    BY <1>2 DEF Parser!Next
  <2> DEFINE s == Parser!Parse(Parser!S, c)
             g == Parser!Grammar(c)
  <2>2. JsonStep(c)
    BY <2>1, JsonEvery
  <2>3. /\ g.open \in Seq(Brackets) /\ g.want \in Parser!Wants
        /\ g.want # "bad" => s # Parser!Bad /\ Parser!Slip(Parser!S, c) = {} /\ Parser!Agree(s, c, g)
        /\ strict /\ s # Parser!Bad /\ Parser!Slip(Parser!S, c) = {} => g.want # "bad"
    BY <2>2 DEF JsonStep
  <2>4. slips = {} /\ strict \in BOOLEAN
    BY <2>1 DEF Parser!IInv, Parser!TypeOK
  <2> HIDE DEF s, g
  <2>5. Parser!TypeOK'
    BY <2>1, <2>3, <2>4 DEF Parser!TypeOK, Brackets, g
  <2>6. Parser!JsonSafe'
    BY <2>1, <2>3, <2>4 DEF Parser!JsonSafe, Parser!JsonSound, Parser!JsonComplete, s, g
  <2>7. ASSUME want' # "bad" PROVE slips' = {} /\ Parser!Agree(Parser!S, prev, Parser!G(open, want))'
    <3>1. slips' = {} /\ Parser!Agree(s, c, g)
      BY <2>1, <2>3, <2>4, <2>7 DEF s, g
    <3>2. Parser!S' = Parser!Leaves(s.stack, s.state, s.digit)
      BY <2>1 DEF Parser!S, s
    <3>3. Parser!G(open, want)' = Parser!G(g.open, g.want)
      BY <2>1 DEF g
    <3>4. Parser!Agree(Parser!Leaves(s.stack, s.state, s.digit), c, Parser!G(g.open, g.want))
      BY <3>1 DEF Parser!Agree, Parser!Expects, Parser!Read, Parser!Has, Parser!Leaves, Parser!G
    <3>5. QED
      BY <3>1, <3>2, <3>3, <3>4, <2>1 DEF Parser!Agree, Parser!Expects, Parser!Read, Parser!Has
  <2>8. QED
    BY <2>5, <2>6, <2>7 DEF Parser!IInv
<1>3. QED
  BY <1>1, <1>2

LEMMA JsonIsSafe1 == Parser!IInv => Parser!JsonSafe
BY DEF Parser!IInv

(* Whatever the text, its length and its depth: the tokenizer refuses nothing*)
(* that RFC 7159 takes, and in strict mode what it takes the RFC takes, but for*)
(* the four slips named in Json.                                           *)
THEOREM JsonIsSafe == PluginsSpec => []JsonSafe
<1>1. ASSUME Parser!IInv, [PluginsNext]_pluginsVars PROVE Parser!IInv'
  <2>1. [Parser!Next]_(Parser!vars)
    BY <1>1, AloneStays DEF PluginsNext, Others, pluginsVars, jsonVars, Parser!vars, Parser!parser, Parser!grammar
  <2>2. QED
    BY <1>1, <2>1, JsonNext
<1>2. Parser!IInv => JsonSafe
  BY JsonIsSafe1 DEF JsonSafe
<1>3. QED
  BY <1>1, <1>2, JsonInit, PTL DEF PluginsSpec
===============================================================================
