--------------------------------- MODULE Chat ---------------------------------
(***************************************************************************)
(* Who is online in the DialMessenger plugin (plugins/dialmsn): accounts   *)
(* that log in, replacing their previous session, sessions that end, and   *)
(* the hostesses of a feed, simulated on identifiers no socket has.  The   *)
(* table `users' is under the lock userlock, the identifiers under         *)
(* _id_lock; the sessions are also in the database, which is under         *)
(* neither.  At most a tenth as many men as women are visible: Percent.    *)
(* `alone' is a server with one thread.  Of what users say of themselves   *)
(* only whose it is and their status are kept; left out are a change of    *)
(* sex and a second login on a session that is still open.                 *)
(***************************************************************************)
EXTENDS Integers, Sequences, FiniteSets, FiniteSetsExt

CONSTANTS
  Men, Women, (* the accounts                                              *)
  Hosts,      (* those of the women that are hostesses                     *)
  Restless,   (* bound: who changes of status and of nickname              *)
  Sessions,   (* identifiers of sockets: positive                          *)
  FirstSim, UserMax,   (* SOCKET_MAX, DIALMSN_USER_MAX                     *)
  HostessMax, Percent, Quotas, Threads, None

VARIABLES
  alone,
  users,      (* session or simulated identifier -> a user or None         *)
  counts,     (* online, women (women_online) and men (visible_men)        *)
  list,       (* the list of users kept for the clients                    *)
  free, nextId,        (* _free_id and _id                                 *)
  db,         (* account -> its session in the database, or 0              *)
  hostess,    (* the pairs of hostess_id and hostess_session               *)
  hlock,      (* hostess_lock                                              *)
  thread      (* [at, op, u, s, old, gone, new]                            *)

vars == <<alone, users, counts, list, free, nextId, db, hostess, hlock, thread>>

Accounts == Men \cup Women
Ids == Sessions \cup (FirstSim .. UserMax - 1)
Work(at, op, u, s, old) ==
  [at |-> at, op |-> op, u |-> u, s |-> s, old |-> old, gone |-> {}, new |-> {}]
Idle == Work("idle", "none", None, 0, 0)

Init ==
  /\ alone \in BOOLEAN
  /\ users = [s \in Ids |-> None]
  /\ counts = [online |-> 0, women |-> 0, men |-> 0] /\ list = <<>>
  /\ free = <<>> /\ nextId = FirstSim
  /\ db = [u \in Accounts |-> 0] /\ hostess = {} /\ hlock = None
  /\ thread = [t \in Threads |-> Idle]

At(t, l) == thread[t].at = l
To(t, l) == thread' = [thread EXCEPT ![t].at = l]
Done(t) == thread' = [thread EXCEPT ![t] = Idle]
Start(t, op) == At(t, "idle") /\ (alone => \A r \in Threads : At(r, "idle"))
                /\ (op = "feed" => \A r \in Threads : thread[r].op # "feed")

(* How many men may be seen before one more is refused.                    *)
Limit(women) == (women * Percent) \div 100
Of(us, who, visible) ==
  {s \in Ids : us[s] # None /\ us[s].uid \in who /\ us[s].visible \in visible}
Show(us, s, v) == [us EXCEPT ![s].visible = v]

(* The list is made again under the lock: not when there is nobody.        *)
Publish(us) ==
  /\ users' = us
  /\ list' = IF \E s \in Ids : us[s] # None THEN us ELSE list

-----------------------------------------------------------------------------
(* dialmsn_auth() up to the old session, and the threads' other work.      *)
Login(t, u, s) ==
  /\ Start(t, "login")
  /\ \A r \in Threads : thread[r].s # s
  /\ users[s] = None
  /\ thread' = [thread EXCEPT ![t] =
                  Work(IF db[u] > 0 THEN "clear" ELSE "update", "login", u, s, db[u])]
  /\ UNCHANGED <<alone, users, counts, list, free, nextId, db, hostess, hlock>>

(* plugin_intr(): the connection is lost.                                  *)
Hangup(t, s) ==
  /\ Start(t, "hangup")
  /\ \A r \in Threads : thread[r].s # s
  /\ thread' = [thread EXCEPT ![t] = Work("clear", "hangup", None, s, s)]
  /\ UNCHANGED <<alone, users, counts, list, free, nextId, db, hostess, hlock>>

(* dialmsn_user_disconnect(): in the database, then in the table.          *)
Clear(t) ==
  /\ At(t, "clear") /\ To(t, "remove")
  /\ db' = [u \in Accounts |-> IF db[u] = thread[t].old THEN 0 ELSE db[u]]
  /\ UNCHANGED <<alone, users, counts, list, free, nextId, hostess, hlock>>

Leave_NoPlace(s) ==               \* mutant: the place of a man is not given on
  /\ counts' = [counts EXCEPT !.online = @ - 1,
                  !.women = IF Quotas /\ users[s].uid \in Women THEN @ - 1 ELSE @,
                  !.men = IF Quotas /\ s \in Of(users, Men, {TRUE}) THEN @ - 1 ELSE @]
  /\ Publish([users EXCEPT ![s] = None])

(* One man gets the place that is left, one loses the place too many.      *)
Leave(s) ==
  LET us == [users EXCEPT ![s] = None]
      c == [counts EXCEPT !.online = IF @ = 0 THEN 0 ELSE @ - 1,
              !.women = IF Quotas /\ users[s].uid \in Women /\ @ > 0 THEN @ - 1 ELSE @,
              !.men = IF Quotas /\ s \in Of(users, Men, {TRUE}) THEN @ - 1 ELSE @]
      hidden == Of(us, Men, {FALSE})
      seen == Of(us, Men, {TRUE})
      show == Quotas /\ users[s].uid \in Men /\ c.men <= Limit(c.women) /\ hidden # {}
      hide == Quotas /\ users[s].uid \in Women /\ c.men > Limit(c.women) /\ seen # {}
  IN /\ counts' = [c EXCEPT !.men = IF show THEN @ + 1 ELSE IF hide /\ @ > 0 THEN @ - 1 ELSE @]
     /\ Publish(IF show THEN Show(us, Min(hidden), TRUE)
                ELSE IF hide THEN Show(us, Min(seen), FALSE) ELSE us)

Remove(t) ==
  /\ At(t, "remove")
  /\ IF users[thread[t].old] # None THEN Leave(thread[t].old) ELSE UNCHANGED <<users, counts, list>>
  /\ CASE thread[t].op = "login" -> To(t, "update")
       [] thread[t].op = "hangup" -> Done(t)
       [] OTHER -> To(t, "give")
  /\ UNCHANGED <<alone, free, nextId, db, hostess, hlock>>

(* dialmsn_user_add(): in the database, which may refuse, then in the      *)
(* table.                                                                  *)
Update(t) ==
  /\ At(t, "update")
  /\ \/ db' = [db EXCEPT ![thread[t].u] = thread[t].s] /\ To(t, "insert")
     \/ UNCHANGED db /\ IF thread[t].op = "login" THEN Done(t) ELSE To(t, "give")
  /\ UNCHANGED <<alone, users, counts, list, free, nextId, hostess, hlock>>

Enter(u, s) ==
  LET women == counts.women + (IF Quotas /\ u \in Women THEN 1 ELSE 0)
      place == Quotas /\ counts.men <= Limit(women)
      us == [users EXCEPT ![s] = [uid |-> u, visible |-> ~ Quotas \/ u \in Women \/ place,
                                  nick |-> u, away |-> FALSE]]
      hidden == Of(us, Men, {FALSE})
      show == place /\ u \in Women /\ hidden # {}
  IN /\ counts' = [online |-> counts.online + 1, women |-> women,
                   men |-> counts.men + (IF show \/ (place /\ u \in Men) THEN 1 ELSE 0)]
     /\ Publish(IF show THEN Show(us, Min(hidden), TRUE) ELSE us)

Insert(t) ==
  LET u == thread[t].u  s == thread[t].s IN
  /\ At(t, "insert") /\ Enter(u, s)
  /\ IF thread[t].op = "login" THEN Done(t) /\ UNCHANGED hostess
     ELSE To(t, "next") /\ hostess' = hostess \cup {<<u, s>>}
  /\ UNCHANGED <<alone, free, nextId, db, hlock>>

(* The user of a session is free, or away.                                 *)
SetStatus(t, s) ==
  /\ Start(t, "status") /\ \A r \in Threads : thread[r].s # s
  /\ users[s] # None /\ users[s].uid \in Restless
  /\ \E away \in BOOLEAN : Publish([users EXCEPT ![s].away = away])
  /\ UNCHANGED <<alone, counts, free, nextId, db, hostess, hlock, thread>>

(* dialmsn_user_refresh(), when the site has changed an account: what the  *)
(* database says, its session too, then to whoever has that session.       *)
Reread(t, u) ==
  /\ Start(t, "refresh") /\ db[u] # 0
  /\ thread' = [thread EXCEPT ![t] = Work("refresh", "refresh", u, 0, db[u])]
  /\ UNCHANGED <<alone, users, counts, list, free, nextId, db, hostess, hlock>>

Refresh(t) ==
  LET s == thread[t].old IN
  /\ At(t, "refresh") /\ Done(t)
  /\ IF users[s] # None THEN Publish([users EXCEPT ![s].nick = thread[t].u]) ELSE UNCHANGED <<users, list>>
  /\ UNCHANGED <<alone, counts, free, nextId, db, hostess, hlock>>

-----------------------------------------------------------------------------
(* dialmsn_hostess_connect(), for a request, and the thread of the feed,   *)
(* which first ends who is no longer listed.                               *)
HostOnline(t, u) ==
  /\ Start(t, "host")
  /\ thread' = [thread EXCEPT ![t] = Work("lock", "host", u, 0, 0)]
  /\ UNCHANGED <<alone, users, counts, list, free, nextId, db, hostess, hlock>>

Feed(t, listed) ==
  /\ Start(t, "feed") /\ hlock = None /\ hlock' = t
  /\ thread' = [thread EXCEPT ![t] = [Work("next", "feed", None, 0, 0) EXCEPT
                  !.gone = {h \in hostess : h[1] \notin listed},
                  !.new = {u \in listed : \A h \in hostess : h[1] # u}]]
  /\ UNCHANGED <<alone, users, counts, list, free, nextId, db, hostess>>

(* dialmsn_user_endsim() of one of them, or the next one to simulate.      *)
EndSim(t, h) ==
  /\ At(t, "next") /\ h \in thread[t].gone
  /\ thread' = [thread EXCEPT ![t] = [@ EXCEPT !.at = "clear", !.s = h[2], !.old = h[2],
                                               !.gone = thread[t].gone \ {h}]]
  /\ hostess' = hostess \ {h}
  /\ UNCHANGED <<alone, users, counts, list, free, nextId, db, hlock>>

Unlock(t) ==
  /\ At(t, "next") /\ thread[t].gone = {} /\ hlock' = None
  /\ IF thread[t].new = {} THEN Done(t) ELSE To(t, "each")
  /\ UNCHANGED <<alone, users, counts, list, free, nextId, db, hostess>>

(* The next hostess of the feed: her account is simulated, or there is     *)
(* none and one is asked for, or the query fails.                          *)
Impersonate(t) ==
  /\ At(t, "each")
  /\ \E u \in thread[t].new :
       LET new == thread[t].new \ {u} IN
       \/ thread' = [thread EXCEPT ![t] = [@ EXCEPT !.at = "lock", !.u = u, !.s = 0, !.new = new]]
       \/ IF new = {} THEN Done(t) ELSE thread' = [thread EXCEPT ![t].new = new]
  /\ UNCHANGED <<alone, users, counts, list, free, nextId, db, hostess, hlock>>

(* dialmsn_user_simulate(), under hostess_lock; only a request looks       *)
(* whether the hostess is there.                                           *)
Lock(t) ==
  LET found == thread[t].op = "host" /\ \E h \in hostess : h[1] = thread[t].u IN
  /\ At(t, "lock") /\ hlock = None /\ hlock' = t
  /\ To(t, IF ~ found /\ Cardinality(hostess) < HostessMax /\ db[thread[t].u] = 0
           THEN "take" ELSE "next")
  /\ UNCHANGED <<alone, users, counts, list, free, nextId, db, hostess>>

Take(t) ==
  /\ At(t, "take")
  /\ \/ /\ free # <<>>
        /\ thread' = [thread EXCEPT ![t] = [@ EXCEPT !.at = "update", !.s = free[Len(free)]]]
        /\ free' = SubSeq(free, 1, Len(free) - 1) /\ UNCHANGED nextId
     \/ /\ free = <<>> /\ nextId < UserMax
        /\ thread' = [thread EXCEPT ![t] = [@ EXCEPT !.at = "update", !.s = nextId]]
        /\ nextId' = nextId + 1 /\ UNCHANGED free
     \/ /\ free = <<>> /\ nextId = UserMax /\ To(t, "next") /\ UNCHANGED <<free, nextId>>
  /\ UNCHANGED <<alone, users, counts, list, db, hostess, hlock>>

Give(t) ==
  /\ At(t, "give") /\ To(t, "next")
  /\ free' = Append(free, thread[t].s)
  /\ UNCHANGED <<alone, users, counts, list, nextId, db, hostess, hlock>>

Next ==
  \E t \in Threads :
    \/ \E s \in Sessions : Hangup(t, s) \/ \E u \in Accounts \ Hosts : Login(t, u, s)
    \/ \E s \in Sessions : SetStatus(t, s)
    \/ \E u \in Restless : Reread(t, u)
    \/ \E u \in Hosts : HostOnline(t, u)
    \/ \E listed \in SUBSET Hosts : Feed(t, listed)
    \/ \E h \in hostess : EndSim(t, h)
    \/ Clear(t) \/ Remove(t) \/ Update(t) \/ Insert(t)
    \/ Refresh(t) \/ Unlock(t) \/ Impersonate(t) \/ Lock(t) \/ Take(t) \/ Give(t)

Spec == Init /\ [][Next]_vars

-----------------------------------------------------------------------------
(* The counters are those of the table, whatever the threads do.           *)
Counted ==
  /\ counts.online = Cardinality({s \in Ids : users[s] # None})
  /\ Quotas => /\ counts.women = Cardinality(Of(users, Women, BOOLEAN))
               /\ counts.men = Cardinality(Of(users, Men, {TRUE}))

(* The quota: one man more than the limit at most is seen, and none is     *)
(* hidden while fewer than the limit are.                                  *)
Quota ==
  Quotas => LET men == Cardinality(Of(users, Men, {TRUE})) IN
            /\ men <= Limit(counts.women) + 1
            /\ Of(users, Men, {FALSE}) # {} => men >= Limit(counts.women)

(* A simulated identifier is free once, held by one hostess, or in hand.   *)
Held == {h[2] : h \in hostess}
InHand(t) == /\ thread[t].at \in {"clear", "remove", "update", "insert", "give"}
             /\ thread[t].op \in {"host", "feed"}
Hand == {thread[t].s : t \in {r \in Threads : InHand(r)}}
Freed == {free[i] : i \in DOMAIN free}
SimIds ==
  /\ Cardinality(Freed) = Len(free)
  /\ Held \cap Hand = {} /\ Freed \cap (Held \cup Hand) = {}
  /\ Held \cup Hand \cup Freed = FirstSim .. nextId - 1
  /\ Cardinality(hostess) <= HostessMax
  /\ \A s \in Freed : users[s] = None

(* The list is what the table was, unless everybody has left.              *)
Listed == counts.online > 0 => list = users

(* With one thread an account has one session, that of the database, and   *)
(* nobody else has its nickname.                                           *)
OneSession ==
  (alone /\ \A t \in Threads : At(t, "idle")) =>
     /\ \A u \in Accounts : {s \in Ids : users[s] # None /\ users[s].uid = u} = {db[u]} \ {0}
     /\ \A s \in Ids : users[s] # None => users[s].nick = users[s].uid

ChatSafe == Counted /\ Quota /\ SimIds /\ Listed /\ OneSession
-----------------------------------------------------------------------------
(* The inductive invariant: the types,                                     *)
Sims == FirstSim .. UserMax - 1
User == [uid : Accounts, visible : BOOLEAN, nick : Accounts, away : BOOLEAN]
Places == {"idle", "clear", "remove", "update", "insert", "refresh",
           "lock", "take", "next", "each", "give"}
Thread == [at : Places, op : {"none", "login", "hangup", "refresh", "host", "feed"},
           u : Accounts \cup {None}, s : Ids \cup {0}, old : Ids \cup {0},
           gone : SUBSET (Hosts \X Sims), new : SUBSET Hosts]
TypeOK ==
  /\ users \in [Ids -> User \cup {None}]
  /\ counts \in [online : Nat, women : Nat, men : Nat]
  /\ free \in Seq(Sims) /\ nextId \in FirstSim .. UserMax
  /\ db \in [Accounts -> Ids \cup {0}]
  /\ hostess \subseteq Hosts \X Sims /\ IsFiniteSet(hostess)
  /\ hlock \in Threads \cup {None} /\ thread \in [Threads -> Thread]

(* what a thread has in hand: the identifier of a session is its own, a    *)
(* simulated one is that of whoever has the lock,                          *)
Working(t) ==
  LET r == thread[t] IN
  CASE r.op = "none" -> r = Idle
    [] r.op = "login" ->
         /\ r.at \in {"clear", "remove", "update", "insert"} /\ r.u \in Accounts
         /\ r.s \in Sessions /\ users[r.s] = None
         /\ r.at \in {"clear", "remove"} => r.old \in Ids
    [] r.op = "hangup" -> r.at \in {"clear", "remove"} /\ r.s \in Sessions /\ r.old = r.s
    [] r.op = "refresh" -> r.at = "refresh" /\ r.u \in Accounts /\ r.s = 0 /\ r.old \in Ids
    [] OTHER ->
         /\ r.at \in {"lock", "take", "next", "each", "clear", "remove", "update", "insert", "give"}
         /\ r.s \notin Sessions
         /\ r.at \in {"lock", "take", "update", "insert"} => r.u \in Hosts
         /\ InHand(t) => r.s \in Sims
         /\ r.at \in {"clear", "remove"} => r.old = r.s
         /\ r.at \in {"update", "insert", "give"} => users[r.s] = None
         /\ r.at \notin {"lock", "each"} => hlock = t /\ r.gone \subseteq hostess
         /\ r.at \in {"lock", "take", "each", "update", "insert"} => r.gone = {}
         /\ r.at \in {"take", "update", "insert"} => Cardinality(hostess) < HostessMax
         /\ r.op = "host" => r.gone = {}
Apart ==
  \A t, r \in Threads : thread[t].s \in Sessions /\ thread[r].s = thread[t].s => t = r

(* the simulated identifiers, no two of them at one place,                 *)
Once ==
  /\ \A i, j \in DOMAIN free : free[i] = free[j] => i = j
  /\ \A h, g \in hostess : h[2] = g[2] => h = g
  /\ Held \cap Hand = {} /\ Freed \cap (Held \cup Hand) = {}
  /\ Held \cup Hand \cup Freed = FirstSim .. nextId - 1
  /\ Cardinality(hostess) <= HostessMax
  /\ \A s \in Sims \ (Held \cup Hand) : users[s] = None

(* and with one thread the sessions of an account, but those that the one  *)
(* operation has cleared or not yet inserted.                              *)
Own(gone, new) ==
  /\ \A u \in Accounts :
       {s \in Ids \ gone : users[s] # None /\ users[s].uid = u} = IF u \in new THEN {} ELSE {db[u]} \ {0}
  /\ \A s \in Ids : users[s] # None => users[s].nick = users[s].uid
OwnIn(t) ==
  LET r == thread[t] IN
  /\ Own(IF r.at = "remove" THEN {r.old} ELSE {}, IF r.at = "insert" THEN {r.u} ELSE {})
  /\ r.at \in {"take", "update"} => db[r.u] = 0
  /\ r.op = "login" /\ r.at = "clear" => r.old = db[r.u]
  /\ r.op = "login" /\ r.at = "remove" => db[r.u] = 0
  /\ r.at = "insert" => db[r.u] = r.s
  /\ r.at = "refresh" => db[r.u] = r.old
Alone ==
  alone => /\ \A t, r \in Threads : t # r => At(t, "idle") \/ At(r, "idle")
           /\ (\A t \in Threads : At(t, "idle")) => Own({}, {})
           /\ \A t \in Threads : ~ At(t, "idle") => OwnIn(t)

Table == Counted /\ Quota /\ ((\E s \in Ids : users[s] # None) => list = users)
IInv == TypeOK /\ Table /\ Once /\ Apart /\ (\A t \in Threads : Working(t)) /\ Alone
=============================================================================
