---------------------------- MODULE Stream_proofs ----------------------------
(***************************************************************************)
(* Proofs about the stream plugin: whatever the threads do, a connection   *)
(* of a worker carries what one client sends, and with one thread what a   *)
(* client has sent arrives in order and nobody who could be joined waits.  *)
(***************************************************************************)
EXTENDS Plugins_proofs

(* The identifier of a socket that was closed is not given again; the      *)
(* README says what happens when it is.                                    *)
UsedOnce == Lives <= 1

-----------------------------------------------------------------------------
(* What a get from a queue takes and leaves.                               *)
LEMMA PipeFirst ==
  ASSUME Pipes!TypeOK, NEW q \in {"workers", "pending", "waiting"}, NEW st
  PROVE  /\ Pipes!First(q, st) \in 0 .. Len(queue[q])
         /\ Pipes!First(q, st) = 0 => \A i \in DOMAIN queue[q] : status[queue[q][i]] # st
         /\ Pipes!First(q, st) # 0 =>
              /\ status[queue[q][Pipes!First(q, st)]] = st
              /\ \A i \in 1 .. Pipes!First(q, st) - 1 : status[queue[q][i]] # st
<1> DEFINE I == {i \in 1 .. Len(queue[q]) : status[queue[q][i]] = st}
<1>1. queue[q] \in Seq(PipeIds) /\ Len(queue[q]) \in Nat /\ DOMAIN queue[q] = 1 .. Len(queue[q])
  BY DEF Pipes!TypeOK
<1>2. Pipes!First(q, st) = IF I # {} THEN Pipes!Min(I) ELSE 0
  BY Zenon DEF Pipes!First, Pipes!SelectInSeq
<1>3. I \in SUBSET Nat
  BY <1>1
<1>4. I # {} => Pipes!Min(I) \in I /\ \A i \in I : Pipes!Min(I) <= i
  BY Zenon, <1>3, LeastNat DEF Pipes!Min
<1>5. CASE I = {}
  BY <1>1, <1>2, <1>5
<1>6. CASE I # {}
  <2>1. Pipes!First(q, st) \in I /\ \A i \in I : Pipes!First(q, st) <= i
    BY <1>2, <1>4, <1>6
  <2>2. QED
    BY <2>1, <1>1
<1>7. QED
  BY <1>5, <1>6

LEMMA PipeGot ==
  ASSUME Pipes!TypeOK, NEW q \in {"workers", "pending", "waiting"}, NEW st
  PROVE  /\ Pipes!Rest(q, st) \in Seq(PipeIds)
         /\ \A i \in DOMAIN Pipes!Rest(q, st) : Pipes!In(q, Pipes!Rest(q, st)[i])
         /\ (\A i, j \in DOMAIN queue[q] : queue[q][i] = queue[q][j] => i = j) =>
              /\ \A i, j \in DOMAIN Pipes!Rest(q, st) :
                   Pipes!Rest(q, st)[i] = Pipes!Rest(q, st)[j] => i = j
              /\ \A i \in DOMAIN Pipes!Rest(q, st) : Pipes!Rest(q, st)[i] # Pipes!Got(q, st)
         /\ \/ /\ Pipes!Got(q, st) = None /\ Pipes!Rest(q, st) = <<>>
               /\ \A i \in DOMAIN queue[q] : status[queue[q][i]] # st
            \/ /\ Pipes!Got(q, st) \in PipeIds /\ Pipes!In(q, Pipes!Got(q, st))
               /\ status[Pipes!Got(q, st)] = st
<1> DEFINE f == Pipes!First(q, st)
           s == queue[q]
<1>1. s \in Seq(PipeIds) /\ Len(s) \in Nat /\ DOMAIN s = 1 .. Len(s)
  BY DEF Pipes!TypeOK
<1>2. f \in 0 .. Len(s)
  BY PipeFirst
<1>3. CASE f = 0
  <2>1. Pipes!Rest(q, st) = <<>> /\ Pipes!Got(q, st) = None
    BY <1>3 DEF Pipes!Rest, Pipes!Got
  <2>2. \A i \in DOMAIN s : status[s[i]] # st
    BY <1>3, PipeFirst
  <2> HIDE DEF f, s
  <2>3. QED
    BY <2>1, <2>2 DEF s
<1>4. CASE f # 0
  <2>1. Pipes!Rest(q, st) = SubSeq(s, f + 1, Len(s)) /\ Pipes!Got(q, st) = s[f]
    BY <1>4 DEF Pipes!Rest, Pipes!Got
  <2>2. status[s[f]] = st
    BY <1>4, PipeFirst
  <2> HIDE DEF f
  <2>3. /\ SubSeq(s, f + 1, Len(s)) \in Seq(PipeIds)
        /\ DOMAIN SubSeq(s, f + 1, Len(s)) = 1 .. Len(s) - f
        /\ \A i \in 1 .. Len(s) - f : SubSeq(s, f + 1, Len(s))[i] = s[f + i]
    <3> HIDE DEF s
    <3>1. QED
      BY <1>1, <1>2, <1>4
  <2>4. \A i \in 1 .. Len(s) - f : f + i \in DOMAIN s /\ f + i # f
    BY <1>1, <1>2, <1>4
  <2>5. f \in DOMAIN s
    BY <1>1, <1>2, <1>4
  <2>6. \A i \in DOMAIN s : Pipes!In(q, s[i]) /\ s[i] \in PipeIds
    BY <1>1 DEF Pipes!In
  <2> DEFINE k == SubSeq(s, f + 1, Len(s))
  <2>7. /\ k \in Seq(PipeIds) /\ \A i \in DOMAIN k : f + i \in DOMAIN s /\ f + i # f /\ k[i] = s[f + i]
        /\ \A i \in DOMAIN k : i \in Nat
    BY <2>3, <2>4, <1>1, <1>2
  <2> HIDE DEF s, k
  <2>8. (\A i, j \in DOMAIN s : s[i] = s[j] => i = j) =>
              /\ \A i, j \in DOMAIN k : k[i] = k[j] => i = j
              /\ \A i \in DOMAIN k : k[i] # s[f]
    <3>1. f \in Nat
      BY <1>1, <1>2
    <3>2. QED
      BY <2>7, <2>5, <3>1
  <2>9. QED
    BY <2>1, <2>2, <2>5, <2>6, <2>7, <2>8 DEF s, k
<1>5. QED
  BY <1>3, <1>4

LEMMA PipeTo ==
  ASSUME Pipes!TypeOK, NEW t \in Routers, NEW l \in Pipes!Places, Pipes!To(t, l)
  PROVE  /\ thread' \in [Routers -> Pipes!Thread]
         /\ thread'[t].at = l /\ thread'[t].s = thread[t].s /\ thread'[t].c = thread[t].c
         /\ thread'[t].w = thread[t].w /\ thread'[t].data = thread[t].data
         /\ \A u \in Routers : u # t => thread'[u] = thread[u]
BY DEF Pipes!TypeOK, Pipes!To, Pipes!Thread

LEMMA PipeDone ==
  ASSUME Pipes!TypeOK, NEW t \in Routers, Pipes!Done(t)
  PROVE  /\ thread' \in [Routers -> Pipes!Thread] /\ thread'[t] = Pipes!Idle
         /\ thread'[t].at = "idle" /\ thread'[t].w = None /\ thread'[t].data = <<>>
         /\ \A u \in Routers : u # t => thread'[u] = thread[u]
<1>1. Pipes!Idle \in Pipes!Thread
  BY DEF Pipes!Idle, Pipes!Thread, Pipes!Places
<1>2. Pipes!Idle.at = "idle" /\ Pipes!Idle.w = None /\ Pipes!Idle.data = <<>>
  BY DEF Pipes!Idle
<1>3. QED
  BY <1>1, <1>2 DEF Pipes!TypeOK, Pipes!Done

LEMMA PipeStatus ==
  ASSUME Pipes!TypeOK, NEW s \in PipeIds, NEW st \in {0, 1, 2, 4, 16}, Pipes!SetStatus(s, st)
  PROVE  /\ status' \in [PipeIds -> {0, 1, 2, 4, 16}]
         /\ \A r \in PipeIds : r # s => status'[r] = status[r]
         /\ status'[s] = IF Pipes!May(s, st) THEN st ELSE status[s]
BY DEF Pipes!TypeOK, Pipes!SetStatus, Pipes!Down, Pipes!Conn, Pipes!Work, Pipes!Wait, Pipes!Pipe

LEMMA PipeCat ==
  ASSUME NEW a \in Seq(Pipes!Packet), NEW b \in Seq(Pipes!Packet)
  PROVE  /\ a \o b \in Seq(Pipes!Packet) /\ Len(a \o b) = Len(a) + Len(b)
         /\ Len(a) \in Nat /\ Len(b) \in Nat
         /\ \A i \in DOMAIN (a \o b) : \/ i \in DOMAIN a /\ (a \o b)[i] = a[i]
                                       \/ i - Len(a) \in DOMAIN b /\ (a \o b)[i] = b[i - Len(a)]
         /\ \A s : Pipes!From(a, s) /\ Pipes!From(b, s) => Pipes!From(a \o b, s)
         /\ \A k \in Nat : Pipes!Counts(a, k) /\ Pipes!Counts(b, k + Len(a)) => Pipes!Counts(a \o b, k)
<1>1. /\ a \o b \in Seq(Pipes!Packet) /\ Len(a \o b) = Len(a) + Len(b)
      /\ Len(a) \in Nat /\ Len(b) \in Nat
      /\ \A i \in DOMAIN (a \o b) : \/ i \in DOMAIN a /\ (a \o b)[i] = a[i]
                                    \/ i - Len(a) \in DOMAIN b /\ (a \o b)[i] = b[i - Len(a)]
  OBVIOUS
<1> DEFINE c == a \o b
<1>2. \A i \in DOMAIN c : i \in Nat
  OBVIOUS
<1> HIDE DEF c
<1>3. \A s : Pipes!From(a, s) /\ Pipes!From(b, s) => Pipes!From(c, s)
  BY <1>1 DEF c, Pipes!From
<1>4. \A k \in Nat : Pipes!Counts(a, k) /\ Pipes!Counts(b, k + Len(a)) => Pipes!Counts(c, k)
  BY <1>1, <1>2 DEF c, Pipes!Counts
<1>5. QED
  BY <1>1, <1>3, <1>4 DEF c

LEMMA PipeSend ==
  ASSUME Pipes!TypeOK, NEW s \in PipeIds \cup {None}, NEW data \in Seq(Pipes!Packet), Pipes!Send(s, data)
  PROVE  /\ out' \in [PipeIds -> Seq(Pipes!Packet)]
         /\ \A r \in PipeIds : out'[r] = IF r = s /\ sock[s].role # "free" THEN out[r] \o data ELSE out[r]
<1>1. out \in [PipeIds -> Seq(Pipes!Packet)]
  BY DEF Pipes!TypeOK
<1>2. CASE Pipes!Up(s)
  <2>1. s \in PipeIds /\ sock[s].role # "free" /\ out' = [out EXCEPT ![s] = out[s] \o data]
    BY <1>2 DEF Pipes!Up, Pipes!Send
  <2>2. out[s] \o data \in Seq(Pipes!Packet)
    BY <1>1, <2>1, PipeCat
  <2>3. QED
    BY <1>1, <2>1, <2>2
<1>3. CASE ~ Pipes!Up(s)
  BY <1>1, <1>3, PipeAssumption DEF Pipes!Up, Pipes!Send
<1>4. QED
  BY <1>2, <1>3

(* What was said of a socket stays true of what it was.                    *)
Keeps ==
  \A x \in PipeIds : \A k \in {"public", "ready"} : Pipes!Was(x, k) =>
    /\ Pipes!Was(x, k)'
    /\ sock'[x].role = k => sock[x].role = k /\ sock'[x].sent >= sock[x].sent
RouteKeeps ==
  \A w \in PipeIds : route["public"][w] # None => route'["public"][w] = route["public"][w]

LEMMA PipeSame ==
  ASSUME Pipes!TypeOK, Pipes!TypeOK',
         \A x \in PipeIds : sock'[x].role = sock[x].role /\ sock'[x].life = sock[x].life
                            /\ sock'[x].sent >= sock[x].sent
  PROVE  Keeps
BY DEF Keeps, Pipes!Was

LEMMA PipeWorking ==
  ASSUME Pipes!TypeOK, Pipes!TypeOK', Keeps, RouteKeeps, NEW u \in Routers,
         Pipes!Working(u), thread'[u] = thread[u],
         thread[u].at # "idle" =>
           /\ sock'[thread[u].s].role = sock[thread[u].s].role
           /\ sock'[thread[u].s].sent >= sock[thread[u].s].sent
           /\ thread[u].at = "ready" => status'[thread[u].s] = status[thread[u].s]
  PROVE  Pipes!Working(u)'
<1> DEFINE r == thread[u]
<1> USE PipeAssumption
<1>0. r \in Pipes!Thread
  BY DEF Pipes!TypeOK
<1>1. IF r.at = "idle" THEN r = Pipes!Idle ELSE r.s \in PipeIds /\ sock'[r.s].role # "free"
  BY DEF Pipes!Working
<1>2. Pipes!From(r.data, IF r.at = "send" THEN r.c ELSE r.s)
  BY DEF Pipes!Working
<1>3. r.at = "enqueue" => sock'[r.s].role = "public" /\ sock'[r.s].sent > 0
  <2>1. r.at = "enqueue" => sock[r.s].role = "public" /\ sock[r.s].sent > 0 /\ r.s \in PipeIds
    BY DEF Pipes!Working
  <2>2. r.at = "enqueue" => sock[r.s].sent \in Nat /\ sock'[r.s].sent \in Nat
    BY <2>1 DEF Pipes!TypeOK, Pipes!Socket
  <2>3. r.at = "enqueue" => sock'[r.s].role = sock[r.s].role /\ sock'[r.s].sent >= sock[r.s].sent
    OBVIOUS
  <2> HIDE DEF r
  <2>4. QED
    BY <2>1, <2>2, <2>3
<1>4. r.at = "ready" => sock'[r.s].role = "ready" /\ status'[r.s] = Pipes!Conn
  BY DEF Pipes!Working
<1>4c. r.at = "control" => sock'[r.s].role = "control"
  BY DEF Pipes!Working
<1>5. r.at \in Pipes!Joining =>
       r.c \in PipeIds /\ Pipes!Was(r.c, "public")' /\ (sock'[r.c].role = "public" => sock'[r.c].sent > 0)
  <2>1. r.at \in Pipes!Joining =>
       r.c \in PipeIds /\ Pipes!Was(r.c, "public") /\ (sock[r.c].role = "public" => sock[r.c].sent > 0)
    BY DEF Pipes!Working
  <2>2. r.at \in Pipes!Joining => sock[r.c].sent \in Nat /\ sock'[r.c].sent \in Nat
    BY <2>1 DEF Pipes!TypeOK, Pipes!Socket
  <2>3. r.at \in Pipes!Joining =>
          /\ Pipes!Was(r.c, "public")'
          /\ sock'[r.c].role = "public" => sock[r.c].role = "public" /\ sock'[r.c].sent >= sock[r.c].sent
    BY <2>1 DEF Keeps, Pipes!Was
  <2>4. r.at \in Pipes!Joining => (sock'[r.c].role = "public" => sock'[r.c].sent > 0)
    <3> HIDE DEF r
    <3>1. QED
      BY <2>1, <2>2, <2>3
  <2>5. QED
    BY <2>1, <2>3, <2>4
<1>6. r.at = "set_route" => r.w \in PipeIds /\ Pipes!Was(r.w, "ready")'
  BY DEF Pipes!Working, Keeps
<1>7. r.at \in {"set_client", "set_worker", "packets", "send"} =>
       r.w \in PipeIds /\ route'["public"][r.w] = r.c
  BY <1>5 DEF Pipes!Working, RouteKeeps, Pipes!Joining
<1>8. r.at = "forward" /\ r.w # None =>
       IF sock'[r.s].role = "public" THEN route'["public"][r.w] = r.s
       ELSE Pipes!Was(r.s, "ready")' /\ Pipes!Was(r.w, "public")'
  <2> SUFFICES ASSUME r.at = "forward", r.w # None
               PROVE  IF sock'[r.s].role = "public" THEN route'["public"][r.w] = r.s
                      ELSE Pipes!Was(r.s, "ready")' /\ Pipes!Was(r.w, "public")'
    OBVIOUS
  <2>1. r.s \in PipeIds /\ r.w \in PipeIds
    BY <1>0, <1>1 DEF Pipes!Thread
  <2>2. IF sock[r.s].role = "public" THEN route["public"][r.w] = r.s
        ELSE Pipes!Was(r.s, "ready") /\ Pipes!Was(r.w, "public")
    BY DEF Pipes!Working
  <2>3. QED
    BY <2>1, <2>2 DEF Keeps, RouteKeeps
<1>9. QED
  BY <1>1, <1>2, <1>3, <1>4, <1>4c, <1>5, <1>6, <1>7, <1>8 DEF Pipes!Working, Pipes!Was, Pipes!From

LEMMA PipeApart ==
  ASSUME Pipes!Apart, NEW t \in Routers, thread[t].at # "idle",
         \A u \in Routers : u # t => thread'[u] = thread[u],
         IF thread'[t].at = "idle" THEN thread'[t] = Pipes!Idle ELSE thread'[t].s = thread[t].s,
         \A u \in Routers : Pipes!Working(u)
  PROVE  Pipes!Apart'
<1>1. \A u \in Routers : thread[u].at # "idle" => thread[u].s \in PipeIds
  BY DEF Pipes!Working
<1>2. thread'[t].at = "idle" => thread'[t].s = None
  BY DEF Pipes!Idle
<1>3. ASSUME NEW x \in Routers, NEW y \in Routers, thread'[x].at # "idle", thread'[x].s = thread'[y].s
      PROVE  x = y
  <2>1. CASE x = t
    BY <1>3, <2>1 DEF Pipes!Apart, Pipes!At
  <2>2. CASE x # t /\ y = t
    <3>1. thread'[y].at # "idle"
      BY <1>1, <1>2, <1>3, <2>2, PipeAssumption
    <3>2. QED
      BY <1>3, <2>2, <3>1 DEF Pipes!Apart, Pipes!At
  <2>3. CASE x # t /\ y # t
    BY <1>3, <2>3 DEF Pipes!Apart, Pipes!At
  <2>4. QED
    BY <2>1, <2>2, <2>3
<1>4. QED
  BY <1>3 DEF Pipes!Apart, Pipes!At

LEMMA PipeOnce ==
  ASSUME Pipes!Once, Keeps, route' = route,
         queue'["pending"] = queue["pending"] \/
           \A i, j \in DOMAIN queue'["pending"] : queue'["pending"][i] = queue'["pending"][j] => i = j,
         \A w \in PipeIds : Pipes!In("pending", w)' => Pipes!In("pending", w),
         \A c \in PipeIds : Pipes!In("waiting", c)' =>
           \/ Pipes!In("waiting", c)
           \/ Pipes!Was(c, "public") /\ (sock[c].role = "public" => sock[c].sent > 0),
         \A u \in Routers, w \in PipeIds : Pipes!Takes(u, w)' => Pipes!Takes(u, w),
         \A w \in PipeIds : sock'[w].role = "ready" /\ status'[w] = Pipes!Conn =>
           (sock[w].role = "ready" /\ status[w] = Pipes!Conn) \/ (~ Pipes!In("pending", w) /\ Pipes!Unjoined(w)),
         Pipes!TypeOK, Pipes!TypeOK'
  PROVE  Pipes!Once'
<1>1. \A i, j \in DOMAIN queue'["pending"] : queue'["pending"][i] = queue'["pending"][j] => i = j
  BY DEF Pipes!Once
<1>2. \A w \in PipeIds : Pipes!Unjoined(w) => Pipes!Unjoined(w)'
  BY DEF Pipes!Unjoined
<1>3. \A w \in PipeIds : Pipes!In("pending", w)' => Pipes!In("pending", w)
  OBVIOUS
<1>4. ASSUME NEW w \in PipeIds
      PROVE  /\ Pipes!In("pending", w)' => Pipes!Was(w, "ready")' /\ Pipes!Unjoined(w)'
             /\ sock'[w].role = "ready" /\ status'[w] = Pipes!Conn => ~ Pipes!In("pending", w)' /\ Pipes!Unjoined(w)'
             /\ \A t \in Routers : Pipes!Takes(t, w)' =>
                  route'["public"][w] = None /\ \A u \in Routers : Pipes!Takes(u, w)' => u = t
  <2>1. /\ Pipes!In("pending", w) => Pipes!Was(w, "ready") /\ Pipes!Unjoined(w)
        /\ sock[w].role = "ready" /\ status[w] = Pipes!Conn => ~ Pipes!In("pending", w) /\ Pipes!Unjoined(w)
        /\ \A t \in Routers : Pipes!Takes(t, w) =>
             route["public"][w] = None /\ \A u \in Routers : Pipes!Takes(u, w) => u = t
    BY DEF Pipes!Once
  <2>2. Pipes!Was(w, "ready") => Pipes!Was(w, "ready")'
    BY DEF Keeps
  <2>3. QED
    BY <1>2, <1>3, <2>1, <2>2
<1>5. ASSUME NEW c \in PipeIds, Pipes!In("waiting", c)'
      PROVE  Pipes!Was(c, "public")' /\ (sock'[c].role = "public" => sock'[c].sent > 0)
  <2>1. Pipes!Was(c, "public") /\ (sock[c].role = "public" => sock[c].sent > 0)
    BY <1>5 DEF Pipes!Once
  <2>2. sock[c].sent \in Nat /\ sock'[c].sent \in Nat
    BY DEF Pipes!TypeOK, Pipes!Socket
  <2>3. /\ Pipes!Was(c, "public")'
        /\ sock'[c].role = "public" => sock[c].role = "public" /\ sock'[c].sent >= sock[c].sent
    BY <2>1 DEF Keeps
  <2>4. QED
    BY <2>1, <2>2, <2>3
<1>6. QED
  BY <1>1, <1>4, <1>5 DEF Pipes!Once

LEMMA PipeSent ==
  ASSUME Pipes!TypeOK, Pipes!TypeOK', Keeps, NEW c \in PipeIds, Pipes!Was(c, "public"),
         sock[c].role = "public" => sock[c].sent > 0
  PROVE  Pipes!Was(c, "public")' /\ (sock'[c].role = "public" => sock'[c].sent > 0)
<1>1. sock[c].sent \in Nat /\ sock'[c].sent \in Nat
  BY DEF Pipes!TypeOK, Pipes!Socket
<1>2. /\ Pipes!Was(c, "public")'
      /\ sock'[c].role = "public" => sock[c].role = "public" /\ sock'[c].sent >= sock[c].sent
  BY DEF Keeps
<1>3. QED
  BY <1>1, <1>2

LEMMA PipeRouted ==
  ASSUME Pipes!Routed, Keeps, route' = route, Pipes!TypeOK, Pipes!TypeOK'
  PROVE  Pipes!Routed'
<1>1. ASSUME NEW w \in PipeIds, route["public"][w] # None
      PROVE  LET c == route["public"][w] IN
             Pipes!Was(w, "ready")' /\ Pipes!Was(c, "public")' /\ (sock'[c].role = "public" => sock'[c].sent > 0)
  <2> DEFINE c == route["public"][w]
  <2>1. Pipes!Was(w, "ready") /\ Pipes!Was(c, "public") /\ (sock[c].role = "public" => sock[c].sent > 0)
    BY <1>1 DEF Pipes!Routed
  <2>2. c \in PipeIds
    BY <1>1 DEF Pipes!TypeOK
  <2>3. Pipes!Was(w, "ready")'
    BY <2>1 DEF Keeps
  <2> HIDE DEF c
  <2>4. \A d \in PipeIds : Pipes!Was(d, "public") /\ (sock[d].role = "public" => sock[d].sent > 0)
           => Pipes!Was(d, "public")' /\ (sock'[d].role = "public" => sock'[d].sent > 0)
    BY PipeSent
  <2>5. c' = c
    BY DEF c
  <2>6. QED
    BY <2>1, <2>2, <2>3, <2>4, <2>5 DEF c, Pipes!Was
<1>2. QED
  BY <1>1 DEF Pipes!Routed, Pipes!Was

LEMMA PipeOwned ==
  ASSUME Pipes!Owned, Keeps, route' = route, packets' = packets, out' = out, Pipes!TypeOK, Pipes!TypeOK',
         \A s \in PipeIds : sock'[s].role = sock[s].role /\ sock'[s].life = sock[s].life
                            /\ Pipes!From(sock'[s].kept, s)
  PROVE  Pipes!Owned'
<1> SUFFICES ASSUME NEW s \in PipeIds
             PROVE  /\ sock'[s].role # "free" => sock'[s].life > 0
                    /\ Pipes!From(packets'[s], s) /\ Pipes!From(sock'[s].kept, s)
                    /\ packets'[s] # <<>> => Pipes!Was(s, "public")'
                    /\ sock'[s].role = "ready" => Pipes!From(out'[s], route'["public"][s])
                    /\ sock'[s].role = "public" => \A i \in DOMAIN out'[s] : Pipes!Was(out[s][i].from, "ready")'
  BY DEF Pipes!Owned, Pipes!From, Pipes!Was
<1>1. /\ sock[s].role # "free" => sock[s].life > 0
      /\ Pipes!From(packets[s], s) /\ Pipes!From(sock[s].kept, s)
      /\ packets[s] # <<>> => Pipes!Was(s, "public")
      /\ sock[s].role = "ready" => Pipes!From(out[s], route["public"][s])
      /\ sock[s].role = "public" => \A i \in DOMAIN out[s] : Pipes!Was(out[s][i].from, "ready")
  BY DEF Pipes!Owned
<1>2. Pipes!From(sock'[s].kept, s)
  OBVIOUS
<1>3. \A i \in DOMAIN out[s] : out[s][i].from \in PipeIds
  <2>1. out[s] \in Seq(Pipes!Packet)
    BY DEF Pipes!TypeOK
  <2>2. \A i \in DOMAIN out[s] : out[s][i] \in Pipes!Packet
    BY <2>1
  <2>3. QED
    BY <2>2 DEF Pipes!Packet
<1>4. sock[s].role = "public" => \A i \in DOMAIN out[s] : Pipes!Was(out[s][i].from, "ready")'
  BY <1>1, <1>3 DEF Keeps, Pipes!Was
<1>5. QED
  BY <1>1, <1>2, <1>4 DEF Keeps

(* One thread: that of the step is the one that works.                     *)
LEMMA PipeAlone ==
  ASSUME Pipes!Alone, alone' = alone, NEW t \in Routers, thread[t].at # "idle",
         \A u \in Routers : u # t => thread'[u] = thread[u],
         thread'[t].at = "idle" => thread'[t] = Pipes!Idle,
         alone /\ Pipes!Fine(thread[t]) => Pipes!Fine(thread[t])'
  PROVE  Pipes!Alone'
<1> SUFFICES ASSUME alone PROVE Pipes!Alone'
  BY DEF Pipes!Alone
<1>1. \A u \in Routers : u # t => thread[u].at = "idle"
  BY DEF Pipes!Alone, Pipes!At
<1>2. Pipes!Fine(thread[t])
  BY DEF Pipes!Alone, Pipes!At
<1>3. Pipes!Fine(thread[t])'
  BY <1>2
<1>4. QED
  BY <1>1, <1>3 DEF Pipes!Alone, Pipes!At

LEMMA PipeStep ==
  ASSUME Pipes!IInv, NEW t \in Routers, thread[t].at # "idle", alone' = alone,
         \A u \in Routers : u # t => thread'[u] = thread[u],
         IF thread'[t].at = "idle" THEN thread'[t] = Pipes!Idle ELSE thread'[t].s = thread[t].s,
         Pipes!TypeOK', Keeps, RouteKeeps,
         \A s \in PipeIds : s # thread[t].s =>
           /\ sock'[s].role = sock[s].role /\ sock'[s].sent >= sock[s].sent
           /\ sock[s].role = "ready" /\ status[s] = Pipes!Conn /\ ~ Pipes!In("pending", s)
              /\ Pipes!Unjoined(s) => status'[s] = status[s],
         Pipes!Working(t)', Pipes!Once', Pipes!Routed', Pipes!Owned',
         alone /\ Pipes!Fine(thread[t]) => Pipes!Fine(thread[t])'
  PROVE  Pipes!IInv'
<1>1. /\ Pipes!TypeOK /\ Pipes!Apart /\ Pipes!Once /\ Pipes!Alone
      /\ \A u \in Routers : Pipes!Working(u)
  BY DEF Pipes!IInv
<1>2. ASSUME NEW u \in Routers PROVE Pipes!Working(u)'
  <2>1. CASE u = t
    BY <2>1
  <2>2. CASE u # t
    <3>1. thread'[u] = thread[u] /\ Pipes!Working(u)
      BY <1>1, <2>2
    <3>2. thread[u].at # "idle" => thread[u].s \in PipeIds /\ thread[u].s # thread[t].s
      BY <1>1, <2>2 DEF Pipes!Apart, Pipes!At, Pipes!Working
    <3>3. thread[u].at = "ready" =>
             sock[thread[u].s].role = "ready" /\ status[thread[u].s] = Pipes!Conn
      BY <1>1 DEF Pipes!Working
    <3>4. thread[u].at = "ready" =>
             ~ Pipes!In("pending", thread[u].s) /\ Pipes!Unjoined(thread[u].s)
      BY <1>1, <3>2, <3>3 DEF Pipes!Once
    <3>5. QED
      BY <1>1, <3>1, <3>2, <3>3, <3>4, PipeWorking
  <2>3. QED
    BY <2>1, <2>2
<1>3. Pipes!Apart'
  BY <1>1, PipeApart
<1>4. Pipes!Alone'
  BY <1>1, PipeAlone
<1>5. QED
  BY <1>2, <1>3, <1>4 DEF Pipes!IInv

LEMMA PipeClose ==
  ASSUME Pipes!TypeOK, NEW w \in PipeIds, sock' = [sock EXCEPT ![w].closing = TRUE]
  PROVE  /\ sock' \in [PipeIds -> Pipes!Socket]
         /\ \A s \in PipeIds : /\ sock'[s].role = sock[s].role /\ sock'[s].life = sock[s].life
                               /\ sock'[s].sent = sock[s].sent /\ sock'[s].kept = sock[s].kept
<1>1. sock \in [PipeIds -> Pipes!Socket]
  BY DEF Pipes!TypeOK
<1>2. [sock[w] EXCEPT !.closing = TRUE] \in Pipes!Socket
  BY <1>1 DEF Pipes!Socket
<1>3. /\ [sock[w] EXCEPT !.closing = TRUE].role = sock[w].role
      /\ [sock[w] EXCEPT !.closing = TRUE].life = sock[w].life
      /\ [sock[w] EXCEPT !.closing = TRUE].sent = sock[w].sent
      /\ [sock[w] EXCEPT !.closing = TRUE].kept = sock[w].kept
  BY <1>1 DEF Pipes!Socket
<1> DEFINE x == [sock[w] EXCEPT !.closing = TRUE]
<1>4. sock' = [sock EXCEPT ![w] = x]
  OBVIOUS
<1> HIDE DEF x
<1>5. QED
  BY <1>1, <1>2, <1>3, <1>4 DEF x

(* A handler that has nothing but its socket.                              *)
LEMMA PipePlain ==
  ASSUME NEW t \in Routers,
         thread'[t].at \in {"egress_down", "set_down", "drop", "pipe", "dequeue_waiting"},
         thread'[t].s \in PipeIds, sock'[thread'[t].s].role # "free",
         Pipes!From(thread'[t].data, thread'[t].s)
  PROVE  Pipes!Working(t)'
BY DEF Pipes!Working, Pipes!From, Pipes!Joining

LEMMA PipeIdle ==
  ASSUME NEW t \in Routers, thread'[t] = Pipes!Idle
  PROVE  Pipes!Working(t)'
BY DEF Pipes!Working, Pipes!From, Pipes!Joining, Pipes!Idle

LEMMA PipeFlow ==
  ASSUME Pipes!TypeOK, NEW t \in Routers, NEW c \in PipeIds, Pipes!Flow(thread[t], c),
         packets'[c] = packets[c], route'["worker"][c] = route["worker"][c],
         sock'[c].kept = sock[c].kept, sock'[c].sent = sock[c].sent,
         \A w \in PipeIds : route["worker"][c] = w /\ sock'[w].role = "ready" =>
           sock[w].role = "ready" /\ out'[w] = out[w],
         Pipes!Hand(thread'[t], c) = Pipes!Hand(thread[t], c),
         packets[c] # <<>> /\ thread[t].at \in {"set_client", "set_worker", "packets", "send"} /\ thread[t].c = c
           => thread'[t].at \in {"set_client", "set_worker", "packets", "send"} /\ thread'[t].c = c
  PROVE  Pipes!Flow(thread[t], c)'
<1>1. route["worker"][c] \in PipeIds \cup {None}
  BY DEF Pipes!TypeOK
<1>2. Pipes!Hand(thread[t], c)' = Pipes!Hand(thread[t], c)
  BY DEF Pipes!Hand
<1> DEFINE h == Pipes!Hand(thread[t], c)
           w == route["worker"][c]
<1>3. h' = h /\ w' = w
  BY <1>2
<1>4. /\ sock[c].kept = <<>>
      /\ w = None =>
           /\ Pipes!Counts(packets[c], 0) /\ Pipes!Counts(h, Len(packets[c]))
           /\ sock[c].sent = Len(packets[c]) + Len(h)
      /\ w # None /\ packets[c] # <<>> =>
           thread[t].at \in {"set_client", "set_worker", "packets", "send"} /\ thread[t].c = c
      /\ w # None /\ sock[w].role = "ready" =>
           /\ Pipes!Counts(out[w], 0) /\ Pipes!Counts(h, Len(out[w]))
           /\ Pipes!Counts(packets[c], Len(out[w]) + Len(h))
           /\ sock[c].sent = Len(out[w]) + Len(h) + Len(packets[c])
  BY DEF Pipes!Flow
<1>5. w # None /\ sock'[w].role = "ready" => sock[w].role = "ready" /\ out'[w] = out[w]
  BY <1>1
<1> HIDE DEF h, w
<1>6. /\ sock'[c].kept = <<>>
      /\ w = None =>
           /\ Pipes!Counts(packets'[c], 0) /\ Pipes!Counts(h, Len(packets'[c]))
           /\ sock'[c].sent = Len(packets'[c]) + Len(h)
      /\ w # None /\ packets'[c] # <<>> =>
           thread'[t].at \in {"set_client", "set_worker", "packets", "send"} /\ thread'[t].c = c
      /\ w # None /\ sock'[w].role = "ready" =>
           /\ Pipes!Counts(out'[w], 0) /\ Pipes!Counts(h, Len(out'[w]))
           /\ Pipes!Counts(packets'[c], Len(out'[w]) + Len(h))
           /\ sock'[c].sent = Len(out'[w]) + Len(h) + Len(packets'[c])
  BY <1>4, <1>5
<1>7. QED
  BY <1>3, <1>6 DEF Pipes!Flow, Pipes!Counts, h, w

(* A connection is lost.                                                   *)
LEMMA PipeEgressDown ==
  ASSUME Pipes!IInv, NEW t \in Routers, Pipes!EgressDown(t)
  PROVE  Pipes!IInv'
<1> DEFINE r == thread[t]
<1>1. /\ Pipes!TypeOK /\ Pipes!Once /\ Pipes!Routed /\ Pipes!Owned /\ Pipes!Working(t)
      /\ r \in Pipes!Thread
  BY DEF Pipes!IInv, Pipes!TypeOK
<1>2. /\ r.at = "egress_down" /\ Pipes!To(t, "set_down") /\ alone' = alone /\ status' = status /\ queue' = queue
      /\ packets' = packets /\ route' = route /\ out' = out /\ asked' = asked
      /\ sock' = sock \/ (r.w \in PipeIds /\ sock' = [sock EXCEPT ![r.w].closing = TRUE])
  BY <1>1 DEF Pipes!EgressDown, Pipes!At, Pipes!Up, Pipes!Thread
<1>3. /\ thread' \in [Routers -> Pipes!Thread]
      /\ thread'[t].at = "set_down" /\ thread'[t].s = r.s /\ thread'[t].c = r.c
      /\ thread'[t].w = r.w /\ thread'[t].data = r.data
      /\ \A u \in Routers : u # t => thread'[u] = thread[u]
  <2>1. "set_down" \in Pipes!Places
    BY DEF Pipes!Places
  <2>2. QED
    BY <1>1, <1>2, <2>1, PipeTo
<1>4. /\ \A s \in PipeIds : /\ sock'[s].role = sock[s].role /\ sock'[s].life = sock[s].life
                            /\ sock'[s].sent = sock[s].sent /\ sock'[s].kept = sock[s].kept
      /\ sock' \in [PipeIds -> Pipes!Socket]
  <2>1. CASE sock' = sock
    BY <1>1, <2>1 DEF Pipes!TypeOK
  <2>2. CASE r.w \in PipeIds /\ sock' = [sock EXCEPT ![r.w].closing = TRUE]
    BY <1>1, <2>2, PipeClose
  <2>3. QED
    BY <1>2, <2>1, <2>2
<1>4t. Pipes!TypeOK'
  BY <1>1, <1>2, <1>3, <1>4 DEF Pipes!TypeOK
<1>5. \A s \in PipeIds : sock[s].sent \in Nat /\ sock'[s].sent >= sock[s].sent
  BY <1>1, <1>4 DEF Pipes!TypeOK, Pipes!Socket
<1>6. Keeps /\ RouteKeeps
  <2>1. Keeps
    BY <1>1, <1>4, <1>4t, <1>5, PipeSame
  <2>2. QED
    BY <1>2, <2>1 DEF RouteKeeps
<1>7. Pipes!Working(t)'
  <2>1. r.s \in PipeIds /\ sock[r.s].role # "free" /\ Pipes!From(r.data, r.s)
    BY <1>1, <1>2 DEF Pipes!Working
  <2>2. QED
    BY <1>3, <1>4, <2>1, PipePlain
<1>8. Pipes!Once'
  <2>1. \A u \in Routers, w \in PipeIds : Pipes!Takes(u, w)' => Pipes!Takes(u, w)
    BY <1>2, <1>3 DEF Pipes!Takes, Pipes!At
  <2>2. \A w \in PipeIds, q \in {"pending", "waiting"} : Pipes!In(q, w)' => Pipes!In(q, w)
    BY <1>2 DEF Pipes!In
  <2>3. QED
    BY <1>1, <1>2, <1>4, <1>4t, <1>6, <2>1, <2>2, PipeOnce
<1>9. Pipes!Routed' /\ Pipes!Owned'
  <2>1. \A s \in PipeIds : Pipes!From(sock'[s].kept, s)
    BY <1>1, <1>4 DEF Pipes!Owned
  <2>2. QED
    BY <1>1, <1>2, <1>4, <1>4t, <1>6, <2>1, PipeRouted, PipeOwned
<1>10. ASSUME alone, Pipes!Fine(thread[t]) PROVE Pipes!Fine(thread[t])'
  <2>1. Pipes!Statuses(thread[t])'
    BY <1>2, <1>3, <1>4, <1>10 DEF Pipes!Fine, Pipes!Statuses
  <2>2. Pipes!Joins(thread[t])'
    BY <1>2, <1>3, <1>4, <1>10 DEF Pipes!Fine, Pipes!Joins, Pipes!Joining
  <2>3. Pipes!Stalls(thread[t])'
    BY <1>2, <1>3, <1>4, <1>10 DEF Pipes!Fine, Pipes!Stalls, Pipes!In
  <2>3t. Pipes!Tried(thread[t])'
    BY <1>3 DEF Pipes!Tried
  <2>4. \A c \in PipeIds : sock'[c].role = "public" => Pipes!Flow(thread[t], c)'
    <3> SUFFICES ASSUME NEW c \in PipeIds, sock'[c].role = "public" PROVE Pipes!Flow(thread[t], c)'
      OBVIOUS
    <3>1. Pipes!Flow(thread[t], c)
      BY <1>4, <1>10 DEF Pipes!Fine
    <3>2. Pipes!Hand(thread'[t], c) = Pipes!Hand(thread[t], c)
      BY <1>2, <1>3 DEF Pipes!Hand
    <3>3. QED
      BY <1>1, <1>2, <1>3, <1>4, <3>1, <3>2, PipeFlow
  <2>5. QED
    BY <2>1, <2>2, <2>3, <2>3t, <2>4 DEF Pipes!Fine
<1>11. r.at # "idle" /\ status' = status
  BY <1>2
<1>12. IF thread'[t].at = "idle" THEN thread'[t] = Pipes!Idle ELSE thread'[t].s = thread[t].s
  BY <1>3
<1>13. QED
  BY <1>2, <1>3, <1>4, <1>4t, <1>5, <1>6, <1>7, <1>8, <1>9, <1>10, <1>11, <1>12, PipeStep

(* A step of which the sockets, the routes and the packets know nothing.   *)
LEMMA PipeQuiet ==
  ASSUME Pipes!IInv, Pipes!TypeOK', sock' = sock, route' = route, packets' = packets, out' = out
  PROVE  /\ Keeps /\ RouteKeeps /\ Pipes!Routed' /\ Pipes!Owned'
         /\ \A s \in PipeIds : sock'[s].role = sock[s].role /\ sock'[s].sent >= sock[s].sent
<1>1. Pipes!TypeOK /\ Pipes!Routed /\ Pipes!Owned
  BY DEF Pipes!IInv
<1>2. \A s \in PipeIds : sock[s].sent \in Nat /\ sock'[s].sent >= sock[s].sent
  BY <1>1 DEF Pipes!TypeOK, Pipes!Socket
<1>3. Keeps
  BY <1>1, <1>2, PipeSame
<1>4. RouteKeeps
  BY DEF RouteKeeps
<1>5. \A s \in PipeIds : Pipes!From(sock'[s].kept, s)
  BY <1>1 DEF Pipes!Owned
<1>6. QED
  BY <1>1, <1>2, <1>3, <1>4, <1>5, PipeRouted, PipeOwned

LEMMA PipeTakes ==
  ASSUME NEW t \in Routers, \A u \in Routers : u # t => thread'[u] = thread[u],
         thread'[t].at # "set_route"
  PROVE  \A u \in Routers, w \in PipeIds : Pipes!Takes(u, w)' => Pipes!Takes(u, w)
<1> SUFFICES ASSUME NEW u \in Routers, NEW w \in PipeIds, Pipes!Takes(u, w)'
             PROVE  Pipes!Takes(u, w)
  OBVIOUS
<1>1. thread'[u].at = "set_route" /\ thread'[u].w = w
  BY DEF Pipes!Takes, Pipes!At
<1>2. u # t
  BY <1>1
<1>3. QED
  BY <1>1, <1>2 DEF Pipes!Takes, Pipes!At

LEMMA PipeStatuses ==
  ASSUME NEW t \in Routers, Pipes!Statuses(thread[t]), route' = route, status' = status,
         \A s \in PipeIds : sock'[s].role = sock[s].role,
         thread[t].at \notin {"drop", "set_client", "set_worker"},
         thread'[t].at \notin {"drop", "set_client", "set_worker"}
  PROVE  Pipes!Statuses(thread[t])'
BY DEF Pipes!Statuses

LEMMA PipeStalls ==
  ASSUME NEW t \in Routers, Pipes!Stalls(thread[t]),
         thread[t].at \notin {"dequeue_waiting", "get_pipe"},
         \A c \in PipeIds : status'[c] = Pipes!Conn /\ Pipes!In("waiting", c)' =>
                             status[c] = Pipes!Conn /\ Pipes!In("waiting", c),
         \A w \in PipeIds : status'[w] = Pipes!Wait /\ Pipes!In("pending", w)' =>
                             status[w] = Pipes!Wait /\ Pipes!In("pending", w)
  PROVE  Pipes!Stalls(thread[t])'
BY DEF Pipes!Stalls

LEMMA PipeSetDown ==
  ASSUME Pipes!IInv, NEW t \in Routers, Pipes!SetDown(t)
  PROVE  Pipes!IInv'
<1> DEFINE r == thread[t]
<1>1. /\ Pipes!TypeOK /\ Pipes!Once /\ Pipes!Working(t)
      /\ r \in Pipes!Thread
  BY DEF Pipes!IInv, Pipes!TypeOK
<1>2. /\ r.at = "set_down" /\ Pipes!To(t, "drop") /\ Pipes!SetStatus(r.s, 0)
      /\ alone' = alone /\ sock' = sock /\ queue' = queue
      /\ packets' = packets /\ route' = route /\ out' = out /\ asked' = asked
  BY DEF Pipes!SetDown, Pipes!At, Pipes!Down
<1>3. /\ thread' \in [Routers -> Pipes!Thread]
      /\ thread'[t].at = "drop" /\ thread'[t].s = r.s /\ thread'[t].c = r.c
      /\ thread'[t].w = r.w /\ thread'[t].data = r.data
      /\ \A u \in Routers : u # t => thread'[u] = thread[u]
  <2>1. "drop" \in Pipes!Places
    BY DEF Pipes!Places
  <2>2. QED
    BY <1>1, <1>2, <2>1, PipeTo
<1>4. r.s \in PipeIds /\ sock[r.s].role # "free" /\ Pipes!From(r.data, r.s)
  BY <1>1, <1>2 DEF Pipes!Working
<1>5. /\ status' \in [PipeIds -> {0, 1, 2, 4, 16}] /\ status'[r.s] = 0
      /\ \A x \in PipeIds : x # r.s => status'[x] = status[x]
  BY <1>1, <1>2, <1>4, PipeStatus DEF Pipes!May, Pipes!Down
<1>6. Pipes!TypeOK'
  BY <1>1, <1>2, <1>3, <1>5
     DEF Pipes!TypeOK, Pipes!Down, Pipes!Conn, Pipes!Work, Pipes!Wait, Pipes!Pipe
<1>7. /\ Keeps /\ RouteKeeps /\ Pipes!Routed' /\ Pipes!Owned'
      /\ \A s \in PipeIds : sock'[s].role = sock[s].role /\ sock'[s].sent >= sock[s].sent
  BY <1>2, <1>6, PipeQuiet
<1>8. Pipes!Working(t)'
  BY <1>2, <1>3, <1>4, PipePlain
<1>9. Pipes!Once'
  <2>1. \A u \in Routers, w \in PipeIds : Pipes!Takes(u, w)' => Pipes!Takes(u, w)
    BY <1>2, <1>3 DEF Pipes!Takes, Pipes!At
  <2>2. \A w \in PipeIds, q \in {"pending", "waiting"} : Pipes!In(q, w)' => Pipes!In(q, w)
    BY <1>2 DEF Pipes!In
  <2>3. \A w \in PipeIds : status'[w] = Pipes!Conn => status[w] = Pipes!Conn
    BY <1>5 DEF Pipes!Conn
  <2>4. QED
    BY <1>1, <1>2, <1>6, <1>7, <2>1, <2>2, <2>3, PipeOnce
<1>10. ASSUME alone, Pipes!Fine(thread[t]) PROVE Pipes!Fine(thread[t])'
  <2>1. Pipes!Statuses(thread[t])'
    <3>1. Pipes!Statuses(r)
      BY <1>10 DEF Pipes!Fine
    <3> SUFFICES ASSUME NEW x \in PipeIds
                 PROVE  /\ sock[x].role = "free" => status'[x] = 0
                        /\ sock[x].role # "free" => (status'[x] = 0 <=> x = r.s)
                        /\ (status'[x] = 4 => sock[x].role = "ready")
                        /\ (status'[x] = 2 => sock[x].role = "control")
                        /\ sock[x].role = "public" /\ status'[x] # 0 =>
                             (route["worker"][x] # None <=> status'[x] = 16)
                        /\ sock[x].role = "ready" /\ status'[x] # 0 =>
                             (route["public"][x] # None <=> status'[x] = 16)
                        /\ route["public"][x] # None => route["worker"][route["public"][x]] = x
      BY <1>2, <1>3 DEF Pipes!Statuses, Pipes!Down, Pipes!Work, Pipes!Wait, Pipes!Pipe
    <3>2. /\ sock[x].role = "free" => status[x] = 0
          /\ sock[x].role # "free" => status[x] # 0
          /\ (status[x] = 4 => sock[x].role = "ready")
          /\ (status[x] = 2 => sock[x].role = "control")
          /\ sock[x].role = "public" /\ status[x] # 0 =>
               (route["worker"][x] # None <=> status[x] = 16)
          /\ sock[x].role = "ready" /\ status[x] # 0 =>
               (route["public"][x] # None <=> status[x] = 16)
          /\ route["public"][x] # None => route["worker"][route["public"][x]] = x
      BY <1>2, <3>1 DEF Pipes!Statuses, Pipes!Down, Pipes!Work, Pipes!Wait, Pipes!Pipe
    <3>3. IF x = r.s THEN status'[x] = 0 ELSE status'[x] = status[x]
      BY <1>5
    <3> HIDE DEF r
    <3>4. QED
      BY <1>4, <3>2, <3>3
  <2>2. Pipes!Joins(thread[t])'
    BY <1>3 DEF Pipes!Joins, Pipes!Joining
  <2>3. Pipes!Stalls(thread[t])'
    <3>1. \A w \in PipeIds, q \in {"pending", "waiting"} : Pipes!In(q, w)' => Pipes!In(q, w)
      BY <1>2 DEF Pipes!In
    <3>2. \A x \in PipeIds : /\ status'[x] = Pipes!Conn => status[x] = Pipes!Conn
                             /\ status'[x] = Pipes!Wait => status[x] = Pipes!Wait
      BY <1>5 DEF Pipes!Conn, Pipes!Wait
    <3>3. Pipes!Stalls(r) /\ r.at \notin {"dequeue_waiting", "get_pipe"}
      BY <1>2, <1>10 DEF Pipes!Fine
    <3>4. \A c \in PipeIds : status'[c] = Pipes!Conn /\ Pipes!In("waiting", c)' =>
                               status[c] = Pipes!Conn /\ Pipes!In("waiting", c)
      BY <3>1, <3>2
    <3>5. \A w \in PipeIds : status'[w] = Pipes!Wait /\ Pipes!In("pending", w)' =>
                               status[w] = Pipes!Wait /\ Pipes!In("pending", w)
      BY <3>1, <3>2
    <3> HIDE DEF r
    <3>6. QED
      BY <3>3, <3>4, <3>5, PipeStalls DEF r
  <2>4. Pipes!Tried(thread[t])'
    BY <1>3 DEF Pipes!Tried
  <2>5. \A c \in PipeIds : sock'[c].role = "public" => Pipes!Flow(thread[t], c)'
    <3> SUFFICES ASSUME NEW c \in PipeIds, sock'[c].role = "public" PROVE Pipes!Flow(thread[t], c)'
      OBVIOUS
    <3>1. Pipes!Flow(thread[t], c)
      BY <1>2, <1>10 DEF Pipes!Fine
    <3>2. Pipes!Hand(thread'[t], c) = Pipes!Hand(thread[t], c)
      BY <1>2, <1>3 DEF Pipes!Hand
    <3>3. QED
      BY <1>1, <1>2, <3>1, <3>2, PipeFlow
  <2>6. QED
    BY <2>1, <2>2, <2>3, <2>4, <2>5 DEF Pipes!Fine
<1>11. IF thread'[t].at = "idle" THEN thread'[t] = Pipes!Idle ELSE thread'[t].s = thread[t].s
  BY <1>3
<1>12. QED
  BY <1>2, <1>3, <1>5, <1>6, <1>7, <1>8, <1>9, <1>10, <1>11, PipeStep

LEMMA PipeDrop ==
  ASSUME UsedOnce, Pipes!IInv, NEW t \in Routers, Pipes!Drop(t)
  PROVE  Pipes!IInv'
<1> DEFINE r == thread[t]
           s == r.s
<1>1. /\ Pipes!TypeOK /\ Pipes!Once /\ Pipes!Routed /\ Pipes!Owned /\ Pipes!Working(t)
      /\ r \in Pipes!Thread
  BY DEF Pipes!IInv, Pipes!TypeOK
<1>2. /\ r.at = "drop" /\ Pipes!Done(t) /\ packets' = [packets EXCEPT ![s] = <<>>]
      /\ sock' = [sock EXCEPT ![s] = Pipes!Free(sock[s].life)]
      /\ alone' = alone /\ status' = status /\ queue' = queue
      /\ route' = route /\ out' = out /\ asked' = asked
  BY DEF Pipes!Drop, Pipes!At
<1>3. /\ thread' \in [Routers -> Pipes!Thread] /\ thread'[t] = Pipes!Idle
      /\ thread'[t].at = "idle" /\ thread'[t].w = None /\ thread'[t].data = <<>>
      /\ \A u \in Routers : u # t => thread'[u] = thread[u]
  BY <1>1, <1>2, PipeDone
<1>4. s \in PipeIds /\ sock[s].role # "free"
  BY <1>1, <1>2 DEF Pipes!Working
<1>5. /\ sock' \in [PipeIds -> Pipes!Socket] /\ packets' \in [PipeIds -> Seq(Pipes!Packet)]
      /\ sock'[s].role = "free" /\ sock'[s].life = sock[s].life /\ sock'[s].kept = <<>>
      /\ packets'[s] = <<>>
      /\ \A x \in PipeIds : x # s => sock'[x] = sock[x] /\ packets'[x] = packets[x]
  <2>1. Pipes!Free(sock[s].life) \in Pipes!Socket
    BY <1>1, <1>4 DEF Pipes!TypeOK, Pipes!Socket, Pipes!Free, Pipes!Roles
  <2>2. /\ Pipes!Free(sock[s].life).role = "free" /\ Pipes!Free(sock[s].life).kept = <<>>
        /\ Pipes!Free(sock[s].life).life = sock[s].life
    BY DEF Pipes!Free
  <2>3. <<>> \in Seq(Pipes!Packet)
    OBVIOUS
  <2> HIDE DEF s
  <2>4. QED
    BY <1>1, <1>2, <1>4, <2>1, <2>2, <2>3 DEF Pipes!TypeOK
<1>6. Pipes!TypeOK'
  BY <1>1, <1>2, <1>3, <1>5 DEF Pipes!TypeOK
<1>7. Keeps /\ RouteKeeps
  <2>1. sock[s].life = Lives
    <3>1. sock[s].life \in 0 .. Lives /\ sock[s].life > 0
      BY <1>1, <1>4 DEF Pipes!TypeOK, Pipes!Socket, Pipes!Owned
    <3>2. QED
      BY <3>1, PipeAssumption DEF UsedOnce
  <2>2. \A x \in PipeIds : sock[x].sent \in Nat
    BY <1>1 DEF Pipes!TypeOK, Pipes!Socket
  <2> HIDE DEF s
  <2>3. Keeps
    BY <1>5, <2>1, <2>2 DEF Keeps, Pipes!Was
  <2>4. QED
    BY <1>2, <2>3 DEF RouteKeeps
<1>8. Pipes!Working(t)'
  BY <1>3, PipeIdle
<1>9. Pipes!Once'
  <2>1. \A u \in Routers, w \in PipeIds : Pipes!Takes(u, w)' => Pipes!Takes(u, w)
    BY <1>3, PipeTakes
  <2>2. \A w \in PipeIds, q \in {"pending", "waiting"} : Pipes!In(q, w)' => Pipes!In(q, w)
    BY <1>2 DEF Pipes!In
  <2>3. \A w \in PipeIds : sock'[w].role = "ready" => sock[w].role = "ready"
    BY <1>5
  <2>4. QED
    BY <1>1, <1>2, <1>6, <1>7, <2>1, <2>2, <2>3, PipeOnce
<1>10. Pipes!Routed'
  BY <1>1, <1>2, <1>6, <1>7, PipeRouted
<1>11. Pipes!Owned'
  <2> SUFFICES ASSUME NEW x \in PipeIds
               PROVE  /\ sock'[x].role # "free" => sock'[x].life > 0
                      /\ Pipes!From(packets'[x], x) /\ Pipes!From(sock'[x].kept, x)
                      /\ packets'[x] # <<>> => Pipes!Was(x, "public")'
                      /\ sock'[x].role = "ready" => Pipes!From(out'[x], route'["public"][x])
                      /\ sock'[x].role = "public" => \A i \in DOMAIN out'[x] : Pipes!Was(out[x][i].from, "ready")'
    BY DEF Pipes!Owned, Pipes!From, Pipes!Was
  <2>1. CASE x = s
    BY <1>5, <2>1 DEF Pipes!From
  <2>2. CASE x # s
    <3>1. sock'[x] = sock[x] /\ packets'[x] = packets[x] /\ route' = route /\ out' = out
      BY <1>2, <1>5, <2>2
    <3>2. \A i \in DOMAIN out[x] : out[x][i].from \in PipeIds
      <4>1. out[x] \in Seq(Pipes!Packet)
        BY <1>1 DEF Pipes!TypeOK
      <4>2. \A i \in DOMAIN out[x] : out[x][i] \in Pipes!Packet
        BY <4>1
      <4>3. QED
        BY <4>2 DEF Pipes!Packet
    <3>3. /\ sock[x].role # "free" => sock[x].life > 0
          /\ Pipes!From(packets[x], x) /\ Pipes!From(sock[x].kept, x)
          /\ packets[x] # <<>> => Pipes!Was(x, "public")
          /\ sock[x].role = "ready" => Pipes!From(out[x], route["public"][x])
          /\ sock[x].role = "public" => \A i \in DOMAIN out[x] : Pipes!Was(out[x][i].from, "ready")
      BY <1>1 DEF Pipes!Owned
    <3>4. sock[x].role = "public" => \A i \in DOMAIN out[x] : Pipes!Was(out[x][i].from, "ready")'
      BY <1>7, <3>1, <3>2, <3>3 DEF Keeps, Pipes!Was
    <3>5. QED
      BY <1>7, <3>1, <3>3, <3>4 DEF Keeps
  <2>3. QED
    BY <2>1, <2>2
<1>12. ASSUME alone, Pipes!Fine(thread[t]) PROVE Pipes!Fine(thread[t])'
  <2>1. Pipes!Statuses(thread[t])'
    <3>1. Pipes!Statuses(r)
      BY <1>12 DEF Pipes!Fine
    <3> SUFFICES ASSUME NEW x \in PipeIds
                 PROVE  /\ sock'[x].role = "free" => status[x] = 0
                        /\ sock'[x].role # "free" => status[x] # 0
                        /\ (status[x] = 4 => sock'[x].role = "ready")
                        /\ (status[x] = 2 => sock'[x].role = "control")
                        /\ sock'[x].role = "public" /\ status[x] # 0 =>
                             (route["worker"][x] # None <=> status[x] = 16)
                        /\ sock'[x].role = "ready" /\ status[x] # 0 =>
                             (route["public"][x] # None <=> status[x] = 16)
                        /\ route["public"][x] # None => route["worker"][route["public"][x]] = x
      BY <1>2, <1>3 DEF Pipes!Statuses, Pipes!Down, Pipes!Work, Pipes!Wait, Pipes!Pipe, Pipes!Idle
    <3>2. /\ sock[x].role = "free" => status[x] = 0
          /\ sock[x].role # "free" => (status[x] = 0 <=> x = s)
          /\ (status[x] = 4 => sock[x].role = "ready")
          /\ (status[x] = 2 => sock[x].role = "control")
          /\ sock[x].role = "public" /\ status[x] # 0 =>
               (route["worker"][x] # None <=> status[x] = 16)
          /\ sock[x].role = "ready" /\ status[x] # 0 =>
               (route["public"][x] # None <=> status[x] = 16)
          /\ route["public"][x] # None => route["worker"][route["public"][x]] = x
      BY <1>2, <3>1 DEF Pipes!Statuses, Pipes!Down, Pipes!Work, Pipes!Wait, Pipes!Pipe
    <3>3. IF x = s THEN sock'[x].role = "free" ELSE sock'[x] = sock[x]
      BY <1>5
    <3> HIDE DEF r, s
    <3>4. QED
      BY <1>4, <3>2, <3>3
  <2>2. Pipes!Joins(thread[t])'
    BY <1>3 DEF Pipes!Joins, Pipes!Joining, Pipes!Idle
  <2>3. Pipes!Stalls(thread[t])'
    BY <1>2, <1>3, <1>12 DEF Pipes!Fine, Pipes!Stalls, Pipes!In
  <2>4. Pipes!Tried(thread[t])'
    BY <1>3 DEF Pipes!Tried, Pipes!Idle
  <2>5. \A c \in PipeIds : sock'[c].role = "public" => Pipes!Flow(thread[t], c)'
    <3> SUFFICES ASSUME NEW c \in PipeIds, sock'[c].role = "public" PROVE Pipes!Flow(thread[t], c)'
      OBVIOUS
    <3>1. c # s /\ sock'[c] = sock[c] /\ packets'[c] = packets[c]
      BY <1>5
    <3>2. Pipes!Flow(thread[t], c)
      BY <1>12, <3>1 DEF Pipes!Fine
    <3>3. Pipes!Hand(thread'[t], c) = Pipes!Hand(thread[t], c)
      BY <1>2, <1>3 DEF Pipes!Hand, Pipes!Idle
    <3>4. \A w \in PipeIds : sock'[w].role = "ready" => sock[w].role = "ready"
      BY <1>5
    <3>5. QED
      BY <1>1, <1>2, <3>1, <3>2, <3>3, <3>4, PipeFlow
  <2>6. QED
    BY <2>1, <2>2, <2>3, <2>4, <2>5 DEF Pipes!Fine
<1>13. \A x \in PipeIds : x # s =>
         sock'[x].role = sock[x].role /\ sock'[x].sent >= sock[x].sent /\ status'[x] = status[x]
  <2>1. \A x \in PipeIds : sock[x].sent \in Nat
    BY <1>1 DEF Pipes!TypeOK, Pipes!Socket
  <2>2. QED
    BY <1>2, <1>5, <2>1
<1>14. IF thread'[t].at = "idle" THEN thread'[t] = Pipes!Idle ELSE thread'[t].s = thread[t].s
  BY <1>3
<1>15. r.at # "idle"
  BY <1>2
<1>16. QED
  BY <1>2, <1>3, <1>6, <1>7, <1>8, <1>9, <1>10, <1>11, <1>12, <1>13, <1>14, <1>15, PipeStep

LEMMA PipeAppend ==
  ASSUME Pipes!TypeOK, NEW q \in {"workers", "pending", "waiting"}, NEW s \in PipeIds,
         queue' = [queue EXCEPT ![q] = Append(@, s)]
  PROVE  /\ queue' \in [{"workers", "pending", "waiting"} -> Seq(PipeIds)]
         /\ \A p \in {"workers", "pending", "waiting"} : p # q =>
              queue'[p] = queue[p] /\ \A x \in PipeIds : Pipes!In(p, x)' <=> Pipes!In(p, x)
         /\ \A x \in PipeIds : Pipes!In(q, x)' => Pipes!In(q, x) \/ x = s
         /\ (\A i, j \in DOMAIN queue[q] : queue[q][i] = queue[q][j] => i = j) /\ ~ Pipes!In(q, s) =>
              \A i, j \in DOMAIN queue'[q] : queue'[q][i] = queue'[q][j] => i = j
<1> DEFINE a == queue[q]
           b == Append(a, s)
<1>1. a \in Seq(PipeIds)
  BY DEF Pipes!TypeOK
<1>2. /\ b \in Seq(PipeIds) /\ DOMAIN a = 1 .. Len(a) /\ Len(a) \in Nat
      /\ DOMAIN b = 1 .. Len(a) + 1 /\ b[Len(a) + 1] = s
      /\ \A i \in 1 .. Len(a) : b[i] = a[i]
  <2> HIDE DEF a
  <2>1. QED
    BY <1>1
<1>3. queue' = [queue EXCEPT ![q] = b] /\ b \in Seq(PipeIds)
  BY <1>2
<1> HIDE DEF a, b
<1>4. \A i \in DOMAIN b : \/ i \in DOMAIN a /\ b[i] = a[i]
                          \/ i = Len(a) + 1 /\ b[i] = s
  BY <1>2
<1>5. /\ queue' \in [{"workers", "pending", "waiting"} -> Seq(PipeIds)] /\ queue'[q] = b
      /\ \A p \in {"workers", "pending", "waiting"} : p # q =>
           queue'[p] = queue[p] /\ \A x \in PipeIds : Pipes!In(p, x)' <=> Pipes!In(p, x)
      /\ \A x \in PipeIds : Pipes!In(q, x)' <=> \E i \in DOMAIN b : b[i] = x
  <2>1. queue \in [{"workers", "pending", "waiting"} -> Seq(PipeIds)]
    BY DEF Pipes!TypeOK
  <2>2. /\ queue' \in [{"workers", "pending", "waiting"} -> Seq(PipeIds)] /\ queue'[q] = b
        /\ \A p \in {"workers", "pending", "waiting"} : p # q => queue'[p] = queue[p]
    BY <1>3, <2>1
  <2>3. QED
    BY <2>2 DEF Pipes!In
<1>6. \A x : Pipes!In(q, x) <=> \E i \in DOMAIN a : a[i] = x
  BY DEF Pipes!In, a
<1>7. \A x \in PipeIds : Pipes!In(q, x)' => Pipes!In(q, x) \/ x = s
  BY <1>4, <1>5, <1>6
<1>8. (\A i, j \in DOMAIN a : a[i] = a[j] => i = j) /\ (\A i \in DOMAIN a : a[i] # s) =>
        \A i, j \in DOMAIN b : b[i] = b[j] => i = j
  BY <1>4
<1>9. QED
  BY <1>5, <1>6, <1>7, <1>8 DEF a

(* A worker says what it is.                                               *)
LEMMA PipeAddWorker ==
  ASSUME Pipes!IInv, NEW t \in Routers, Pipes!AddWorker(t)
  PROVE  Pipes!IInv'
<1> DEFINE r == thread[t]
<1>1. /\ Pipes!TypeOK /\ Pipes!Once /\ Pipes!Working(t)
      /\ r \in Pipes!Thread
  BY DEF Pipes!IInv, Pipes!TypeOK
<1>2. /\ r.at = "control" /\ Pipes!Done(t) /\ Pipes!SetStatus(r.s, 2)
      /\ queue' = queue \/ queue' = [queue EXCEPT !["workers"] = Append(@, r.s)]
      /\ alone' = alone /\ sock' = sock
      /\ packets' = packets /\ route' = route /\ out' = out /\ asked' = asked
  BY DEF Pipes!AddWorker, Pipes!At, Pipes!Work
<1>3. /\ thread' \in [Routers -> Pipes!Thread] /\ thread'[t] = Pipes!Idle
      /\ thread'[t].at = "idle" /\ thread'[t].w = None /\ thread'[t].data = <<>>
      /\ \A u \in Routers : u # t => thread'[u] = thread[u]
  BY <1>1, <1>2, PipeDone
<1>4. r.s \in PipeIds /\ sock[r.s].role = "control"
  BY <1>1, <1>2 DEF Pipes!Working
<1>5. /\ status' \in [PipeIds -> {0, 1, 2, 4, 16}]
      /\ status'[r.s] \in {2, status[r.s]}
      /\ \A x \in PipeIds : x # r.s => status'[x] = status[x]
  BY <1>1, <1>2, <1>4, PipeStatus
<1>6. /\ queue' \in [{"workers", "pending", "waiting"} -> Seq(PipeIds)]
      /\ queue'["pending"] = queue["pending"]
      /\ \A x \in PipeIds : Pipes!In("pending", x)' <=> Pipes!In("pending", x)
      /\ \A x \in PipeIds : Pipes!In("waiting", x)' <=> Pipes!In("waiting", x)
  <2>1. CASE queue' = queue
    BY <1>1, <2>1 DEF Pipes!TypeOK, Pipes!In
  <2>2. CASE queue' = [queue EXCEPT !["workers"] = Append(@, r.s)]
    BY <1>1, <1>4, <2>2, PipeAppend
  <2>3. QED
    BY <1>2, <2>1, <2>2
<1>7. Pipes!TypeOK'
  BY <1>1, <1>2, <1>3, <1>5, <1>6
     DEF Pipes!TypeOK, Pipes!Down, Pipes!Conn, Pipes!Work, Pipes!Wait, Pipes!Pipe
<1>8. /\ Keeps /\ RouteKeeps /\ Pipes!Routed' /\ Pipes!Owned'
      /\ \A s \in PipeIds : sock'[s].role = sock[s].role /\ sock'[s].sent >= sock[s].sent
  BY <1>2, <1>7, PipeQuiet
<1>9. Pipes!Working(t)'
  BY <1>3, PipeIdle
<1>10. \A w \in PipeIds : /\ status'[w] = Pipes!Conn => status[w] = Pipes!Conn
                          /\ status'[w] = Pipes!Wait => status[w] = Pipes!Wait
  BY <1>5 DEF Pipes!Conn, Pipes!Wait
<1>11. Pipes!Once'
  <2>1. \A u \in Routers, w \in PipeIds : Pipes!Takes(u, w)' => Pipes!Takes(u, w)
    BY <1>3, PipeTakes
  <2>2. QED
    BY <1>1, <1>2, <1>6, <1>7, <1>8, <1>10, <2>1, PipeOnce
<1>12. ASSUME alone, Pipes!Fine(thread[t]) PROVE Pipes!Fine(thread[t])'
  <2>1. Pipes!Statuses(thread[t])'
    <3>1. Pipes!Statuses(r)
      BY <1>12 DEF Pipes!Fine
    <3> SUFFICES ASSUME NEW x \in PipeIds
                 PROVE  /\ sock[x].role = "free" => status'[x] = 0
                        /\ sock[x].role # "free" => status'[x] # 0
                        /\ (status'[x] = 4 => sock[x].role = "ready")
                        /\ (status'[x] = 2 => sock[x].role = "control")
                        /\ sock[x].role = "public" /\ status'[x] # 0 =>
                             (route["worker"][x] # None <=> status'[x] = 16)
                        /\ sock[x].role = "ready" /\ status'[x] # 0 =>
                             (route["public"][x] # None <=> status'[x] = 16)
                        /\ route["public"][x] # None => route["worker"][route["public"][x]] = x
      BY <1>2, <1>3 DEF Pipes!Statuses, Pipes!Down, Pipes!Work, Pipes!Wait, Pipes!Pipe
    <3>2. /\ sock[x].role = "free" => status[x] = 0
          /\ sock[x].role # "free" => status[x] # 0
          /\ (status[x] = 4 => sock[x].role = "ready")
          /\ (status[x] = 2 => sock[x].role = "control")
          /\ sock[x].role = "public" /\ status[x] # 0 =>
               (route["worker"][x] # None <=> status[x] = 16)
          /\ sock[x].role = "ready" /\ status[x] # 0 =>
               (route["public"][x] # None <=> status[x] = 16)
          /\ route["public"][x] # None => route["worker"][route["public"][x]] = x
      BY <1>2, <3>1 DEF Pipes!Statuses, Pipes!Down, Pipes!Work, Pipes!Wait, Pipes!Pipe
    <3>3. status'[x] = status[x] \/ (status'[x] = 2 /\ sock[x].role = "control")
      BY <1>4, <1>5
    <3> HIDE DEF r
    <3>4. QED
      BY <3>2, <3>3
  <2>2. Pipes!Joins(thread[t])'
    BY <1>3 DEF Pipes!Joins, Pipes!Joining
  <2>3. Pipes!Stalls(thread[t])'
    <3>1. Pipes!Stalls(r) /\ r.at \notin {"dequeue_waiting", "get_pipe"}
      BY <1>2, <1>12 DEF Pipes!Fine
    <3> HIDE DEF r
    <3>2. QED
      BY <1>6, <1>10, <3>1, PipeStalls DEF r
  <2>4. Pipes!Tried(thread[t])'
    BY <1>3 DEF Pipes!Tried
  <2>5. \A c \in PipeIds : sock'[c].role = "public" => Pipes!Flow(thread[t], c)'
    <3> SUFFICES ASSUME NEW c \in PipeIds, sock'[c].role = "public" PROVE Pipes!Flow(thread[t], c)'
      OBVIOUS
    <3>1. Pipes!Flow(thread[t], c)
      BY <1>2, <1>12 DEF Pipes!Fine
    <3>2. Pipes!Hand(thread'[t], c) = Pipes!Hand(thread[t], c)
      BY <1>2, <1>3 DEF Pipes!Hand
    <3>3. QED
      BY <1>1, <1>2, <3>1, <3>2, PipeFlow
  <2>6. QED
    BY <2>1, <2>2, <2>3, <2>4, <2>5 DEF Pipes!Fine
<1>13. IF thread'[t].at = "idle" THEN thread'[t] = Pipes!Idle ELSE thread'[t].s = thread[t].s
  BY <1>3
<1>14. r.at # "idle" /\ \A s \in PipeIds : s # r.s => status'[s] = status[s]
  BY <1>2, <1>5
<1>15. QED
  BY <1>2, <1>3, <1>7, <1>8, <1>9, <1>11, <1>12, <1>13, <1>14, PipeStep

(* A worker's connection is ready to be given to a client.                 *)
LEMMA PipeEnqueueConnection ==
  ASSUME Pipes!IInv, NEW t \in Routers, Pipes!EnqueueConnection(t)
  PROVE  Pipes!IInv'
<1> DEFINE r == thread[t]
           s == r.s
<1>1. /\ Pipes!TypeOK /\ Pipes!Once /\ Pipes!Working(t)
      /\ r \in Pipes!Thread
  BY DEF Pipes!IInv, Pipes!TypeOK
<1>2. /\ r.at = "ready" /\ Pipes!To(t, "dequeue_waiting") /\ Pipes!SetStatus(s, 4)
      /\ Pipes!May(s, 4) => queue' = [queue EXCEPT !["pending"] = Append(@, s)]
      /\ alone' = alone /\ sock' = sock
      /\ packets' = packets /\ route' = route /\ out' = out /\ asked' = asked
  BY DEF Pipes!EnqueueConnection, Pipes!At, Pipes!Wait
<1>3. /\ thread' \in [Routers -> Pipes!Thread]
      /\ thread'[t].at = "dequeue_waiting" /\ thread'[t].s = s /\ thread'[t].c = r.c
      /\ thread'[t].w = r.w /\ thread'[t].data = r.data
      /\ \A u \in Routers : u # t => thread'[u] = thread[u]
  <2>1. "dequeue_waiting" \in Pipes!Places
    BY DEF Pipes!Places
  <2>2. QED
    BY <1>1, <1>2, <2>1, PipeTo
<1>4. /\ s \in PipeIds /\ sock[s].role = "ready" /\ status[s] = 1 /\ Pipes!From(r.data, s)
      /\ ~ Pipes!In("pending", s) /\ Pipes!Unjoined(s)
  <2>1. s \in PipeIds /\ sock[s].role = "ready" /\ status[s] = Pipes!Conn /\ Pipes!From(r.data, s)
    BY <1>1, <1>2 DEF Pipes!Working
  <2>2. ~ Pipes!In("pending", s) /\ Pipes!Unjoined(s)
    BY <1>1, <2>1 DEF Pipes!Once
  <2>3. QED
    BY <2>1, <2>2 DEF Pipes!Conn
<1>5. /\ status' \in [PipeIds -> {0, 1, 2, 4, 16}] /\ status'[s] = 4
      /\ \A x \in PipeIds : x # s => status'[x] = status[x]
      /\ Pipes!May(s, 4)
  <2>1. Pipes!May(s, 4)
    BY <1>4 DEF Pipes!May, Pipes!Down
  <2>2. QED
    BY <1>1, <1>2, <1>4, <2>1, PipeStatus
<1>6. /\ queue' \in [{"workers", "pending", "waiting"} -> Seq(PipeIds)]
      /\ \A x \in PipeIds : Pipes!In("pending", x)' => Pipes!In("pending", x) \/ x = s
      /\ \A x \in PipeIds : Pipes!In("waiting", x)' <=> Pipes!In("waiting", x)
      /\ \A i, j \in DOMAIN queue'["pending"] : queue'["pending"][i] = queue'["pending"][j] => i = j
  <2>1. \A i, j \in DOMAIN queue["pending"] : queue["pending"][i] = queue["pending"][j] => i = j
    BY <1>1 DEF Pipes!Once
  <2> HIDE DEF s
  <2>2. QED
    BY <1>1, <1>2, <1>4, <1>5, <2>1, PipeAppend
<1>7. Pipes!TypeOK'
  BY <1>1, <1>2, <1>3, <1>5, <1>6
     DEF Pipes!TypeOK, Pipes!Down, Pipes!Conn, Pipes!Work, Pipes!Wait, Pipes!Pipe
<1>8. /\ Keeps /\ RouteKeeps /\ Pipes!Routed' /\ Pipes!Owned'
      /\ \A x \in PipeIds : sock'[x].role = sock[x].role /\ sock'[x].sent >= sock[x].sent
  BY <1>2, <1>7, PipeQuiet
<1>9. Pipes!Working(t)'
  BY <1>2, <1>3, <1>4, PipePlain
<1>10. \A u \in Routers, w \in PipeIds : Pipes!Takes(u, w)' => Pipes!Takes(u, w)
  BY <1>3, PipeTakes
<1>11. Pipes!Once'
  <2>1. \A w \in PipeIds : Pipes!Unjoined(w) => Pipes!Unjoined(w)'
    BY <1>2, <1>10 DEF Pipes!Unjoined
  <2>2. ASSUME NEW w \in PipeIds
        PROVE  /\ Pipes!In("pending", w)' => Pipes!Was(w, "ready")' /\ Pipes!Unjoined(w)'
               /\ sock'[w].role = "ready" /\ status'[w] = Pipes!Conn => ~ Pipes!In("pending", w)' /\ Pipes!Unjoined(w)'
               /\ \A u \in Routers : Pipes!Takes(u, w)' =>
                    route'["public"][w] = None /\ \A v \in Routers : Pipes!Takes(v, w)' => v = u
    <3>1. /\ Pipes!In("pending", w) => Pipes!Was(w, "ready") /\ Pipes!Unjoined(w)
          /\ sock[w].role = "ready" /\ status[w] = Pipes!Conn => ~ Pipes!In("pending", w) /\ Pipes!Unjoined(w)
          /\ \A u \in Routers : Pipes!Takes(u, w) =>
               route["public"][w] = None /\ \A v \in Routers : Pipes!Takes(v, w) => v = u
      BY <1>1 DEF Pipes!Once
    <3>2. Pipes!Was(w, "ready") => Pipes!Was(w, "ready")'
      BY <1>8 DEF Keeps
    <3>3. Pipes!In("pending", w)' => Pipes!Was(w, "ready")' /\ Pipes!Unjoined(w)'
      <4>1. CASE w = s
        BY <1>4, <2>1, <3>2, <4>1 DEF Pipes!Was
      <4>2. CASE w # s
        BY <1>6, <2>1, <3>1, <3>2, <4>2
      <4>3. QED
        BY <4>1, <4>2
    <3>4. sock'[w].role = "ready" /\ status'[w] = Pipes!Conn => ~ Pipes!In("pending", w)' /\ Pipes!Unjoined(w)'
      <4> SUFFICES ASSUME sock'[w].role = "ready", status'[w] = Pipes!Conn
                   PROVE  ~ Pipes!In("pending", w)' /\ Pipes!Unjoined(w)'
        OBVIOUS
      <4>1. w # s
        BY <1>5 DEF Pipes!Conn
      <4>2. sock[w].role = "ready" /\ status[w] = Pipes!Conn
        BY <1>2, <1>5, <4>1
      <4>3. QED
        BY <1>6, <2>1, <3>1, <4>1, <4>2
    <3>5. QED
      BY <1>2, <1>10, <3>1, <3>3, <3>4
  <2>3. ASSUME NEW c \in PipeIds, Pipes!In("waiting", c)'
        PROVE  Pipes!Was(c, "public")' /\ (sock'[c].role = "public" => sock'[c].sent > 0)
    <3>1. Pipes!Was(c, "public") /\ (sock[c].role = "public" => sock[c].sent > 0)
      BY <1>1, <1>6, <2>3 DEF Pipes!Once
    <3>2. QED
      BY <1>1, <1>7, <1>8, <3>1, PipeSent
  <2>4. QED
    BY <1>6, <2>2, <2>3 DEF Pipes!Once
<1>12. ASSUME alone, Pipes!Fine(thread[t]) PROVE Pipes!Fine(thread[t])'
  <2>1. Pipes!Statuses(thread[t])'
    <3>1. Pipes!Statuses(r)
      BY <1>12 DEF Pipes!Fine
    <3> SUFFICES ASSUME NEW x \in PipeIds
                 PROVE  /\ sock[x].role = "free" => status'[x] = 0
                        /\ sock[x].role # "free" => status'[x] # 0
                        /\ (status'[x] = 4 => sock[x].role = "ready")
                        /\ (status'[x] = 2 => sock[x].role = "control")
                        /\ sock[x].role = "public" /\ status'[x] # 0 =>
                             (route["worker"][x] # None <=> status'[x] = 16)
                        /\ sock[x].role = "ready" /\ status'[x] # 0 =>
                             (route["public"][x] # None <=> status'[x] = 16)
                        /\ route["public"][x] # None => route["worker"][route["public"][x]] = x
      BY <1>2, <1>3 DEF Pipes!Statuses, Pipes!Down, Pipes!Work, Pipes!Wait, Pipes!Pipe
    <3>2. /\ sock[x].role = "free" => status[x] = 0
          /\ sock[x].role # "free" => status[x] # 0
          /\ (status[x] = 4 => sock[x].role = "ready")
          /\ (status[x] = 2 => sock[x].role = "control")
          /\ sock[x].role = "public" /\ status[x] # 0 =>
               (route["worker"][x] # None <=> status[x] = 16)
          /\ sock[x].role = "ready" /\ status[x] # 0 =>
               (route["public"][x] # None <=> status[x] = 16)
          /\ route["public"][x] # None => route["worker"][route["public"][x]] = x
      BY <1>2, <3>1 DEF Pipes!Statuses, Pipes!Down, Pipes!Work, Pipes!Wait, Pipes!Pipe
    <3>3. \/ status'[x] = status[x]
          \/ status'[x] = 4 /\ sock[x].role = "ready" /\ route["public"][x] = None
      BY <1>4, <1>5 DEF Pipes!Unjoined
    <3> HIDE DEF r, s
    <3>4. QED
      BY <3>2, <3>3
  <2>2. Pipes!Joins(thread[t])'
    BY <1>3 DEF Pipes!Joins, Pipes!Joining
  <2>3. Pipes!Stalls(thread[t])'
    <3>1. \/ ~ \E c \in PipeIds : status[c] = Pipes!Conn /\ Pipes!In("waiting", c)
          \/ \A w \in PipeIds : ~ (status[w] = Pipes!Wait /\ Pipes!In("pending", w))
      BY <1>2, <1>12 DEF Pipes!Fine, Pipes!Stalls
    <3>2. \A x \in PipeIds : status'[x] = Pipes!Conn => status[x] = Pipes!Conn
      BY <1>5 DEF Pipes!Conn
    <3>3. \/ ~ \E c \in PipeIds : status'[c] = Pipes!Conn /\ Pipes!In("waiting", c)'
          \/ \A w \in PipeIds : status'[w] = Pipes!Wait /\ Pipes!In("pending", w)' => w = s
      BY <1>5, <1>6, <3>1, <3>2
    <3>4. QED
      BY <1>3, <3>3 DEF Pipes!Stalls
  <2>4. Pipes!Tried(thread[t])'
    BY <1>3 DEF Pipes!Tried
  <2>5. \A c \in PipeIds : sock'[c].role = "public" => Pipes!Flow(thread[t], c)'
    <3> SUFFICES ASSUME NEW c \in PipeIds, sock'[c].role = "public" PROVE Pipes!Flow(thread[t], c)'
      OBVIOUS
    <3>1. Pipes!Flow(thread[t], c)
      BY <1>2, <1>12 DEF Pipes!Fine
    <3>2. Pipes!Hand(thread'[t], c) = Pipes!Hand(thread[t], c)
      BY <1>2, <1>3 DEF Pipes!Hand
    <3>3. QED
      BY <1>1, <1>2, <3>1, <3>2, PipeFlow
  <2>6. QED
    BY <2>1, <2>2, <2>3, <2>4, <2>5 DEF Pipes!Fine
<1>13. IF thread'[t].at = "idle" THEN thread'[t] = Pipes!Idle ELSE thread'[t].s = thread[t].s
  BY <1>3
<1>14. r.at # "idle" /\ \A x \in PipeIds : x # r.s => status'[x] = status[x]
  BY <1>2, <1>5
<1>15. QED
  BY <1>2, <1>3, <1>7, <1>8, <1>9, <1>11, <1>12, <1>13, <1>14, PipeStep

LEMMA PipeEmpty ==
  /\ \A s : Pipes!From(<<>>, s)
  /\ \A k : Pipes!Counts(<<>>, k)
  /\ <<>> \in Seq(Pipes!Packet) /\ Len(<<>>) = 0
BY DEF Pipes!From, Pipes!Counts

LEMMA PipeFlowIs ==
  ASSUME NEW t \in Routers, NEW c \in PipeIds, NEW w, NEW h, NEW ps, NEW k,
         route'["worker"][c] = w, Pipes!Hand(thread'[t], c) = h, packets'[c] = ps,
         sock'[c].kept = <<>>, sock'[c].sent = k,
         w = None => Pipes!Counts(ps, 0) /\ Pipes!Counts(h, Len(ps)) /\ k = Len(ps) + Len(h),
         w # None /\ ps # <<>> =>
           thread'[t].at \in {"set_client", "set_worker", "packets", "send"} /\ thread'[t].c = c,
         w # None /\ sock'[w].role = "ready" =>
           /\ Pipes!Counts(out'[w], 0) /\ Pipes!Counts(h, Len(out'[w]))
           /\ Pipes!Counts(ps, Len(out'[w]) + Len(h))
           /\ k = Len(out'[w]) + Len(h) + Len(ps)
  PROVE  Pipes!Flow(thread[t], c)'
<1>1. Pipes!Hand(thread[t], c)' = h
  BY DEF Pipes!Hand
<1>2. QED
  BY <1>1 DEF Pipes!Flow, Pipes!Counts

(* A client is in hand, to be joined to a connection.                      *)
LEMMA PipeTaken ==
  ASSUME Pipes!TypeOK, NEW t \in Routers, NEW c \in PipeIds,
         thread' = [thread EXCEPT ![t] = [@ EXCEPT !.at = "get_pipe", !.c = c, !.data = <<>>]]
  PROVE  /\ thread' \in [Routers -> Pipes!Thread]
         /\ thread'[t].at = "get_pipe" /\ thread'[t].s = thread[t].s /\ thread'[t].c = c
         /\ thread'[t].w = thread[t].w /\ thread'[t].data = <<>>
         /\ \A u \in Routers : u # t => thread'[u] = thread[u]
<1>1. thread \in [Routers -> Pipes!Thread]
  BY DEF Pipes!TypeOK
<1> DEFINE x == [thread[t] EXCEPT !.at = "get_pipe", !.c = c, !.data = <<>>]
<1>2. <<>> \in Seq(Pipes!Packet) /\ "get_pipe" \in Pipes!Places
  BY DEF Pipes!Places
<1>3. /\ x \in Pipes!Thread /\ x.at = "get_pipe" /\ x.s = thread[t].s /\ x.c = c
      /\ x.w = thread[t].w /\ x.data = <<>>
  BY <1>1, <1>2 DEF Pipes!Thread
<1>4. thread' = [thread EXCEPT ![t] = x]
  OBVIOUS
<1> HIDE DEF x
<1>5. QED
  BY <1>1, <1>3, <1>4

LEMMA PipeJoining ==
  ASSUME NEW t \in Routers, thread'[t].at \in {"get_pipe", "get_connection", "enqueue_waiting"},
         thread'[t].s \in PipeIds, sock'[thread'[t].s].role # "free",
         Pipes!From(thread'[t].data, thread'[t].s), thread'[t].c \in PipeIds,
         Pipes!Was(thread[t].c, "public")',
         sock'[thread'[t].c].role = "public" => sock'[thread'[t].c].sent > 0
  PROVE  Pipes!Working(t)'
BY DEF Pipes!Working, Pipes!From, Pipes!Joining, Pipes!Was

LEMMA PipeDequeueWaiting ==
  ASSUME Pipes!IInv, NEW t \in Routers, Pipes!DequeueWaiting(t)
  PROVE  Pipes!IInv'
<1> DEFINE r == thread[t]
           c == Pipes!Got("waiting", Pipes!Conn)
<1>1. /\ Pipes!TypeOK /\ Pipes!Once /\ Pipes!Working(t)
      /\ r \in Pipes!Thread
  BY DEF Pipes!IInv, Pipes!TypeOK
<1>2. /\ r.at = "dequeue_waiting"
      /\ queue' = [queue EXCEPT !["waiting"] = Pipes!Rest("waiting", Pipes!Conn)]
      /\ IF c = None THEN Pipes!Done(t)
         ELSE thread' = [thread EXCEPT ![t] = [@ EXCEPT !.at = "get_pipe", !.c = c, !.data = <<>>]]
      /\ alone' = alone /\ sock' = sock /\ status' = status
      /\ packets' = packets /\ route' = route /\ out' = out /\ asked' = asked
  BY DEF Pipes!DequeueWaiting, Pipes!At
<1>3. r.s \in PipeIds /\ sock[r.s].role # "free"
  BY <1>1, <1>2 DEF Pipes!Working
<1>4. /\ Pipes!Rest("waiting", Pipes!Conn) \in Seq(PipeIds)
      /\ \A i \in DOMAIN Pipes!Rest("waiting", Pipes!Conn) :
           Pipes!In("waiting", Pipes!Rest("waiting", Pipes!Conn)[i])
      /\ \/ /\ c = None /\ Pipes!Rest("waiting", Pipes!Conn) = <<>>
         \/ c \in PipeIds /\ Pipes!In("waiting", c) /\ status[c] = Pipes!Conn
  BY <1>1, PipeGot
<1>5. /\ queue' \in [{"workers", "pending", "waiting"} -> Seq(PipeIds)]
      /\ queue'["pending"] = queue["pending"]
      /\ queue'["waiting"] = Pipes!Rest("waiting", Pipes!Conn)
      /\ \A x \in PipeIds : Pipes!In("pending", x)' <=> Pipes!In("pending", x)
      /\ \A x \in PipeIds : Pipes!In("waiting", x)' => Pipes!In("waiting", x)
  <2>1. /\ queue' \in [{"workers", "pending", "waiting"} -> Seq(PipeIds)]
        /\ queue'["pending"] = queue["pending"]
        /\ queue'["waiting"] = Pipes!Rest("waiting", Pipes!Conn)
    BY <1>1, <1>2, <1>4 DEF Pipes!TypeOK
  <2>2. \A x \in PipeIds : Pipes!In("pending", x)' <=> Pipes!In("pending", x)
    BY <2>1 DEF Pipes!In
  <2>3. \A x \in PipeIds : Pipes!In("waiting", x)' =>
          \E i \in DOMAIN Pipes!Rest("waiting", Pipes!Conn) : Pipes!Rest("waiting", Pipes!Conn)[i] = x
    BY <2>1 DEF Pipes!In
  <2>4. QED
    BY <1>4, <2>1, <2>2, <2>3
<1> HIDE DEF c
<1>6. \/ /\ c = None /\ thread'[t] = Pipes!Idle /\ thread'[t].at = "idle" /\ thread'[t].data = <<>>
      \/ /\ c \in PipeIds /\ Pipes!In("waiting", c) /\ status[c] = Pipes!Conn
         /\ thread'[t].at = "get_pipe" /\ thread'[t].s = r.s /\ thread'[t].c = c /\ thread'[t].data = <<>>
  <2>1. CASE c = None
    BY <1>1, <1>2, <2>1, PipeDone
  <2>2. CASE c # None
    <3>1. c \in PipeIds /\ Pipes!In("waiting", c) /\ status[c] = Pipes!Conn
      BY <1>4, <2>2 DEF c
    <3>2. QED
      BY <1>1, <1>2, <2>2, <3>1, PipeTaken
  <2>3. QED
    BY <2>1, <2>2
<1>7. thread' \in [Routers -> Pipes!Thread] /\ \A u \in Routers : u # t => thread'[u] = thread[u]
  <2>1. CASE c = None
    BY <1>1, <1>2, <2>1, PipeDone
  <2>2. CASE c # None
    <3>1. c \in PipeIds
      BY <1>4, <2>2 DEF c
    <3>2. QED
      BY <1>1, <1>2, <2>2, <3>1, PipeTaken
  <2>3. QED
    BY <2>1, <2>2
<1>8. Pipes!TypeOK'
  BY <1>1, <1>2, <1>5, <1>7 DEF Pipes!TypeOK
<1>9. /\ Keeps /\ RouteKeeps /\ Pipes!Routed' /\ Pipes!Owned'
      /\ \A s \in PipeIds : sock'[s].role = sock[s].role /\ sock'[s].sent >= sock[s].sent
  BY <1>2, <1>8, PipeQuiet
<1>10. Pipes!Working(t)'
  <2>1. CASE thread'[t] = Pipes!Idle
    BY <2>1, PipeIdle
  <2>2. CASE thread'[t].at = "get_pipe" /\ c \in PipeIds /\ Pipes!In("waiting", c) /\ thread'[t].c = c
             /\ thread'[t].s = r.s /\ thread'[t].data = <<>>
    <3>1. Pipes!Was(c, "public") /\ (sock[c].role = "public" => sock[c].sent > 0)
      BY <1>1, <2>2 DEF Pipes!Once
    <3>2. Pipes!Was(thread[t].c, "public")'
      BY <1>2, <2>2, <3>1 DEF Pipes!Was
    <3>3. Pipes!From(thread'[t].data, thread'[t].s)
      BY <2>2, PipeEmpty
    <3>4. QED
      BY <1>2, <1>3, <2>2, <3>1, <3>2, <3>3, PipeJoining
  <2>3. QED
    BY <1>6, <2>1, <2>2
<1>11. Pipes!Once'
  <2>1. \A u \in Routers, w \in PipeIds : Pipes!Takes(u, w)' => Pipes!Takes(u, w)
    BY <1>6, <1>7, PipeTakes
  <2>2. QED
    BY <1>1, <1>2, <1>5, <1>8, <1>9, <2>1, PipeOnce
<1>12. ASSUME alone, Pipes!Fine(thread[t]) PROVE Pipes!Fine(thread[t])'
  <2>1. Pipes!Statuses(thread[t])'
    BY <1>2, <1>6, <1>12, PipeStatuses DEF Pipes!Fine
  <2>2. Pipes!Joins(thread[t])'
    <3>1. CASE thread'[t].at = "idle"
      BY <3>1 DEF Pipes!Joins, Pipes!Joining
    <3>2. CASE thread'[t].at = "get_pipe" /\ c \in PipeIds /\ Pipes!In("waiting", c) /\ thread'[t].c = c
               /\ status[c] = Pipes!Conn
      <4>1. Pipes!Was(c, "public")
        BY <1>1, <3>2 DEF Pipes!Once
      <4>2. sock[c].role = "free" => status[c] = Pipes!Down
        BY <1>12, <3>2 DEF Pipes!Fine, Pipes!Statuses
      <4>3. sock[c].role = "public"
        <5>1. Pipes!Conn # Pipes!Down
          BY DEF Pipes!Down, Pipes!Conn
        <5>2. QED
          BY <3>2, <4>1, <4>2, <5>1 DEF Pipes!Was
      <4>4. QED
        BY <1>2, <3>2, <4>3 DEF Pipes!Joins, Pipes!Joining
    <3>3. QED
      BY <1>6, <3>1, <3>2
  <2>3. Pipes!Stalls(thread[t])'
    <3>1. \/ ~ \E d \in PipeIds : status[d] = Pipes!Conn /\ Pipes!In("waiting", d)
          \/ \A w \in PipeIds : status[w] = Pipes!Wait /\ Pipes!In("pending", w) => w = r.s
      BY <1>12 DEF Pipes!Fine, Pipes!Stalls
    <3>2. CASE c = None
      <4>1. \A d \in PipeIds : ~ Pipes!In("waiting", d)'
        BY <1>4, <1>5, <3>2, PipeAssumption DEF Pipes!In, c
      <4>2. QED
        BY <4>1 DEF Pipes!Stalls
    <3>3. CASE thread'[t].at = "get_pipe" /\ thread'[t].s = r.s
      BY <1>2, <1>5, <3>1, <3>3 DEF Pipes!Stalls
    <3>4. QED
      BY <1>6, <3>2, <3>3
  <2>4. Pipes!Tried(thread[t])'
    BY <1>6 DEF Pipes!Tried
  <2>5. \A d \in PipeIds : sock'[d].role = "public" => Pipes!Flow(thread[t], d)'
    <3> SUFFICES ASSUME NEW d \in PipeIds, sock'[d].role = "public" PROVE Pipes!Flow(thread[t], d)'
      OBVIOUS
    <3>1. Pipes!Flow(thread[t], d)
      BY <1>2, <1>12 DEF Pipes!Fine
    <3>2. Pipes!Hand(thread'[t], d) = Pipes!Hand(thread[t], d)
      BY <1>2, <1>6 DEF Pipes!Hand
    <3>3. QED
      BY <1>1, <1>2, <3>1, <3>2, PipeFlow
  <2>6. QED
    BY <2>1, <2>2, <2>3, <2>4, <2>5 DEF Pipes!Fine
<1>13. IF thread'[t].at = "idle" THEN thread'[t] = Pipes!Idle ELSE thread'[t].s = thread[t].s
  BY <1>6
<1>14. r.at # "idle"
  BY <1>2
<1>15. QED
  BY <1>2, <1>7, <1>8, <1>9, <1>10, <1>11, <1>12, <1>13, <1>14, PipeStep

(* A client sends its first packets.                                       *)
LEMMA PipeEnqueuePacket ==
  ASSUME Pipes!IInv, NEW t \in Routers, Pipes!EnqueuePacket(t)
  PROVE  Pipes!IInv'
<1> DEFINE r == thread[t]
           s == r.s
<1>1. /\ Pipes!TypeOK /\ Pipes!Once /\ Pipes!Routed /\ Pipes!Owned /\ Pipes!Working(t)
      /\ r \in Pipes!Thread
  BY DEF Pipes!IInv, Pipes!TypeOK
<1>2. /\ r.at = "enqueue"
      /\ packets' = [packets EXCEPT ![s] = packets[s] \o r.data]
      /\ thread' = [thread EXCEPT ![t] = [@ EXCEPT !.at = "get_pipe", !.c = s, !.data = <<>>]]
      /\ alone' = alone /\ sock' = sock /\ status' = status /\ queue' = queue
      /\ route' = route /\ out' = out /\ asked' = asked
  BY DEF Pipes!EnqueuePacket, Pipes!At
<1>3. s \in PipeIds /\ sock[s].role = "public" /\ sock[s].sent > 0 /\ Pipes!From(r.data, s)
  BY <1>1, <1>2 DEF Pipes!Working
<1>4. /\ thread' \in [Routers -> Pipes!Thread]
      /\ thread'[t].at = "get_pipe" /\ thread'[t].s = s /\ thread'[t].c = s
      /\ thread'[t].w = r.w /\ thread'[t].data = <<>>
      /\ \A u \in Routers : u # t => thread'[u] = thread[u]
  BY <1>1, <1>2, <1>3, PipeTaken
<1>5. packets[s] \in Seq(Pipes!Packet) /\ r.data \in Seq(Pipes!Packet)
  BY <1>1, <1>3 DEF Pipes!TypeOK, Pipes!Thread
<1>6. /\ packets' \in [PipeIds -> Seq(Pipes!Packet)]
      /\ packets'[s] = packets[s] \o r.data
      /\ \A x \in PipeIds : x # s => packets'[x] = packets[x]
  <2>1. packets[s] \o r.data \in Seq(Pipes!Packet)
    BY <1>5, PipeCat
  <2> HIDE DEF r, s
  <2>2. QED
    BY <1>1, <1>2, <1>3, <2>1 DEF Pipes!TypeOK
<1>7. Pipes!TypeOK'
  BY <1>1, <1>2, <1>4, <1>6 DEF Pipes!TypeOK
<1>8. \A x \in PipeIds : sock[x].sent \in Nat /\ sock'[x].sent >= sock[x].sent
  BY <1>1, <1>2 DEF Pipes!TypeOK, Pipes!Socket
<1>9. Keeps /\ RouteKeeps
  <2>1. Keeps
    BY <1>1, <1>2, <1>7, <1>8, PipeSame
  <2>2. QED
    BY <1>2, <2>1 DEF RouteKeeps
<1>10. Pipes!Working(t)'
  <2>1. Pipes!Was(thread[t].c, "public")'
    BY <1>2, <1>3, <1>4 DEF Pipes!Was
  <2>2. Pipes!From(thread'[t].data, thread'[t].s)
    BY <1>4, PipeEmpty
  <2>3. QED
    BY <1>2, <1>3, <1>4, <2>1, <2>2, PipeJoining
<1>11. Pipes!Once'
  <2>1. \A u \in Routers, w \in PipeIds : Pipes!Takes(u, w)' => Pipes!Takes(u, w)
    BY <1>4, PipeTakes
  <2>2. \A w \in PipeIds, q \in {"pending", "waiting"} : Pipes!In(q, w)' => Pipes!In(q, w)
    BY <1>2 DEF Pipes!In
  <2>3. QED
    BY <1>1, <1>2, <1>7, <1>9, <2>1, <2>2, PipeOnce
<1>12. Pipes!Routed'
  BY <1>1, <1>2, <1>7, <1>9, PipeRouted
<1>13. Pipes!Owned'
  <2>1. ASSUME NEW x \in PipeIds
        PROVE  Pipes!From(packets'[x], x) /\ (packets'[x] # <<>> => Pipes!Was(x, "public"))
    <3>1. Pipes!From(packets[x], x) /\ (packets[x] # <<>> => Pipes!Was(x, "public"))
      BY <1>1 DEF Pipes!Owned
    <3>2. CASE x = s
      <4>1. Pipes!From(packets[s] \o r.data, s)
        BY <1>3, <1>5, <3>1, <3>2, PipeCat
      <4>2. QED
        BY <1>3, <1>6, <3>2, <4>1 DEF Pipes!Was
    <3>3. CASE x # s
      BY <1>6, <3>1, <3>3
    <3>4. QED
      BY <3>2, <3>3
  <2>2. ASSUME NEW x \in PipeIds
        PROVE  /\ sock[x].role # "free" => sock[x].life > 0
               /\ Pipes!From(packets'[x], x) /\ Pipes!From(sock[x].kept, x)
               /\ packets'[x] # <<>> => Pipes!Was(x, "public")
               /\ sock[x].role = "ready" => Pipes!From(out[x], route["public"][x])
               /\ sock[x].role = "public" => \A i \in DOMAIN out[x] : Pipes!Was(out[x][i].from, "ready")
    BY <1>1, <2>1 DEF Pipes!Owned
  <2> SUFFICES ASSUME NEW x \in PipeIds
               PROVE  /\ sock'[x].role # "free" => sock'[x].life > 0
                      /\ Pipes!From(packets'[x], x) /\ Pipes!From(sock'[x].kept, x)
                      /\ packets'[x] # <<>> => Pipes!Was(x, "public")'
                      /\ sock'[x].role = "ready" => Pipes!From(out'[x], route'["public"][x])
                      /\ sock'[x].role = "public" => \A i \in DOMAIN out'[x] : Pipes!Was(out[x][i].from, "ready")'
    BY DEF Pipes!Owned, Pipes!From, Pipes!Was
  <2>3. QED
    BY <1>2, <2>2 DEF Pipes!Was
<1>14. ASSUME alone, Pipes!Fine(thread[t]) PROVE Pipes!Fine(thread[t])'
  <2>1. Pipes!Statuses(thread[t])'
    BY <1>2, <1>4, <1>14, PipeStatuses DEF Pipes!Fine
  <2>2. status[s] = Pipes!Conn
    BY <1>2, <1>14 DEF Pipes!Fine, Pipes!Joins
  <2>3. Pipes!Joins(thread[t])'
    BY <1>2, <1>3, <1>4, <2>2 DEF Pipes!Joins, Pipes!Joining
  <2>4. Pipes!Stalls(thread[t])'
    <3>1. Pipes!Stalls(r) /\ r.at \notin {"dequeue_waiting", "get_pipe"}
      BY <1>2, <1>14 DEF Pipes!Fine
    <3>2. \A w \in PipeIds, q \in {"pending", "waiting"} : Pipes!In(q, w)' => Pipes!In(q, w)
      BY <1>2 DEF Pipes!In
    <3>3. QED
      BY <1>2, <3>1, <3>2, PipeStalls
  <2>5. Pipes!Tried(thread[t])'
    BY <1>4 DEF Pipes!Tried
  <2>6. \A c \in PipeIds : sock'[c].role = "public" => Pipes!Flow(thread[t], c)'
    <3> SUFFICES ASSUME NEW c \in PipeIds, sock'[c].role = "public" PROVE Pipes!Flow(thread[t], c)'
      OBVIOUS
    <3>1. Pipes!Flow(thread[t], c)
      BY <1>2, <1>14 DEF Pipes!Fine
    <3>2. CASE c = s
      <4>1. route["worker"][s] = None
        BY <1>2, <1>3, <1>14, <2>2
           DEF Pipes!Fine, Pipes!Statuses, Pipes!Conn, Pipes!Pipe, Pipes!Down
      <4>2. Pipes!Hand(r, s) = r.data /\ Pipes!Hand(thread[t], s)' = <<>>
        BY <1>2, <1>4 DEF Pipes!Hand
      <4>3. /\ sock[s].kept = <<>> /\ Pipes!Counts(packets[s], 0)
            /\ Pipes!Counts(r.data, Len(packets[s]))
            /\ sock[s].sent = Len(packets[s]) + Len(r.data)
        BY <3>1, <3>2, <4>1, <4>2 DEF Pipes!Flow
      <4>4. /\ Pipes!Counts(packets[s] \o r.data, 0)
            /\ Len(packets[s] \o r.data) = Len(packets[s]) + Len(r.data)
            /\ Len(packets[s]) \in Nat /\ Len(r.data) \in Nat
        <5>1. Len(packets[s]) \in Nat /\ 0 + Len(packets[s]) = Len(packets[s])
          BY <1>5
        <5>2. QED
          BY <1>5, <4>3, <5>1, PipeCat
      <4> DEFINE ps == packets[s] \o r.data
      <4>5. packets'[s] = ps
        BY <1>6
      <4>6. Pipes!Counts(<<>>, Len(ps)) /\ Pipes!Counts(ps, 0) /\ Len(<<>>) = 0
        BY <4>4, PipeEmpty
      <4>7. sock[s].sent = Len(ps) + Len(<<>>)
        BY <4>3, <4>4, <4>6
      <4>8. Pipes!Hand(thread'[t], s) = <<>>
        BY <1>4 DEF Pipes!Hand
      <4> HIDE DEF ps, r, s
      <4>9. QED
        BY <1>2, <1>3, <3>2, <4>1, <4>3, <4>5, <4>6, <4>7, <4>8, PipeFlowIs
    <3>3. CASE c # s
      <4>1. Pipes!Hand(thread'[t], c) = Pipes!Hand(thread[t], c) /\ packets'[c] = packets[c]
        BY <1>2, <1>4, <1>6, <3>3 DEF Pipes!Hand
      <4>2. QED
        BY <1>1, <1>2, <3>1, <4>1, PipeFlow
    <3>4. QED
      BY <3>2, <3>3
  <2>7. QED
    BY <2>1, <2>3, <2>4, <2>5, <2>6 DEF Pipes!Fine
<1>15. IF thread'[t].at = "idle" THEN thread'[t] = Pipes!Idle ELSE thread'[t].s = thread[t].s
  BY <1>4
<1>16. r.at # "idle"
  BY <1>2
<1>17. QED
  BY <1>2, <1>4, <1>7, <1>8, <1>9, <1>10, <1>11, <1>12, <1>13, <1>14, <1>15, <1>16, PipeStep

(* A connection that is ready is taken for the client.                     *)
LEMMA PipeDequeueConnection ==
  ASSUME Pipes!IInv, NEW t \in Routers, Pipes!DequeueConnection(t)
  PROVE  Pipes!IInv'
<1> DEFINE r == thread[t]
           w == Pipes!Got("pending", Pipes!Wait)
           rest == Pipes!Rest("pending", Pipes!Wait)
<1>1. /\ Pipes!TypeOK /\ Pipes!Once /\ Pipes!Working(t)
      /\ r \in Pipes!Thread
  BY DEF Pipes!IInv, Pipes!TypeOK
<1>2. /\ r.at = "get_pipe"
      /\ alone' = alone /\ sock' = sock /\ status' = status
      /\ packets' = packets /\ route' = route /\ out' = out /\ asked' = asked
  BY DEF Pipes!DequeueConnection, Pipes!At
<1>2t. /\ queue' = [queue EXCEPT !["pending"] = rest]
       /\ thread' = [thread EXCEPT ![t] = [@ EXCEPT !.w = w,
                       !.at = IF w = None THEN "get_connection" ELSE "set_route"]]
  BY DEF Pipes!DequeueConnection
<1>3. /\ r.s \in PipeIds /\ sock[r.s].role # "free" /\ Pipes!From(r.data, r.s)
      /\ r.c \in PipeIds /\ Pipes!Was(r.c, "public") /\ (sock[r.c].role = "public" => sock[r.c].sent > 0)
  BY <1>1, <1>2 DEF Pipes!Working, Pipes!Joining
<1>4. /\ rest \in Seq(PipeIds)
      /\ \A i \in DOMAIN rest : Pipes!In("pending", rest[i])
      /\ \A i, j \in DOMAIN rest : rest[i] = rest[j] => i = j
      /\ \A i \in DOMAIN rest : rest[i] # w
      /\ \/ w = None /\ rest = <<>>
         \/ w \in PipeIds /\ Pipes!In("pending", w) /\ status[w] = Pipes!Wait
  <2>1. \A i, j \in DOMAIN queue["pending"] : queue["pending"][i] = queue["pending"][j] => i = j
    BY <1>1 DEF Pipes!Once
  <2>2. QED
    BY <1>1, <2>1, PipeGot
<1> HIDE DEF w, rest
<1>5. /\ queue' \in [{"workers", "pending", "waiting"} -> Seq(PipeIds)]
      /\ queue'["pending"] = rest
      /\ \A x \in PipeIds : Pipes!In("waiting", x)' <=> Pipes!In("waiting", x)
      /\ \A x \in PipeIds : Pipes!In("pending", x)' => Pipes!In("pending", x) /\ x # w
      /\ w = None => \A x \in PipeIds : ~ Pipes!In("pending", x)'
  <2>1. /\ queue' \in [{"workers", "pending", "waiting"} -> Seq(PipeIds)]
        /\ queue'["waiting"] = queue["waiting"] /\ queue'["pending"] = rest
    BY <1>1, <1>2t, <1>4 DEF Pipes!TypeOK
  <2>2. \A x \in PipeIds : Pipes!In("waiting", x)' <=> Pipes!In("waiting", x)
    BY <2>1 DEF Pipes!In
  <2>3. \A x \in PipeIds : Pipes!In("pending", x)' => \E i \in DOMAIN rest : rest[i] = x
    BY <2>1 DEF Pipes!In
  <2>4. w = None => \A x \in PipeIds : ~ Pipes!In("pending", x)'
    BY <1>4, <2>3, PipeAssumption
  <2>5. QED
    BY <1>4, <2>1, <2>2, <2>3, <2>4
<1>6. /\ thread' \in [Routers -> Pipes!Thread]
      /\ thread'[t].at = (IF w = None THEN "get_connection" ELSE "set_route")
      /\ thread'[t].s = r.s /\ thread'[t].c = r.c /\ thread'[t].w = w /\ thread'[t].data = r.data
      /\ \A u \in Routers : u # t => thread'[u] = thread[u]
  <2> DEFINE x == [r EXCEPT !.w = w, !.at = IF w = None THEN "get_connection" ELSE "set_route"]
  <2>1. /\ x \in Pipes!Thread /\ x.at = (IF w = None THEN "get_connection" ELSE "set_route")
        /\ x.s = r.s /\ x.c = r.c /\ x.w = w /\ x.data = r.data
    <3>1. {"get_connection", "set_route"} \subseteq Pipes!Places /\ w \in PipeIds \cup {None}
      BY <1>4 DEF Pipes!Places
    <3> HIDE DEF r
    <3>2. QED
      BY <1>1, <3>1 DEF Pipes!Thread
  <2>2. thread' = [thread EXCEPT ![t] = x] /\ thread \in [Routers -> Pipes!Thread]
    BY <1>1, <1>2t DEF Pipes!TypeOK
  <2> HIDE DEF x, r
  <2>3. QED
    BY <2>1, <2>2
<1>6p. thread'[t].at \in {"get_connection", "set_route"}
  BY <1>6
<1>7. Pipes!TypeOK'
  BY <1>1, <1>2, <1>5, <1>6 DEF Pipes!TypeOK
<1>8. /\ Keeps /\ RouteKeeps /\ Pipes!Routed' /\ Pipes!Owned'
      /\ \A s \in PipeIds : sock'[s].role = sock[s].role /\ sock'[s].sent >= sock[s].sent
  BY <1>2, <1>7, PipeQuiet
<1>9. w # None => w \in PipeIds /\ Pipes!Was(w, "ready") /\ Pipes!Unjoined(w)
  BY <1>1, <1>4 DEF Pipes!Once
<1>10. Pipes!Working(t)'
  <2>1. Pipes!Was(thread[t].c, "public")'
    BY <1>2, <1>3, <1>6 DEF Pipes!Was
  <2>2. CASE w = None
    BY <1>2, <1>3, <1>6, <2>1, <2>2, PipeJoining
  <2>3. CASE w # None
    <3>1. thread'[t].at = "set_route" /\ w \in PipeIds
      BY <1>6, <1>9, <2>3
    <3>2. Pipes!Was(thread[t].w, "ready")'
      BY <1>2, <1>6, <1>9, <2>3 DEF Pipes!Was
    <3>3. Pipes!From(thread[t].data, thread[t].s)'
      BY <1>3, <1>6 DEF Pipes!From
    <3>4. QED
      BY <1>2, <1>3, <1>6, <2>1, <3>1, <3>2, <3>3 DEF Pipes!Working, Pipes!From, Pipes!Joining, Pipes!Was
  <2>4. QED
    BY <2>2, <2>3
<1>11. Pipes!Once'
  <2>1. \A u \in Routers, x \in PipeIds : Pipes!Takes(u, x)' => Pipes!Takes(u, x) \/ (u = t /\ x = w /\ w # None)
    <3> SUFFICES ASSUME NEW u \in Routers, NEW x \in PipeIds, Pipes!Takes(u, x)'
                 PROVE  Pipes!Takes(u, x) \/ (u = t /\ x = w /\ w # None)
      OBVIOUS
    <3>1. thread'[u].at = "set_route" /\ thread'[u].w = x
      BY DEF Pipes!Takes, Pipes!At
    <3>2. CASE u = t
      BY <1>6, <3>1, <3>2
    <3>3. CASE u # t
      BY <1>6, <3>1, <3>3 DEF Pipes!Takes, Pipes!At
    <3>4. QED
      BY <3>2, <3>3
  <2>2. \A x \in PipeIds : Pipes!Unjoined(x) /\ x # w => Pipes!Unjoined(x)'
    BY <1>2, <2>1 DEF Pipes!Unjoined
  <2>3. ASSUME NEW x \in PipeIds
        PROVE  /\ Pipes!In("pending", x)' => Pipes!Was(x, "ready")' /\ Pipes!Unjoined(x)'
               /\ sock'[x].role = "ready" /\ status'[x] = Pipes!Conn => ~ Pipes!In("pending", x)' /\ Pipes!Unjoined(x)'
               /\ \A u \in Routers : Pipes!Takes(u, x)' =>
                    route'["public"][x] = None /\ \A v \in Routers : Pipes!Takes(v, x)' => v = u
    <3>1. /\ Pipes!In("pending", x) => Pipes!Was(x, "ready") /\ Pipes!Unjoined(x)
          /\ sock[x].role = "ready" /\ status[x] = Pipes!Conn => ~ Pipes!In("pending", x) /\ Pipes!Unjoined(x)
          /\ \A u \in Routers : Pipes!Takes(u, x) =>
               route["public"][x] = None /\ \A v \in Routers : Pipes!Takes(v, x) => v = u
      BY <1>1 DEF Pipes!Once
    <3>2. Pipes!Was(x, "ready") => Pipes!Was(x, "ready")'
      BY <1>8 DEF Keeps
    <3>3. Pipes!In("pending", x)' => Pipes!Was(x, "ready")' /\ Pipes!Unjoined(x)'
      BY <1>5, <2>2, <3>1, <3>2
    <3>4. sock'[x].role = "ready" /\ status'[x] = Pipes!Conn => ~ Pipes!In("pending", x)' /\ Pipes!Unjoined(x)'
      <4> SUFFICES ASSUME sock'[x].role = "ready", status'[x] = Pipes!Conn
                   PROVE  ~ Pipes!In("pending", x)' /\ Pipes!Unjoined(x)'
        OBVIOUS
      <4>1. ~ Pipes!In("pending", x) /\ Pipes!Unjoined(x)
        BY <1>2, <3>1
      <4>2. x # w
        BY <1>4, <4>1, PipeAssumption
      <4>3. QED
        BY <1>5, <2>2, <4>1, <4>2
    <3>5. ASSUME NEW u \in Routers, Pipes!Takes(u, x)'
          PROVE  route'["public"][x] = None /\ \A v \in Routers : Pipes!Takes(v, x)' => v = u
      <4>1. CASE x = w
        BY <1>2, <1>9, <2>1, <3>5, <4>1, PipeAssumption DEF Pipes!Unjoined
      <4>2. CASE x # w
        BY <1>2, <2>1, <3>1, <3>5, <4>2
      <4>3. QED
        BY <4>1, <4>2
    <3>6. QED
      BY <3>3, <3>4, <3>5
  <2>4. ASSUME NEW c \in PipeIds, Pipes!In("waiting", c)'
        PROVE  Pipes!Was(c, "public")' /\ (sock'[c].role = "public" => sock'[c].sent > 0)
    <3>1. Pipes!Was(c, "public") /\ (sock[c].role = "public" => sock[c].sent > 0)
      BY <1>1, <1>5, <2>4 DEF Pipes!Once
    <3>2. QED
      BY <1>1, <1>7, <1>8, <3>1, PipeSent
  <2>5. \A i, j \in DOMAIN queue'["pending"] : queue'["pending"][i] = queue'["pending"][j] => i = j
    BY <1>4, <1>5
  <2>6. QED
    BY <2>3, <2>4, <2>5 DEF Pipes!Once
<1>12. ASSUME alone, Pipes!Fine(thread[t]) PROVE Pipes!Fine(thread[t])'
  <2>1. Pipes!Statuses(thread[t])'
    BY <1>2, <1>6p, <1>12, PipeStatuses DEF Pipes!Fine
  <2>2. Pipes!Joins(thread[t])'
    <3>1. sock[r.c].role = "public" /\ status[r.c] = Pipes!Conn
      BY <1>2, <1>12 DEF Pipes!Fine, Pipes!Joins, Pipes!Joining
    <3>2. CASE w = None
      <4>1. thread'[t].at = "get_connection" /\ thread'[t].w = None /\ thread'[t].c = r.c
        BY <1>6, <3>2
      <4>2. QED
        BY <1>2, <3>1, <4>1 DEF Pipes!Joins, Pipes!Joining
    <3>3. CASE w # None
      <4>1. status[w] = Pipes!Wait /\ thread'[t].at = "set_route"
        BY <1>4, <1>6, <3>3
      <4>2. QED
        BY <1>2, <1>6, <3>1, <4>1 DEF Pipes!Joins, Pipes!Joining
    <3>4. QED
      BY <3>2, <3>3
  <2>3. Pipes!Stalls(thread[t])'
    <3>1. \/ ~ \E d \in PipeIds : status[d] = Pipes!Conn /\ Pipes!In("waiting", d)
          \/ \A x \in PipeIds : status[x] = Pipes!Wait /\ Pipes!In("pending", x) => x = r.s
      BY <1>12 DEF Pipes!Fine, Pipes!Stalls
    <3>2. CASE w = None
      BY <1>5, <3>2 DEF Pipes!Stalls
    <3>3. CASE w # None
      <4>1. w \in PipeIds /\ status[w] = Pipes!Wait /\ Pipes!In("pending", w)
        BY <1>4, <3>3
      <4>2. CASE \A x \in PipeIds : status[x] = Pipes!Wait /\ Pipes!In("pending", x) => x = r.s
        <5>1. \A x \in PipeIds : ~ (status'[x] = Pipes!Wait /\ Pipes!In("pending", x)')
          BY <1>2, <1>5, <4>1, <4>2
        <5>2. QED
          BY <5>1 DEF Pipes!Stalls
      <4>3. CASE ~ \E d \in PipeIds : status[d] = Pipes!Conn /\ Pipes!In("waiting", d)
        BY <1>2, <1>5, <4>3 DEF Pipes!Stalls
      <4>4. QED
        BY <3>1, <4>2, <4>3
    <3>4. QED
      BY <3>2, <3>3
  <2>4. Pipes!Tried(thread[t])'
    BY <1>5, <1>6 DEF Pipes!Tried
  <2>5. \A d \in PipeIds : sock'[d].role = "public" => Pipes!Flow(thread[t], d)'
    <3> SUFFICES ASSUME NEW d \in PipeIds, sock'[d].role = "public" PROVE Pipes!Flow(thread[t], d)'
      OBVIOUS
    <3>1. Pipes!Flow(thread[t], d)
      BY <1>2, <1>12 DEF Pipes!Fine
    <3>2. Pipes!Hand(thread'[t], d) = Pipes!Hand(thread[t], d)
      BY <1>2, <1>6p DEF Pipes!Hand
    <3>3. QED
      BY <1>1, <1>2, <3>1, <3>2, PipeFlow
  <2>6. QED
    BY <2>1, <2>2, <2>3, <2>4, <2>5 DEF Pipes!Fine
<1>13. IF thread'[t].at = "idle" THEN thread'[t] = Pipes!Idle ELSE thread'[t].s = thread[t].s
  BY <1>6
<1>14. r.at # "idle"
  BY <1>2
<1>15. QED
  BY <1>2, <1>6, <1>7, <1>8, <1>10, <1>11, <1>12, <1>13, <1>14, PipeStep

(* The two routes are set,                                                 *)
LEMMA PipeSetRoute ==
  ASSUME Pipes!IInv, NEW t \in Routers, Pipes!SetRoute(t)
  PROVE  Pipes!IInv'
<1> DEFINE r == thread[t]
           c == r.c
           w == r.w
<1>1. /\ Pipes!TypeOK /\ Pipes!Once /\ Pipes!Routed /\ Pipes!Owned /\ Pipes!Working(t)
      /\ r \in Pipes!Thread
  BY DEF Pipes!IInv, Pipes!TypeOK
<1>2. /\ r.at = "set_route" /\ Pipes!To(t, "set_client")
      /\ alone' = alone /\ sock' = sock /\ status' = status /\ queue' = queue
      /\ packets' = packets /\ out' = out /\ asked' = asked
  BY DEF Pipes!SetRoute, Pipes!At
<1>2r. route' = [route EXCEPT !["worker"][c] = w, !["public"][w] = c]
  BY DEF Pipes!SetRoute
<1>3. /\ thread' \in [Routers -> Pipes!Thread]
      /\ thread'[t].at = "set_client" /\ thread'[t].s = r.s /\ thread'[t].c = c
      /\ thread'[t].w = w /\ thread'[t].data = r.data
      /\ \A u \in Routers : u # t => thread'[u] = thread[u]
  <2>1. "set_client" \in Pipes!Places
    BY DEF Pipes!Places
  <2>2. QED
    BY <1>1, <1>2, <2>1, PipeTo
<1>4. /\ r.s \in PipeIds /\ sock[r.s].role # "free" /\ Pipes!From(r.data, r.s)
      /\ c \in PipeIds /\ Pipes!Was(c, "public") /\ (sock[c].role = "public" => sock[c].sent > 0)
      /\ w \in PipeIds /\ Pipes!Was(w, "ready") /\ Pipes!Takes(t, w) /\ route["public"][w] = None
  <2>1. /\ r.s \in PipeIds /\ sock[r.s].role # "free" /\ Pipes!From(r.data, r.s)
        /\ c \in PipeIds /\ Pipes!Was(c, "public") /\ (sock[c].role = "public" => sock[c].sent > 0)
        /\ w \in PipeIds /\ Pipes!Was(w, "ready")
    BY <1>1, <1>2 DEF Pipes!Working, Pipes!Joining
  <2>2. Pipes!Takes(t, w)
    BY <1>2 DEF Pipes!Takes, Pipes!At
  <2>3. route["public"][w] = None
    BY <1>1, <2>1, <2>2 DEF Pipes!Once
  <2>4. QED
    BY <2>1, <2>2, <2>3
<1>7. \A x \in PipeIds : sock[x].sent \in Nat /\ sock'[x].sent >= sock[x].sent
  <2>1. \A x \in PipeIds : sock[x].sent \in Nat
    BY <1>1 DEF Pipes!TypeOK, Pipes!Socket
  <2>2. QED
    BY <1>2, <2>1
<1> HIDE DEF c, w
<1>5. /\ route' \in [{"worker", "public"} -> [PipeIds -> PipeIds \cup {None}]]
      /\ route'["worker"][c] = w /\ route'["public"][w] = c
      /\ \A x \in PipeIds : x # c => route'["worker"][x] = route["worker"][x]
      /\ \A x \in PipeIds : x # w => route'["public"][x] = route["public"][x]
  BY <1>1, <1>2r, <1>4 DEF Pipes!TypeOK
<1>6. Pipes!TypeOK'
  BY <1>1, <1>2, <1>3, <1>5 DEF Pipes!TypeOK
<1>8. Keeps /\ RouteKeeps
  <2>1. Keeps
    BY <1>1, <1>2, <1>6, <1>7, PipeSame
  <2>2. QED
    BY <1>4, <1>5, <2>1 DEF RouteKeeps
<1>9. Pipes!Working(t)'
  <2>1. Pipes!Was(thread[t].c, "public")'
    BY <1>2, <1>3, <1>4 DEF Pipes!Was
  <2>2. Pipes!From(thread[t].data, thread[t].s)'
    BY <1>3, <1>4 DEF Pipes!From
  <2>3. QED
    BY <1>2, <1>3, <1>4, <1>5, <2>1, <2>2 DEF Pipes!Working, Pipes!From, Pipes!Joining, Pipes!Was
<1>10. \A u \in Routers, x \in PipeIds : Pipes!Takes(u, x)' => Pipes!Takes(u, x) /\ x # w
  <2> SUFFICES ASSUME NEW u \in Routers, NEW x \in PipeIds, Pipes!Takes(u, x)'
               PROVE  Pipes!Takes(u, x) /\ x # w
    OBVIOUS
  <2>1. Pipes!Takes(u, x)
    BY <1>3, PipeTakes
  <2>2. u # t
    BY <1>3 DEF Pipes!Takes, Pipes!At
  <2>3. QED
    BY <1>1, <1>4, <2>1, <2>2 DEF Pipes!Once
<1>11. Pipes!Once'
  <2>1. \A x \in PipeIds, q \in {"pending", "waiting"} : Pipes!In(q, x)' <=> Pipes!In(q, x)
    BY <1>2 DEF Pipes!In
  <2>2. \A x \in PipeIds : Pipes!Unjoined(x) => x # w /\ Pipes!Unjoined(x)'
    BY <1>4, <1>5, <1>10 DEF Pipes!Unjoined
  <2>3. ASSUME NEW x \in PipeIds
        PROVE  /\ Pipes!In("pending", x)' => Pipes!Was(x, "ready")' /\ Pipes!Unjoined(x)'
               /\ sock'[x].role = "ready" /\ status'[x] = Pipes!Conn => ~ Pipes!In("pending", x)' /\ Pipes!Unjoined(x)'
               /\ \A u \in Routers : Pipes!Takes(u, x)' =>
                    route'["public"][x] = None /\ \A v \in Routers : Pipes!Takes(v, x)' => v = u
    <3>1. /\ Pipes!In("pending", x) => Pipes!Was(x, "ready") /\ Pipes!Unjoined(x)
          /\ sock[x].role = "ready" /\ status[x] = Pipes!Conn => ~ Pipes!In("pending", x) /\ Pipes!Unjoined(x)
          /\ \A u \in Routers : Pipes!Takes(u, x) =>
               route["public"][x] = None /\ \A v \in Routers : Pipes!Takes(v, x) => v = u
      BY <1>1 DEF Pipes!Once
    <3>2. Pipes!Was(x, "ready") => Pipes!Was(x, "ready")'
      BY <1>8 DEF Keeps
    <3>3. ASSUME NEW u \in Routers, Pipes!Takes(u, x)'
          PROVE  route'["public"][x] = None /\ \A v \in Routers : Pipes!Takes(v, x)' => v = u
      BY <1>5, <1>10, <3>1, <3>3
    <3>4. QED
      BY <1>2, <2>1, <2>2, <3>1, <3>2, <3>3
  <2>4. ASSUME NEW d \in PipeIds, Pipes!In("waiting", d)'
        PROVE  Pipes!Was(d, "public")' /\ (sock'[d].role = "public" => sock'[d].sent > 0)
    <3>1. Pipes!Was(d, "public") /\ (sock[d].role = "public" => sock[d].sent > 0)
      BY <1>1, <2>1, <2>4 DEF Pipes!Once
    <3>2. QED
      BY <1>1, <1>6, <1>8, <3>1, PipeSent
  <2>5. \A i, j \in DOMAIN queue'["pending"] : queue'["pending"][i] = queue'["pending"][j] => i = j
    BY <1>1, <1>2 DEF Pipes!Once
  <2>6. QED
    BY <2>3, <2>4, <2>5 DEF Pipes!Once
<1>12. Pipes!Routed'
  <2>1. ASSUME NEW x \in PipeIds, route'["public"][x] # None
        PROVE  LET d == route'["public"][x] IN
               Pipes!Was(x, "ready") /\ Pipes!Was(d, "public") /\ (sock[d].role = "public" => sock[d].sent > 0)
    <3>1. CASE x = w
      BY <1>4, <1>5, <3>1
    <3>2. CASE x # w
      BY <1>1, <1>5, <2>1, <3>2 DEF Pipes!Routed
    <3>3. QED
      BY <3>1, <3>2
  <2>2. ASSUME NEW d \in PipeIds, route'["worker"][d] # None
        PROVE  route'["public"][route'["worker"][d]] = d
    <3>1. CASE d = c
      BY <1>5, <3>1
    <3>2. CASE d # c
      <4>1. route["public"][route["worker"][d]] = d /\ route["worker"][d] \in PipeIds
        BY <1>1, <1>5, <2>2, <3>2 DEF Pipes!Routed, Pipes!TypeOK
      <4>2. route["worker"][d] # w
        BY <1>4, <4>1, PipeAssumption
      <4>3. QED
        BY <1>5, <3>2, <4>1, <4>2
    <3>3. QED
      BY <3>1, <3>2
  <2>3. QED
    BY <1>2, <2>1, <2>2 DEF Pipes!Routed, Pipes!Was
<1>13. Pipes!Owned'
  <2> SUFFICES ASSUME NEW x \in PipeIds
               PROVE  /\ sock'[x].role # "free" => sock'[x].life > 0
                      /\ Pipes!From(packets'[x], x) /\ Pipes!From(sock'[x].kept, x)
                      /\ packets'[x] # <<>> => Pipes!Was(x, "public")'
                      /\ sock'[x].role = "ready" => Pipes!From(out'[x], route'["public"][x])
                      /\ sock'[x].role = "public" => \A i \in DOMAIN out'[x] : Pipes!Was(out[x][i].from, "ready")'
    BY DEF Pipes!Owned, Pipes!From, Pipes!Was
  <2>1. /\ sock[x].role # "free" => sock[x].life > 0
        /\ Pipes!From(packets[x], x) /\ Pipes!From(sock[x].kept, x)
        /\ packets[x] # <<>> => Pipes!Was(x, "public")
        /\ sock[x].role = "ready" => Pipes!From(out[x], route["public"][x])
        /\ sock[x].role = "public" => \A i \in DOMAIN out[x] : Pipes!Was(out[x][i].from, "ready")
    BY <1>1 DEF Pipes!Owned
  <2>2. sock[x].role = "ready" => Pipes!From(out[x], route'["public"][x])
    <3>1. CASE x # w
      BY <1>5, <2>1, <3>1
    <3>2. CASE x = w
      <4>1. \A i \in DOMAIN out[x] : out[x][i].from \in PipeIds
        <5>1. out[x] \in Seq(Pipes!Packet)
          BY <1>1 DEF Pipes!TypeOK
        <5>2. \A i \in DOMAIN out[x] : out[x][i] \in Pipes!Packet
          BY <5>1
        <5>3. QED
          BY <5>2 DEF Pipes!Packet
      <4>2. QED
        BY <1>4, <2>1, <3>2, <4>1, PipeAssumption DEF Pipes!From
    <3>3. QED
      BY <3>1, <3>2
  <2>3. QED
    BY <1>2, <2>1, <2>2 DEF Pipes!Was
<1>14. ASSUME alone, Pipes!Fine(thread[t]) PROVE Pipes!Fine(thread[t])'
  <2>1. Pipes!Statuses(r)
    BY <1>14 DEF Pipes!Fine
  <2>2. sock[c].role = "public" /\ status[c] = 1 /\ status[w] = 4
    BY <1>2, <1>14 DEF Pipes!Fine, Pipes!Joins, Pipes!Joining, Pipes!Conn, Pipes!Wait, c, w
  <2>3. ASSUME NEW x \in PipeIds
        PROVE  /\ sock[x].role = "free" => status[x] = 0
               /\ sock[x].role # "free" => status[x] # 0
               /\ (status[x] = 4 => sock[x].role = "ready")
               /\ (status[x] = 2 => sock[x].role = "control")
               /\ sock[x].role = "public" /\ status[x] # 0 =>
                    (route["worker"][x] # None <=> status[x] = 16)
               /\ sock[x].role = "ready" /\ status[x] # 0 =>
                    (route["public"][x] # None <=> status[x] = 16)
               /\ route["public"][x] # None => route["worker"][route["public"][x]] = x
    BY <1>2, <2>1 DEF Pipes!Statuses, Pipes!Down, Pipes!Work, Pipes!Wait, Pipes!Pipe
  <2>4. route["worker"][c] = None /\ sock[w].role = "ready"
    BY <1>4, <2>2, <2>3
  <2>5. Pipes!Statuses(thread[t])'
    <3> SUFFICES ASSUME NEW x \in PipeIds
                 PROVE  /\ sock[x].role = "free" => status[x] = 0
                        /\ sock[x].role # "free" => status[x] # 0
                        /\ (status[x] = 4 => sock[x].role = "ready")
                        /\ (status[x] = 2 => sock[x].role = "control")
                        /\ sock[x].role = "public" /\ status[x] # 0 =>
                             (route'["worker"][x] # None <=> status[x] = 16 \/ x = c)
                        /\ sock[x].role = "ready" /\ status[x] # 0 =>
                             (route'["public"][x] # None <=> status[x] = 16 \/ x = w)
                        /\ route'["public"][x] # None => route'["worker"][route'["public"][x]] = x
      BY <1>2, <1>3 DEF Pipes!Statuses, Pipes!Down, Pipes!Work, Pipes!Wait, Pipes!Pipe
    <3>1. route'["public"][x] # None => route'["worker"][route'["public"][x]] = x
      <4>1. CASE x = w
        BY <1>5, <4>1
      <4>2. CASE x # w
        <5>1. route'["public"][x] = route["public"][x]
          BY <1>5, <4>2
        <5>2. route["public"][x] # None => route["public"][x] \in PipeIds /\ route["public"][x] # c
          BY <1>1, <2>3, <2>4, PipeAssumption DEF Pipes!TypeOK
        <5>3. QED
          BY <1>5, <2>3, <5>1, <5>2
      <4>3. QED
        BY <4>1, <4>2
    <3>2. route'["worker"][x] # None <=> route["worker"][x] # None \/ x = c
      BY <1>4, <1>5, PipeAssumption
    <3>3. route'["public"][x] # None <=> route["public"][x] # None \/ x = w
      BY <1>4, <1>5, PipeAssumption
    <3>4. QED
      BY <2>3, <3>1, <3>2, <3>3
  <2>6. Pipes!Joins(thread[t])'
    BY <1>2, <1>3, <2>2 DEF Pipes!Joins, Pipes!Joining, Pipes!Conn, Pipes!Wait
  <2>7. Pipes!Stalls(thread[t])'
    <3>1. Pipes!Stalls(r) /\ r.at \notin {"dequeue_waiting", "get_pipe"}
      BY <1>2, <1>14 DEF Pipes!Fine
    <3>2. \A x \in PipeIds, q \in {"pending", "waiting"} : Pipes!In(q, x)' => Pipes!In(q, x)
      BY <1>2 DEF Pipes!In
    <3>3. QED
      BY <1>2, <3>1, <3>2, PipeStalls
  <2>8. Pipes!Tried(thread[t])'
    BY <1>3 DEF Pipes!Tried
  <2>9. \A d \in PipeIds : sock'[d].role = "public" => Pipes!Flow(thread[t], d)'
    <3> SUFFICES ASSUME NEW d \in PipeIds, sock'[d].role = "public" PROVE Pipes!Flow(thread[t], d)'
      OBVIOUS
    <3>1. Pipes!Flow(thread[t], d)
      BY <1>2, <1>14 DEF Pipes!Fine
    <3>2. Pipes!Hand(thread'[t], d) = <<>> /\ Pipes!Hand(thread[t], d) = <<>>
      BY <1>2, <1>3 DEF Pipes!Hand
    <3>3. CASE d = c
      <4>1. /\ sock[c].kept = <<>> /\ Pipes!Counts(packets[c], 0)
            /\ sock[c].sent = Len(packets[c]) + Len(<<>>)
        BY <2>4, <3>1, <3>2, <3>3 DEF Pipes!Flow
      <4>2. out[w] = <<>>
        <5>1. Pipes!From(out[w], None)
          BY <1>1, <1>4, <2>4 DEF Pipes!Owned
        <5>2. out[w] \in Seq(Pipes!Packet)
          BY <1>1, <1>4 DEF Pipes!TypeOK
        <5>3. \A i \in DOMAIN out[w] : out[w][i] \in Pipes!Packet
          BY <5>2
        <5>4. \A i \in DOMAIN out[w] : FALSE
          BY <5>1, <5>3, PipeAssumption DEF Pipes!From, Pipes!Packet
        <5>5. \A q \in Seq(Pipes!Packet) : (\A i \in DOMAIN q : FALSE) => q = <<>>
          <6> SUFFICES ASSUME NEW q \in Seq(Pipes!Packet), \A i \in DOMAIN q : FALSE
                       PROVE  q = <<>>
            OBVIOUS
          <6>1. DOMAIN q = 1 .. Len(q) /\ Len(q) \in Nat
            OBVIOUS
          <6>2. 1 \notin DOMAIN q
            OBVIOUS
          <6>3. Len(q) = 0
            BY <6>1, <6>2
          <6>4. QED
            BY <6>3, EmptySeq
        <5>6. QED
          BY <5>2, <5>4, <5>5
      <4>3. Len(packets[c]) \in Nat
        BY <1>1, <1>4 DEF Pipes!TypeOK
      <4>4. packets'[c] = packets[c] /\ sock'[c].kept = <<>> /\ sock'[c].sent = Len(packets[c])
            /\ route'["worker"][c] = w /\ out'[w] = <<>> /\ w # None
        <5> USE DEF c, w
        <5>1. sock[c].sent = Len(packets[c])
          BY <4>1, <4>3, PipeEmpty
        <5>2. w # None
          BY <1>4, PipeAssumption
        <5>3. QED
          BY <1>2, <1>5, <4>1, <4>2, <5>1, <5>2
      <4>5. thread'[t].at = "set_client" /\ thread'[t].c = c
        BY <1>3
      <4>6. Pipes!Counts(out'[w], 0) /\ Pipes!Counts(<<>>, Len(out'[w])) /\ Len(out'[w]) = 0
        BY <4>4, PipeEmpty
      <4>7. Pipes!Counts(packets[c], Len(out'[w]) + Len(<<>>))
            /\ Len(packets[c]) = Len(out'[w]) + Len(<<>>) + Len(packets[c])
        BY <4>1, <4>3, <4>6, PipeEmpty
      <4>8. QED
        <5> USE DEF c, w
        <5>1. QED
          BY <1>4, <3>2, <3>3, <4>4, <4>5, <4>6, <4>7, PipeFlowIs
    <3>4. CASE d # c
      <4>1. route'["worker"][d] = route["worker"][d]
        BY <1>5, <3>4
      <4>2. QED
        BY <1>1, <1>2, <3>1, <3>2, <4>1, PipeFlow
    <3>5. QED
      BY <3>3, <3>4
  <2>10. QED
    BY <2>5, <2>6, <2>7, <2>8, <2>9 DEF Pipes!Fine
<1>15. IF thread'[t].at = "idle" THEN thread'[t] = Pipes!Idle ELSE thread'[t].s = thread[t].s
  BY <1>3
<1>16. r.at # "idle"
  BY <1>2
<1>17. QED
  BY <1>2, <1>3, <1>6, <1>7, <1>8, <1>9, <1>11, <1>12, <1>13, <1>14, <1>15, <1>16, PipeStep

(* then the status of the client                                           *)
LEMMA PipeSetClient ==
  ASSUME Pipes!IInv, NEW t \in Routers,
         Pipes!SetPipe(t, "set_client", thread[t].c, "set_worker")
  PROVE  Pipes!IInv'
<1> DEFINE r == thread[t]
           c == r.c
           w == r.w
<1>1. /\ Pipes!TypeOK /\ Pipes!Once /\ Pipes!Working(t)
      /\ r \in Pipes!Thread
  BY DEF Pipes!IInv, Pipes!TypeOK
<1>2. /\ r.at = "set_client" /\ Pipes!SetStatus(c, 16)
      /\ IF Pipes!May(c, 16) THEN Pipes!To(t, "set_worker") ELSE Pipes!Done(t)
      /\ alone' = alone /\ sock' = sock /\ queue' = queue
      /\ packets' = packets /\ route' = route /\ out' = out /\ asked' = asked
  BY DEF Pipes!SetPipe, Pipes!At, Pipes!Pipe
<1>3. /\ r.s \in PipeIds /\ sock[r.s].role # "free" /\ Pipes!From(r.data, r.s)
      /\ c \in PipeIds /\ Pipes!Was(c, "public") /\ (sock[c].role = "public" => sock[c].sent > 0)
      /\ w \in PipeIds /\ route["public"][w] = c
  BY <1>1, <1>2 DEF Pipes!Working, Pipes!Joining
<1>4. /\ thread' \in [Routers -> Pipes!Thread]
      /\ \A u \in Routers : u # t => thread'[u] = thread[u]
      /\ \/ /\ ~ Pipes!May(c, 16) /\ thread'[t] = Pipes!Idle /\ thread'[t].at = "idle"
         \/ /\ Pipes!May(c, 16) /\ thread'[t].at = "set_worker" /\ thread'[t].s = r.s /\ thread'[t].c = c
            /\ thread'[t].w = w /\ thread'[t].data = r.data
  <2>1. "set_worker" \in Pipes!Places
    BY DEF Pipes!Places
  <2>2. CASE Pipes!May(c, 16)
    BY <1>1, <1>2, <2>1, <2>2, PipeTo
  <2>3. CASE ~ Pipes!May(c, 16)
    BY <1>1, <1>2, <2>3, PipeDone
  <2>4. QED
    BY <2>2, <2>3
<1>5. /\ status' \in [PipeIds -> {0, 1, 2, 4, 16}]
      /\ status'[c] = IF Pipes!May(c, 16) THEN 16 ELSE status[c]
      /\ \A x \in PipeIds : x # c => status'[x] = status[x]
  BY <1>1, <1>2, <1>3, PipeStatus
<1>6. Pipes!TypeOK'
  BY <1>1, <1>2, <1>4, <1>5
     DEF Pipes!TypeOK, Pipes!Down, Pipes!Conn, Pipes!Work, Pipes!Wait, Pipes!Pipe
<1>7. /\ Keeps /\ RouteKeeps /\ Pipes!Routed' /\ Pipes!Owned'
      /\ \A s \in PipeIds : sock'[s].role = sock[s].role /\ sock'[s].sent >= sock[s].sent
  BY <1>2, <1>6, PipeQuiet
<1>8. Pipes!Working(t)'
  <2>1. CASE thread'[t] = Pipes!Idle
    BY <2>1, PipeIdle
  <2>2. CASE thread'[t].at = "set_worker" /\ thread'[t].s = r.s /\ thread'[t].c = c
             /\ thread'[t].w = w /\ thread'[t].data = r.data
    <3>1. Pipes!Was(thread[t].c, "public")'
      BY <1>2, <1>3, <2>2 DEF Pipes!Was
    <3>2. Pipes!From(thread[t].data, thread[t].s)'
      BY <1>3, <2>2 DEF Pipes!From
    <3>3. QED
      BY <1>2, <1>3, <2>2, <3>1, <3>2 DEF Pipes!Working, Pipes!From, Pipes!Joining, Pipes!Was
  <2>3. QED
    BY <1>4, <2>1, <2>2
<1>9. \A x \in PipeIds : /\ status'[x] = Pipes!Conn => status[x] = Pipes!Conn
                         /\ status'[x] = Pipes!Wait => status[x] = Pipes!Wait
  BY <1>5 DEF Pipes!Conn, Pipes!Wait
<1>10. \A x \in PipeIds, q \in {"pending", "waiting"} : Pipes!In(q, x)' => Pipes!In(q, x)
  BY <1>2 DEF Pipes!In
<1>11. Pipes!Once'
  <2>1. \A u \in Routers, x \in PipeIds : Pipes!Takes(u, x)' => Pipes!Takes(u, x)
    BY <1>4, PipeTakes
  <2>2. QED
    BY <1>1, <1>2, <1>6, <1>7, <1>9, <1>10, <2>1, PipeOnce
<1>12. ASSUME alone, Pipes!Fine(thread[t]) PROVE Pipes!Fine(thread[t])'
  <2>1. sock[c].role = "public" /\ status[c] = 1 /\ status[w] = 4
    BY <1>2, <1>12 DEF Pipes!Fine, Pipes!Joins, Pipes!Joining, Pipes!Conn, Pipes!Wait
  <2>2. Pipes!May(c, 16)
    BY <2>1 DEF Pipes!May
  <2>3. /\ thread'[t].at = "set_worker" /\ thread'[t].s = r.s /\ thread'[t].c = c
        /\ thread'[t].w = w /\ thread'[t].data = r.data /\ status'[c] = 16
    BY <1>4, <1>5, <2>2
  <2>4. ASSUME NEW x \in PipeIds
        PROVE  /\ sock[x].role = "free" => status[x] = 0
               /\ sock[x].role # "free" => status[x] # 0
               /\ (status[x] = 4 => sock[x].role = "ready")
               /\ (status[x] = 2 => sock[x].role = "control")
               /\ sock[x].role = "public" /\ status[x] # 0 =>
                    (route["worker"][x] # None <=> status[x] = 16 \/ x = c)
               /\ sock[x].role = "ready" /\ status[x] # 0 =>
                    (route["public"][x] # None <=> status[x] = 16 \/ x = w)
               /\ route["public"][x] # None => route["worker"][route["public"][x]] = x
    BY <1>2, <1>12 DEF Pipes!Fine, Pipes!Statuses, Pipes!Down, Pipes!Work, Pipes!Wait, Pipes!Pipe
  <2>5. Pipes!Statuses(thread[t])'
    <3> SUFFICES ASSUME NEW x \in PipeIds
                 PROVE  /\ sock[x].role = "free" => status'[x] = 0
                        /\ sock[x].role # "free" => status'[x] # 0
                        /\ (status'[x] = 4 => sock[x].role = "ready")
                        /\ (status'[x] = 2 => sock[x].role = "control")
                        /\ sock[x].role = "public" /\ status'[x] # 0 =>
                             (route["worker"][x] # None <=> status'[x] = 16)
                        /\ sock[x].role = "ready" /\ status'[x] # 0 =>
                             (route["public"][x] # None <=> status'[x] = 16 \/ x = w)
                        /\ route["public"][x] # None => route["worker"][route["public"][x]] = x
      BY <1>2, <2>3 DEF Pipes!Statuses, Pipes!Down, Pipes!Work, Pipes!Wait, Pipes!Pipe
    <3>1. IF x = c THEN status'[x] = 16 ELSE status'[x] = status[x]
      BY <1>5, <2>3
    <3>2. QED
      BY <2>1, <2>4, <3>1
  <2>6. Pipes!Joins(thread[t])'
    <3>1. sock[w].role = "ready" /\ w # c
      BY <1>3, <2>1, <2>4
    <3>2. status'[w] = 4
      BY <1>3, <1>5, <2>1, <3>1
    <3>3. QED
      BY <1>2, <2>1, <2>3, <3>2 DEF Pipes!Joins, Pipes!Joining, Pipes!Pipe, Pipes!Wait
  <2>7. Pipes!Stalls(thread[t])'
    <3>1. Pipes!Stalls(r) /\ r.at \notin {"dequeue_waiting", "get_pipe"}
      BY <1>2, <1>12 DEF Pipes!Fine
    <3>2. QED
      BY <1>9, <1>10, <3>1, PipeStalls
  <2>8. Pipes!Tried(thread[t])'
    BY <2>3 DEF Pipes!Tried
  <2>9. \A d \in PipeIds : sock'[d].role = "public" => Pipes!Flow(thread[t], d)'
    <3> SUFFICES ASSUME NEW d \in PipeIds, sock'[d].role = "public" PROVE Pipes!Flow(thread[t], d)'
      OBVIOUS
    <3>1. Pipes!Flow(thread[t], d)
      BY <1>2, <1>12 DEF Pipes!Fine
    <3>2. Pipes!Hand(thread'[t], d) = Pipes!Hand(thread[t], d)
      BY <1>2, <2>3 DEF Pipes!Hand
    <3>3. QED
      BY <1>1, <1>2, <2>3, <3>1, <3>2, PipeFlow
  <2>10. QED
    BY <2>5, <2>6, <2>7, <2>8, <2>9 DEF Pipes!Fine
<1>13. IF thread'[t].at = "idle" THEN thread'[t] = Pipes!Idle ELSE thread'[t].s = thread[t].s
  BY <1>4
<1>14. r.at # "idle" /\ \A x \in PipeIds : sock[x].role = "ready" => status'[x] = status[x]
  BY <1>2, <1>3, <1>5 DEF Pipes!Was
<1>15. QED
  BY <1>2, <1>4, <1>6, <1>7, <1>8, <1>11, <1>12, <1>13, <1>14, PipeStep

(* and that of the connection of the worker.                               *)
LEMMA PipeSetWorker ==
  ASSUME Pipes!IInv, NEW t \in Routers,
         Pipes!SetPipe(t, "set_worker", thread[t].w, "packets")
  PROVE  Pipes!IInv'
<1> DEFINE r == thread[t]
           c == r.c
           w == r.w
<1>1. /\ Pipes!TypeOK /\ Pipes!Once /\ Pipes!Working(t)
      /\ r \in Pipes!Thread
  BY DEF Pipes!IInv, Pipes!TypeOK
<1>2. /\ r.at = "set_worker" /\ Pipes!SetStatus(w, 16)
      /\ IF Pipes!May(w, 16) THEN Pipes!To(t, "packets") ELSE Pipes!Done(t)
      /\ alone' = alone /\ sock' = sock /\ queue' = queue
      /\ packets' = packets /\ route' = route /\ out' = out /\ asked' = asked
  BY DEF Pipes!SetPipe, Pipes!At, Pipes!Pipe
<1>3. /\ r.s \in PipeIds /\ sock[r.s].role # "free" /\ Pipes!From(r.data, r.s)
      /\ c \in PipeIds /\ Pipes!Was(c, "public") /\ (sock[c].role = "public" => sock[c].sent > 0)
      /\ w \in PipeIds /\ route["public"][w] = c /\ ~ Pipes!Unjoined(w)
  <2>1. /\ r.s \in PipeIds /\ sock[r.s].role # "free" /\ Pipes!From(r.data, r.s)
        /\ c \in PipeIds /\ Pipes!Was(c, "public") /\ (sock[c].role = "public" => sock[c].sent > 0)
        /\ w \in PipeIds /\ route["public"][w] = c
    BY <1>1, <1>2 DEF Pipes!Working, Pipes!Joining
  <2>2. QED
    BY <2>1, PipeAssumption DEF Pipes!Unjoined
<1>4. /\ thread' \in [Routers -> Pipes!Thread]
      /\ \A u \in Routers : u # t => thread'[u] = thread[u]
      /\ \/ /\ ~ Pipes!May(w, 16) /\ thread'[t] = Pipes!Idle /\ thread'[t].at = "idle"
         \/ /\ Pipes!May(w, 16) /\ thread'[t].at = "packets" /\ thread'[t].s = r.s /\ thread'[t].c = c
            /\ thread'[t].w = w /\ thread'[t].data = r.data
  <2>1. "packets" \in Pipes!Places
    BY DEF Pipes!Places
  <2>2. CASE Pipes!May(w, 16)
    BY <1>1, <1>2, <2>1, <2>2, PipeTo
  <2>3. CASE ~ Pipes!May(w, 16)
    BY <1>1, <1>2, <2>3, PipeDone
  <2>4. QED
    BY <2>2, <2>3
<1>5. /\ status' \in [PipeIds -> {0, 1, 2, 4, 16}]
      /\ status'[w] = IF Pipes!May(w, 16) THEN 16 ELSE status[w]
      /\ \A x \in PipeIds : x # w => status'[x] = status[x]
  BY <1>1, <1>2, <1>3, PipeStatus
<1>6. Pipes!TypeOK'
  BY <1>1, <1>2, <1>4, <1>5
     DEF Pipes!TypeOK, Pipes!Down, Pipes!Conn, Pipes!Work, Pipes!Wait, Pipes!Pipe
<1>7. /\ Keeps /\ RouteKeeps /\ Pipes!Routed' /\ Pipes!Owned'
      /\ \A s \in PipeIds : sock'[s].role = sock[s].role /\ sock'[s].sent >= sock[s].sent
  BY <1>2, <1>6, PipeQuiet
<1>8. Pipes!Working(t)'
  <2>1. CASE thread'[t] = Pipes!Idle
    BY <2>1, PipeIdle
  <2>2. CASE thread'[t].at = "packets" /\ thread'[t].s = r.s /\ thread'[t].c = c
             /\ thread'[t].w = w /\ thread'[t].data = r.data
    <3>1. Pipes!Was(thread[t].c, "public")'
      BY <1>2, <1>3, <2>2 DEF Pipes!Was
    <3>2. Pipes!From(thread[t].data, thread[t].s)'
      BY <1>3, <2>2 DEF Pipes!From
    <3>3. QED
      BY <1>2, <1>3, <2>2, <3>1, <3>2 DEF Pipes!Working, Pipes!From, Pipes!Joining, Pipes!Was
  <2>3. QED
    BY <1>4, <2>1, <2>2
<1>9. \A x \in PipeIds : /\ status'[x] = Pipes!Conn => status[x] = Pipes!Conn
                         /\ status'[x] = Pipes!Wait => status[x] = Pipes!Wait
  BY <1>5 DEF Pipes!Conn, Pipes!Wait
<1>10. \A x \in PipeIds, q \in {"pending", "waiting"} : Pipes!In(q, x)' => Pipes!In(q, x)
  BY <1>2 DEF Pipes!In
<1>11. Pipes!Once'
  <2>1. \A u \in Routers, x \in PipeIds : Pipes!Takes(u, x)' => Pipes!Takes(u, x)
    BY <1>4, PipeTakes
  <2>2. QED
    BY <1>1, <1>2, <1>6, <1>7, <1>9, <1>10, <2>1, PipeOnce
<1>12. ASSUME alone, Pipes!Fine(thread[t]) PROVE Pipes!Fine(thread[t])'
  <2>1. sock[c].role = "public" /\ status[c] = 16 /\ status[w] = 4
    BY <1>2, <1>12 DEF Pipes!Fine, Pipes!Joins, Pipes!Joining, Pipes!Pipe, Pipes!Wait
  <2>2. Pipes!May(w, 16)
    BY <2>1 DEF Pipes!May
  <2>3. /\ thread'[t].at = "packets" /\ thread'[t].s = r.s /\ thread'[t].c = c
        /\ thread'[t].w = w /\ thread'[t].data = r.data /\ status'[w] = 16
    BY <1>4, <1>5, <2>2
  <2>4. ASSUME NEW x \in PipeIds
        PROVE  /\ sock[x].role = "free" => status[x] = 0
               /\ sock[x].role # "free" => status[x] # 0
               /\ (status[x] = 4 => sock[x].role = "ready")
               /\ (status[x] = 2 => sock[x].role = "control")
               /\ sock[x].role = "public" /\ status[x] # 0 =>
                    (route["worker"][x] # None <=> status[x] = 16)
               /\ sock[x].role = "ready" /\ status[x] # 0 =>
                    (route["public"][x] # None <=> status[x] = 16 \/ x = w)
               /\ route["public"][x] # None => route["worker"][route["public"][x]] = x
    BY <1>2, <1>12 DEF Pipes!Fine, Pipes!Statuses, Pipes!Down, Pipes!Work, Pipes!Wait, Pipes!Pipe
  <2>5. Pipes!Statuses(thread[t])'
    <3> SUFFICES ASSUME NEW x \in PipeIds
                 PROVE  /\ sock[x].role = "free" => status'[x] = 0
                        /\ sock[x].role # "free" => status'[x] # 0
                        /\ (status'[x] = 4 => sock[x].role = "ready")
                        /\ (status'[x] = 2 => sock[x].role = "control")
                        /\ sock[x].role = "public" /\ status'[x] # 0 =>
                             (route["worker"][x] # None <=> status'[x] = 16)
                        /\ sock[x].role = "ready" /\ status'[x] # 0 =>
                             (route["public"][x] # None <=> status'[x] = 16)
                        /\ route["public"][x] # None => route["worker"][route["public"][x]] = x
      BY <1>2, <2>3 DEF Pipes!Statuses, Pipes!Down, Pipes!Work, Pipes!Wait, Pipes!Pipe
    <3>1. IF x = w THEN status'[x] = 16 ELSE status'[x] = status[x]
      BY <1>5, <2>3
    <3>2. sock[w].role = "ready"
      BY <1>3, <2>1, <2>4
    <3>3. QED
      BY <2>1, <2>4, <3>1, <3>2
  <2>6. Pipes!Joins(thread[t])'
    <3>1. w # c
      BY <2>1
    <3>2. status'[c] = 16
      BY <1>3, <1>5, <2>1, <3>1
    <3>3. QED
      BY <1>2, <2>1, <2>3, <3>2 DEF Pipes!Joins, Pipes!Joining, Pipes!Pipe
  <2>7. Pipes!Stalls(thread[t])'
    <3>1. Pipes!Stalls(r) /\ r.at \notin {"dequeue_waiting", "get_pipe"}
      BY <1>2, <1>12 DEF Pipes!Fine
    <3>2. QED
      BY <1>9, <1>10, <3>1, PipeStalls
  <2>8. Pipes!Tried(thread[t])'
    BY <2>3 DEF Pipes!Tried
  <2>9. \A d \in PipeIds : sock'[d].role = "public" => Pipes!Flow(thread[t], d)'
    <3> SUFFICES ASSUME NEW d \in PipeIds, sock'[d].role = "public" PROVE Pipes!Flow(thread[t], d)'
      OBVIOUS
    <3>1. Pipes!Flow(thread[t], d)
      BY <1>2, <1>12 DEF Pipes!Fine
    <3>2. Pipes!Hand(thread'[t], d) = Pipes!Hand(thread[t], d)
      BY <1>2, <2>3 DEF Pipes!Hand
    <3>3. QED
      BY <1>1, <1>2, <2>3, <3>1, <3>2, PipeFlow
  <2>10. QED
    BY <2>5, <2>6, <2>7, <2>8, <2>9 DEF Pipes!Fine
<1>13. IF thread'[t].at = "idle" THEN thread'[t] = Pipes!Idle ELSE thread'[t].s = thread[t].s
  BY <1>4
<1>14. r.at # "idle" /\ \A x \in PipeIds : Pipes!Unjoined(x) => status'[x] = status[x]
  BY <1>2, <1>3, <1>5
<1>15. QED
  BY <1>2, <1>4, <1>6, <1>7, <1>8, <1>11, <1>12, <1>13, <1>14, PipeStep

(* The worker is asked for another connection,                             *)
LEMMA PipeGetConnection ==
  ASSUME Pipes!IInv, NEW t \in Routers, Pipes!GetConnection(t)
  PROVE  Pipes!IInv'
<1> DEFINE r == thread[t]
           w == Pipes!Got("workers", Pipes!Work)
           more == Pipes!Rest("workers", Pipes!Work) \o (IF w = None THEN <<>> ELSE <<w>>)
<1>1. /\ Pipes!TypeOK /\ Pipes!Once /\ Pipes!Working(t)
      /\ r \in Pipes!Thread
  BY DEF Pipes!IInv, Pipes!TypeOK
<1>2. /\ r.at = "get_connection"
      /\ alone' = alone /\ sock' = sock /\ status' = status
      /\ packets' = packets /\ route' = route /\ out' = out
  BY DEF Pipes!GetConnection, Pipes!At
<1>2q. queue' = [queue EXCEPT !["workers"] = more]
  BY DEF Pipes!GetConnection
<1>2t. \/ Pipes!Done(t)
       \/ r.w = None /\ Pipes!To(t, "enqueue_waiting")
  BY DEF Pipes!GetConnection
<1>2a. asked' \in {asked, asked + 1}
  BY DEF Pipes!GetConnection
<1>3. /\ r.s \in PipeIds /\ sock[r.s].role # "free" /\ Pipes!From(r.data, r.s)
      /\ r.c \in PipeIds /\ Pipes!Was(r.c, "public") /\ (sock[r.c].role = "public" => sock[r.c].sent > 0)
  BY <1>1, <1>2 DEF Pipes!Working, Pipes!Joining
<1>4. more \in Seq(PipeIds)
  <2>1. Pipes!Rest("workers", Pipes!Work) \in Seq(PipeIds) /\ w \in PipeIds \cup {None}
    BY <1>1, PipeGot
  <2>2. (IF w = None THEN <<>> ELSE <<w>>) \in Seq(PipeIds)
    BY <2>1
  <2>3. \A a, b \in Seq(PipeIds) : a \o b \in Seq(PipeIds)
    OBVIOUS
  <2>4. QED
    BY <2>1, <2>2, <2>3
<1>5. /\ queue' \in [{"workers", "pending", "waiting"} -> Seq(PipeIds)]
      /\ queue'["pending"] = queue["pending"]
      /\ \A x \in PipeIds, q \in {"pending", "waiting"} : Pipes!In(q, x)' <=> Pipes!In(q, x)
  <2>1. /\ queue' \in [{"workers", "pending", "waiting"} -> Seq(PipeIds)]
        /\ queue'["pending"] = queue["pending"] /\ queue'["waiting"] = queue["waiting"]
    BY <1>1, <1>2q, <1>4 DEF Pipes!TypeOK
  <2>2. QED
    BY <2>1 DEF Pipes!In
<1>6. /\ thread' \in [Routers -> Pipes!Thread]
      /\ \A u \in Routers : u # t => thread'[u] = thread[u]
      /\ \/ thread'[t] = Pipes!Idle /\ thread'[t].at = "idle"
         \/ /\ r.w = None /\ thread'[t].at = "enqueue_waiting" /\ thread'[t].s = r.s /\ thread'[t].c = r.c
            /\ thread'[t].w = r.w /\ thread'[t].data = r.data
  <2>1. "enqueue_waiting" \in Pipes!Places
    BY DEF Pipes!Places
  <2>2. CASE r.w = None /\ Pipes!To(t, "enqueue_waiting")
    BY <1>1, <2>1, <2>2, PipeTo
  <2>3. CASE Pipes!Done(t)
    BY <1>1, <2>3, PipeDone
  <2>4. QED
    BY <1>2t, <2>2, <2>3
<1>7. Pipes!TypeOK'
  <2>1. asked' \in Nat
    BY <1>1, <1>2a DEF Pipes!TypeOK
  <2>2. QED
    BY <1>1, <1>2, <1>5, <1>6, <2>1 DEF Pipes!TypeOK
<1>8. /\ Keeps /\ RouteKeeps /\ Pipes!Routed' /\ Pipes!Owned'
      /\ \A s \in PipeIds : sock'[s].role = sock[s].role /\ sock'[s].sent >= sock[s].sent
  BY <1>2, <1>7, PipeQuiet
<1>9. Pipes!Working(t)'
  <2>1. CASE thread'[t] = Pipes!Idle
    BY <2>1, PipeIdle
  <2>2. CASE thread'[t].at = "enqueue_waiting" /\ thread'[t].s = r.s /\ thread'[t].c = r.c
             /\ thread'[t].data = r.data
    <3>1. Pipes!Was(thread[t].c, "public")'
      BY <1>2, <1>3, <2>2 DEF Pipes!Was
    <3>2. QED
      BY <1>2, <1>3, <2>2, <3>1, PipeJoining
  <2>3. QED
    BY <1>6, <2>1, <2>2
<1>10. Pipes!Once'
  <2>1. \A u \in Routers, x \in PipeIds : Pipes!Takes(u, x)' => Pipes!Takes(u, x)
    BY <1>6, PipeTakes
  <2>2. QED
    BY <1>1, <1>2, <1>5, <1>7, <1>8, <2>1, PipeOnce
<1>11. ASSUME alone, Pipes!Fine(thread[t]) PROVE Pipes!Fine(thread[t])'
  <2>0. thread'[t].at \in {"idle", "enqueue_waiting"}
    BY <1>6
  <2>1. Pipes!Statuses(thread[t])'
    BY <1>2, <1>11, <2>0, PipeStatuses DEF Pipes!Fine
  <2>2. Pipes!Joins(thread[t])'
    <3>1. sock[r.c].role = "public" /\ (r.w = None => status[r.c] = Pipes!Conn)
      BY <1>2, <1>11 DEF Pipes!Fine, Pipes!Joins, Pipes!Joining
    <3>2. CASE thread'[t].at = "idle"
      BY <3>2 DEF Pipes!Joins, Pipes!Joining
    <3>3. CASE r.w = None /\ thread'[t].at = "enqueue_waiting" /\ thread'[t].c = r.c
      BY <1>2, <3>1, <3>3 DEF Pipes!Joins, Pipes!Joining
    <3>4. QED
      BY <1>6, <3>2, <3>3
  <2>3. Pipes!Stalls(thread[t])'
    <3>1. Pipes!Stalls(r) /\ r.at \notin {"dequeue_waiting", "get_pipe"}
      BY <1>2, <1>11 DEF Pipes!Fine
    <3>2. QED
      BY <1>2, <1>5, <3>1, PipeStalls
  <2>4. Pipes!Tried(thread[t])'
    <3>1. CASE thread'[t].at = "idle"
      BY <3>1 DEF Pipes!Tried
    <3>2. CASE r.w = None
      BY <1>2, <1>5, <1>11, <3>2 DEF Pipes!Fine, Pipes!Tried
    <3>3. QED
      BY <1>6, <3>1, <3>2
  <2>5. \A d \in PipeIds : sock'[d].role = "public" => Pipes!Flow(thread[t], d)'
    <3> SUFFICES ASSUME NEW d \in PipeIds, sock'[d].role = "public" PROVE Pipes!Flow(thread[t], d)'
      OBVIOUS
    <3>1. Pipes!Flow(thread[t], d)
      BY <1>2, <1>11 DEF Pipes!Fine
    <3>2. Pipes!Hand(thread'[t], d) = Pipes!Hand(thread[t], d)
      BY <1>2, <2>0 DEF Pipes!Hand
    <3>3. QED
      BY <1>1, <1>2, <3>1, <3>2, PipeFlow
  <2>6. QED
    BY <2>1, <2>2, <2>3, <2>4, <2>5 DEF Pipes!Fine
<1>12. IF thread'[t].at = "idle" THEN thread'[t] = Pipes!Idle ELSE thread'[t].s = thread[t].s
  BY <1>6
<1>13. r.at # "idle"
  BY <1>2
<1>14. QED
  BY <1>2, <1>6, <1>7, <1>8, <1>9, <1>10, <1>11, <1>12, <1>13, PipeStep

(* for which the client waits.                                             *)
LEMMA PipeEnqueueWaiting ==
  ASSUME Pipes!IInv, NEW t \in Routers, Pipes!EnqueueWaiting(t)
  PROVE  Pipes!IInv'
<1> DEFINE r == thread[t]
<1>1. /\ Pipes!TypeOK /\ Pipes!Once /\ Pipes!Working(t)
      /\ r \in Pipes!Thread
  BY DEF Pipes!IInv, Pipes!TypeOK
<1>2. /\ r.at = "enqueue_waiting" /\ Pipes!Done(t)
      /\ alone' = alone /\ sock' = sock /\ status' = status
      /\ packets' = packets /\ route' = route /\ out' = out /\ asked' = asked
  BY DEF Pipes!EnqueueWaiting, Pipes!At
<1>2q. queue' = [queue EXCEPT !["waiting"] = Append(@, r.c)]
  BY DEF Pipes!EnqueueWaiting
<1>3. r.c \in PipeIds /\ Pipes!Was(r.c, "public") /\ (sock[r.c].role = "public" => sock[r.c].sent > 0)
  BY <1>1, <1>2 DEF Pipes!Working, Pipes!Joining
<1>4. /\ thread' \in [Routers -> Pipes!Thread] /\ thread'[t] = Pipes!Idle
      /\ thread'[t].at = "idle"
      /\ \A u \in Routers : u # t => thread'[u] = thread[u]
  BY <1>1, <1>2, PipeDone
<1>5. /\ queue' \in [{"workers", "pending", "waiting"} -> Seq(PipeIds)]
      /\ queue'["pending"] = queue["pending"]
      /\ \A x \in PipeIds : Pipes!In("pending", x)' <=> Pipes!In("pending", x)
      /\ \A x \in PipeIds : Pipes!In("waiting", x)' => Pipes!In("waiting", x) \/ x = r.c
  BY <1>1, <1>2q, <1>3, PipeAppend
<1>6. Pipes!TypeOK'
  BY <1>1, <1>2, <1>4, <1>5 DEF Pipes!TypeOK
<1>7. /\ Keeps /\ RouteKeeps /\ Pipes!Routed' /\ Pipes!Owned'
      /\ \A s \in PipeIds : sock'[s].role = sock[s].role /\ sock'[s].sent >= sock[s].sent
  BY <1>2, <1>6, PipeQuiet
<1>8. Pipes!Working(t)'
  BY <1>4, PipeIdle
<1>9. Pipes!Once'
  <2>1. \A u \in Routers, x \in PipeIds : Pipes!Takes(u, x)' => Pipes!Takes(u, x)
    BY <1>4, PipeTakes
  <2>2. \A x \in PipeIds : Pipes!In("waiting", x)' =>
          \/ Pipes!In("waiting", x)
          \/ Pipes!Was(x, "public") /\ (sock[x].role = "public" => sock[x].sent > 0)
    BY <1>3, <1>5
  <2>3. QED
    BY <1>1, <1>2, <1>5, <1>6, <1>7, <2>1, <2>2, PipeOnce
<1>10. ASSUME alone, Pipes!Fine(thread[t]) PROVE Pipes!Fine(thread[t])'
  <2>1. Pipes!Statuses(thread[t])'
    BY <1>2, <1>4, <1>10, PipeStatuses DEF Pipes!Fine
  <2>2. Pipes!Joins(thread[t])'
    BY <1>4 DEF Pipes!Joins, Pipes!Joining
  <2>3. Pipes!Stalls(thread[t])'
    <3>1. \A w \in PipeIds : ~ (status[w] = Pipes!Wait /\ Pipes!In("pending", w))
      BY <1>2, <1>10 DEF Pipes!Fine, Pipes!Tried
    <3>2. QED
      BY <1>2, <1>5, <3>1 DEF Pipes!Stalls
  <2>4. Pipes!Tried(thread[t])'
    BY <1>4 DEF Pipes!Tried
  <2>5. \A d \in PipeIds : sock'[d].role = "public" => Pipes!Flow(thread[t], d)'
    <3> SUFFICES ASSUME NEW d \in PipeIds, sock'[d].role = "public" PROVE Pipes!Flow(thread[t], d)'
      OBVIOUS
    <3>1. Pipes!Flow(thread[t], d)
      BY <1>2, <1>10 DEF Pipes!Fine
    <3>2. Pipes!Hand(thread'[t], d) = Pipes!Hand(thread[t], d)
      BY <1>2, <1>4 DEF Pipes!Hand
    <3>3. QED
      BY <1>1, <1>2, <3>1, <3>2, PipeFlow
  <2>6. QED
    BY <2>1, <2>2, <2>3, <2>4, <2>5 DEF Pipes!Fine
<1>11. IF thread'[t].at = "idle" THEN thread'[t] = Pipes!Idle ELSE thread'[t].s = thread[t].s
  BY <1>4
<1>12. r.at # "idle"
  BY <1>2
<1>13. QED
  BY <1>2, <1>4, <1>6, <1>7, <1>8, <1>9, <1>10, <1>11, <1>12, PipeStep

LEMMA PipeHead ==
  ASSUME NEW a \in Seq(Pipes!Packet), a # <<>>
  PROVE  /\ Head(a) \in Pipes!Packet /\ <<Head(a)>> \in Seq(Pipes!Packet) /\ Len(<<Head(a)>>) = 1
         /\ Tail(a) \in Seq(Pipes!Packet) /\ Len(Tail(a)) \in Nat /\ Len(a) = 1 + Len(Tail(a))
         /\ \A s : Pipes!From(a, s) => Pipes!From(<<Head(a)>>, s) /\ Pipes!From(Tail(a), s)
         /\ \A k \in Nat : Pipes!Counts(a, k) =>
              Pipes!Counts(<<Head(a)>>, k) /\ Pipes!Counts(Tail(a), k + 1)
<1>1. Len(a) \in Nat /\ Len(a) # 0 /\ DOMAIN a = 1 .. Len(a)
  BY EmptySeq
<1>2. /\ Head(a) = a[1] /\ a[1] \in Pipes!Packet
      /\ Tail(a) \in Seq(Pipes!Packet) /\ Len(Tail(a)) = Len(a) - 1
      /\ \A i \in 1 .. Len(Tail(a)) : Tail(a)[i] = a[i + 1]
  BY <1>1, HeadTailProperties
<1>3. /\ <<Head(a)>> \in Seq(Pipes!Packet) /\ Len(<<Head(a)>>) = 1
      /\ DOMAIN <<Head(a)>> = {1} /\ <<Head(a)>>[1] = a[1]
  BY <1>2
<1>4. DOMAIN Tail(a) = 1 .. Len(Tail(a)) /\ Len(Tail(a)) \in Nat
  BY <1>1, <1>2
<1>5. \A i \in DOMAIN Tail(a) : i \in Nat /\ i + 1 \in DOMAIN a /\ Tail(a)[i] = a[i + 1]
  BY <1>1, <1>2, <1>4
<1>6. 1 \in DOMAIN a
  BY <1>1
<1>7. \A s : Pipes!From(a, s) => Pipes!From(<<Head(a)>>, s) /\ Pipes!From(Tail(a), s)
  BY <1>3, <1>5, <1>6 DEF Pipes!From
<1>8. ASSUME NEW k \in Nat, Pipes!Counts(a, k)
      PROVE  Pipes!Counts(<<Head(a)>>, k) /\ Pipes!Counts(Tail(a), k + 1)
  <2>1. \A i \in DOMAIN a : a[i].n = k + i
    BY <1>8 DEF Pipes!Counts
  <2>2. \A i \in DOMAIN <<Head(a)>> : <<Head(a)>>[i].n = k + i
    BY <1>3, <1>6, <2>1
  <2>3. \A i \in DOMAIN Tail(a) : Tail(a)[i].n = (k + 1) + i
    BY <1>5, <2>1
  <2>4. QED
    BY <2>2, <2>3 DEF Pipes!Counts
<1>9. QED
  BY <1>1, <1>2, <1>3, <1>4, <1>7, <1>8

(* What waited is taken,                                                   *)
LEMMA PipeDequeuePacket ==
  ASSUME Pipes!IInv, NEW t \in Routers, Pipes!DequeuePacket(t)
  PROVE  Pipes!IInv'
<1> DEFINE r == thread[t]
           c == r.c
           w == r.w
<1>1. /\ Pipes!TypeOK /\ Pipes!Once /\ Pipes!Routed /\ Pipes!Owned /\ Pipes!Working(t)
      /\ r \in Pipes!Thread
  BY DEF Pipes!IInv, Pipes!TypeOK
<1>2. /\ r.at = "packets"
      /\ alone' = alone /\ sock' = sock /\ status' = status /\ queue' = queue
      /\ route' = route /\ out' = out /\ asked' = asked
  BY DEF Pipes!DequeuePacket, Pipes!At
<1>3. /\ r.s \in PipeIds /\ sock[r.s].role # "free" /\ Pipes!From(r.data, r.s)
      /\ c \in PipeIds /\ Pipes!Was(c, "public") /\ (sock[c].role = "public" => sock[c].sent > 0)
      /\ w \in PipeIds /\ route["public"][w] = c
  BY <1>1, <1>2 DEF Pipes!Working, Pipes!Joining
<1>4. packets[c] \in Seq(Pipes!Packet) /\ Pipes!From(packets[c], c)
  BY <1>1, <1>3 DEF Pipes!TypeOK, Pipes!Owned
<1>5. /\ thread' \in [Routers -> Pipes!Thread] /\ packets' \in [PipeIds -> Seq(Pipes!Packet)]
      /\ \A u \in Routers : u # t => thread'[u] = thread[u]
      /\ \A x \in PipeIds : x # c => packets'[x] = packets[x]
      /\ thread'[t].s = r.s /\ thread'[t].c = c /\ thread'[t].w = w
      /\ \/ /\ packets[c] = <<>> /\ packets'[c] = <<>>
            /\ thread'[t].at = "get_connection" /\ thread'[t].data = r.data
         \/ /\ packets[c] # <<>> /\ packets'[c] = Tail(packets[c])
            /\ thread'[t].at = "send" /\ thread'[t].data = <<Head(packets[c])>>
  <2>1. thread \in [Routers -> Pipes!Thread] /\ packets \in [PipeIds -> Seq(Pipes!Packet)]
    BY <1>1 DEF Pipes!TypeOK
  <2>2. CASE packets[c] = <<>>
    <3>1. Pipes!To(t, "get_connection") /\ packets' = packets
      BY <2>2 DEF Pipes!DequeuePacket
    <3>2. "get_connection" \in Pipes!Places
      BY DEF Pipes!Places
    <3>3. QED
      BY <1>1, <2>1, <2>2, <3>1, <3>2, PipeTo
  <2>3. CASE packets[c] # <<>>
    <3> DEFINE x == [r EXCEPT !.at = "send", !.data = <<Head(packets[c])>>]
    <3>1. packets' = [packets EXCEPT ![c] = Tail(@)] /\ thread' = [thread EXCEPT ![t] = x]
      BY <2>3 DEF Pipes!DequeuePacket
    <3>2. <<Head(packets[c])>> \in Seq(Pipes!Packet) /\ Tail(packets[c]) \in Seq(Pipes!Packet)
      BY <1>4, <2>3, PipeHead
    <3>3. /\ x \in Pipes!Thread /\ x.at = "send" /\ x.s = r.s /\ x.c = c /\ x.w = w
          /\ x.data = <<Head(packets[c])>>
      BY <1>1, <3>2 DEF Pipes!Thread, Pipes!Places
    <3> HIDE DEF x
    <3>4. QED
      BY <1>3, <2>1, <2>3, <3>1, <3>2, <3>3
  <2>4. QED
    BY <2>2, <2>3
<1>6. Pipes!TypeOK'
  BY <1>1, <1>2, <1>5 DEF Pipes!TypeOK
<1>7. \A x \in PipeIds : sock[x].sent \in Nat /\ sock'[x].sent >= sock[x].sent
  <2>1. \A x \in PipeIds : sock[x].sent \in Nat
    BY <1>1 DEF Pipes!TypeOK, Pipes!Socket
  <2>2. QED
    BY <1>2, <2>1
<1>8. Keeps /\ RouteKeeps
  <2>1. Keeps
    BY <1>1, <1>2, <1>6, <1>7, PipeSame
  <2>2. QED
    BY <1>2, <2>1 DEF RouteKeeps
<1>9. Pipes!Working(t)'
  <2>1. Pipes!Was(thread[t].c, "public")'
    BY <1>2, <1>3, <1>5 DEF Pipes!Was
  <2>2. CASE thread'[t].at = "get_connection" /\ thread'[t].data = r.data
    BY <1>2, <1>3, <1>5, <2>1, <2>2, PipeJoining
  <2>3. CASE packets[c] # <<>> /\ thread'[t].at = "send" /\ thread'[t].data = <<Head(packets[c])>>
    <3>1. Pipes!From(<<Head(packets[c])>>, c)
      BY <1>4, <2>3, PipeHead
    <3>2. Pipes!From(thread[t].data, thread[t].c)'
      BY <1>5, <2>3, <3>1 DEF Pipes!From
    <3>3. QED
      BY <1>2, <1>3, <1>5, <2>1, <2>3, <3>2 DEF Pipes!Working, Pipes!From, Pipes!Joining, Pipes!Was
  <2>4. QED
    BY <1>5, <2>2, <2>3
<1>10. Pipes!Once'
  <2>1. \A u \in Routers, x \in PipeIds : Pipes!Takes(u, x)' => Pipes!Takes(u, x)
    BY <1>5, PipeTakes
  <2>2. \A x \in PipeIds, q \in {"pending", "waiting"} : Pipes!In(q, x)' => Pipes!In(q, x)
    BY <1>2 DEF Pipes!In
  <2>3. QED
    BY <1>1, <1>2, <1>6, <1>8, <2>1, <2>2, PipeOnce
<1>11. Pipes!Routed'
  BY <1>1, <1>2, <1>6, <1>8, PipeRouted
<1>12. Pipes!Owned'
  <2> SUFFICES ASSUME NEW x \in PipeIds
               PROVE  /\ sock'[x].role # "free" => sock'[x].life > 0
                      /\ Pipes!From(packets'[x], x) /\ Pipes!From(sock'[x].kept, x)
                      /\ packets'[x] # <<>> => Pipes!Was(x, "public")'
                      /\ sock'[x].role = "ready" => Pipes!From(out'[x], route'["public"][x])
                      /\ sock'[x].role = "public" => \A i \in DOMAIN out'[x] : Pipes!Was(out[x][i].from, "ready")'
    BY DEF Pipes!Owned, Pipes!From, Pipes!Was
  <2>1. /\ sock[x].role # "free" => sock[x].life > 0
        /\ Pipes!From(packets[x], x) /\ Pipes!From(sock[x].kept, x)
        /\ packets[x] # <<>> => Pipes!Was(x, "public")
        /\ sock[x].role = "ready" => Pipes!From(out[x], route["public"][x])
        /\ sock[x].role = "public" => \A i \in DOMAIN out[x] : Pipes!Was(out[x][i].from, "ready")
    BY <1>1 DEF Pipes!Owned
  <2>2. Pipes!From(packets'[x], x) /\ (packets'[x] # <<>> => Pipes!Was(x, "public"))
    <3>1. CASE x # c
      BY <1>5, <2>1, <3>1
    <3>2. CASE x = c /\ packets[c] = <<>>
      BY <1>5, <3>2, PipeEmpty
    <3>3. CASE x = c /\ packets[c] # <<>>
      <4>1. Pipes!From(Tail(packets[c]), c)
        BY <1>4, <3>3, PipeHead
      <4>2. QED
        BY <1>3, <1>5, <3>3, <4>1
    <3>4. QED
      BY <3>1, <3>2, <3>3
  <2>3. QED
    BY <1>2, <2>1, <2>2 DEF Pipes!Was
<1>13. ASSUME alone, Pipes!Fine(thread[t]) PROVE Pipes!Fine(thread[t])'
  <2>0. thread'[t].at \in {"get_connection", "send"}
    BY <1>5
  <2>1. Pipes!Statuses(thread[t])'
    BY <1>2, <1>13, <2>0, PipeStatuses DEF Pipes!Fine
  <2>2. sock[c].role = "public" /\ status[c] = Pipes!Pipe
    BY <1>2, <1>13 DEF Pipes!Fine, Pipes!Joins, Pipes!Joining
  <2>3. Pipes!Joins(thread[t])'
    <3>1. w # None
      BY <1>3, PipeAssumption
    <3>2. QED
      BY <1>2, <1>5, <2>0, <2>2, <3>1 DEF Pipes!Joins, Pipes!Joining
  <2>4. Pipes!Stalls(thread[t])'
    <3>1. Pipes!Stalls(r) /\ r.at \notin {"dequeue_waiting", "get_pipe"}
      BY <1>2, <1>13 DEF Pipes!Fine
    <3>2. \A x \in PipeIds, q \in {"pending", "waiting"} : Pipes!In(q, x)' => Pipes!In(q, x)
      BY <1>2 DEF Pipes!In
    <3>3. QED
      BY <1>2, <3>1, <3>2, PipeStalls
  <2>5. Pipes!Tried(thread[t])'
    <3>1. w # None
      BY <1>3, PipeAssumption
    <3>2. QED
      BY <1>5, <2>0, <3>1 DEF Pipes!Tried
  <2>6. \A d \in PipeIds : sock'[d].role = "public" => Pipes!Flow(thread[t], d)'
    <3> SUFFICES ASSUME NEW d \in PipeIds, sock'[d].role = "public" PROVE Pipes!Flow(thread[t], d)'
      OBVIOUS
    <3>1. Pipes!Flow(thread[t], d)
      BY <1>2, <1>13 DEF Pipes!Fine
    <3>2. Pipes!Hand(thread[t], d) = <<>>
      BY <1>2 DEF Pipes!Hand
    <3>3. CASE d # c
      <4>1. Pipes!Hand(thread'[t], d) = <<>> /\ packets'[d] = packets[d]
        BY <1>5, <2>0, <3>3 DEF Pipes!Hand
      <4>2. QED
        BY <1>1, <1>2, <3>1, <3>2, <3>3, <4>1, PipeFlow
    <3>4. CASE d = c /\ packets[c] = <<>>
      <4>1. Pipes!Hand(thread'[t], d) = <<>> /\ packets'[d] = packets[d]
        BY <1>5, <3>4 DEF Pipes!Hand
      <4>2. QED
        BY <1>1, <1>2, <3>1, <3>2, <3>4, <4>1, PipeFlow
    <3>5. CASE d = c /\ packets[c] # <<>>
      <4> DEFINE v == route["worker"][c]
                 h == <<Head(packets[c])>>
                 l == Tail(packets[c])
      <4>1. v # None /\ v \in PipeIds
        <5>1. v # None
          BY <1>2, <1>3, <1>13, <2>2 DEF Pipes!Fine, Pipes!Statuses, Pipes!Pipe, Pipes!Down
        <5>2. QED
          BY <1>1, <1>3, <5>1 DEF Pipes!TypeOK
      <4>2. thread'[t].at = "send" /\ thread'[t].c = c /\ thread'[t].data = h /\ packets'[c] = l
        BY <1>5, <3>5
      <4>3. Pipes!Hand(thread'[t], c) = h
        BY <4>2 DEF Pipes!Hand
      <4>4. sock[c].kept = <<>>
        BY <3>1, <3>5 DEF Pipes!Flow
      <4>5. sock[v].role = "ready" =>
              /\ Pipes!Counts(out[v], 0) /\ Pipes!Counts(packets[c], Len(out[v]))
              /\ sock[c].sent = Len(out[v]) + Len(packets[c]) /\ Len(out[v]) \in Nat
        <5>1. Len(out[v]) \in Nat
          BY <1>1, <4>1 DEF Pipes!TypeOK
        <5>2. Len(packets[c]) \in Nat
          BY <1>4
        <5>3. sock[v].role = "ready" =>
                /\ Pipes!Counts(out[v], 0) /\ Pipes!Counts(packets[c], Len(out[v]) + Len(<<>>))
                /\ sock[c].sent = Len(out[v]) + Len(<<>>) + Len(packets[c])
          BY <3>1, <3>2, <3>5, <4>1 DEF Pipes!Flow
        <5>4. Len(out[v]) + Len(<<>>) = Len(out[v])
          BY <5>1, PipeEmpty
        <5>5. QED
          BY <5>1, <5>2, <5>3, <5>4
      <4>6. /\ Len(h) = 1 /\ Len(l) \in Nat /\ Len(packets[c]) = 1 + Len(l)
            /\ \A k \in Nat : Pipes!Counts(packets[c], k) => Pipes!Counts(h, k) /\ Pipes!Counts(l, k + 1)
        BY <1>4, <3>5, PipeHead
      <4>7. /\ route'["worker"][c] = v /\ sock'[c].kept = <<>> /\ sock'[c].sent = sock[c].sent
            /\ out'[v] = out[v] /\ sock'[v].role = sock[v].role
        BY <1>2, <4>4
      <4>8. ASSUME sock[v].role = "ready"
            PROVE  /\ Pipes!Counts(out'[v], 0) /\ Pipes!Counts(h, Len(out'[v]))
                   /\ Pipes!Counts(l, Len(out'[v]) + Len(h))
                   /\ sock[c].sent = Len(out'[v]) + Len(h) + Len(l)
        <5> DEFINE o == out[v]
                   n == Len(o)
        <5>1. n \in Nat /\ Pipes!Counts(o, 0) /\ Pipes!Counts(packets[c], n) /\ sock[c].sent = n + Len(packets[c])
          BY <4>5, <4>8
        <5>2. Pipes!Counts(h, n) /\ Pipes!Counts(l, n + 1)
          BY <4>6, <5>1
        <5> HIDE DEF h, l, o, n
        <5>3. sock[c].sent = n + Len(h) + Len(l) /\ n + Len(h) = n + 1
          BY <4>6, <5>1
        <5>4. out'[v] = o /\ Len(o) = n
          BY <4>7 DEF o, n
        <5>5. QED
          BY <5>1, <5>2, <5>3, <5>4
      <4> HIDE DEF h, l, v
      <4>9. /\ v # None /\ route'["worker"][d] = v /\ sock'[d].kept = <<>> /\ sock'[d].sent = sock[c].sent
            /\ packets'[d] = l /\ Pipes!Hand(thread'[t], d) = h
            /\ thread'[t].at = "send" /\ thread'[t].c = d
        BY <3>5, <4>1, <4>2, <4>3, <4>7
      <4>10. v # None /\ sock'[v].role = "ready" =>
               /\ Pipes!Counts(out'[v], 0) /\ Pipes!Counts(h, Len(out'[v]))
               /\ Pipes!Counts(l, Len(out'[v]) + Len(h))
               /\ sock[c].sent = Len(out'[v]) + Len(h) + Len(l)
        BY <4>7, <4>8
      <4>11. QED
        BY <4>9, <4>10, PipeFlowIs
    <3>6. QED
      BY <3>3, <3>4, <3>5
  <2>7. QED
    BY <2>1, <2>3, <2>4, <2>5, <2>6 DEF Pipes!Fine
<1>14. IF thread'[t].at = "idle" THEN thread'[t] = Pipes!Idle ELSE thread'[t].s = thread[t].s
  BY <1>5
<1>15. r.at # "idle"
  BY <1>2
<1>16. QED
  BY <1>2, <1>5, <1>6, <1>7, <1>8, <1>9, <1>10, <1>11, <1>12, <1>13, <1>14, <1>15, PipeStep

(* and sent.                                                               *)
LEMMA PipeSendPacket ==
  ASSUME Pipes!IInv, NEW t \in Routers, Pipes!SendPacket(t)
  PROVE  Pipes!IInv'
<1> DEFINE r == thread[t]
           c == r.c
           w == r.w
<1>1. /\ Pipes!TypeOK /\ Pipes!Once /\ Pipes!Routed /\ Pipes!Owned /\ Pipes!Working(t)
      /\ r \in Pipes!Thread
  BY DEF Pipes!IInv, Pipes!TypeOK
<1>2. /\ r.at = "send" /\ Pipes!Send(w, r.data)
      /\ alone' = alone /\ sock' = sock /\ status' = status /\ queue' = queue
      /\ route' = route /\ packets' = packets /\ asked' = asked
  BY DEF Pipes!SendPacket, Pipes!At
<1>2t. thread' = [thread EXCEPT ![t] = [@ EXCEPT !.at = "packets", !.data = <<>>]]
  BY DEF Pipes!SendPacket
<1>3. /\ r.s \in PipeIds /\ sock[r.s].role # "free" /\ Pipes!From(r.data, c)
      /\ c \in PipeIds /\ Pipes!Was(c, "public") /\ (sock[c].role = "public" => sock[c].sent > 0)
      /\ w \in PipeIds /\ route["public"][w] = c
  BY <1>1, <1>2 DEF Pipes!Working, Pipes!Joining
<1>4. r.data \in Seq(Pipes!Packet) /\ out[w] \in Seq(Pipes!Packet)
  BY <1>1, <1>3 DEF Pipes!TypeOK, Pipes!Thread
<1>5. /\ thread' \in [Routers -> Pipes!Thread]
      /\ \A u \in Routers : u # t => thread'[u] = thread[u]
      /\ thread'[t].s = r.s /\ thread'[t].c = c /\ thread'[t].w = w
      /\ thread'[t].at = "packets" /\ thread'[t].data = <<>>
  <2> DEFINE x == [r EXCEPT !.at = "packets", !.data = <<>>]
  <2>1. thread \in [Routers -> Pipes!Thread] /\ thread' = [thread EXCEPT ![t] = x]
    BY <1>1, <1>2t DEF Pipes!TypeOK
  <2>2. x \in Pipes!Thread /\ x.at = "packets" /\ x.s = r.s /\ x.c = c /\ x.w = w /\ x.data = <<>>
    BY <1>1, PipeEmpty DEF Pipes!Thread, Pipes!Places
  <2> HIDE DEF x
  <2>3. QED
    BY <2>1, <2>2
<1>6. /\ out' \in [PipeIds -> Seq(Pipes!Packet)]
      /\ \A x \in PipeIds : x # w \/ sock[w].role = "free" => out'[x] = out[x]
      /\ sock[w].role # "free" => out'[w] = out[w] \o r.data
  BY <1>1, <1>2, <1>3, <1>4, PipeSend
<1>7. Pipes!TypeOK'
  BY <1>1, <1>2, <1>5, <1>6 DEF Pipes!TypeOK
<1>8. \A x \in PipeIds : sock[x].sent \in Nat /\ sock'[x].sent >= sock[x].sent
  <2>1. \A x \in PipeIds : sock[x].sent \in Nat
    BY <1>1 DEF Pipes!TypeOK, Pipes!Socket
  <2>2. QED
    BY <1>2, <2>1
<1>9. Keeps /\ RouteKeeps
  <2>1. Keeps
    BY <1>1, <1>2, <1>7, <1>8, PipeSame
  <2>2. QED
    BY <1>2, <2>1 DEF RouteKeeps
<1>10. Pipes!Working(t)'
  <2>1. Pipes!Was(thread[t].c, "public")'
    BY <1>2, <1>3, <1>5 DEF Pipes!Was
  <2>2. Pipes!From(<<>>, r.s)
    BY PipeEmpty
  <2>3. QED
    BY <1>2, <1>3, <1>5, <2>1, <2>2 DEF Pipes!Working, Pipes!From, Pipes!Joining, Pipes!Was
<1>11. Pipes!Once'
  <2>1. \A u \in Routers, x \in PipeIds : Pipes!Takes(u, x)' => Pipes!Takes(u, x)
    BY <1>5, PipeTakes
  <2>2. \A x \in PipeIds, q \in {"pending", "waiting"} : Pipes!In(q, x)' => Pipes!In(q, x)
    BY <1>2 DEF Pipes!In
  <2>3. QED
    BY <1>1, <1>2, <1>7, <1>9, <2>1, <2>2, PipeOnce
<1>12. Pipes!Routed'
  BY <1>1, <1>2, <1>7, <1>9, PipeRouted
<1>13. Pipes!Was(w, "ready")
  BY <1>1, <1>3, PipeAssumption DEF Pipes!Routed
<1>14. Pipes!Owned'
  <2> SUFFICES ASSUME NEW x \in PipeIds
               PROVE  /\ sock'[x].role # "free" => sock'[x].life > 0
                      /\ Pipes!From(packets'[x], x) /\ Pipes!From(sock'[x].kept, x)
                      /\ packets'[x] # <<>> => Pipes!Was(x, "public")'
                      /\ sock'[x].role = "ready" => Pipes!From(out'[x], route'["public"][x])
                      /\ sock'[x].role = "public" => \A i \in DOMAIN out'[x] : Pipes!Was(out[x][i].from, "ready")'
    BY DEF Pipes!Owned, Pipes!From, Pipes!Was
  <2>1. /\ sock[x].role # "free" => sock[x].life > 0
        /\ Pipes!From(packets[x], x) /\ Pipes!From(sock[x].kept, x)
        /\ packets[x] # <<>> => Pipes!Was(x, "public")
        /\ sock[x].role = "ready" => Pipes!From(out[x], route["public"][x])
        /\ sock[x].role = "public" => \A i \in DOMAIN out[x] : Pipes!Was(out[x][i].from, "ready")
    BY <1>1 DEF Pipes!Owned
  <2>2. sock[x].role = "ready" => Pipes!From(out'[x], route["public"][x])
    <3>1. CASE x # w
      BY <1>6, <2>1, <3>1
    <3>2. CASE x = w
      <4>1. sock[w].role = "ready" => Pipes!From(out[w] \o r.data, c)
        BY <1>3, <1>4, <2>1, <3>2, PipeCat
      <4>2. QED
        BY <1>3, <1>6, <3>2, <4>1
    <3>3. QED
      BY <3>1, <3>2
  <2>3. sock[x].role = "public" => out'[x] = out[x]
    BY <1>6, <1>13 DEF Pipes!Was
  <2>4. QED
    BY <1>2, <2>1, <2>2, <2>3 DEF Pipes!Was
<1>15. ASSUME alone, Pipes!Fine(thread[t]) PROVE Pipes!Fine(thread[t])'
  <2>1. Pipes!Statuses(thread[t])'
    BY <1>2, <1>5, <1>15, PipeStatuses DEF Pipes!Fine
  <2>2. sock[c].role = "public" /\ status[c] = Pipes!Pipe
    BY <1>2, <1>15 DEF Pipes!Fine, Pipes!Joins, Pipes!Joining
  <2>3. Pipes!Joins(thread[t])'
    BY <1>2, <1>5, <2>2 DEF Pipes!Joins, Pipes!Joining
  <2>4. Pipes!Stalls(thread[t])'
    <3>1. Pipes!Stalls(r) /\ r.at \notin {"dequeue_waiting", "get_pipe"}
      BY <1>2, <1>15 DEF Pipes!Fine
    <3>2. \A x \in PipeIds, q \in {"pending", "waiting"} : Pipes!In(q, x)' => Pipes!In(q, x)
      BY <1>2 DEF Pipes!In
    <3>3. QED
      BY <1>2, <3>1, <3>2, PipeStalls
  <2>5. Pipes!Tried(thread[t])'
    BY <1>5 DEF Pipes!Tried
  <2>6. route["worker"][c] = w
    BY <1>3, <1>15, PipeAssumption DEF Pipes!Fine, Pipes!Statuses
  <2>7. \A d \in PipeIds : sock'[d].role = "public" => Pipes!Flow(thread[t], d)'
    <3> SUFFICES ASSUME NEW d \in PipeIds, sock'[d].role = "public" PROVE Pipes!Flow(thread[t], d)'
      OBVIOUS
    <3>1. Pipes!Flow(thread[t], d)
      BY <1>2, <1>15 DEF Pipes!Fine
    <3>2. Pipes!Hand(thread'[t], d) = <<>>
      BY <1>5 DEF Pipes!Hand
    <3>3. CASE d # c
      <4>1. Pipes!Hand(thread[t], d) = <<>>
        BY <1>2, <3>3 DEF Pipes!Hand
      <4>2. route["worker"][d] # w
        BY <1>1, <1>3, <3>3, PipeAssumption DEF Pipes!Routed
      <4>3. \A v \in PipeIds : route["worker"][d] = v => out'[v] = out[v]
        BY <1>6, <4>2
      <4>4. QED
        BY <1>1, <1>2, <3>1, <3>2, <3>3, <4>1, <4>3, PipeFlow
    <3>4. CASE d = c
      <4> DEFINE h == r.data
                 l == packets[c]
                 o == out[w]
                 p == out[w] \o r.data
      <4>1. w # None /\ Pipes!Hand(thread[t], c) = h
        BY <1>2, <1>3, PipeAssumption DEF Pipes!Hand
      <4>2. /\ sock[c].kept = <<>>
            /\ sock[w].role = "ready" =>
                 /\ Pipes!Counts(o, 0) /\ Pipes!Counts(h, Len(o))
                 /\ Pipes!Counts(l, Len(o) + Len(h))
                 /\ sock[c].sent = Len(o) + Len(h) + Len(l)
        BY <2>6, <3>1, <3>4, <4>1 DEF Pipes!Flow
      <4>3. /\ Len(o) \in Nat /\ Len(h) \in Nat /\ Len(p) = Len(o) + Len(h)
            /\ \A k \in Nat : Pipes!Counts(o, k) /\ Pipes!Counts(h, k + Len(o)) => Pipes!Counts(p, k)
        BY <1>4, PipeCat
      <4>4. Len(l) \in Nat
        BY <1>1, <1>3 DEF Pipes!TypeOK
      <4>5. sock[w].role = "ready" =>
              /\ Pipes!Counts(p, 0) /\ Pipes!Counts(<<>>, Len(p))
              /\ Pipes!Counts(l, Len(p) + Len(<<>>))
              /\ sock[c].sent = Len(p) + Len(<<>>) + Len(l)
        <5>1. 0 + Len(o) = Len(o) /\ Len(p) + Len(<<>>) = Len(o) + Len(h)
          BY <4>3, PipeEmpty
        <5>2. QED
          BY <4>2, <4>3, <4>4, <5>1, PipeEmpty
      <4>6. /\ route'["worker"][c] = w /\ sock'[c].kept = <<>> /\ sock'[c].sent = sock[c].sent
            /\ packets'[c] = l /\ sock'[w] = sock[w] /\ (sock[w].role = "ready" => out'[w] = p)
        BY <1>2, <1>6, <2>6, <4>2
      <4>7. thread'[t].at = "packets" /\ thread'[t].c = c
        BY <1>5
      <4>8. sock'[w].role = "ready" =>
              /\ Pipes!Counts(out'[w], 0) /\ Pipes!Counts(<<>>, Len(out'[w]))
              /\ Pipes!Counts(l, Len(out'[w]) + Len(<<>>))
              /\ sock[c].sent = Len(out'[w]) + Len(<<>>) + Len(l)
        BY <4>5, <4>6
      <4>9. Pipes!Hand(thread'[t], c) = <<>>
        BY <3>2, <3>4
      <4> HIDE DEF h, l, o, p
      <4>10. /\ w # None /\ route'["worker"][d] = w /\ sock'[d].kept = <<>> /\ sock'[d].sent = sock[c].sent
             /\ packets'[d] = l /\ Pipes!Hand(thread'[t], d) = <<>>
             /\ thread'[t].at = "packets" /\ thread'[t].c = d
        BY <3>4, <4>1, <4>6, <4>7, <4>9
      <4>11. QED
        BY <4>8, <4>10, PipeFlowIs
    <3>5. QED
      BY <3>3, <3>4
  <2>8. QED
    BY <2>1, <2>3, <2>4, <2>5, <2>7 DEF Pipes!Fine
<1>16. IF thread'[t].at = "idle" THEN thread'[t] = Pipes!Idle ELSE thread'[t].s = thread[t].s
  BY <1>5
<1>17. r.at # "idle"
  BY <1>2
<1>18. QED
  BY <1>2, <1>5, <1>7, <1>8, <1>9, <1>10, <1>11, <1>12, <1>14, <1>15, <1>16, <1>17, PipeStep

LEMMA PipeKept ==
  ASSUME Pipes!TypeOK, NEW w \in PipeIds, NEW data \in Seq(Pipes!Packet),
         sock' = [sock EXCEPT ![w].kept = data]
  PROVE  /\ sock' \in [PipeIds -> Pipes!Socket]
         /\ sock'[w].kept = data /\ \A s \in PipeIds : s # w => sock'[s].kept = sock[s].kept
         /\ \A s \in PipeIds : /\ sock'[s].role = sock[s].role /\ sock'[s].life = sock[s].life
                               /\ sock'[s].sent = sock[s].sent
<1>1. sock \in [PipeIds -> Pipes!Socket]
  BY DEF Pipes!TypeOK
<1>2. [sock[w] EXCEPT !.kept = data] \in Pipes!Socket
  BY <1>1 DEF Pipes!Socket
<1>3. /\ [sock[w] EXCEPT !.kept = data].role = sock[w].role
      /\ [sock[w] EXCEPT !.kept = data].life = sock[w].life
      /\ [sock[w] EXCEPT !.kept = data].sent = sock[w].sent
      /\ [sock[w] EXCEPT !.kept = data].kept = data
  BY <1>1 DEF Pipes!Socket
<1> DEFINE x == [sock[w] EXCEPT !.kept = data]
<1>4. sock' = [sock EXCEPT ![w] = x]
  OBVIOUS
<1> HIDE DEF x
<1>5. QED
  BY <1>1, <1>2, <1>3, <1>4 DEF x

(* What is read of a pipe is on its way to the other end, and stays in the *)
(* buffer when there is none.                                              *)
LEMMA PipeLookUp ==
  ASSUME Pipes!IInv, NEW t \in Routers, Pipes!LookUp(t)
  PROVE  Pipes!IInv'
<1> DEFINE r == thread[t]
           s == r.s
<1>1. /\ Pipes!TypeOK /\ Pipes!Once /\ Pipes!Routed /\ Pipes!Owned /\ Pipes!Working(t)
      /\ r \in Pipes!Thread
  BY DEF Pipes!IInv, Pipes!TypeOK
<1>2. /\ r.at = "pipe"
      /\ alone' = alone /\ status' = status /\ queue' = queue /\ packets' = packets
      /\ route' = route /\ out' = out /\ asked' = asked
  BY DEF Pipes!LookUp, Pipes!At
<1>3. s \in PipeIds /\ sock[s].role # "free" /\ Pipes!From(r.data, s) /\ r.data \in Seq(Pipes!Packet)
  BY <1>1, <1>2 DEF Pipes!Working, Pipes!Thread
<1>4. CASE status[s] = Pipes!Pipe
  <2> DEFINE w == Pipes!Peer(s)
  <2>1. sock' = sock /\ thread' = [thread EXCEPT ![t] = [@ EXCEPT !.at = "forward", !.w = w]]
    BY <1>4 DEF Pipes!LookUp
  <2>2. w \in PipeIds \cup {None} /\ w = IF sock[s].role = "public" THEN route["worker"][s] ELSE route["public"][s]
    BY <1>1, <1>3 DEF Pipes!TypeOK, Pipes!Peer
  <2> HIDE DEF w
  <2>3. /\ thread' \in [Routers -> Pipes!Thread]
        /\ \A u \in Routers : u # t => thread'[u] = thread[u]
        /\ thread'[t].s = s /\ thread'[t].c = r.c /\ thread'[t].w = w
        /\ thread'[t].at = "forward" /\ thread'[t].data = r.data
    <3> DEFINE x == [r EXCEPT !.at = "forward", !.w = w]
    <3>1. thread \in [Routers -> Pipes!Thread] /\ thread' = [thread EXCEPT ![t] = x]
      BY <1>1, <2>1 DEF Pipes!TypeOK
    <3>2. x \in Pipes!Thread /\ x.at = "forward" /\ x.s = s /\ x.c = r.c /\ x.w = w /\ x.data = r.data
      BY <1>1, <2>2 DEF Pipes!Thread, Pipes!Places
    <3> HIDE DEF x
    <3>3. QED
      BY <3>1, <3>2
  <2>4. Pipes!TypeOK'
    BY <1>1, <1>2, <2>1, <2>3 DEF Pipes!TypeOK
  <2>5. /\ Keeps /\ RouteKeeps /\ Pipes!Routed' /\ Pipes!Owned'
        /\ \A x \in PipeIds : sock'[x].role = sock[x].role /\ sock'[x].sent >= sock[x].sent
    BY <1>2, <2>1, <2>4, PipeQuiet
  <2>6. Pipes!Working(t)'
    <3>1. w # None => IF sock[s].role = "public" THEN route["public"][w] = s
                      ELSE Pipes!Was(s, "ready") /\ Pipes!Was(w, "public")
      BY <1>1, <1>3, <2>2 DEF Pipes!Routed
    <3>2. thread'[t].w # None =>
            IF sock'[thread'[t].s].role = "public" THEN route'["public"][thread'[t].w] = thread'[t].s
            ELSE Pipes!Was(thread[t].s, "ready")' /\ Pipes!Was(thread[t].w, "public")'
      BY <1>2, <2>1, <2>3, <3>1 DEF Pipes!Was
    <3>3. QED
      BY <1>2, <1>3, <2>1, <2>3, <3>2 DEF Pipes!Working, Pipes!From, Pipes!Joining, Pipes!Was
  <2>7. Pipes!Once'
    <3>1. \A u \in Routers, x \in PipeIds : Pipes!Takes(u, x)' => Pipes!Takes(u, x)
      BY <2>3, PipeTakes
    <3>2. \A x \in PipeIds, q \in {"pending", "waiting"} : Pipes!In(q, x)' => Pipes!In(q, x)
      BY <1>2 DEF Pipes!In
    <3>3. QED
      BY <1>1, <1>2, <2>1, <2>4, <2>5, <3>1, <3>2, PipeOnce
  <2>8. ASSUME alone, Pipes!Fine(thread[t]) PROVE Pipes!Fine(thread[t])'
    <3>1. Pipes!Statuses(thread[t])'
      BY <1>2, <2>1, <2>3, <2>8, PipeStatuses DEF Pipes!Fine
    <3>2. Pipes!Joins(thread[t])'
      BY <1>2, <1>4, <2>1, <2>2, <2>3 DEF Pipes!Joins, Pipes!Joining
    <3>3. Pipes!Stalls(thread[t])'
      BY <1>2, <2>3, <2>8 DEF Pipes!Fine, Pipes!Stalls, Pipes!In
    <3>4. Pipes!Tried(thread[t])'
      BY <2>3 DEF Pipes!Tried
    <3>5. \A d \in PipeIds : sock'[d].role = "public" => Pipes!Flow(thread[t], d)'
      <4> SUFFICES ASSUME NEW d \in PipeIds, sock'[d].role = "public" PROVE Pipes!Flow(thread[t], d)'
        OBVIOUS
      <4>1. Pipes!Flow(thread[t], d)
        BY <2>1, <2>8 DEF Pipes!Fine
      <4>2. Pipes!Hand(thread'[t], d) = Pipes!Hand(thread[t], d)
        BY <1>2, <2>3 DEF Pipes!Hand
      <4>3. QED
        BY <1>1, <1>2, <2>1, <4>1, <4>2, PipeFlow
    <3>6. QED
      BY <3>1, <3>2, <3>3, <3>4, <3>5 DEF Pipes!Fine
  <2>9. IF thread'[t].at = "idle" THEN thread'[t] = Pipes!Idle ELSE thread'[t].s = thread[t].s
    BY <2>3
  <2>10. r.at # "idle"
    BY <1>2
  <2>11. QED
    BY <1>2, <2>3, <2>4, <2>5, <2>6, <2>7, <2>8, <2>9, <2>10, PipeStep
<1>5. CASE status[s] # Pipes!Pipe
  <2>1. Pipes!Done(t) /\ sock' = [sock EXCEPT ![s].kept = r.data]
    BY <1>5 DEF Pipes!LookUp
  <2>2. /\ thread' \in [Routers -> Pipes!Thread] /\ thread'[t] = Pipes!Idle
        /\ thread'[t].at = "idle" /\ thread'[t].w = None /\ thread'[t].data = <<>>
        /\ \A u \in Routers : u # t => thread'[u] = thread[u]
    BY <1>1, <2>1, PipeDone
  <2>3. /\ sock' \in [PipeIds -> Pipes!Socket]
        /\ sock'[s].kept = r.data /\ \A x \in PipeIds : x # s => sock'[x].kept = sock[x].kept
        /\ \A x \in PipeIds : /\ sock'[x].role = sock[x].role /\ sock'[x].life = sock[x].life
                              /\ sock'[x].sent = sock[x].sent
    BY <1>1, <1>3, <2>1, PipeKept
  <2>4. Pipes!TypeOK'
    BY <1>1, <1>2, <2>2, <2>3 DEF Pipes!TypeOK
  <2>5. \A x \in PipeIds : sock[x].sent \in Nat /\ sock'[x].sent >= sock[x].sent
    BY <1>1, <2>3 DEF Pipes!TypeOK, Pipes!Socket
  <2>6. Keeps /\ RouteKeeps
    <3>1. Keeps
      BY <1>1, <2>3, <2>4, <2>5, PipeSame
    <3>2. QED
      BY <1>2, <3>1 DEF RouteKeeps
  <2>7. Pipes!Routed' /\ Pipes!Owned'
    <3>1. \A x \in PipeIds : Pipes!From(sock'[x].kept, x)
      <4>1. \A x \in PipeIds : Pipes!From(sock[x].kept, x)
        BY <1>1 DEF Pipes!Owned
      <4>2. QED
        BY <1>3, <2>3, <4>1
    <3>2. QED
      BY <1>1, <1>2, <2>3, <2>4, <2>6, <3>1, PipeRouted, PipeOwned
  <2>8. Pipes!Working(t)'
    BY <2>2, PipeIdle
  <2>9. Pipes!Once'
    <3>1. \A u \in Routers, x \in PipeIds : Pipes!Takes(u, x)' => Pipes!Takes(u, x)
      BY <2>2, PipeTakes
    <3>2. \A x \in PipeIds, q \in {"pending", "waiting"} : Pipes!In(q, x)' => Pipes!In(q, x)
      BY <1>2 DEF Pipes!In
    <3>3. QED
      BY <1>1, <1>2, <2>3, <2>4, <2>6, <3>1, <3>2, PipeOnce
  <2>10. ASSUME alone, Pipes!Fine(thread[t]) PROVE Pipes!Fine(thread[t])'
    <3>1. Pipes!Statuses(thread[t])'
      BY <1>2, <2>2, <2>3, <2>10, PipeStatuses DEF Pipes!Fine
    <3>2. Pipes!Joins(thread[t])'
      BY <2>2 DEF Pipes!Joins, Pipes!Joining
    <3>3. Pipes!Stalls(thread[t])'
      BY <1>2, <2>2, <2>10 DEF Pipes!Fine, Pipes!Stalls, Pipes!In
    <3>4. Pipes!Tried(thread[t])'
      BY <2>2 DEF Pipes!Tried
    <3>5. \A d \in PipeIds : sock'[d].role = "public" => Pipes!Flow(thread[t], d)'
      <4> SUFFICES ASSUME NEW d \in PipeIds, sock'[d].role = "public" PROVE Pipes!Flow(thread[t], d)'
        OBVIOUS
      <4>1. Pipes!Flow(thread[t], d) /\ sock[d].role = "public"
        BY <2>3, <2>10 DEF Pipes!Fine
      <4>2. d # s
        BY <1>2, <1>5, <2>10, <4>1 DEF Pipes!Fine, Pipes!Joins
      <4>3. Pipes!Hand(thread'[t], d) = Pipes!Hand(thread[t], d)
        BY <1>2, <2>2, <4>2 DEF Pipes!Hand
      <4>4. QED
        BY <1>1, <1>2, <2>3, <4>1, <4>2, <4>3, PipeFlow
    <3>6. QED
      BY <3>1, <3>2, <3>3, <3>4, <3>5 DEF Pipes!Fine
  <2>11. IF thread'[t].at = "idle" THEN thread'[t] = Pipes!Idle ELSE thread'[t].s = thread[t].s
    BY <2>2
  <2>12. r.at # "idle"
    BY <1>2
  <2>13. QED
    BY <1>2, <2>2, <2>3, <2>4, <2>5, <2>6, <2>7, <2>8, <2>9, <2>10, <2>11, <2>12, PipeStep
<1>6. QED
  BY <1>4, <1>5

LEMMA PipeForward ==
  ASSUME Pipes!IInv, NEW t \in Routers, Pipes!Forward(t)
  PROVE  Pipes!IInv'
<1> DEFINE r == thread[t]
           s == r.s
           w == r.w
<1>1. /\ Pipes!TypeOK /\ Pipes!Once /\ Pipes!Routed /\ Pipes!Owned /\ Pipes!Working(t)
      /\ r \in Pipes!Thread
  BY DEF Pipes!IInv, Pipes!TypeOK
<1>2. /\ r.at = "forward" /\ Pipes!Done(t)
      /\ alone' = alone /\ status' = status /\ queue' = queue /\ packets' = packets
      /\ route' = route /\ asked' = asked
  BY DEF Pipes!Forward, Pipes!At
<1>3. /\ s \in PipeIds /\ sock[s].role # "free" /\ Pipes!From(r.data, s) /\ r.data \in Seq(Pipes!Packet)
      /\ w # None => IF sock[s].role = "public" THEN route["public"][w] = s
                     ELSE Pipes!Was(s, "ready") /\ Pipes!Was(w, "public")
  BY <1>1, <1>2 DEF Pipes!Working, Pipes!Thread
<1>4. /\ thread' \in [Routers -> Pipes!Thread] /\ thread'[t] = Pipes!Idle
      /\ thread'[t].at = "idle" /\ thread'[t].w = None /\ thread'[t].data = <<>>
      /\ \A u \in Routers : u # t => thread'[u] = thread[u]
  BY <1>1, <1>2, PipeDone
<1>5. Pipes!Working(t)'
  BY <1>4, PipeIdle
<1>6. \A u \in Routers, x \in PipeIds : Pipes!Takes(u, x)' => Pipes!Takes(u, x)
  BY <1>4, PipeTakes
<1>7. \A x \in PipeIds, q \in {"pending", "waiting"} : Pipes!In(q, x)' => Pipes!In(q, x)
  BY <1>2 DEF Pipes!In
<1>8. ASSUME alone, Pipes!Fine(thread[t]), sock[s].role = "public"
      PROVE  /\ w \in PipeIds /\ w # None /\ w = route["worker"][s] /\ packets[s] = <<>>
             /\ sock[w].role = "ready" => status[w] # Pipes!Down
  <2>1. status[s] = Pipes!Pipe /\ w = route["worker"][s]
    BY <1>2, <1>8 DEF Pipes!Fine, Pipes!Joins
  <2>2. w # None
    BY <1>3, <1>8, <2>1 DEF Pipes!Fine, Pipes!Statuses, Pipes!Pipe, Pipes!Down
  <2>3. w \in PipeIds
    BY <1>1, <2>2 DEF Pipes!Thread
  <2>4. packets[s] = <<>>
    BY <1>2, <1>3, <1>8, <2>1, <2>2 DEF Pipes!Fine, Pipes!Flow
  <2>5. sock[w].role = "ready" => status[w] # Pipes!Down
    BY <1>2, <1>8, <2>3 DEF Pipes!Fine, Pipes!Statuses
  <2>6. QED
    BY <2>1, <2>2, <2>3, <2>4, <2>5
<1>9. IF thread'[t].at = "idle" THEN thread'[t] = Pipes!Idle ELSE thread'[t].s = thread[t].s
  BY <1>4
<1>10. r.at # "idle"
  BY <1>2
<1>11. CASE w # None /\ status[w] # Pipes!Down
  <2>1. Pipes!Send(w, r.data) /\ sock' = sock
    BY <1>11 DEF Pipes!Forward
  <2>2. w \in PipeIds /\ out[w] \in Seq(Pipes!Packet)
    BY <1>1, <1>11 DEF Pipes!Thread, Pipes!TypeOK
  <2>3. /\ out' \in [PipeIds -> Seq(Pipes!Packet)]
        /\ \A x \in PipeIds : x # w \/ sock[w].role = "free" => out'[x] = out[x]
        /\ sock[w].role # "free" => out'[w] = out[w] \o r.data
    BY <1>1, <1>3, <2>1, <2>2, PipeSend
  <2>4. Pipes!TypeOK'
    BY <1>1, <1>2, <1>4, <2>1, <2>3 DEF Pipes!TypeOK
  <2>5. \A x \in PipeIds : sock[x].sent \in Nat /\ sock'[x].sent >= sock[x].sent
    <3>1. \A x \in PipeIds : sock[x].sent \in Nat
      BY <1>1 DEF Pipes!TypeOK, Pipes!Socket
    <3>2. QED
      BY <2>1, <3>1
  <2>6. Keeps /\ RouteKeeps
    <3>1. Keeps
      BY <1>1, <2>1, <2>4, <2>5, PipeSame
    <3>2. QED
      BY <1>2, <3>1 DEF RouteKeeps
  <2>7. Pipes!Once' /\ Pipes!Routed'
    BY <1>1, <1>2, <1>6, <1>7, <2>1, <2>4, <2>6, PipeOnce, PipeRouted
  <2>8. /\ sock[s].role = "public" => route["public"][w] = s /\ Pipes!Was(w, "ready")
        /\ sock[s].role # "public" => Pipes!Was(s, "ready") /\ Pipes!Was(w, "public")
    BY <1>1, <1>3, <1>11, <2>2, PipeAssumption DEF Pipes!Routed
  <2>9. Pipes!Owned'
    <3> SUFFICES ASSUME NEW x \in PipeIds
                 PROVE  /\ sock'[x].role # "free" => sock'[x].life > 0
                        /\ Pipes!From(packets'[x], x) /\ Pipes!From(sock'[x].kept, x)
                        /\ packets'[x] # <<>> => Pipes!Was(x, "public")'
                        /\ sock'[x].role = "ready" => Pipes!From(out'[x], route'["public"][x])
                        /\ sock'[x].role = "public" => \A i \in DOMAIN out'[x] : Pipes!Was(out[x][i].from, "ready")'
      BY DEF Pipes!Owned, Pipes!From, Pipes!Was
    <3>1. /\ sock[x].role # "free" => sock[x].life > 0
          /\ Pipes!From(packets[x], x) /\ Pipes!From(sock[x].kept, x)
          /\ packets[x] # <<>> => Pipes!Was(x, "public")
          /\ sock[x].role = "ready" => Pipes!From(out[x], route["public"][x])
          /\ sock[x].role = "public" => \A i \in DOMAIN out[x] : Pipes!Was(out[x][i].from, "ready")
      BY <1>1 DEF Pipes!Owned
    <3>2. sock[x].role = "ready" => Pipes!From(out'[x], route["public"][x])
      <4>1. CASE x # w
        BY <2>3, <3>1, <4>1
      <4>2. CASE x = w
        <5> SUFFICES ASSUME sock[w].role = "ready" PROVE Pipes!From(out'[w], route["public"][w])
          BY <4>2
        <5>1. route["public"][w] = s
          BY <2>8 DEF Pipes!Was
        <5>2. Pipes!From(out[w], s)
          BY <3>1, <4>2, <5>1
        <5>3. Pipes!From(out[w] \o r.data, s)
          BY <1>3, <2>2, <5>2, PipeCat
        <5>4. QED
          BY <2>3, <5>1, <5>3
      <4>3. QED
        BY <4>1, <4>2
    <3>3. sock[x].role = "public" => \A i \in DOMAIN out'[x] : Pipes!Was(out'[x][i].from, "ready")
      <4>1. CASE x # w
        BY <2>3, <3>1, <4>1
      <4>2. CASE x = w
        <5> SUFFICES ASSUME sock[w].role = "public", NEW i \in DOMAIN out'[w]
                     PROVE  Pipes!Was(out'[w][i].from, "ready")
          BY <4>2
        <5>1. Pipes!Was(s, "ready")
          BY <2>8 DEF Pipes!Was
        <5>2. out'[w] = out[w] \o r.data
          BY <2>3
        <5>3. \/ \E j \in DOMAIN out[w] : out'[w][i] = out[w][j]
              \/ \E j \in DOMAIN r.data : out'[w][i] = r.data[j]
          <6> DEFINE p == out'[w]
                     a == out[w]
                     b == r.data
          <6>1. a \in Seq(Pipes!Packet) /\ b \in Seq(Pipes!Packet) /\ p = a \o b /\ i \in DOMAIN p
            BY <1>3, <2>2, <5>2
          <6> HIDE DEF a, b, p
          <6>2. (\E j \in DOMAIN a : p[i] = a[j]) \/ (\E j \in DOMAIN b : p[i] = b[j])
            BY <6>1
          <6>3. QED
            BY <6>2 DEF a, b, p
        <5>4. \A j \in DOMAIN r.data : r.data[j].from = s
          BY <1>3 DEF Pipes!From
        <5>5. \A j \in DOMAIN out[w] : Pipes!Was(out[w][j].from, "ready")
          BY <3>1, <4>2
        <5>6. QED
          BY <5>1, <5>3, <5>4, <5>5
      <4>3. QED
        BY <4>1, <4>2
    <3>4. QED
      BY <1>2, <2>1, <3>1, <3>2, <3>3 DEF Pipes!Was
  <2>10. ASSUME alone, Pipes!Fine(thread[t]) PROVE Pipes!Fine(thread[t])'
    <3>1. Pipes!Statuses(thread[t])'
      BY <1>2, <1>4, <2>1, <2>10, PipeStatuses DEF Pipes!Fine
    <3>2. Pipes!Joins(thread[t])'
      BY <1>4 DEF Pipes!Joins, Pipes!Joining
    <3>3. Pipes!Stalls(thread[t])'
      BY <1>2, <1>4, <2>10 DEF Pipes!Fine, Pipes!Stalls, Pipes!In
    <3>4. Pipes!Tried(thread[t])'
      BY <1>4 DEF Pipes!Tried
    <3>5. \A d \in PipeIds : sock'[d].role = "public" => Pipes!Flow(thread[t], d)'
      <4> SUFFICES ASSUME NEW d \in PipeIds, sock'[d].role = "public" PROVE Pipes!Flow(thread[t], d)'
        OBVIOUS
      <4>1. Pipes!Flow(thread[t], d) /\ sock[d].role = "public"
        BY <2>1, <2>10 DEF Pipes!Fine
      <4>2. Pipes!Hand(thread'[t], d) = <<>>
        BY <1>4 DEF Pipes!Hand
      <4>3. CASE d # s
        <5>1. Pipes!Hand(thread[t], d) = <<>>
          BY <1>2, <4>3 DEF Pipes!Hand
        <5>2. \A v \in PipeIds : route["worker"][d] = v /\ sock'[v].role = "ready" => out'[v] = out[v]
          <6> SUFFICES ASSUME route["worker"][d] = w, sock[w].role = "ready" PROVE FALSE
            BY <2>1, <2>3
          <6>1. route["public"][w] = d
            BY <1>1, <2>2, PipeAssumption DEF Pipes!Routed
          <6>2. QED
            BY <2>8, <4>3, <6>1 DEF Pipes!Was
        <5>3. QED
          BY <1>1, <1>2, <2>1, <4>1, <4>2, <5>1, <5>2, PipeFlow
      <4>4. CASE d = s
        <5> DEFINE h == r.data
                   o == out[w]
                   p == out[w] \o r.data
        <5>1. w # None /\ w = route["worker"][d] /\ packets[d] = <<>> /\ Pipes!Hand(thread[t], d) = h
          BY <1>2, <1>8, <2>10, <4>1, <4>4 DEF Pipes!Hand
        <5>2. /\ sock[d].kept = <<>>
              /\ sock[w].role = "ready" =>
                   /\ Pipes!Counts(o, 0) /\ Pipes!Counts(h, Len(o))
                   /\ sock[d].sent = Len(o) + Len(h) + Len(<<>>)
          BY <4>1, <5>1 DEF Pipes!Flow
        <5>3. /\ Len(o) \in Nat /\ Len(h) \in Nat /\ Len(p) = Len(o) + Len(h)
              /\ \A k \in Nat : Pipes!Counts(o, k) /\ Pipes!Counts(h, k + Len(o)) => Pipes!Counts(p, k)
          BY <1>3, <2>2, PipeCat
        <5> HIDE DEF h, o, p
        <5>4. sock[w].role = "ready" =>
                /\ Pipes!Counts(p, 0) /\ Pipes!Counts(<<>>, Len(p))
                /\ Pipes!Counts(<<>>, Len(p) + Len(<<>>))
                /\ sock[d].sent = Len(p) + Len(<<>>) + Len(<<>>)
          <6>1. 0 + Len(o) = Len(o) /\ Len(<<>>) = 0
            BY <5>3, PipeEmpty
          <6>2. QED
            BY <5>2, <5>3, <6>1, PipeEmpty
        <5>5. sock[w].role = "ready" => out'[w] = p
          BY <2>3 DEF p
        <5>6. w # None /\ sock'[w].role = "ready" =>
                /\ Pipes!Counts(out'[w], 0) /\ Pipes!Counts(<<>>, Len(out'[w]))
                /\ Pipes!Counts(<<>>, Len(out'[w]) + Len(<<>>))
                /\ sock[d].sent = Len(out'[w]) + Len(<<>>) + Len(<<>>)
          BY <2>1, <5>4, <5>5
        <5>7. /\ w # None /\ route'["worker"][d] = w /\ sock'[d].kept = <<>> /\ sock'[d].sent = sock[d].sent
              /\ packets'[d] = <<>>
          BY <1>2, <2>1, <5>1, <5>2
        <5>8. QED
          BY <4>2, <5>6, <5>7, PipeFlowIs
      <4>5. QED
        BY <4>3, <4>4
    <3>6. QED
      BY <3>1, <3>2, <3>3, <3>4, <3>5 DEF Pipes!Fine
  <2>11. QED
    BY <1>2, <1>4, <1>5, <1>9, <1>10, <2>1, <2>4, <2>5, <2>6, <2>7, <2>9, <2>10, PipeStep
<1>12. CASE ~ (w # None /\ status[w] # Pipes!Down)
  <2>1. sock' = [sock EXCEPT ![s].closing = TRUE] /\ out' = out
    BY <1>12 DEF Pipes!Forward
  <2>2. /\ sock' \in [PipeIds -> Pipes!Socket]
        /\ \A x \in PipeIds : /\ sock'[x].role = sock[x].role /\ sock'[x].life = sock[x].life
                              /\ sock'[x].sent = sock[x].sent /\ sock'[x].kept = sock[x].kept
    BY <1>1, <1>3, <2>1, PipeClose
  <2>3. Pipes!TypeOK'
    BY <1>1, <1>2, <1>4, <2>1, <2>2 DEF Pipes!TypeOK
  <2>4. \A x \in PipeIds : sock[x].sent \in Nat /\ sock'[x].sent >= sock[x].sent
    BY <1>1, <2>2 DEF Pipes!TypeOK, Pipes!Socket
  <2>5. Keeps /\ RouteKeeps
    <3>1. Keeps
      BY <1>1, <2>2, <2>3, <2>4, PipeSame
    <3>2. QED
      BY <1>2, <3>1 DEF RouteKeeps
  <2>6. Pipes!Once'
    BY <1>1, <1>2, <1>6, <1>7, <2>2, <2>3, <2>5, PipeOnce
  <2>7. Pipes!Routed' /\ Pipes!Owned'
    <3>1. \A x \in PipeIds : Pipes!From(sock'[x].kept, x)
      BY <1>1, <2>2 DEF Pipes!Owned
    <3>2. QED
      BY <1>1, <1>2, <2>1, <2>2, <2>3, <2>5, <3>1, PipeRouted, PipeOwned
  <2>8. ASSUME alone, Pipes!Fine(thread[t]) PROVE Pipes!Fine(thread[t])'
    <3>1. Pipes!Statuses(thread[t])'
      BY <1>2, <1>4, <2>2, <2>8, PipeStatuses DEF Pipes!Fine
    <3>2. Pipes!Joins(thread[t])'
      BY <1>4 DEF Pipes!Joins, Pipes!Joining
    <3>3. Pipes!Stalls(thread[t])'
      BY <1>2, <1>4, <2>8 DEF Pipes!Fine, Pipes!Stalls, Pipes!In
    <3>4. Pipes!Tried(thread[t])'
      BY <1>4 DEF Pipes!Tried
    <3>5. \A d \in PipeIds : sock'[d].role = "public" => Pipes!Flow(thread[t], d)'
      <4> SUFFICES ASSUME NEW d \in PipeIds, sock'[d].role = "public" PROVE Pipes!Flow(thread[t], d)'
        OBVIOUS
      <4>1. Pipes!Flow(thread[t], d) /\ sock[d].role = "public"
        BY <2>2, <2>8 DEF Pipes!Fine
      <4>2. Pipes!Hand(thread'[t], d) = <<>>
        BY <1>4 DEF Pipes!Hand
      <4>3. CASE d # s
        <5>1. Pipes!Hand(thread[t], d) = <<>>
          BY <1>2, <4>3 DEF Pipes!Hand
        <5>2. QED
          BY <1>1, <1>2, <2>1, <2>2, <4>1, <4>2, <5>1, PipeFlow
      <4>4. CASE d = s
        <5>1. w # None /\ w = route["worker"][d] /\ packets[d] = <<>> /\ sock[w].role # "ready" /\ w \in PipeIds
          BY <1>8, <1>12, <2>8, <4>1, <4>4
        <5>2. sock'[w].role # "ready" /\ sock'[d].kept = <<>>
          BY <2>2, <4>1, <5>1 DEF Pipes!Flow
        <5>3. w # None /\ route'["worker"][d] = w /\ packets'[d] = <<>>
          BY <1>2, <5>1
        <5>4. QED
          BY <4>2, <5>2, <5>3, PipeFlowIs
      <4>5. QED
        BY <4>3, <4>4
    <3>6. QED
      BY <3>1, <3>2, <3>3, <3>4, <3>5 DEF Pipes!Fine
  <2>9. QED
    BY <1>2, <1>4, <1>5, <1>9, <1>10, <2>2, <2>3, <2>4, <2>5, <2>6, <2>7, <2>8, PipeStep
<1>13. QED
  BY <1>11, <1>12

(* A handler begins.                                                       *)
LEMMA PipeBegin ==
  ASSUME Pipes!IInv, NEW t \in Routers, NEW s \in PipeIds, Pipes!Begin(t, s), alone' = alone,
         \A u \in Routers : u # t => thread'[u] = thread[u],
         thread'[t].at # "idle", thread'[t].s = s,
         Pipes!TypeOK', Keeps, RouteKeeps, status' = status,
         \A x \in PipeIds : sock'[x].role = sock[x].role /\ sock'[x].sent >= sock[x].sent,
         Pipes!Working(t)', Pipes!Once', Pipes!Routed', Pipes!Owned',
         alone /\ Pipes!Fine(thread[t]) => Pipes!Fine(thread[t])'
  PROVE  Pipes!IInv'
<1>1. /\ Pipes!TypeOK /\ Pipes!Apart /\ Pipes!Alone
      /\ \A u \in Routers : Pipes!Working(u)
  BY DEF Pipes!IInv
<1>2. /\ thread[t] = Pipes!Idle /\ \A u \in Routers : thread[u].s # s
      /\ alone => \A u \in Routers : thread[u].at = "idle"
  BY <1>1 DEF Pipes!Begin, Pipes!At, Pipes!Working
<1>3. ASSUME NEW u \in Routers PROVE Pipes!Working(u)'
  <2>1. CASE u = t
    BY <2>1
  <2>2. CASE u # t
    <3>1. thread'[u] = thread[u] /\ Pipes!Working(u)
      BY <1>1, <2>2
    <3>2. thread[u].at # "idle" => thread[u].s \in PipeIds
      BY <3>1 DEF Pipes!Working
    <3>3. QED
      BY <1>1, <3>1, <3>2, PipeWorking
  <2>3. QED
    BY <2>1, <2>2
<1>4. Pipes!Apart'
  BY <1>1, <1>2 DEF Pipes!Apart, Pipes!At
<1>5. Pipes!Alone'
  <2> SUFFICES ASSUME alone PROVE Pipes!Alone'
    BY DEF Pipes!Alone
  <2>1. Pipes!Fine(thread[t])
    BY <1>1, <1>2 DEF Pipes!Alone, Pipes!At
  <2>2. Pipes!Fine(thread[t])'
    BY <2>1
  <2>3. QED
    BY <1>2, <2>2 DEF Pipes!Alone, Pipes!At
<1>6. QED
  BY <1>3, <1>4, <1>5 DEF Pipes!IInv

(* A connection is lost,                                                   *)
LEMMA PipeDisconnect ==
  ASSUME Pipes!IInv, NEW t \in Routers, NEW s \in PipeIds, Pipes!Disconnect(t, s)
  PROVE  Pipes!IInv'
<1> DEFINE w == Pipes!Peer(s)
           r == thread[t]
<1>1. /\ Pipes!TypeOK /\ Pipes!Once /\ Pipes!Routed /\ Pipes!Owned /\ Pipes!Working(t)
      /\ r \in Pipes!Thread
  BY DEF Pipes!IInv, Pipes!TypeOK
<1>2. /\ Pipes!Begin(t, s) /\ alone' = alone /\ sock' = sock /\ status' = status /\ queue' = queue
      /\ packets' = packets /\ route' = route /\ out' = out /\ asked' = asked
  BY DEF Pipes!Disconnect
<1>2t. thread' = [thread EXCEPT ![t] = [@ EXCEPT !.at = "egress_down", !.s = s, !.w = w]]
  BY DEF Pipes!Disconnect
<1>3. r = Pipes!Idle /\ r.at = "idle" /\ r.data = <<>> /\ sock[s].role # "free"
  BY <1>1, <1>2 DEF Pipes!Begin, Pipes!At, Pipes!Up, Pipes!Working, Pipes!Idle
<1>4. w \in PipeIds \cup {None}
  BY <1>1 DEF Pipes!TypeOK, Pipes!Peer
<1> HIDE DEF w
<1>5. /\ thread' \in [Routers -> Pipes!Thread]
      /\ \A u \in Routers : u # t => thread'[u] = thread[u]
      /\ thread'[t].at = "egress_down" /\ thread'[t].s = s /\ thread'[t].data = <<>>
  <2> DEFINE x == [r EXCEPT !.at = "egress_down", !.s = s, !.w = w]
  <2>1. thread \in [Routers -> Pipes!Thread] /\ thread' = [thread EXCEPT ![t] = x]
    BY <1>1, <1>2t DEF Pipes!TypeOK
  <2>2. x \in Pipes!Thread /\ x.at = "egress_down" /\ x.s = s /\ x.data = <<>>
    BY <1>1, <1>3, <1>4 DEF Pipes!Thread, Pipes!Places
  <2> HIDE DEF x
  <2>3. QED
    BY <2>1, <2>2
<1>6. Pipes!TypeOK'
  BY <1>1, <1>2, <1>5 DEF Pipes!TypeOK
<1>7. /\ Keeps /\ RouteKeeps /\ Pipes!Routed' /\ Pipes!Owned'
      /\ \A x \in PipeIds : sock'[x].role = sock[x].role /\ sock'[x].sent >= sock[x].sent
  BY <1>2, <1>6, PipeQuiet
<1>8. Pipes!Working(t)'
  <2>1. Pipes!From(thread'[t].data, thread'[t].s)
    BY <1>5, PipeEmpty
  <2>2. QED
    BY <1>2, <1>3, <1>5, <2>1, PipePlain
<1>9. Pipes!Once'
  <2>1. \A u \in Routers, x \in PipeIds : Pipes!Takes(u, x)' => Pipes!Takes(u, x)
    BY <1>5, PipeTakes
  <2>2. \A x \in PipeIds, q \in {"pending", "waiting"} : Pipes!In(q, x)' => Pipes!In(q, x)
    BY <1>2 DEF Pipes!In
  <2>3. QED
    BY <1>1, <1>2, <1>6, <1>7, <2>1, <2>2, PipeOnce
<1>10. ASSUME alone, Pipes!Fine(thread[t]) PROVE Pipes!Fine(thread[t])'
  <2>1. Pipes!Statuses(thread[t])'
    BY <1>2, <1>3, <1>5, <1>10, PipeStatuses DEF Pipes!Fine
  <2>2. Pipes!Joins(thread[t])'
    BY <1>5 DEF Pipes!Joins, Pipes!Joining
  <2>3. Pipes!Stalls(thread[t])'
    BY <1>2, <1>3, <1>10 DEF Pipes!Fine, Pipes!Stalls, Pipes!In
  <2>4. Pipes!Tried(thread[t])'
    BY <1>5 DEF Pipes!Tried
  <2>5. \A d \in PipeIds : sock'[d].role = "public" => Pipes!Flow(thread[t], d)'
    <3> SUFFICES ASSUME NEW d \in PipeIds, sock'[d].role = "public" PROVE Pipes!Flow(thread[t], d)'
      OBVIOUS
    <3>1. Pipes!Flow(thread[t], d)
      BY <1>2, <1>10 DEF Pipes!Fine
    <3>2. Pipes!Hand(thread'[t], d) = Pipes!Hand(thread[t], d)
      BY <1>3, <1>5 DEF Pipes!Hand
    <3>3. thread[t].at \notin {"set_client", "set_worker", "packets", "send"}
      BY <1>3
    <3>4. QED
      BY <1>1, <1>2, <3>1, <3>2, <3>3, PipeFlow
  <2>6. QED
    BY <2>1, <2>2, <2>3, <2>4, <2>5 DEF Pipes!Fine
<1>11. thread'[t].at # "idle"
  BY <1>5
<1>12. QED
  BY <1>2, <1>5, <1>6, <1>7, <1>8, <1>9, <1>10, <1>11, PipeBegin

LEMMA PipeNewPacket ==
  ASSUME NEW a \in Seq(Pipes!Packet), NEW p \in Pipes!Packet
  PROVE  /\ Append(a, p) \in Seq(Pipes!Packet)
         /\ Pipes!From(a, p.from) => Pipes!From(Append(a, p), p.from)
         /\ a = <<>> => Len(Append(a, p)) = 1 /\ \A k \in Nat : p.n = k + 1 => Pipes!Counts(Append(a, p), k)
<1> DEFINE b == Append(a, p)
<1>1. b \in Seq(Pipes!Packet) /\ DOMAIN a = 1 .. Len(a) /\ DOMAIN b = 1 .. Len(a) + 1 /\ Len(a) \in Nat
      /\ b[Len(a) + 1] = p /\ \A i \in 1 .. Len(a) : b[i] = a[i]
  OBVIOUS
<1>2. a = <<>> => Len(b) = 1 /\ DOMAIN b = {1} /\ b[1] = p
  OBVIOUS
<1> HIDE DEF b
<1>3. \A i \in DOMAIN b : (i \in DOMAIN a /\ b[i] = a[i]) \/ b[i] = p
  BY <1>1
<1>4. Pipes!From(a, p.from) => Pipes!From(b, p.from)
  BY <1>3 DEF Pipes!From
<1>5. a = <<>> => \A k \in Nat : p.n = k + 1 => Pipes!Counts(b, k)
  BY <1>2 DEF Pipes!Counts
<1>6. QED
  BY <1>1, <1>2, <1>4, <1>5 DEF b

(* or something is read of it.                                             *)
LEMMA PipeReceive ==
  ASSUME Pipes!IInv, NEW t \in Routers, NEW s \in PipeIds, Pipes!Receive(t, s)
  PROVE  Pipes!IInv'
<1> DEFINE n == sock[s].sent + 1
           r == thread[t]
           l == IF status[s] # Pipes!Conn THEN "pipe"
                ELSE IF sock[s].role = "public" THEN "enqueue" ELSE sock[s].role
           p == [from |-> s, life |-> sock[s].life, n |-> n]
           data == Append(sock[s].kept, p)
<1>1. /\ Pipes!TypeOK /\ Pipes!Once /\ Pipes!Routed /\ Pipes!Owned /\ Pipes!Working(t)
      /\ r \in Pipes!Thread
  BY DEF Pipes!IInv, Pipes!TypeOK
<1>2. /\ Pipes!Begin(t, s) /\ alone' = alone /\ status' = status /\ queue' = queue
      /\ packets' = packets /\ route' = route /\ out' = out /\ asked' = asked
  BY DEF Pipes!Receive
<1>2s. sock' = [sock EXCEPT ![s].sent = n, ![s].kept = <<>>]
  BY DEF Pipes!Receive
<1>2t. thread' = [thread EXCEPT ![t] = [at |-> l, s |-> s, c |-> None, w |-> None, data |-> data]]
  BY DEF Pipes!Receive
<1>3. r = Pipes!Idle /\ r.at = "idle" /\ r.data = <<>> /\ sock[s].role # "free"
  BY <1>1, <1>2 DEF Pipes!Begin, Pipes!At, Pipes!Up, Pipes!Working, Pipes!Idle
<1>4. /\ sock[s].sent \in Nat /\ n \in Nat /\ sock[s].kept \in Seq(Pipes!Packet)
      /\ sock[s].role \in {"public", "control", "ready"} /\ sock[s].life \in Nat
      /\ Pipes!From(sock[s].kept, s)
  BY <1>1, <1>3, PipeAssumption DEF Pipes!TypeOK, Pipes!Socket, Pipes!Roles, Pipes!Owned
<1>5. p \in Pipes!Packet /\ p.from = s /\ p.n = n
  BY <1>4 DEF Pipes!Packet
<1> HIDE DEF p
<1>6. /\ data \in Seq(Pipes!Packet) /\ Pipes!From(data, s)
      /\ sock[s].kept = <<>> => Len(data) = 1 /\ Pipes!Counts(data, sock[s].sent)
  <2>1. p.n = sock[s].sent + 1
    BY <1>5
  <2> HIDE DEF n
  <2>2. QED
    BY <1>4, <1>5, <2>1, PipeNewPacket
<1>7. l \in {"pipe", "enqueue", "control", "ready"}
  BY <1>4
<1> HIDE DEF data
<1>8. /\ thread' \in [Routers -> Pipes!Thread]
      /\ \A u \in Routers : u # t => thread'[u] = thread[u]
      /\ thread'[t].at = l /\ thread'[t].s = s /\ thread'[t].c = None /\ thread'[t].data = data
  <2> DEFINE x == [at |-> l, s |-> s, c |-> None, w |-> None, data |-> data]
  <2>1. thread \in [Routers -> Pipes!Thread] /\ thread' = [thread EXCEPT ![t] = x]
    BY <1>1, <1>2t DEF Pipes!TypeOK
  <2>2. l \in Pipes!Places
    BY <1>7 DEF Pipes!Places
  <2> HIDE DEF l
  <2>3. x \in Pipes!Thread /\ x.at = l /\ x.s = s /\ x.c = None /\ x.data = data
    BY <1>6, <2>2 DEF Pipes!Thread
  <2> HIDE DEF x
  <2>4. QED
    BY <2>1, <2>3
<1>9. /\ sock' \in [PipeIds -> Pipes!Socket]
      /\ sock'[s].kept = <<>> /\ sock'[s].sent = n
      /\ sock'[s].role = sock[s].role /\ sock'[s].life = sock[s].life
      /\ \A x \in PipeIds : x # s => sock'[x] = sock[x]
  <2> DEFINE x == [sock[s] EXCEPT !.sent = n, !.kept = <<>>]
  <2>1. sock \in [PipeIds -> Pipes!Socket] /\ sock' = [sock EXCEPT ![s] = x]
    BY <1>1, <1>2s DEF Pipes!TypeOK
  <2>2. x \in Pipes!Socket /\ x.sent = n /\ x.kept = <<>> /\ x.role = sock[s].role /\ x.life = sock[s].life
    BY <1>4, <2>1, PipeEmpty DEF Pipes!Socket
  <2> HIDE DEF x
  <2>3. QED
    BY <2>1, <2>2
<1>10. Pipes!TypeOK'
  BY <1>1, <1>2, <1>8, <1>9 DEF Pipes!TypeOK
<1>11. \A x \in PipeIds : /\ sock'[x].role = sock[x].role /\ sock'[x].life = sock[x].life
                          /\ sock[x].sent \in Nat /\ sock'[x].sent >= sock[x].sent
  <2>1. \A x \in PipeIds : sock[x].sent \in Nat
    BY <1>1 DEF Pipes!TypeOK, Pipes!Socket
  <2>2. QED
    BY <1>9, <2>1
<1>12. Keeps /\ RouteKeeps
  <2>1. Keeps
    BY <1>1, <1>10, <1>11, PipeSame
  <2>2. QED
    BY <1>2, <2>1 DEF RouteKeeps
<1>13. Pipes!Routed' /\ Pipes!Owned'
  <2>1. \A x \in PipeIds : Pipes!From(sock'[x].kept, x)
    <3>1. \A x \in PipeIds : Pipes!From(sock[x].kept, x)
      BY <1>1 DEF Pipes!Owned
    <3>2. QED
      BY <1>9, <3>1, PipeEmpty
  <2>2. QED
    BY <1>1, <1>2, <1>10, <1>11, <1>12, <2>1, PipeRouted, PipeOwned
<1>14. Pipes!Working(t)'
  <2>1. /\ l = "enqueue" => sock'[s].role = "public" /\ sock'[s].sent > 0
        /\ l = "ready" => sock'[s].role = "ready" /\ status'[s] = Pipes!Conn
        /\ l = "control" => sock'[s].role = "control"
    BY <1>2, <1>4, <1>9
  <2> HIDE DEF l
  <2>2. QED
    BY <1>3, <1>6, <1>7, <1>8, <1>9, <2>1 DEF Pipes!Working, Pipes!From, Pipes!Joining
<1>15. Pipes!Once'
  <2>1. \A u \in Routers, x \in PipeIds : Pipes!Takes(u, x)' => Pipes!Takes(u, x)
    <3>1. thread'[t].at # "set_route"
      BY <1>7, <1>8
    <3>2. QED
      BY <1>8, <3>1, PipeTakes
  <2>2. \A x \in PipeIds, q \in {"pending", "waiting"} : Pipes!In(q, x)' => Pipes!In(q, x)
    BY <1>2 DEF Pipes!In
  <2>3. QED
    BY <1>1, <1>2, <1>10, <1>11, <1>12, <2>1, <2>2, PipeOnce
<1>16. ASSUME alone, Pipes!Fine(thread[t]) PROVE Pipes!Fine(thread[t])'
  <2>0. thread'[t].at \in {"pipe", "enqueue", "control", "ready"}
    BY <1>7, <1>8
  <2>1. Pipes!Statuses(thread[t])'
    BY <1>2, <1>3, <1>11, <1>16, <2>0, PipeStatuses DEF Pipes!Fine
  <2>2. Pipes!Joins(thread[t])'
    <3>1. sock[s].role = "public" /\ status[s] # Pipes!Conn => status[s] = Pipes!Pipe
      <4>1. status[s] \in {Pipes!Down, Pipes!Conn, Pipes!Work, Pipes!Wait, Pipes!Pipe}
        BY <1>1 DEF Pipes!TypeOK
      <4>2. /\ status[s] # Pipes!Down
            /\ (status[s] = Pipes!Wait => sock[s].role = "ready")
            /\ (status[s] = Pipes!Work => sock[s].role = "control")
        BY <1>3, <1>16 DEF Pipes!Fine, Pipes!Statuses
      <4>3. QED
        BY <4>1, <4>2
    <3>2. /\ l = "pipe" => status[s] # Pipes!Conn
          /\ l = "enqueue" => status[s] = Pipes!Conn
      BY <1>4
    <3> HIDE DEF l
    <3>3. QED
      BY <1>2, <1>8, <1>9, <2>0, <3>1, <3>2 DEF Pipes!Joins, Pipes!Joining
  <2>3. Pipes!Stalls(thread[t])'
    BY <1>2, <1>3, <1>16 DEF Pipes!Fine, Pipes!Stalls, Pipes!In
  <2>4. Pipes!Tried(thread[t])'
    BY <2>0 DEF Pipes!Tried
  <2>5. \A d \in PipeIds : sock'[d].role = "public" => Pipes!Flow(thread[t], d)'
    <3> SUFFICES ASSUME NEW d \in PipeIds, sock'[d].role = "public" PROVE Pipes!Flow(thread[t], d)'
      OBVIOUS
    <3>1. Pipes!Flow(thread[t], d) /\ sock[d].role = "public"
      BY <1>11, <1>16 DEF Pipes!Fine
    <3>2. Pipes!Hand(thread[t], d) = <<>>
      BY <1>3 DEF Pipes!Hand
    <3>3. thread[t].at \notin {"set_client", "set_worker", "packets", "send"}
      BY <1>3
    <3>4. CASE d # s
      <4>1. Pipes!Hand(thread'[t], d) = <<>>
        BY <1>8, <2>0, <3>4 DEF Pipes!Hand
      <4>2. sock'[d] = sock[d] /\ \A v \in PipeIds : sock'[v].role = sock[v].role
        BY <1>9, <1>11, <3>4
      <4>3. QED
        BY <1>1, <1>2, <3>1, <3>2, <3>3, <4>1, <4>2, PipeFlow
    <3>5. CASE d = s
      <4> DEFINE w == route["worker"][s]
                 k == sock[s].sent
      <4>1. Pipes!Hand(thread'[t], d) = data
        <5>1. l \in {"pipe", "enqueue"}
          BY <3>1, <3>5
        <5>2. QED
          BY <1>8, <3>5, <5>1 DEF Pipes!Hand
      <4>2. /\ sock[s].kept = <<>>
            /\ w = None =>
                 /\ Pipes!Counts(packets[s], 0)
                 /\ k = Len(packets[s]) + Len(<<>>)
            /\ w # None => packets[s] = <<>>
            /\ w # None /\ sock[w].role = "ready" =>
                 /\ Pipes!Counts(out[w], 0)
                 /\ k = Len(out[w]) + Len(<<>>) + Len(packets[s])
        BY <3>1, <3>2, <3>3, <3>5 DEF Pipes!Flow
      <4>3. Len(data) = 1 /\ Pipes!Counts(data, k)
        BY <1>6, <4>2
      <4>4. Len(packets[s]) \in Nat /\ (w # None => w \in PipeIds /\ Len(out[w]) \in Nat)
        BY <1>1 DEF Pipes!TypeOK
      <4> HIDE DEF k
      <4>5. /\ route'["worker"][d] = w /\ sock'[d].kept = <<>> /\ sock'[d].sent = k + 1
            /\ packets'[d] = packets[s] /\ out' = out /\ (w # None => sock'[w].role = sock[w].role)
        BY <1>2, <1>9, <1>11, <3>5, <4>4 DEF k
      <4>6. w = None => /\ Pipes!Counts(packets[s], 0) /\ Pipes!Counts(data, Len(packets[s]))
                        /\ k + 1 = Len(packets[s]) + Len(data)
        <5> SUFFICES ASSUME w = None
                     PROVE  /\ Pipes!Counts(packets[s], 0) /\ Pipes!Counts(data, Len(packets[s]))
                            /\ k + 1 = Len(packets[s]) + Len(data)
          OBVIOUS
        <5>1. k = Len(packets[s])
          BY <4>2, <4>4, PipeEmpty
        <5>2. QED
          BY <4>2, <4>3, <4>4, <5>1
      <4>7. w # None /\ sock[w].role = "ready" =>
              /\ Pipes!Counts(out[w], 0) /\ Pipes!Counts(data, Len(out[w]))
              /\ Pipes!Counts(packets[s], Len(out[w]) + Len(data))
              /\ k + 1 = Len(out[w]) + Len(data) + Len(packets[s])
        <5> SUFFICES ASSUME w # None, sock[w].role = "ready"
                     PROVE  /\ Pipes!Counts(out[w], 0) /\ Pipes!Counts(data, Len(out[w]))
                            /\ Pipes!Counts(packets[s], Len(out[w]) + Len(data))
                            /\ k + 1 = Len(out[w]) + Len(data) + Len(packets[s])
          OBVIOUS
        <5>1. packets[s] = <<>> /\ Len(packets[s]) = 0 /\ Pipes!Counts(packets[s], Len(out[w]) + Len(data))
          BY <4>2, PipeEmpty
        <5>2. k = Len(out[w]) /\ Len(out[w]) \in Nat
          BY <4>2, <4>4, <5>1, PipeEmpty
        <5>3. QED
          BY <4>2, <4>3, <5>1, <5>2
      <4> HIDE DEF w
      <4>8. w # None => packets'[d] = <<>>
        BY <4>2, <4>5
      <4>9. w # None /\ sock'[w].role = "ready" =>
              /\ Pipes!Counts(out'[w], 0) /\ Pipes!Counts(data, Len(out'[w]))
              /\ Pipes!Counts(packets[s], Len(out'[w]) + Len(data))
              /\ k + 1 = Len(out'[w]) + Len(data) + Len(packets[s])
        BY <4>5, <4>7
      <4>10. QED
        BY <4>1, <4>5, <4>6, <4>8, <4>9, PipeFlowIs
    <3>6. QED
      BY <3>4, <3>5
  <2>6. QED
    BY <2>1, <2>2, <2>3, <2>4, <2>5 DEF Pipes!Fine
<1>17. thread'[t].at # "idle" /\ thread'[t].s = s
  BY <1>7, <1>8
<1>18. QED
  BY <1>2, <1>8, <1>10, <1>11, <1>12, <1>13, <1>14, <1>15, <1>16, <1>17, PipeBegin

(* A step that shows a thread what it had.                                 *)
LEMMA PipeSeen ==
  ASSUME NEW u \in Routers, NEW r, r = thread'[u], Pipes!Fine(r)'
  PROVE  Pipes!Fine(thread[u])'
<1>1. Pipes!Statuses(thread[u])'
  BY DEF Pipes!Fine, Pipes!Statuses
<1>2. Pipes!Joins(thread[u])'
  BY DEF Pipes!Fine, Pipes!Joins
<1>3. Pipes!Stalls(thread[u])' /\ Pipes!Tried(thread[u])'
  BY DEF Pipes!Fine, Pipes!Stalls, Pipes!Tried
<1>4. ASSUME NEW c \in PipeIds, sock'[c].role = "public" PROVE Pipes!Flow(thread[u], c)'
  <2>1. Pipes!Hand(thread[u], c)' = Pipes!Hand(r, c)'
    BY DEF Pipes!Hand
  <2>2. Pipes!Flow(r, c)'
    BY <1>4 DEF Pipes!Fine
  <2>3. QED
    BY <2>1, <2>2 DEF Pipes!Flow, Pipes!Counts
<1>5. QED
  BY <1>1, <1>2, <1>3, <1>4 DEF Pipes!Fine

(* A connection nobody knows yet disturbs no one.                          *)
LEMMA PipeAcceptFine ==
  ASSUME Pipes!TypeOK, Pipes!TypeOK', NEW s \in PipeIds, NEW r, Pipes!Fine(r),
         r.at # "idle" => r.s # s /\ r.s \in PipeIds,
         r.at \in Pipes!Joining => r.c # s /\ r.c \in PipeIds,
         r.at \in {"set_route", "set_client", "set_worker"} => r.w # s /\ r.w \in PipeIds,
         sock'[s].role # "free", sock'[s].kept = <<>>, sock'[s].sent = 0, status'[s] = Pipes!Conn,
         \A x \in PipeIds : x # s => sock'[x] = sock[x] /\ status'[x] = status[x] /\ out'[x] = out[x],
         queue' = queue, route' = route, packets' = packets, packets[s] = <<>>,
         route["worker"][s] = None, route["public"][s] = None,
         \A c \in PipeIds : route["worker"][c] # s,
         ~ Pipes!In("waiting", s), ~ Pipes!In("pending", s)
  PROVE  Pipes!Fine(r)'
<1>1. Pipes!Statuses(r)'
  <2> SUFFICES ASSUME NEW x \in PipeIds
               PROVE  /\ sock'[x].role = "free" => status'[x] = Pipes!Down
                      /\ sock'[x].role # "free" => (status'[x] = Pipes!Down <=> r.at = "drop" /\ r.s = x)
                      /\ (status'[x] = Pipes!Wait => sock'[x].role = "ready")
                      /\ (status'[x] = Pipes!Work => sock'[x].role = "control")
                      /\ sock'[x].role = "public" /\ status'[x] # Pipes!Down =>
                           (route["worker"][x] # None <=> status'[x] = Pipes!Pipe \/ (r.at = "set_client" /\ r.c = x))
                      /\ sock'[x].role = "ready" /\ status'[x] # Pipes!Down =>
                           (route["public"][x] # None <=>
                              status'[x] = Pipes!Pipe \/ (r.at \in {"set_client", "set_worker"} /\ r.w = x))
                      /\ route["public"][x] # None => route["worker"][route["public"][x]] = x
    BY DEF Pipes!Statuses
  <2>1. CASE x = s
    <3>1. ~ (r.at = "drop" /\ r.s = s)
      OBVIOUS
    <3>2. ~ (r.at = "set_client" /\ r.c = s) /\ ~ (r.at \in {"set_client", "set_worker"} /\ r.w = s)
      BY DEF Pipes!Joining
    <3>3. QED
      BY <2>1, <3>1, <3>2 DEF Pipes!Down, Pipes!Conn, Pipes!Wait, Pipes!Work, Pipes!Pipe
  <2>2. CASE x # s
    <3>1. sock'[x] = sock[x] /\ status'[x] = status[x]
      BY <2>2
    <3>2. Pipes!Statuses(r)
      BY DEF Pipes!Fine
    <3>3. QED
      BY <3>1, <3>2 DEF Pipes!Statuses
  <2>3. QED
    BY <2>1, <2>2
<1>2. Pipes!Joins(r)'
  <2>1. Pipes!Joins(r)
    BY DEF Pipes!Fine
  <2>2. \A x \in PipeIds : x # s => sock'[x] = sock[x] /\ status'[x] = status[x]
    OBVIOUS
  <2>3. QED
    BY <2>1, <2>2 DEF Pipes!Joins, Pipes!Joining
<1>3. \A x \in PipeIds, q \in {"pending", "waiting"} : Pipes!In(q, x)' => x # s /\ Pipes!In(q, x)
  BY DEF Pipes!In
<1>4. Pipes!Stalls(r)'
  <2>1. Pipes!Stalls(r)
    BY DEF Pipes!Fine
  <2>2. \A x \in PipeIds : x # s => status'[x] = status[x]
    OBVIOUS
  <2>3. QED
    BY <1>3, <2>1, <2>2 DEF Pipes!Stalls
<1>5. Pipes!Tried(r)'
  <2>1. Pipes!Tried(r)
    BY DEF Pipes!Fine
  <2>2. \A x \in PipeIds : x # s => status'[x] = status[x]
    OBVIOUS
  <2>3. QED
    BY <1>3, <2>1, <2>2 DEF Pipes!Tried
<1>6. ASSUME NEW c \in PipeIds, sock'[c].role = "public" PROVE Pipes!Flow(r, c)'
  <2>1. CASE c = s
    <3>1. Pipes!Hand(r, s) = <<>>
      BY DEF Pipes!Hand, Pipes!Joining
    <3>2. sock'[s].kept = <<>> /\ sock'[s].sent = 0 /\ packets'[s] = <<>> /\ route'["worker"][s] = None
      OBVIOUS
    <3>3. Pipes!Hand(r, s)' = <<>>
      BY <3>1 DEF Pipes!Hand
    <3>4. QED
      BY <2>1, <3>2, <3>3, PipeEmpty DEF Pipes!Flow, Pipes!Counts
  <2>2. CASE c # s
    <3> DEFINE w == route["worker"][c]
               h == Pipes!Hand(r, c)
    <3>1. Pipes!Flow(r, c)
      BY <1>6, <2>2 DEF Pipes!Fine
    <3>2. w \in PipeIds \cup {None} /\ w # s
      BY DEF Pipes!TypeOK
    <3>3. /\ sock'[c] = sock[c] /\ packets'[c] = packets[c] /\ w' = w
          /\ w # None => sock'[w] = sock[w] /\ out'[w] = out[w]
      BY <2>2, <3>2
    <3>4. h' = h
      BY DEF Pipes!Hand
    <3>5. QED
      BY <3>1, <3>3, <3>4 DEF Pipes!Flow, Pipes!Counts
  <2>3. QED
    BY <2>1, <2>2
<1>7. QED
  BY <1>1, <1>2, <1>4, <1>5, <1>6 DEF Pipes!Fine

(* A new connection.                                                       *)
LEMMA PipeAccept ==
  ASSUME UsedOnce, Pipes!IInv, NEW s \in PipeIds, NEW role \in {"public", "control", "ready"},
         Pipes!Accept(s, role)
  PROVE  Pipes!IInv'
<1>1. /\ Pipes!TypeOK /\ Pipes!Apart /\ Pipes!Once /\ Pipes!Routed /\ Pipes!Owned /\ Pipes!Alone
      /\ \A u \in Routers : Pipes!Working(u)
  BY DEF Pipes!IInv
<1>2. /\ sock[s].role = "free" /\ sock[s].life < Lives /\ \A u \in Routers : thread[u].s # s
      /\ Pipes!SetStatus(s, 1) /\ out' = [out EXCEPT ![s] = <<>>]
      /\ alone' = alone /\ queue' = queue /\ packets' = packets /\ route' = route /\ thread' = thread
      /\ (asked' = asked \/ (asked > 0 /\ asked' = asked - 1))
  BY DEF Pipes!Accept, Pipes!Conn
<1>2s. sock' = [sock EXCEPT ![s] = [Pipes!Free(@.life + 1) EXCEPT !.role = role]]
  BY DEF Pipes!Accept
<1>3. /\ sock' \in [PipeIds -> Pipes!Socket]
      /\ sock'[s].role = role /\ sock'[s].life = sock[s].life + 1 /\ sock'[s].life > 0
      /\ sock'[s].kept = <<>> /\ sock'[s].sent = 0
      /\ \A x \in PipeIds : x # s => sock'[x] = sock[x]
  <2> DEFINE x == [Pipes!Free(sock[s].life + 1) EXCEPT !.role = role]
  <2>1. sock \in [PipeIds -> Pipes!Socket] /\ sock' = [sock EXCEPT ![s] = x]
    BY <1>1, <1>2s DEF Pipes!TypeOK
  <2>2. sock[s].life \in 0 .. Lives /\ Lives \in Nat
    BY <2>1, PipeAssumption DEF Pipes!Socket
  <2>3. sock[s].life + 1 \in 0 .. Lives /\ sock[s].life + 1 > 0
    BY <1>2, <2>2
  <2>4. /\ x \in Pipes!Socket /\ x.role = role /\ x.life = sock[s].life + 1
        /\ x.kept = <<>> /\ x.sent = 0
    BY <2>3, PipeEmpty DEF Pipes!Free, Pipes!Socket, Pipes!Roles
  <2> HIDE DEF x
  <2>5. QED
    BY <2>1, <2>3, <2>4
<1>4. /\ status' \in [PipeIds -> {0, 1, 2, 4, 16}]
      /\ \A x \in PipeIds : x # s => status'[x] = status[x]
      /\ status'[s] = IF Pipes!May(s, 1) THEN 1 ELSE status[s]
  BY <1>1, <1>2, PipeStatus
<1>5. out' \in [PipeIds -> Seq(Pipes!Packet)] /\ out'[s] = <<>> /\ \A x \in PipeIds : x # s => out'[x] = out[x]
  BY <1>1, <1>2, PipeEmpty DEF Pipes!TypeOK
<1>6. Pipes!TypeOK'
  BY <1>1, <1>2, <1>3, <1>4, <1>5
     DEF Pipes!TypeOK, Pipes!Down, Pipes!Conn, Pipes!Work, Pipes!Wait, Pipes!Pipe
<1>7. \A k \in {"public", "ready"} : ~ Pipes!Was(s, k)
  <2>1. sock[s].life # Lives
    BY <1>1, <1>2, PipeAssumption DEF Pipes!TypeOK, Pipes!Socket
  <2>2. QED
    BY <1>2, <2>1 DEF Pipes!Was
<1>8. Keeps /\ RouteKeeps
  <2>1. \A x \in PipeIds : sock[x].sent \in Nat
    BY <1>1 DEF Pipes!TypeOK, Pipes!Socket
  <2>2. Keeps
    BY <1>3, <1>7, <2>1 DEF Keeps, Pipes!Was
  <2>3. QED
    BY <1>2, <2>2 DEF RouteKeeps
<1>9. /\ ~ Pipes!In("pending", s) /\ ~ Pipes!In("waiting", s)
      /\ route["public"][s] = None /\ route["worker"][s] = None
      /\ \A c \in PipeIds : route["worker"][c] # s
      /\ packets[s] = <<>>
  <2>1. ~ Pipes!In("pending", s) /\ ~ Pipes!In("waiting", s)
    BY <1>1, <1>7 DEF Pipes!Once
  <2>2. route["public"][s] = None
    BY <1>1, <1>7 DEF Pipes!Routed
  <2>3. \A c \in PipeIds : route["worker"][c] # s
    BY <1>1, <2>2, PipeAssumption DEF Pipes!Routed
  <2>4. route["worker"][s] = None
    <3> SUFFICES ASSUME route["worker"][s] # None PROVE FALSE
      OBVIOUS
    <3> DEFINE w == route["worker"][s]
    <3>1. w \in PipeIds /\ route["public"][w] = s
      BY <1>1 DEF Pipes!TypeOK, Pipes!Routed
    <3> HIDE DEF w
    <3>2. Pipes!Was(s, "public")
      BY <1>1, <3>1, PipeAssumption DEF Pipes!Routed
    <3>3. QED
      BY <1>7, <3>2
  <2>5. packets[s] = <<>>
    BY <1>1, <1>7 DEF Pipes!Owned
  <2>6. QED
    BY <2>1, <2>2, <2>3, <2>4, <2>5
<1>10. \A u \in Routers : Pipes!Working(u)'
  <2> SUFFICES ASSUME NEW u \in Routers PROVE Pipes!Working(u)'
    OBVIOUS
  <2>1. thread'[u] = thread[u] /\ thread[u].s # s
    BY <1>2
  <2>2. thread[u].at # "idle" => thread[u].s \in PipeIds
    BY <1>1 DEF Pipes!Working
  <2>3. \A x \in PipeIds : x # s => sock'[x] = sock[x] /\ sock[x].sent \in Nat /\ status'[x] = status[x]
    BY <1>1, <1>3, <1>4 DEF Pipes!TypeOK, Pipes!Socket
  <2>4. QED
    BY <1>1, <1>6, <1>8, <2>1, <2>2, <2>3, PipeWorking
<1>11. Pipes!Apart'
  BY <1>1, <1>2 DEF Pipes!Apart, Pipes!At
<1>12. Pipes!Once'
  <2>1. \A u \in Routers, x \in PipeIds : Pipes!Takes(u, x)' => Pipes!Takes(u, x)
    BY <1>2 DEF Pipes!Takes, Pipes!At
  <2>2. \A x \in PipeIds, q \in {"pending", "waiting"} : Pipes!In(q, x)' => Pipes!In(q, x)
    BY <1>2 DEF Pipes!In
  <2>3. \A u \in Routers : ~ Pipes!Takes(u, s)
    BY <1>1, <1>7 DEF Pipes!Takes, Pipes!At, Pipes!Working
  <2>4. ~ Pipes!In("pending", s) /\ Pipes!Unjoined(s)
    BY <1>9, <2>3 DEF Pipes!Unjoined
  <2>5. \A x \in PipeIds : sock'[x].role = "ready" /\ status'[x] = Pipes!Conn =>
          (sock[x].role = "ready" /\ status[x] = Pipes!Conn) \/ (~ Pipes!In("pending", x) /\ Pipes!Unjoined(x))
    BY <1>3, <1>4, <2>4
  <2>6. QED
    BY <1>1, <1>2, <1>6, <1>8, <2>1, <2>2, <2>5, PipeOnce
<1>13. Pipes!Routed'
  BY <1>1, <1>2, <1>6, <1>8, PipeRouted
<1>14. Pipes!Owned'
  <2> SUFFICES ASSUME NEW x \in PipeIds
               PROVE  /\ sock'[x].role # "free" => sock'[x].life > 0
                      /\ Pipes!From(packets'[x], x) /\ Pipes!From(sock'[x].kept, x)
                      /\ packets'[x] # <<>> => Pipes!Was(x, "public")'
                      /\ sock'[x].role = "ready" => Pipes!From(out'[x], route'["public"][x])
                      /\ sock'[x].role = "public" => \A i \in DOMAIN out'[x] : Pipes!Was(out[x][i].from, "ready")'
    BY DEF Pipes!Owned, Pipes!From, Pipes!Was
  <2>1. CASE x = s
    <3>1. DOMAIN out'[s] = {} /\ packets'[s] = <<>>
      BY <1>2, <1>5, <1>9
    <3>2. QED
      BY <1>3, <1>5, <2>1, <3>1, PipeEmpty
  <2>2. CASE x # s
    <3>1. sock'[x] = sock[x] /\ packets'[x] = packets[x] /\ route' = route /\ out'[x] = out[x]
      BY <1>2, <1>3, <1>5, <2>2
    <3>2. \A i \in DOMAIN out[x] : out[x][i].from \in PipeIds
      <4>1. out[x] \in Seq(Pipes!Packet)
        BY <1>1 DEF Pipes!TypeOK
      <4>2. \A i \in DOMAIN out[x] : out[x][i] \in Pipes!Packet
        BY <4>1
      <4>3. QED
        BY <4>2 DEF Pipes!Packet
    <3>3. /\ sock[x].role # "free" => sock[x].life > 0
          /\ Pipes!From(packets[x], x) /\ Pipes!From(sock[x].kept, x)
          /\ packets[x] # <<>> => Pipes!Was(x, "public")
          /\ sock[x].role = "ready" => Pipes!From(out[x], route["public"][x])
          /\ sock[x].role = "public" => \A i \in DOMAIN out[x] : Pipes!Was(out[x][i].from, "ready")
      BY <1>1 DEF Pipes!Owned
    <3>4. sock[x].role = "public" => \A i \in DOMAIN out'[x] : Pipes!Was(out[x][i].from, "ready")'
      BY <1>8, <3>1, <3>2, <3>3 DEF Keeps, Pipes!Was
    <3>5. QED
      BY <1>8, <3>1, <3>3, <3>4 DEF Keeps
  <2>3. QED
    BY <2>1, <2>2
<1>15. ASSUME NEW r, Pipes!Fine(r),
              r.at # "idle" => r.s # s /\ r.s \in PipeIds,
              r.at \in Pipes!Joining => r.c # s /\ r.c \in PipeIds,
              r.at \in {"set_route", "set_client", "set_worker"} => r.w # s /\ r.w \in PipeIds
       PROVE  Pipes!Fine(r)'
  <2>1. status'[s] = Pipes!Conn
    <3>1. status[s] = Pipes!Down
      BY <1>2, <1>15 DEF Pipes!Fine, Pipes!Statuses
    <3>2. QED
      BY <1>4, <3>1 DEF Pipes!May, Pipes!Conn
  <2>2. sock'[s].role # "free"
    BY <1>3
  <2>3. QED
    BY <1>1, <1>2, <1>3, <1>4, <1>5, <1>6, <1>9, <1>15, <2>1, <2>2, PipeAcceptFine
<1>16. Pipes!Alone'
  <2> SUFFICES ASSUME alone PROVE Pipes!Alone'
    BY <1>2 DEF Pipes!Alone
  <2>1. \A u, v \in Routers : u # v => thread'[u].at = "idle" \/ thread'[v].at = "idle"
    BY <1>1, <1>2 DEF Pipes!Alone, Pipes!At
  <2>2. ASSUME \A u \in Routers : thread[u].at = "idle" PROVE Pipes!Fine(Pipes!Idle)'
    <3>1. Pipes!Fine(Pipes!Idle)
      BY <1>1, <2>2 DEF Pipes!Alone, Pipes!At
    <3>2. Pipes!Idle.at = "idle" /\ "idle" \notin Pipes!Joining
      BY DEF Pipes!Idle, Pipes!Joining
    <3>3. QED
      BY <1>15, <3>1, <3>2
  <2>3. ASSUME NEW u \in Routers, thread[u].at # "idle" PROVE Pipes!Fine(thread[u])'
    <3> DEFINE q == thread[u]
    <3>1. Pipes!Fine(q) /\ q = thread'[u]
      BY <1>1, <1>2, <2>3 DEF Pipes!Alone, Pipes!At
    <3>2. q.at # "idle" => q.s # s /\ q.s \in PipeIds
      BY <1>1, <1>2 DEF Pipes!Working
    <3>3. q.at \in Pipes!Joining => q.c # s /\ q.c \in PipeIds
      BY <1>1, <1>7 DEF Pipes!Working
    <3>4. q.at \in {"set_route", "set_client", "set_worker"} => q.w # s /\ q.w \in PipeIds
      <4>1. q.at = "set_route" => q.w \in PipeIds /\ Pipes!Was(q.w, "ready")
        BY <1>1 DEF Pipes!Working
      <4>2. q.at \in {"set_client", "set_worker"} => q.w \in PipeIds /\ route["public"][q.w] = q.c /\ q.c \in PipeIds
        BY <1>1 DEF Pipes!Working, Pipes!Joining
      <4>3. QED
        BY <1>7, <1>9, <4>1, <4>2, PipeAssumption
    <3>5. PICK r : r = q
      OBVIOUS
    <3>6. Pipes!Fine(r)'
      BY <1>15, <3>1, <3>2, <3>3, <3>4, <3>5
    <3>7. r = thread'[u]
      BY <3>1, <3>5
    <3>8. QED
      BY <3>6, <3>7, PipeSeen
  <2>4. QED
    BY <1>2, <2>1, <2>2, <2>3 DEF Pipes!Alone, Pipes!At
<1>17. QED
  BY <1>6, <1>10, <1>11, <1>12, <1>13, <1>14, <1>16 DEF Pipes!IInv

(* What the plugin begins with.                                            *)
LEMMA PipeInit == PluginsInit => Pipes!IInv
<1> SUFFICES ASSUME PluginsInit PROVE Pipes!IInv
  OBVIOUS
<1>1. Pipes!Init
  BY DEF PluginsInit
<1>2. /\ alone \in BOOLEAN /\ asked = 0
      /\ sock = [s \in PipeIds |-> Pipes!Free(0)] /\ status = [s \in PipeIds |-> 0]
      /\ queue = [q \in {"workers", "pending", "waiting"} |-> <<>>]
      /\ packets = [s \in PipeIds |-> <<>>] /\ out = [s \in PipeIds |-> <<>>]
      /\ route = [q \in {"worker", "public"} |-> [s \in PipeIds |-> None]]
      /\ thread = [t \in Routers |-> Pipes!Idle]
  BY <1>1 DEF Pipes!Init, Pipes!Down
<1>3. /\ Pipes!Free(0) \in Pipes!Socket /\ Pipes!Free(0).role = "free"
      /\ Pipes!Free(0).kept = <<>> /\ Pipes!Free(0).sent = 0
  BY PipeAssumption, PipeEmpty DEF Pipes!Free, Pipes!Socket, Pipes!Roles
<1>4. Pipes!Idle \in Pipes!Thread /\ Pipes!Idle.at = "idle"
  BY PipeEmpty DEF Pipes!Idle, Pipes!Thread, Pipes!Places
<1>5. /\ \A s \in PipeIds : sock[s] = Pipes!Free(0) /\ status[s] = 0 /\ packets[s] = <<>> /\ out[s] = <<>>
      /\ \A s \in PipeIds : route["worker"][s] = None /\ route["public"][s] = None
      /\ \A t \in Routers : thread[t] = Pipes!Idle
      /\ \A q \in {"workers", "pending", "waiting"} : queue[q] = <<>>
  BY <1>2
<1>6. Pipes!TypeOK
  <2>1. <<>> \in Seq(PipeIds) /\ <<>> \in Seq(Pipes!Packet)
    OBVIOUS
  <2>2. sock \in [PipeIds -> Pipes!Socket] /\ thread \in [Routers -> Pipes!Thread]
    BY <1>2, <1>3, <1>4
  <2>3. route \in [{"worker", "public"} -> [PipeIds -> PipeIds \cup {None}]]
    BY <1>2
  <2>4. /\ queue \in [{"workers", "pending", "waiting"} -> Seq(PipeIds)]
        /\ packets \in [PipeIds -> Seq(Pipes!Packet)] /\ out \in [PipeIds -> Seq(Pipes!Packet)]
    BY <1>2, <2>1
  <2>5. QED
    BY <1>2, <2>2, <2>3, <2>4 DEF Pipes!TypeOK, Pipes!Down
<1>7. \A t \in Routers : Pipes!Working(t)
  BY <1>5 DEF Pipes!Working, Pipes!From, Pipes!Joining, Pipes!Idle
<1>8. Pipes!Apart
  BY <1>4, <1>5 DEF Pipes!Apart, Pipes!At
<1>9. \A q \in {"pending", "waiting"}, s \in PipeIds : ~ Pipes!In(q, s)
  BY <1>5 DEF Pipes!In
<1>10. Pipes!Once
  <2>1. \A s \in PipeIds, t \in Routers : ~ Pipes!Takes(t, s)
    BY <1>4, <1>5 DEF Pipes!Takes, Pipes!At
  <2>2. DOMAIN queue["pending"] = {}
    BY <1>5
  <2>3. \A s \in PipeIds : sock[s].role # "ready"
    BY <1>3, <1>5
  <2>4. QED
    BY <1>9, <2>1, <2>2, <2>3 DEF Pipes!Once
<1>11. Pipes!Routed
  BY <1>5 DEF Pipes!Routed
<1>12. Pipes!Owned
  BY <1>3, <1>5, PipeEmpty DEF Pipes!Owned
<1>13. Pipes!Fine(Pipes!Idle)
  <2>1. Pipes!Statuses(Pipes!Idle)
    BY <1>3, <1>4, <1>5 DEF Pipes!Statuses, Pipes!Down, Pipes!Wait, Pipes!Work
  <2>2. Pipes!Joins(Pipes!Idle) /\ Pipes!Tried(Pipes!Idle)
    BY <1>4 DEF Pipes!Joins, Pipes!Joining, Pipes!Tried
  <2>3. Pipes!Stalls(Pipes!Idle)
    BY <1>9 DEF Pipes!Stalls
  <2>4. \A c \in PipeIds : sock[c].role # "public"
    BY <1>3, <1>5
  <2>5. QED
    BY <2>1, <2>2, <2>3, <2>4 DEF Pipes!Fine
<1>14. Pipes!Alone
  BY <1>4, <1>5, <1>13 DEF Pipes!Alone, Pipes!At
<1>15. QED
  BY <1>6, <1>7, <1>8, <1>10, <1>11, <1>12, <1>14 DEF Pipes!IInv

LEMMA PipeHandler ==
  ASSUME UsedOnce, Pipes!IInv, NEW t \in Routers, Pipes!Handler(t)
  PROVE  Pipes!IInv'
<1>1. CASE Pipes!EgressDown(t) \/ Pipes!SetDown(t) \/ Pipes!Drop(t)
  BY <1>1, PipeEgressDown, PipeSetDown, PipeDrop
<1>2. CASE Pipes!AddWorker(t) \/ Pipes!EnqueueConnection(t) \/ Pipes!DequeueWaiting(t) \/ Pipes!EnqueuePacket(t)
  BY <1>2, PipeAddWorker, PipeEnqueueConnection, PipeDequeueWaiting, PipeEnqueuePacket
<1>3. CASE Pipes!DequeueConnection(t) \/ Pipes!SetRoute(t)
  BY <1>3, PipeDequeueConnection, PipeSetRoute
<1>4. CASE Pipes!SetPipe(t, "set_client", thread[t].c, "set_worker")
  BY <1>4, PipeSetClient
<1>5. CASE Pipes!SetPipe(t, "set_worker", thread[t].w, "packets")
  BY <1>5, PipeSetWorker
<1>6. CASE Pipes!DequeuePacket(t) \/ Pipes!SendPacket(t) \/ Pipes!GetConnection(t) \/ Pipes!EnqueueWaiting(t)
  BY <1>6, PipeDequeuePacket, PipeSendPacket, PipeGetConnection, PipeEnqueueWaiting
<1>7. CASE Pipes!LookUp(t) \/ Pipes!Forward(t)
  BY <1>7, PipeLookUp, PipeForward
<1>8. QED
  BY <1>1, <1>2, <1>3, <1>4, <1>5, <1>6, <1>7 DEF Pipes!Handler

LEMMA PipeStutter ==
  ASSUME Pipes!IInv, UNCHANGED Pipes!vars
  PROVE  Pipes!IInv'
<1>1. /\ alone' = alone /\ sock' = sock /\ status' = status /\ queue' = queue /\ packets' = packets
      /\ route' = route /\ out' = out /\ asked' = asked /\ thread' = thread /\ cut' = cut
  BY DEF Pipes!vars
<1>2. /\ Pipes!TypeOK /\ Pipes!Apart /\ Pipes!Once /\ Pipes!Routed /\ Pipes!Owned /\ Pipes!Alone
      /\ \A t \in Routers : Pipes!Working(t)
  BY DEF Pipes!IInv
<1>3. Pipes!TypeOK' /\ Pipes!Apart'
  BY <1>1, <1>2 DEF Pipes!TypeOK, Pipes!Apart, Pipes!At
<1>4. Pipes!Once'
  BY <1>1, <1>2 DEF Pipes!Once, Pipes!In, Pipes!Was, Pipes!Unjoined, Pipes!Takes, Pipes!At
<1>5. Pipes!Routed' /\ Pipes!Owned'
  BY <1>1, <1>2 DEF Pipes!Routed, Pipes!Owned, Pipes!Was, Pipes!From
<1>6. ASSUME NEW t \in Routers PROVE Pipes!Working(t)'
  BY <1>1, <1>2 DEF Pipes!Working, Pipes!Was, Pipes!From
<1>7. ASSUME NEW r, Pipes!Fine(r) PROVE Pipes!Fine(r)'
  <2>1. Pipes!Statuses(r)' /\ Pipes!Joins(r)'
    BY <1>1, <1>7 DEF Pipes!Fine, Pipes!Statuses, Pipes!Joins
  <2>2. Pipes!Stalls(r)' /\ Pipes!Tried(r)'
    BY <1>1, <1>7 DEF Pipes!Fine, Pipes!Stalls, Pipes!In, Pipes!Tried
  <2>3. ASSUME NEW c \in PipeIds, sock'[c].role = "public" PROVE Pipes!Flow(r, c)'
    <3>1. Pipes!Flow(r, c)
      BY <1>1, <1>7, <2>3 DEF Pipes!Fine
    <3>2. Pipes!Hand(r, c)' = Pipes!Hand(r, c)
      BY DEF Pipes!Hand
    <3>3. QED
      BY <1>1, <3>1, <3>2 DEF Pipes!Flow, Pipes!Counts
  <2>4. QED
    BY <2>1, <2>2, <2>3 DEF Pipes!Fine
<1>8. Pipes!Alone'
  <2> SUFFICES ASSUME alone PROVE Pipes!Alone'
    BY <1>1 DEF Pipes!Alone
  <2>1. (\A t \in Routers : thread[t].at = "idle") => Pipes!Fine(Pipes!Idle)'
    BY <1>2, <1>7 DEF Pipes!Alone, Pipes!At
  <2>2. ASSUME NEW t \in Routers, thread[t].at # "idle" PROVE Pipes!Fine(thread[t])'
    <3>1. PICK r : r = thread[t]
      OBVIOUS
    <3>2. Pipes!Fine(r)
      BY <1>2, <2>2, <3>1 DEF Pipes!Alone, Pipes!At
    <3>3. Pipes!Fine(r)' /\ r = thread'[t]
      BY <1>1, <1>7, <3>1, <3>2
    <3>4. QED
      BY <3>3, PipeSeen
  <2>3. QED
    BY <1>1, <1>2, <2>1, <2>2 DEF Pipes!Alone, Pipes!At
<1>9. QED
  BY <1>3, <1>4, <1>5, <1>6, <1>8 DEF Pipes!IInv

LEMMA PipeNext ==
  ASSUME UsedOnce, Pipes!IInv, [Pipes!Next]_(Pipes!vars)
  PROVE  Pipes!IInv'
<1>1. ASSUME NEW s \in PipeIds, NEW role \in {"public", "control", "ready"}, Pipes!Accept(s, role)
      PROVE  Pipes!IInv'
  BY <1>1, PipeAccept
<1>2. ASSUME NEW t \in Routers, Pipes!Handler(t) PROVE Pipes!IInv'
  BY <1>2, PipeHandler
<1>3. ASSUME NEW t \in Routers, NEW s \in PipeIds, Pipes!Disconnect(t, s) \/ Pipes!Receive(t, s)
      PROVE  Pipes!IInv'
  BY <1>3, PipeDisconnect, PipeReceive
<1>4. CASE UNCHANGED Pipes!vars
  BY <1>4, PipeStutter
<1>5. QED
  BY <1>1, <1>2, <1>3, <1>4 DEF Pipes!Next

(* What the packets of a sequence are numbered.                            *)
LEMMA PipeNumbers ==
  ASSUME NEW ps \in Seq(Pipes!Packet), Pipes!Counts(ps, 0)
  PROVE  Pipes!Numbers(ps) = [i \in 1 .. Len(ps) |-> i]
<1>1. DOMAIN ps = 1 .. Len(ps) /\ Len(ps) \in Nat
  OBVIOUS
<1>2. \A i \in 1 .. Len(ps) : ps[i].n = i
  BY <1>1 DEF Pipes!Counts
<1>3. QED
  BY <1>1, <1>2 DEF Pipes!Numbers

LEMMA PipeSafe == Pipes!IInv => StreamSafe
<1> SUFFICES ASSUME Pipes!IInv PROVE Pipes!StreamSafe
  BY DEF StreamSafe
<1>1. Pipes!TypeOK /\ Pipes!Owned /\ Pipes!Routed /\ Pipes!Alone
  BY DEF Pipes!IInv
<1>2. Pipes!OwnPackets
  BY <1>1 DEF Pipes!OwnPackets, Pipes!Owned, Pipes!From, Pipes!Was
<1>3. Pipes!Quiet => Pipes!Fine(Pipes!Idle)
  BY <1>1 DEF Pipes!Quiet, Pipes!Alone, Pipes!At
<1>4. Pipes!InOrder
  <2> SUFFICES ASSUME Pipes!Fine(Pipes!Idle), NEW c \in PipeIds, sock[c].role = "public"
               PROVE  \/ /\ Pipes!Carriers(c) = {}
                         /\ Pipes!Numbers(packets[c]) = [i \in 1 .. sock[c].sent |-> i] \/ status[c] = Pipes!Pipe
                      \/ /\ packets[c] = <<>> /\ Pipes!Carriers(c) = {route["worker"][c]}
                         /\ Pipes!Numbers(out[route["worker"][c]]) = [i \in 1 .. sock[c].sent |-> i]
    BY <1>3 DEF Pipes!InOrder
  <2> DEFINE w == route["worker"][c]
  <2>1. w \in PipeIds \cup {None} /\ packets[c] \in Seq(Pipes!Packet) /\ sock[c].sent \in Nat
    BY <1>1 DEF Pipes!TypeOK, Pipes!Socket
  <2>2. Pipes!Idle.at = "idle" /\ Pipes!Hand(Pipes!Idle, c) = <<>>
    BY DEF Pipes!Idle, Pipes!Hand
  <2>3. /\ w = None => Pipes!Counts(packets[c], 0) /\ sock[c].sent = Len(packets[c]) + Len(<<>>)
        /\ w # None => packets[c] = <<>>
        /\ w # None /\ sock[w].role = "ready" =>
             /\ Pipes!Counts(out[w], 0)
             /\ sock[c].sent = Len(out[w]) + Len(<<>>) + Len(packets[c])
    BY <2>2 DEF Pipes!Fine, Pipes!Flow
  <2>4. ASSUME NEW v \in Pipes!Carriers(c) PROVE v \in PipeIds /\ v = w /\ sock[v].role = "ready"
    <3>1. v \in PipeIds /\ sock[v].role = "ready" /\ \E i \in DOMAIN out[v] : out[v][i].from = c
      BY DEF Pipes!Carriers
    <3>2. Pipes!From(out[v], route["public"][v])
      BY <1>1, <3>1 DEF Pipes!Owned
    <3>3. route["public"][v] = c
      BY <3>1, <3>2 DEF Pipes!From
    <3>4. w = v
      BY <3>1, <3>3, PipeAssumption DEF Pipes!Fine, Pipes!Statuses
    <3>5. QED
      BY <3>1, <3>4
  <2>5. CASE w = None
    <3>1. Pipes!Carriers(c) = {}
      BY <2>4, <2>5, PipeAssumption
    <3>2. sock[c].sent = Len(packets[c])
      BY <2>1, <2>3, <2>5, PipeEmpty
    <3>3. Pipes!Numbers(packets[c]) = [i \in 1 .. sock[c].sent |-> i]
      BY <2>1, <2>3, <2>5, <3>2, PipeNumbers
    <3>4. QED
      BY <3>1, <3>3
  <2>6. CASE w # None /\ Pipes!Carriers(c) = {}
    <3>1. status[c] = Pipes!Pipe
      BY <2>2, <2>6 DEF Pipes!Fine, Pipes!Statuses
    <3>2. QED
      BY <2>6, <3>1
  <2>7. CASE w # None /\ Pipes!Carriers(c) # {}
    <3>1. Pipes!Carriers(c) = {w} /\ sock[w].role = "ready" /\ w \in PipeIds
      BY <2>4, <2>7
    <3>2. out[w] \in Seq(Pipes!Packet) /\ Len(out[w]) \in Nat
      BY <1>1, <3>1 DEF Pipes!TypeOK
    <3>3. packets[c] = <<>> /\ Pipes!Counts(out[w], 0) /\ sock[c].sent = Len(out[w])
      <4>1. packets[c] = <<>> /\ Len(packets[c]) = 0 /\ Pipes!Counts(out[w], 0)
        BY <2>3, <2>7, <3>1, PipeEmpty
      <4>2. sock[c].sent = Len(out[w]) + 0 + 0
        BY <2>3, <2>7, <3>1, <4>1, PipeEmpty
      <4>3. QED
        BY <3>2, <4>1, <4>2
    <3>4. Pipes!Numbers(out[w]) = [i \in 1 .. sock[c].sent |-> i]
      BY <3>2, <3>3, PipeNumbers
    <3>5. QED
      BY <3>1, <3>3, <3>4
  <2>8. QED
    BY <2>5, <2>6, <2>7
<1>5. Pipes!NoStall
  <2>1. Pipes!Fine(Pipes!Idle) => Pipes!Stalls(Pipes!Idle) /\ Pipes!Idle.at = "idle"
    BY DEF Pipes!Fine, Pipes!Idle
  <2>2. \A q \in {"pending", "waiting"}, x \in PipeIds : Pipes!Contains(queue[q], x) => Pipes!In(q, x)
    BY <1>1 DEF Pipes!TypeOK, Pipes!Contains, Pipes!In
  <2>3. QED
    BY <1>3, <2>1, <2>2 DEF Pipes!NoStall, Pipes!Stalls
<1>6. QED
  BY <1>2, <1>4, <1>5 DEF Pipes!StreamSafe

(* Whatever the clients, the workers and the threads: what is sent to the  *)
(* connection of a worker all comes from the client stream_get_pipe gave   *)
(* it; with one thread what a client has sent waits or has gone to one     *)
(* connection, in order, and a client that waits and a connection that is  *)
(* free are joined at once.                                                *)
THEOREM StreamIsSafe ==
  ASSUME UsedOnce
  PROVE  PluginsSpec => []StreamSafe
<1>1. ASSUME Pipes!IInv, [PluginsNext]_pluginsVars PROVE Pipes!IInv'
  <2>1. [Pipes!Next]_(Pipes!vars)
    BY <1>1, AloneStays DEF PluginsNext, Others, pluginsVars, streamVars, Pipes!vars
  <2>2. QED
    BY <1>1, <2>1, PipeNext
<1>2. Pipes!IInv => StreamSafe
  BY PipeSafe
<1>3. PluginsInit => Pipes!IInv
  BY PipeInit
<1>4. QED
  BY <1>1, <1>2, <1>3, PTL DEF PluginsSpec
=============================================================================
