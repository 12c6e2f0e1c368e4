---------------------------- MODULE Server_proofs ----------------------------
(***************************************************************************)
(* Proofs about the worker threads, for any number of workers and of       *)
(* identifiers, as long as no identifier has come back.                    *)
(***************************************************************************)
EXTENDS Server, FiniteSetTheorems, SequenceTheorems, TLAPS

NeverReused == Reuse = FALSE

-----------------------------------------------------------------------------
(* Sequences without repetition.                                           *)

LEMMA EntriesEmpty == Entries(<<>>) = {} /\ Once(<<>>)
BY DEF Entries, Once

LEMMA EntriesIds ==
  ASSUME NEW s \in Seq(Ids)
  PROVE  Entries(s) \subseteq Ids /\ 0 \notin Entries(s)
<1>1. Entries(s) \subseteq Ids
  BY DEF Entries
<1>2. QED
  BY <1>1 DEF Ids

LEMMA EntriesAppend ==
  ASSUME NEW S, NEW s \in Seq(S), NEW e \in S, Once(s), e \notin Entries(s)
  PROVE  Entries(Append(s, e)) = Entries(s) \cup {e} /\ Once(Append(s, e))
<1> DEFINE r == Append(s, e)
<1>1. /\ Len(r) = Len(s) + 1 /\ Len(s) \in Nat /\ r[Len(s) + 1] = e
      /\ \A k \in 1 .. Len(s) : r[k] = s[k]
  BY AppendProperties
<1>2. \A k \in 1 .. Len(r) : k \in 1 .. Len(s) \/ k = Len(s) + 1
  BY <1>1
<1> HIDE DEF r
<1>3. Once(r)
  BY <1>1, <1>2 DEF Once, Entries
<1>4. Entries(r) = Entries(s) \cup {e}
  <2>1. Entries(r) \subseteq Entries(s) \cup {e}
    BY <1>1, <1>2 DEF Entries
  <2>2. Entries(s) \subseteq Entries(r)
    BY <1>1 DEF Entries
  <2>3. e \in Entries(r)
    BY <1>1 DEF Entries
  <2>4. QED
    BY <2>1, <2>2, <2>3
<1>5. QED
  BY <1>3, <1>4 DEF r

LEMMA EntriesTail ==
  ASSUME NEW S, NEW s \in Seq(S), s # <<>>, Once(s)
  PROVE  /\ Head(s) \in Entries(s) /\ Once(Tail(s))
         /\ Entries(Tail(s)) = Entries(s) \ {Head(s)}
         /\ Head(s) \in S /\ Tail(s) \in Seq(S)
<1> DEFINE r == Tail(s)
<1>1. /\ Len(r) = Len(s) - 1 /\ Len(s) \in Nat \ {0} /\ Head(s) = s[1]
      /\ \A k \in 1 .. Len(r) : r[k] = s[k + 1]
      /\ Head(s) \in S /\ r \in Seq(S)
  BY HeadTailProperties, EmptySeq
<1>2. \A k \in 1 .. Len(s) : k = 1 \/ k - 1 \in 1 .. Len(r)
  BY <1>1
<1>3. \A k \in 1 .. Len(r) : k + 1 \in 1 .. Len(s) /\ k + 1 # 1
  BY <1>1
<1> HIDE DEF r
<1>4. Once(r)
  <2>1. SUFFICES ASSUME NEW k \in 1 .. Len(r), NEW l \in 1 .. Len(r), r[k] = r[l]
                 PROVE  k = l
    BY DEF Once
  <2>2. k + 1 = l + 1
    BY <1>1, <1>3, <2>1 DEF Once
  <2>3. QED
    BY <2>2
<1>5. Head(s) \notin Entries(r)
  BY <1>1, <1>3 DEF Once, Entries
<1>6. Entries(r) \subseteq Entries(s)
  BY <1>1, <1>3 DEF Entries
<1>7. ASSUME NEW k \in 1 .. Len(s), k # 1 PROVE s[k] \in Entries(r)
  <2>1. k - 1 \in 1 .. Len(r) /\ (k - 1) + 1 = k
    BY <1>2, <1>7
  <2>2. r[k - 1] = s[k]
    BY <1>1, <2>1
  <2>3. QED
    BY <2>1, <2>2 DEF Entries
<1>8. Entries(r) = Entries(s) \ {Head(s)}
  BY <1>1, <1>5, <1>6, <1>7 DEF Entries
<1>9. Head(s) \in Entries(s)
  BY <1>1 DEF Entries
<1>10. QED
  BY <1>1, <1>4, <1>8, <1>9 DEF r

-----------------------------------------------------------------------------
(* What a step of thread t leaves to the others.                           *)

Others(t) == \A u \in Threads : u # t =>
  /\ pc'[u] = pc[u] /\ back'[u] = back[u]
  /\ sock'[u] = sock[u] /\ new'[u] = new[u] /\ batch'[u] = batch[u]

LEMMA SocketIds ==
  ASSUME TypeOK
  PROVE  /\ \A t \in Threads : InHand(t) \subseteq Ids
         /\ \A q \in Queues : Waiting(q) \subseteq Ids
BY DEF TypeOK, InHand, Waiting, Entries

LEMMA OthersHands ==
  ASSUME NEW t \in Threads, NEW u \in Threads, u # t, Others(t)
  PROVE  InHand(u)' = InHand(u)
BY DEF Others, InHand, Entries

LEMMA OthersHold ==
  ASSUME IInv, NEW t \in Threads, NEW u \in Threads, u # t, Others(t),
         poller' = poller \/ {poller, poller'} \subseteq {t, None}
  PROVE  Holds(u)'
<1>1. Holds(u)
  BY DEF IInv, ThreadInv
<1>2. poller' = u <=> poller = u
  BY ThreadsAssumption
<1>3. QED
  BY <1>1, <1>2 DEF Others, Holds, At

LEMMA OthersKeep ==
  ASSUME IInv, NEW t \in Threads, NEW u \in Threads, u # t, Others(t),
         \A i \in Ids : lock'[i] \in {lock[i], t, None},
         \A i \in InHand(u) : kind'[i] \in {kind[i], "free"}
  PROVE  Keeps(u)'
<1>1. Keeps(u) /\ Holds(u) /\ InHand(u)' = InHand(u) /\ u # None
  BY OthersHands, ThreadsAssumption DEF IInv, ThreadInv
<1>2. \A i \in Ids : lock'[i] = u => lock[i] = u
  BY <1>1
<1>3. /\ pc'[u] = pc[u] /\ back'[u] = back[u] /\ sock'[u] = sock[u]
      /\ new'[u] = new[u] /\ batch'[u] = batch[u] /\ Victim(u)' = Victim(u)
  BY DEF Others, Victim
<1>4. ASSUME NEW i \in Ids, lock'[i] = u
      PROVE  \/ i \in InHand(u)'
             \/ (pc'[u] = "put_release" /\ sock'[u] = i)
             \/ (pc'[u] = "open_unlock" /\ new'[u] = i)
  BY <1>1, <1>2, <1>3, <1>4 DEF Keeps
<1>5. /\ pc[u] \in {"recv_acquire", "resp_acquire"} => sock[u] \in Ids
      /\ pc[u] \in {"open_lock", "accept_enq"} => new[u] \in Ids
      /\ pc[u] \in {"dereg", "free_id"} => Victim(u) \in Ids /\ Victim(u) \in InHand(u)
  BY <1>1 DEF Holds, At, Working, Opens, Closing, Victim, InHand, IInv, TypeOK
<1>6. pc[u] \in {"listen_enq", "disp_enq"} => Head(batch[u]) \in Ids
  <2>1. batch[u] \in Seq(Ids) /\ (pc[u] \in {"listen_enq", "disp_enq"} => batch[u] # <<>>)
    BY <1>1 DEF Holds, Polled, IInv, TypeOK
  <2>2. QED
    BY <2>1, HeadTailProperties
<1>7. QED
  BY <1>1, <1>2, <1>3, <1>4, <1>5, <1>6 DEF Keeps

(* A step that moves nothing, gives one socket away to a queue or takes    *)
(* one from a queue.                                                       *)
Steady == \A q \in Queues : Waiting(q)' = Waiting(q)
Gain(q, i) == \A r \in Queues :
  Waiting(r)' = IF r = q THEN Waiting(r) \cup {i} ELSE Waiting(r)
Lose(q, i) == \A r \in Queues :
  Waiting(r)' = IF r = q THEN Waiting(r) \ {i} ELSE Waiting(r)

LEMMA Put ==
  ASSUME IInv, NEW t \in Threads, Others(t), NEW q \in Queues, NEW i \in InHand(t),
         InHand(t)' = InHand(t) \ {i}, Gain(q, i)
  PROVE  NowhereElse' /\ \A j \in Ids : Somewhere(j)' <=> Somewhere(j)
<1>1. \A u \in Threads : InHand(u)' = IF u = t THEN InHand(u) \ {i} ELSE InHand(u)
  BY OthersHands
<1>2. NowhereElse
  BY DEF IInv
<1>3. NowhereElse'
  BY <1>1, <1>2 DEF NowhereElse, Gain
<1>4. \A j \in Ids : Somewhere(j)' <=> Somewhere(j)
  BY <1>1 DEF Somewhere, Gain
<1>5. QED
  BY <1>3, <1>4

LEMMA Take ==
  ASSUME IInv, NEW t \in Threads, Others(t), NEW q \in Queues, NEW i \in Waiting(q),
         InHand(t)' = InHand(t) \cup {i}, Lose(q, i)
  PROVE  NowhereElse' /\ \A j \in Ids : Somewhere(j)' <=> Somewhere(j)
<1>1. \A u \in Threads : InHand(u)' = IF u = t THEN InHand(u) \cup {i} ELSE InHand(u)
  BY OthersHands
<1>2. NowhereElse
  BY DEF IInv
<1>3. NowhereElse'
  BY <1>1, <1>2 DEF NowhereElse, Lose
<1>4. \A j \in Ids : Somewhere(j)' <=> Somewhere(j)
  BY <1>1 DEF Somewhere, Lose
<1>5. QED
  BY <1>3, <1>4

LEMMA Stay ==
  ASSUME IInv, NEW t \in Threads, Others(t), InHand(t)' = InHand(t), Steady
  PROVE  NowhereElse' /\ \A j \in Ids : Somewhere(j)' <=> Somewhere(j)
<1>1. \A u \in Threads : InHand(u)' = InHand(u)
  BY OthersHands
<1>2. NowhereElse
  BY DEF IInv
<1>3. QED
  BY <1>1, <1>2 DEF NowhereElse, Somewhere, Steady

LEMMA Drop ==
  ASSUME IInv, NEW t \in Threads, Others(t), NEW i, InHand(t)' = InHand(t) \ {i}, Steady
  PROVE  /\ NowhereElse'
         /\ \A j \in Ids : Somewhere(j)' => Somewhere(j)
         /\ \A j \in Ids : j # i /\ Somewhere(j) => Somewhere(j)'
<1>1. \A u \in Threads : InHand(u)' = IF u = t THEN InHand(u) \ {i} ELSE InHand(u)
  BY OthersHands
<1>2. NowhereElse
  BY DEF IInv
<1>3. QED
  BY <1>1, <1>2 DEF NowhereElse, Somewhere, Steady

(* What is left to show of a step that does not poll _blocking.            *)
LEMMA Quiet ==
  ASSUME IInv, NEW t \in Threads, Others(t), TypeOK', Holds(t)', Keeps(t)', OnceInv',
         UNCHANGED <<polling, fresh>>, NowhereElse',
         \A j \in Ids : Somewhere(j)' => Somewhere(j),
         \A j \in Ids : kind'[j] # "free" /\ Somewhere(j) => Somewhere(j)',
         t = poller => /\ batch'[t] = batch[t]
                       /\ \A i \in InHand(t) : i \in InHand(t)'
                            \/ (kind'[i] = "free" /\ ~ Somewhere(i)'),
         poller # None => queue'["blocking"] = queue["blocking"],
         \A i \in Ids : kind'[i] \in {kind[i], "free"},
         \A i \in Ids : lock'[i] \in {lock[i], t, None},
         \A i \in Ids : i >= fresh => lock'[i] \in {lock[i], None}
  PROVE  IInv'
<1> USE DEF IInv
<1>1. ThreadInv'
  <2>1. ASSUME NEW u \in Threads, u # t PROVE Holds(u)' /\ Keeps(u)'
    BY <2>1, OthersHold, OthersKeep, SocketIds DEF polling
  <2>2. QED
    BY <2>1 DEF ThreadInv
<1>2. FreshInv'
  BY DEF FreshInv, TypeOK
<1>3. PlaceInv'
  BY DEF PlaceInv, TypeOK
<1>4. ScanInv'
  <2>1. CASE poller = None
    BY <2>1 DEF ScanInv, polling, TypeOK, Queues
  <2>2. CASE poller # None
    <3>1. /\ poller \in Threads /\ poller' = poller /\ scanned' = scanned
          /\ queue'["blocking"] = queue["blocking"]
      BY <2>2 DEF polling, TypeOK, Threads
    <3>2. /\ batch'[poller] = batch[poller]
          /\ \A i \in InHand(poller) : i \in InHand(poller)'
               \/ (kind'[i] = "free" /\ ~ Somewhere(i)')
      BY <3>1, OthersHands DEF Others
    <3>3. ASSUME NEW k \in 1 .. scanned
          PROVE  queue["blocking"][k] \in Ids
      BY <3>3 DEF ScanInv, TypeOK, Queues
    <3>4. ASSUME NEW k \in 1 .. scanned, NEW i \in Ids, i = queue["blocking"][k]
          PROVE  i \in InHand(poller)'
                   \/ (i < fresh' /\ kind'[i] = "free" /\ ~ Somewhere(i)')
      <4>1. i \in InHand(poller) \/ (i < fresh /\ kind[i] = "free" /\ ~ Somewhere(i))
        BY <3>4 DEF ScanInv
      <4>2. /\ fresh' = fresh /\ kind'[i] \in {kind[i], "free"}
            /\ Somewhere(i)' => Somewhere(i)
        OBVIOUS
      <4>3. i \in InHand(poller) => i < fresh
        BY <3>1 DEF FreshInv, Somewhere, TypeOK, Ids
      <4>4. QED
        BY <3>2, <4>1, <4>2, <4>3
    <3>5. \A i \in Entries(batch[poller]) : \E k \in 1 .. scanned : queue["blocking"][k] = i
      BY <2>2 DEF ScanInv
    <3>6. scanned <= Len(queue["blocking"])
      BY DEF ScanInv
    <3>7. Entries(batch[poller])' = Entries(batch[poller])
      BY <3>1, <3>2 DEF Entries
    <3>8. ASSUME NEW k \in 1 .. scanned
          PROVE  (LET i == queue["blocking"][k] IN
                    i \in InHand(poller) \/ (i < fresh /\ kind[i] = "free" /\ ~ Somewhere(i)))'
      <4>1. queue'["blocking"][k] = queue["blocking"][k]
        BY <3>1
      <4>2. PICK i \in Ids : i = queue["blocking"][k]
        BY <3>3, <3>8
      <4>3. i \in InHand(poller)' \/ (i < fresh' /\ kind'[i] = "free" /\ ~ Somewhere(i)')
        BY <3>4, <3>8, <4>2
      <4>4. QED
        BY <4>1, <4>2, <4>3
    <3>9. (poller # None => \A i \in Entries(batch[poller]) :
             \E k \in 1 .. scanned : queue["blocking"][k] = i)'
      BY <3>1, <3>5, <3>7
    <3>10. scanned' <= Len(queue'["blocking"]) /\ (poller' = None => scanned' = 0)
      BY <2>2, <3>1, <3>6
    <3>11. QED
      BY <3>1, <3>8, <3>9, <3>10 DEF ScanInv
  <2>3. QED
    BY <2>1, <2>2
<1>5. QED
  BY <1>1, <1>2, <1>3, <1>4

-----------------------------------------------------------------------------
(* Steps that move no socket.                                              *)

Backs == {"receive", "respond", "scan", "dispatch", "plugin", "idle"}
Jump(t, l, b) == pc' = [pc EXCEPT ![t] = l] /\ back' = [back EXCEPT ![t] = b]
Held == <<sock, new, batch>>

LEMMA Still ==
  ASSUME IInv, NEW t \in Threads, NEW l \in Labels, NEW b \in Backs, Jump(t, l, b),
         pc[t] \notin {"put_release", "open_unlock"}, l \notin {"put_release", "open_unlock"},
         UNCHANGED <<queue, scanned, sock, new, batch>>
  PROVE  /\ Others(t) /\ InHand(t)' = InHand(t) /\ OnceInv' /\ NowhereElse'
         /\ \A j \in Ids : Somewhere(j)' <=> Somewhere(j)
         /\ pc' \in [Threads -> Labels] /\ back' \in [Threads -> Backs]
         /\ pc'[t] = l /\ back'[t] = b
<1> USE DEF IInv
<1>1. /\ pc' \in [Threads -> Labels] /\ back' \in [Threads -> Backs]
      /\ pc'[t] = l /\ back'[t] = b /\ Others(t)
  BY DEF TypeOK, Jump, Others, Backs
<1>2. InHand(t)' = InHand(t)
  BY <1>1 DEF InHand, Entries
<1>3. OnceInv'
  BY DEF OnceInv, Once, Entries
<1>4. Steady
  BY DEF Steady, Waiting
<1>5. QED
  BY <1>1, <1>2, <1>3, <1>4, Stay

Guarded == {"recv_acquire", "resp_acquire", "open_lock", "accept_enq", "listen_enq",
            "disp_enq", "dereg", "free_id"}

LEMMA Proceed ==
  ASSUME IInv, NEW t \in Threads, NEW l \in Labels \ Guarded, NEW b \in Backs,
         Jump(t, l, b),
         pc[t] \notin {"put_release", "open_unlock"}, l \notin {"put_release", "open_unlock"},
         UNCHANGED <<queue, poller, scanned, sock, new, batch, kind, lock, fresh, freeIds>>,
         connecting' \in [Ids -> BOOLEAN], work' \in [Ids -> Seq(Ops)],
         sends' \in 0 .. MaxSends, dest' \in [Threads -> Queues],
         Holds(t)'
  PROVE  IInv'
<1>1. /\ Others(t) /\ InHand(t)' = InHand(t) /\ OnceInv' /\ NowhereElse'
      /\ \A j \in Ids : Somewhere(j)' <=> Somewhere(j)
      /\ pc' \in [Threads -> Labels] /\ back' \in [Threads -> Backs]
      /\ pc'[t] = l /\ back'[t] = b
  BY Still
<1>2. TypeOK'
  BY <1>1 DEF IInv, TypeOK, Backs
<1>3. Keeps(t)'
  <2>1. Keeps(t)
    BY DEF IInv, ThreadInv
  <2>2. QED
    BY <1>1, <2>1 DEF Keeps, Guarded
<1>4. \A i \in Ids : kind'[i] = kind[i] /\ lock'[i] = lock[i]
  OBVIOUS
<1>5. QED
  BY <1>1, <1>2, <1>3, <1>4, Quiet DEF polling

LEMMA WorkerThread == ASSUME NEW w \in Workers PROVE w \in Threads /\ w # Plugin /\ w # None
BY ThreadsAssumption DEF Threads

LEMMA PersistTypes ==
  ASSUME TypeOK, NEW i \in Ids, Persist(i)
  PROVE  /\ connecting' \in [Ids -> BOOLEAN] /\ work' \in [Ids -> Seq(Ops)]
         /\ UNCHANGED <<kind, fresh, freeIds, sends>>
<1>1. <<>> \in Seq(Ops)
  BY EmptySeq
<1>2. QED
  BY <1>1 DEF TypeOK, Persist

(* Where a worker is, it holds a socket.                                   *)
LEMMA InWork ==
  ASSUME IInv, NEW w \in Workers, pc[w] \in Working
  PROVE  /\ sock[w] \in Ids /\ sock[w] # 0 /\ new[w] = 0 /\ batch[w] = <<>>
         /\ poller # w /\ w # Plugin /\ w \in Threads /\ TypeOK
<1>1. Holds(w) /\ w \in Threads
  BY WorkerThread DEF IInv, ThreadInv
<1>2. QED
  BY <1>1, WorkerThread DEF IInv, TypeOK, Holds, At, Working, Closing, Opens, Polled

LEMMA JumpTo ==
  ASSUME TypeOK, NEW t \in Threads, NEW l, NEW b, Goto(t, l),
         back' = back \/ back' = [back EXCEPT ![t] = b]
  PROVE  /\ pc'[t] = l
         /\ back' = back => Jump(t, l, back[t]) /\ back'[t] = back[t] /\ back[t] \in Backs
         /\ back' = [back EXCEPT ![t] = b] => Jump(t, l, b) /\ back'[t] = b
BY DEF TypeOK, Goto, Jump, Backs

LEMMA WorkOn ==
  ASSUME IInv, NEW w \in Workers, pc[w] \in Working \ {"put_release"},
         NEW l \in {"plugin", "resp_task", "put_back", "close_release"}, NEW b \in Backs,
         Jump(w, l, b), l \in {"put_back", "close_release"} => b \in {"receive", "respond"},
         UNCHANGED <<queue, poller, scanned, sock, new, batch, kind, lock, fresh, freeIds,
                     sends, dest>>,
         connecting' \in [Ids -> BOOLEAN], work' \in [Ids -> Seq(Ops)]
  PROVE  IInv'
<1>1. /\ sock[w] # 0 /\ new[w] = 0 /\ batch[w] = <<>> /\ poller # w
      /\ w # Plugin /\ w \in Threads /\ TypeOK
  BY InWork
<1>2. pc'[w] = l /\ back'[w] = b
  BY <1>1 DEF Jump, TypeOK
<1>3. Holds(w)'
  BY <1>1, <1>2 DEF Holds, At, Working, Closing, Opens, Polled
<1>4. l \in Labels \ Guarded /\ pc[w] \notin {"put_release", "open_unlock"}
        /\ l \notin {"put_release", "open_unlock"}
  BY DEF Labels, Guarded, Working
<1>5. sends' \in 0 .. MaxSends /\ dest' \in [Threads -> Queues]
  BY <1>1 DEF TypeOK
<1>6. QED
  BY <1>1, <1>3, <1>4, <1>5, Proceed

LEMMA ReceiveInv ==
  ASSUME IInv, NEW w \in Workers,
         RecvRead(w) \/ RecvError(w) \/ RecvNoPlugin(w) \/ RecvDone(w)
  PROVE  IInv'
<1> USE DEF locals, polling, table, GotoThen
<1>1. /\ pc[w] \in Working \ {"put_release"}
      /\ UNCHANGED <<queue, poller, scanned, sock, new, batch, lock, fresh, freeIds, sends,
                     dest>>
  BY DEF RecvRead, RecvError, RecvNoPlugin, RecvDone, Persist, Working
<1>2. w \in Threads /\ sock[w] \in Ids /\ TypeOK
  BY <1>1, InWork
<1>3. CASE RecvRead(w)
  <2>1. Jump(w, "plugin", back[w]) /\ back[w] \in Backs
    BY <1>2, <1>3, JumpTo DEF RecvRead
  <2>2. connecting' \in [Ids -> BOOLEAN] /\ work' \in [Ids -> Seq(Ops)] /\ kind' = kind
    <3>1. PICK c \in {connecting[sock[w]], FALSE} :
            connecting' = [connecting EXCEPT ![sock[w]] = c]
      BY <1>3 DEF RecvRead
    <3>2. c \in BOOLEAN
      BY <1>2 DEF TypeOK
    <3>3. connecting' \in [Ids -> BOOLEAN]
      BY <1>2, <3>1, <3>2 DEF TypeOK
    <3>4. work' = work /\ kind' = kind
      BY <1>3 DEF RecvRead
    <3>5. QED
      BY <1>2, <3>3, <3>4 DEF TypeOK
  <2>3. QED
    BY <1>1, <2>1, <2>2, WorkOn
<1>4. CASE RecvError(w)
  <2>1. \E l \in {"put_back", "close_release"} : Jump(w, l, "respond")
    BY <1>4 DEF RecvError, Jump, Goto
  <2>2. connecting' \in [Ids -> BOOLEAN] /\ work' \in [Ids -> Seq(Ops)] /\ kind' = kind
    BY <1>2, <1>4, PersistTypes DEF RecvError, TypeOK
  <2>3. QED
    BY <1>1, <2>1, <2>2, WorkOn DEF Backs
<1>5. CASE RecvNoPlugin(w)
  <2>1. Jump(w, "close_release", "respond")
    BY <1>5 DEF RecvNoPlugin, Jump, Goto
  <2>2. connecting' \in [Ids -> BOOLEAN] /\ work' \in [Ids -> Seq(Ops)] /\ kind' = kind
    BY <1>2, <1>5 DEF RecvNoPlugin, TypeOK
  <2>3. QED
    BY <1>1, <2>1, <2>2, WorkOn DEF Backs
<1>6. CASE RecvDone(w)
  <2>1. Jump(w, "put_back", "respond")
          \/ (Jump(w, "resp_task", back[w]) /\ back[w] \in Backs)
    BY <1>2, <1>6, JumpTo DEF RecvDone, Jump, Goto
  <2>2. connecting' \in [Ids -> BOOLEAN] /\ work' \in [Ids -> Seq(Ops)] /\ kind' = kind
    BY <1>2, <1>6 DEF RecvDone, TypeOK
  <2>3. QED
    BY <1>1, <2>1, <2>2, WorkOn DEF Backs
<1>7. QED
  BY <1>3, <1>4, <1>5, <1>6

LEMMA TakeReplyTypes ==
  ASSUME IInv, NEW w \in Workers, ToProcess(w), TakeReply(w)
  PROVE  work' \in [Ids -> Seq(Ops)]
<1>1. sock[w] \in Ids /\ TypeOK
  BY InWork DEF ToProcess, Working
<1>2. Tail(work[sock[w]]) \in Seq(Ops)
  BY <1>1, HeadTailProperties DEF ToProcess, TypeOK
<1>3. QED
  BY <1>1, <1>2 DEF TakeReply, TypeOK

LEMMA RespondInv ==
  ASSUME IInv, NEW w \in Workers,
         RespIdle(w) \/ RespAlien(w) \/ RespSent(w) \/ RespAgain(w) \/ RespFatal(w)
  PROVE  IInv'
<1> USE DEF locals, polling, table, GotoThen, ToProcess
<1>1. /\ pc[w] = "resp_task" /\ pc[w] \in Working \ {"put_release"}
      /\ UNCHANGED <<queue, poller, scanned, sock, new, batch, lock, fresh, freeIds, sends,
                     dest, kind>>
  BY DEF RespIdle, RespAlien, RespSent, RespAgain, RespFatal, Persist, Working
<1>2. w \in Threads /\ sock[w] \in Ids /\ TypeOK
  BY <1>1, InWork
<1>3. Jump(w, "put_back", "receive") \/ Jump(w, "close_release", "receive")
        \/ (Jump(w, "resp_task", back[w]) /\ back[w] \in Backs)
  <2>1. CASE UNCHANGED <<pc, back>>
    BY <1>1, <1>2, <2>1 DEF Jump, TypeOK, Backs
  <2>2. CASE Goto(w, "put_back") /\ back' = [back EXCEPT ![w] = "receive"]
    BY <2>2 DEF Jump, Goto
  <2>3. CASE Goto(w, "close_release") /\ back' = [back EXCEPT ![w] = "receive"]
    BY <2>3 DEF Jump, Goto
  <2>4. QED
    BY <2>1, <2>2, <2>3 DEF RespIdle, RespAlien, RespSent, RespAgain, RespFatal
<1>4. connecting' \in [Ids -> BOOLEAN] /\ work' \in [Ids -> Seq(Ops)]
  <2>1. CASE RespIdle(w) \/ RespAgain(w)
    BY <1>2, <2>1 DEF RespIdle, RespAgain, TypeOK
  <2>2. CASE RespAlien(w) \/ RespSent(w)
    <3>1. work' \in [Ids -> Seq(Ops)]
      BY <2>2, TakeReplyTypes DEF RespAlien, RespSent
    <3>2. QED
      BY <1>2, <2>2, <3>1 DEF RespAlien, RespSent, TypeOK
  <2>3. CASE RespFatal(w)
    BY <1>2, <2>3, PersistTypes DEF RespFatal, TypeOK
  <2>4. QED
    BY <2>1, <2>2, <2>3
<1>5. QED
  BY <1>1, <1>3, <1>4, WorkOn DEF Backs

-----------------------------------------------------------------------------
(* Queues.                                                                 *)

LEMMA WaitingEntries ==
  ASSUME TypeOK, NEW q \in Queues, q # "blocking" \/ scanned = 0
  PROVE  Waiting(q) = Entries(queue[q])
<1>1. \A k \in 1 .. Len(queue[q]) : q = "blocking" => k > scanned
  BY DEF TypeOK
<1>2. QED
  BY <1>1 DEF Waiting, Entries

LEMMA EnqueueGains ==
  ASSUME IInv, NEW q \in Queues, NEW i \in Ids, Enqueue(q, i), i \notin Waiting(q),
         UNCHANGED <<poller, scanned>>
  PROVE  /\ queue' \in [Queues -> Seq(Ids)] /\ \A r \in Queues : Once(queue'[r])
         /\ Gain(q, i) /\ (poller # None => queue'["blocking"] = queue["blocking"])
<1> USE DEF IInv
<1>1. q # "blocking" \/ (poller = None /\ scanned = 0)
  BY DEF Enqueue, Unlocked, ScanInv
<1>2. Waiting(q) = Entries(queue[q]) /\ Once(queue[q]) /\ queue[q] \in Seq(Ids)
  BY <1>1, WaitingEntries DEF OnceInv, TypeOK
<1>3. queue'[q] = Append(queue[q], i) /\ \A r \in Queues : r # q => queue'[r] = queue[r]
  BY DEF Enqueue, TypeOK
<1>4. Entries(queue'[q]) = Entries(queue[q]) \cup {i} /\ Once(queue'[q])
  BY <1>2, <1>3, EntriesAppend
<1>5. queue' \in [Queues -> Seq(Ids)]
  BY <1>2, AppendProperties DEF Enqueue, TypeOK
<1>6. Waiting(q)' = Entries(queue'[q])
  <2>1. \A k \in 1 .. Len(queue'[q]) : q = "blocking" => k > scanned'
    BY <1>1
  <2>2. QED
    BY <2>1 DEF Waiting, Entries
<1>7. \A r \in Queues : r # q => Waiting(r)' = Waiting(r)
  BY <1>3 DEF Waiting
<1>8. QED
  BY <1>1, <1>2, <1>3, <1>4, <1>5, <1>6, <1>7 DEF Gain, OnceInv, Queues

LEMMA DequeueLoses ==
  ASSUME IInv, NEW q \in Queues, q # "blocking", queue[q] # <<>>,
         queue' = [queue EXCEPT ![q] = Tail(@)], UNCHANGED <<poller, scanned>>
  PROVE  /\ queue' \in [Queues -> Seq(Ids)] /\ \A r \in Queues : Once(queue'[r])
         /\ Head(queue[q]) \in Waiting(q) /\ Head(queue[q]) \in Ids
         /\ Lose(q, Head(queue[q])) /\ queue'["blocking"] = queue["blocking"]
<1> USE DEF IInv
<1>1. Waiting(q) = Entries(queue[q]) /\ Once(queue[q]) /\ queue[q] \in Seq(Ids)
  BY WaitingEntries DEF OnceInv, TypeOK
<1>2. queue'[q] = Tail(queue[q]) /\ \A r \in Queues : r # q => queue'[r] = queue[r]
  BY DEF TypeOK
<1>3. /\ Head(queue[q]) \in Entries(queue[q]) /\ Once(queue'[q])
      /\ Entries(queue'[q]) = Entries(queue[q]) \ {Head(queue[q])}
      /\ Head(queue[q]) \in Ids /\ queue'[q] \in Seq(Ids)
  BY <1>1, <1>2, EntriesTail
<1>4. queue' \in [Queues -> Seq(Ids)]
  BY <1>2, <1>3 DEF TypeOK
<1>5. Waiting(q)' = Entries(queue'[q])
  BY DEF Waiting, Entries
<1>6. \A r \in Queues : r # q => Waiting(r)' = Waiting(r)
  BY <1>2 DEF Waiting
<1>7. QED
  BY <1>1, <1>2, <1>3, <1>4, <1>5, <1>6 DEF Lose, OnceInv, Queues

-----------------------------------------------------------------------------
(* Steps that move a socket between a queue and the hands of a thread.     *)

LEMMA HandOnce ==
  ASSUME IInv, NEW t \in Threads, Others(t), \A q \in Queues : Once(queue'[q]),
         Once(batch'[t]), new'[t] \notin Entries(batch'[t]),
         sock'[t] # 0 => sock'[t] # new'[t] /\ sock'[t] \notin Entries(batch'[t])
  PROVE  OnceInv'
<1>1. OnceInv
  BY DEF IInv
<1>2. ASSUME NEW u \in Threads, u # t
      PROVE  /\ Once(batch'[u]) /\ new'[u] \notin Entries(batch'[u])
             /\ sock'[u] # 0 => sock'[u] # new'[u] /\ sock'[u] \notin Entries(batch'[u])
  BY <1>1, <1>2 DEF OnceInv, Others
<1> HIDE DEF Once, Entries
<1>3. (\A u \in Threads : Once(batch'[u])) /\ \A u \in Threads : new'[u] \notin Entries(batch'[u])
  BY <1>2
<1>4. \A u \in Threads : Once(batch[u])' /\ new'[u] \notin Entries(batch[u])'
  BY <1>3 DEF Once, Entries
<1>5. \A u \in Threads : sock'[u] # 0 =>
        sock'[u] # new'[u] /\ sock'[u] \notin Entries(batch[u])'
  BY <1>2 DEF Entries
<1>6. \A q \in Queues : Once(queue[q])'
  BY DEF Once
<1>7. QED
  BY <1>4, <1>5, <1>6 DEF OnceInv

(* A worker between two sockets holds none.                                *)
LEMMA InBetween ==
  ASSUME IInv, NEW w \in Workers, pc[w] \in {"receive", "respond", "poll_in", "poll_bl"}
  PROVE  /\ sock[w] = 0 /\ new[w] = 0 /\ batch[w] = <<>> /\ poller # w /\ InHand(w) = {}
         /\ w # Plugin /\ w # None /\ w \in Threads /\ TypeOK
         /\ \A i \in Ids : lock[i] # w
<1>1. Holds(w) /\ Keeps(w) /\ w \in Threads /\ w # Plugin /\ TypeOK /\ w # None
  BY WorkerThread DEF IInv, ThreadInv
<1>2. sock[w] = 0 /\ new[w] = 0 /\ batch[w] = <<>> /\ poller # w
  BY <1>1 DEF Holds, At, Working, Closing, Opens, Polled
<1>3. InHand(w) = {}
  BY <1>2, EntriesEmpty DEF InHand, Ids
<1>4. QED
  BY <1>1, <1>2, <1>3 DEF Keeps

LEMMA DequeueInv ==
  ASSUME IInv, NEW w \in Workers, RecvDequeue(w) \/ RespDequeue(w)
  PROVE  IInv'
<1> USE DEF locals, polling, table
<1> DEFINE q == IF RecvDequeue(w) THEN "readable" ELSE "writable"
           h == Head(queue[q])
<1>1. /\ pc[w] \in {"receive", "respond"} /\ q \in {"readable", "writable"}
      /\ UNCHANGED <<table, polling, lock, back, new, batch, dest>>
      /\ IF queue[q] = <<>>
         THEN (\E l \in {"respond", "poll_in"} : Goto(w, l)) /\ UNCHANGED <<queue, sock>>
         ELSE /\ sock' = [sock EXCEPT ![w] = h]
              /\ queue' = [queue EXCEPT ![q] = Tail(@)]
              /\ \E l \in {"recv_acquire", "resp_acquire"} : Goto(w, l)
  BY DEF RecvDequeue, RespDequeue
<1> HIDE DEF q
<1>2. /\ sock[w] = 0 /\ new[w] = 0 /\ batch[w] = <<>> /\ poller # w /\ InHand(w) = {}
      /\ w # Plugin /\ w # None /\ w \in Threads /\ TypeOK
      /\ \A i \in Ids : lock[i] # w
  BY <1>1, InBetween
<1>3. CASE queue[q] = <<>>
  <2>1. PICK l \in {"respond", "poll_in"} : Goto(w, l)
    BY <1>1, <1>3
  <2>2. pc'[w] = l /\ Jump(w, l, back[w]) /\ back[w] \in Backs
    BY <1>1, <1>2, <2>1, JumpTo
  <2>3. Holds(w)'
    BY <1>1, <1>2, <1>3, <2>2 DEF Holds, At, Working, Closing, Opens, Polled
  <2>4. l \in Labels \ Guarded
    BY DEF Labels, Guarded
  <2>5. QED
    BY <1>1, <1>2, <1>3, <2>2, <2>3, <2>4, Proceed DEF TypeOK
<1>4. CASE queue[q] # <<>>
  <2>1. PICK l \in {"recv_acquire", "resp_acquire"} : Goto(w, l)
    BY <1>1, <1>4
  <2>2. pc'[w] = l /\ sock'[w] = h /\ pc' \in [Threads -> Labels]
    BY <1>1, <1>2, <1>4, <2>1 DEF Goto, TypeOK, Labels
  <2>3. /\ queue' \in [Queues -> Seq(Ids)] /\ \A r \in Queues : Once(queue'[r])
        /\ h \in Waiting(q) /\ h \in Ids
        /\ Lose(q, h) /\ queue'["blocking"] = queue["blocking"] /\ q \in Queues
    BY <1>1, <1>4, DequeueLoses DEF Queues
  <2> HIDE DEF h
  <2>4. TypeOK'
    BY <1>1, <1>2, <1>4, <2>2, <2>3 DEF TypeOK
  <2>5. Others(w)
    BY <1>1, <1>2, <1>4, <2>1 DEF Others, TypeOK, Goto
  <2>6. InHand(w)' = InHand(w) \cup {h}
    BY <1>1, <1>2, <2>2, <2>3, EntriesEmpty DEF InHand, Ids, Entries
  <2>7. NowhereElse' /\ \A j \in Ids : Somewhere(j)' <=> Somewhere(j)
    BY <1>1, <1>2, <2>3, <2>5, <2>6, Take
  <2>8. Holds(w)'
    BY <1>1, <1>2, <2>2, <2>3 DEF Holds, At, Working, Closing, Opens, Polled, Ids
  <2>9. Keeps(w)'
    BY <1>1, <1>2, <2>2, <2>3 DEF Keeps
  <2>10. OnceInv'
    BY <1>1, <1>2, <2>2, <2>3, <2>5, EntriesEmpty, HandOnce DEF Ids
  <2>11. QED
    BY <1>1, <1>2, <2>3, <2>4, <2>5, <2>7, <2>8, <2>9, <2>10, Quiet
<1>5. QED
  BY <1>3, <1>4

LEMMA WorkHand ==
  ASSUME IInv, NEW w \in Workers, pc[w] \in Working
  PROVE  InHand(w) = IF pc[w] = "put_release" THEN {} ELSE {sock[w]}
<1>1. sock[w] \in Ids /\ new[w] = 0 /\ batch[w] = <<>> /\ 0 \notin Ids
  BY InWork DEF Ids
<1>2. pc[w] # "open_unlock"
  BY DEF Working
<1>3. QED
  BY <1>1, <1>2, EntriesEmpty DEF InHand

LEMMA AcquireInv ==
  ASSUME IInv, NEW w \in Workers, RecvAcquire(w) \/ RespAcquire(w)
  PROVE  IInv'
<1> USE DEF locals, polling, table
<1> DEFINE i == sock[w]
<1>1. /\ pc[w] \in {"recv_acquire", "resp_acquire"} /\ pc[w] \in Working
      /\ UNCHANGED <<table, polling, queue, back, new, batch, dest>>
      /\ \/ /\ kind[i] = "free" /\ sock' = [sock EXCEPT ![w] = 0]
            /\ \E l \in {"respond", "poll_in"} : Goto(w, l)
            /\ UNCHANGED lock
         \/ /\ lock' = [lock EXCEPT ![i] = w] /\ lock[i] = None /\ kind[i] # "free"
            /\ \E l \in {"recv_read", "resp_task"} : Goto(w, l)
            /\ UNCHANGED sock
  BY DEF RecvAcquire, RespAcquire, Working, Lock, Acquirable
<1>2. /\ i \in Ids /\ i # 0 /\ new[w] = 0 /\ batch[w] = <<>> /\ poller # w
      /\ w # Plugin /\ w \in Threads /\ TypeOK /\ w # None
  BY <1>1, InWork, ThreadsAssumption
<1>3. Keeps(w) /\ lock[i] # w /\ InHand(w) = {i} /\ i < fresh
  <2>1. Keeps(w) /\ InHand(w) = {i}
    BY <1>1, <1>2, WorkHand DEF IInv, ThreadInv
  <2>2. kind[i] # "free" \/ Somewhere(i)
    BY <1>2, <2>1 DEF Somewhere
  <2>3. QED
    BY <1>1, <1>2, <2>1, <2>2 DEF Keeps, IInv, FreshInv, TypeOK, Ids
<1>4. /\ \A q \in Queues : Once(queue'[q]) /\ Waiting(q)' = Waiting(q)
      /\ Once(batch'[w]) /\ new'[w] \notin Entries(batch'[w])
  BY <1>1, <1>2, EntriesEmpty DEF IInv, OnceInv, Waiting
<1>5. CASE kind[i] = "free" /\ sock' = [sock EXCEPT ![w] = 0] /\ UNCHANGED lock
  <2>1. PICK l \in {"respond", "poll_in"} : Goto(w, l)
    BY <1>1, <1>2, <1>5 DEF TypeOK
  <2>2. pc'[w] = l /\ sock'[w] = 0 /\ pc' \in [Threads -> Labels]
    BY <1>2, <1>5, <2>1 DEF Goto, TypeOK, Labels
  <2>3. TypeOK' /\ Others(w)
    BY <1>1, <1>2, <1>5, <2>1, <2>2 DEF TypeOK, Others, Goto
  <2>4. InHand(w)' = InHand(w) \ {i}
    BY <1>1, <1>2, <1>3, <2>2, EntriesEmpty DEF InHand, Ids
  <2>5. /\ NowhereElse'
        /\ \A j \in Ids : Somewhere(j)' => Somewhere(j)
        /\ \A j \in Ids : j # i /\ Somewhere(j) => Somewhere(j)'
    BY <1>2, <1>4, <2>3, <2>4, Drop DEF Steady
  <2>6. Holds(w)'
    BY <1>1, <1>2, <1>5, <2>2 DEF Holds, At, Working, Closing, Opens, Polled
  <2>7. Keeps(w)'
    BY <1>1, <1>2, <1>3, <1>5, <2>2 DEF Keeps
  <2>8. OnceInv'
    BY <1>2, <1>4, <2>2, <2>3, HandOnce
  <2>9. QED
    BY <1>1, <1>2, <1>5, <2>3, <2>5, <2>6, <2>7, <2>8, Quiet
<1>6. CASE lock' = [lock EXCEPT ![i] = w] /\ lock[i] = None /\ UNCHANGED sock
  <2>1. PICK l \in {"recv_read", "resp_task"} : Goto(w, l)
    BY <1>1, <1>2, <1>3, <1>6 DEF TypeOK
  <2>2. pc'[w] = l /\ Jump(w, l, back[w]) /\ back[w] \in Backs /\ back' = back
    BY <1>1, <1>2, <2>1, JumpTo
  <2>3. l \in Labels /\ l \notin {"put_release", "open_unlock"}
          /\ pc[w] \notin {"put_release", "open_unlock"}
    BY <1>1 DEF Labels
  <2>4. /\ Others(w) /\ InHand(w)' = InHand(w) /\ OnceInv' /\ NowhereElse'
        /\ \A j \in Ids : Somewhere(j)' <=> Somewhere(j)
        /\ pc' \in [Threads -> Labels]
    BY <1>1, <1>2, <1>6, <2>2, <2>3, Still
  <2>5. TypeOK'
    BY <1>1, <1>2, <1>6, <2>4 DEF TypeOK
  <2>6. Holds(w)'
    BY <1>1, <1>2, <1>6, <2>2 DEF Holds, At, Working, Closing, Opens, Polled
  <2>7. \A j \in Ids : lock'[j] = IF j = i THEN w ELSE lock[j]
    BY <1>2, <1>6 DEF TypeOK
  <2>8. Keeps(w)'
    BY <1>1, <1>2, <1>3, <1>6, <2>2, <2>4, <2>7 DEF Keeps
  <2>9. \A j \in Ids : j >= fresh => lock'[j] = lock[j]
    BY <1>2, <1>3, <2>7 DEF TypeOK, Ids
  <2>10. QED
    BY <1>1, <1>2, <1>6, <2>4, <2>5, <2>6, <2>7, <2>8, <2>9, Quiet
<1>7. QED
  BY <1>1, <1>5, <1>6

LEMMA PutBackInv == ASSUME IInv, NEW w \in Workers, PutBack(w) PROVE IInv'
<1> USE DEF locals, polling, table
<1> DEFINE i == sock[w]
<1>1. /\ pc[w] = "put_back" /\ pc[w] \in Working /\ Enqueue("blocking", i)
      /\ Goto(w, "put_release") /\ UNCHANGED <<table, polling, lock, locals>>
  BY DEF PutBack, Working
<1>2. /\ i \in Ids /\ i # 0 /\ new[w] = 0 /\ batch[w] = <<>> /\ poller # w
      /\ w # Plugin /\ w \in Threads /\ TypeOK /\ w # None
  BY <1>1, InWork, ThreadsAssumption
<1>3. Keeps(w) /\ Holds(w) /\ InHand(w) = {i}
  BY <1>1, <1>2, WorkHand DEF IInv, ThreadInv
<1>4. /\ queue' \in [Queues -> Seq(Ids)] /\ \A r \in Queues : Once(queue'[r])
      /\ Gain("blocking", i) /\ (poller # None => queue'["blocking"] = queue["blocking"])
  <2>1. i \notin Waiting("blocking") /\ "blocking" \in Queues
    BY <1>2, <1>3 DEF IInv, NowhereElse, Queues
  <2>2. QED
    BY <1>1, <1>2, <2>1, EnqueueGains
<1>5. pc'[w] = "put_release" /\ pc' \in [Threads -> Labels] /\ back'[w] = back[w]
  BY <1>1, <1>2 DEF Goto, TypeOK, Labels
<1>6. TypeOK' /\ Others(w)
  BY <1>1, <1>2, <1>4, <1>5 DEF TypeOK, Others, Goto
<1>7. InHand(w)' = InHand(w) \ {i}
  BY <1>1, <1>2, <1>3, <1>5, EntriesEmpty DEF InHand, Ids
<1>8. NowhereElse' /\ \A j \in Ids : Somewhere(j)' <=> Somewhere(j)
  BY <1>2, <1>3, <1>4, <1>6, <1>7, Put DEF Queues
<1>9. Holds(w)'
  BY <1>1, <1>2, <1>3, <1>5 DEF Holds, At, Working, Closing, Opens, Polled
<1>10. Keeps(w)'
  BY <1>1, <1>2, <1>3, <1>5 DEF Keeps
<1>11. OnceInv'
  BY <1>1, <1>2, <1>4, <1>6, EntriesEmpty, HandOnce
<1>12. QED
  BY <1>1, <1>2, <1>4, <1>6, <1>8, <1>9, <1>10, <1>11, Quiet

LEMMA PutReleaseInv == ASSUME IInv, NEW w \in Workers, PutRelease(w) PROVE IInv'
<1> USE DEF locals, polling, table
<1> DEFINE i == sock[w]
<1>1. /\ pc[w] = "put_release" /\ pc[w] \in Working /\ lock' = [lock EXCEPT ![i] = None]
      /\ sock' = [sock EXCEPT ![w] = 0] /\ Goto(w, back[w])
      /\ UNCHANGED <<table, polling, queue, back, new, batch, dest>>
  BY DEF PutRelease, Working, Unlock
<1>2. /\ i \in Ids /\ i # 0 /\ new[w] = 0 /\ batch[w] = <<>> /\ poller # w
      /\ w # Plugin /\ w \in Threads /\ TypeOK /\ w # None
  BY <1>1, InWork, ThreadsAssumption
<1>3. Keeps(w) /\ InHand(w) = {} /\ back[w] \in {"receive", "respond"}
  BY <1>1, <1>2, WorkHand DEF IInv, ThreadInv, Holds
<1>4. pc'[w] \in {"receive", "respond"} /\ pc' \in [Threads -> Labels] /\ sock'[w] = 0
  BY <1>1, <1>2, <1>3 DEF Goto, TypeOK, Labels
<1>5. TypeOK' /\ Others(w)
  BY <1>1, <1>2, <1>4 DEF TypeOK, Others, Goto
<1>6. InHand(w)' = InHand(w) /\ Steady
  BY <1>1, <1>2, <1>3, <1>4, EntriesEmpty DEF InHand, Ids, Steady, Waiting
<1>7. NowhereElse' /\ \A j \in Ids : Somewhere(j)' <=> Somewhere(j)
  BY <1>2, <1>5, <1>6, Stay
<1>8. Holds(w)'
  BY <1>1, <1>2, <1>4 DEF Holds, At, Working, Closing, Opens, Polled
<1>9. \A j \in Ids : lock'[j] = IF j = i THEN None ELSE lock[j]
  BY <1>1, <1>2 DEF TypeOK
<1>10. Keeps(w)'
  BY <1>1, <1>2, <1>3, <1>4, <1>9 DEF Keeps
<1>11. OnceInv'
  BY <1>1, <1>2, <1>4, <1>5, EntriesEmpty, HandOnce DEF IInv, OnceInv
<1>12. QED
  BY <1>1, <1>2, <1>5, <1>7, <1>8, <1>9, <1>10, <1>11, Quiet

-----------------------------------------------------------------------------
(* Closing.                                                                *)

LEMMA InClose ==
  ASSUME IInv, NEW t \in Threads, pc[t] \in Closing
  PROVE  /\ Victim(t) \in Ids /\ Victim(t) # 0 /\ Victim(t) \in InHand(t)
         /\ Victim(t) < fresh /\ Holds(t) /\ Keeps(t) /\ TypeOK /\ t # None
         /\ InHand(t) = Entries(batch[t]) \cup ({sock[t], new[t]} \ {0})
         /\ sock[t] # 0 => sock[t] # new[t] /\ sock[t] \notin Entries(batch[t])
         /\ new[t] \notin Entries(batch[t]) /\ Once(batch[t])
<1>1. Holds(t) /\ Keeps(t) /\ TypeOK /\ t # None
  BY ThreadsAssumption DEF IInv, ThreadInv
<1>2. sock[t] # 0 \/ new[t] # 0
  BY <1>1 DEF Holds, At, Closing, Working, Opens, TypeOK
<1>3. sock[t] \in Ids \cup {0} /\ new[t] \in Ids \cup {0} /\ 0 \notin Ids
  BY <1>1 DEF TypeOK, Ids
<1>4. InHand(t) = Entries(batch[t]) \cup ({sock[t], new[t]} \ {0})
  BY <1>3 DEF InHand, Closing
<1>5. Victim(t) \in Ids /\ Victim(t) # 0 /\ Victim(t) \in InHand(t)
  BY <1>2, <1>3, <1>4 DEF Victim
<1>6. Somewhere(Victim(t))
  BY <1>5 DEF Somewhere
<1>7. Victim(t) < fresh
  BY <1>1, <1>5, <1>6 DEF IInv, FreshInv, TypeOK, Ids
<1>8. QED
  BY <1>1, <1>4, <1>5, <1>7 DEF IInv, OnceInv

LEMMA CloseReleaseInv == ASSUME IInv, NEW t \in Threads, CloseRelease(t) PROVE IInv'
<1> USE DEF locals, polling, table
<1> DEFINE i == Victim(t)
<1>1. /\ pc[t] \in Closing /\ lock' = [lock EXCEPT ![i] = None] /\ Goto(t, "dereg")
      /\ UNCHANGED <<table, polling, queue, locals>> /\ pc[t] = "close_release"
  BY DEF CloseRelease, Closing, Unlock
<1>2. i \in Ids /\ i # 0 /\ Holds(t) /\ Keeps(t) /\ TypeOK /\ t # None
  BY <1>1, InClose
<1>3. pc'[t] = "dereg" /\ Jump(t, "dereg", back[t]) /\ back[t] \in Backs
  BY <1>1, <1>2, JumpTo
<1>4. /\ Others(t) /\ InHand(t)' = InHand(t) /\ OnceInv' /\ NowhereElse'
      /\ \A j \in Ids : Somewhere(j)' <=> Somewhere(j)
      /\ pc' \in [Threads -> Labels]
  BY <1>1, <1>2, <1>3, Still DEF Labels
<1>5. TypeOK'
  BY <1>1, <1>2, <1>4 DEF TypeOK
<1>6. Holds(t)'
  BY <1>1, <1>2, <1>3 DEF Holds, At, Working, Closing, Opens, Polled
<1>7. \A j \in Ids : lock'[j] = IF j = i THEN None ELSE lock[j]
  BY <1>1, <1>2 DEF TypeOK
<1>8. Victim(t)' = Victim(t)
  BY <1>1 DEF Victim
<1>9. Keeps(t)'
  BY <1>1, <1>2, <1>3, <1>4, <1>7, <1>8 DEF Keeps
<1>10. QED
  BY <1>1, <1>2, <1>4, <1>5, <1>6, <1>7, <1>9, Quiet

LEMMA DeregInv == ASSUME IInv, NEW t \in Threads, Dereg(t) PROVE IInv'
<1> USE DEF locals, polling, table
<1> DEFINE i == Victim(t)
<1>1. /\ pc[t] \in Closing /\ Goto(t, "free_id") /\ kind' = [kind EXCEPT ![i] = "free"]
      /\ connecting' = [connecting EXCEPT ![i] = FALSE] /\ work' = [work EXCEPT ![i] = <<>>]
      /\ UNCHANGED <<fresh, freeIds, sends, polling, queue, lock, locals>> /\ pc[t] = "dereg"
  BY DEF Dereg, Closing
<1>2. i \in Ids /\ i # 0 /\ Holds(t) /\ Keeps(t) /\ TypeOK /\ t # None
  BY <1>1, InClose
<1>3. pc'[t] = "free_id" /\ Jump(t, "free_id", back[t]) /\ back[t] \in Backs
  BY <1>1, <1>2, JumpTo
<1>4. /\ Others(t) /\ InHand(t)' = InHand(t) /\ OnceInv' /\ NowhereElse'
      /\ \A j \in Ids : Somewhere(j)' <=> Somewhere(j)
      /\ pc' \in [Threads -> Labels]
  BY <1>1, <1>2, <1>3, Still DEF Labels
<1>5. TypeOK'
  <2>1. <<>> \in Seq(Ops)
    BY EmptySeq
  <2>2. QED
    BY <1>1, <1>2, <1>4, <2>1 DEF TypeOK
<1>6. Holds(t)'
  BY <1>1, <1>2, <1>3 DEF Holds, At, Working, Closing, Opens, Polled
<1>7. \A j \in Ids : kind'[j] = IF j = i THEN "free" ELSE kind[j]
  BY <1>1, <1>2 DEF TypeOK
<1>8. Victim(t)' = Victim(t)
  BY <1>1 DEF Victim
<1>9. Keeps(t)'
  BY <1>1, <1>2, <1>3, <1>4, <1>7, <1>8 DEF Keeps
<1>10. QED
  BY <1>1, <1>2, <1>4, <1>5, <1>6, <1>7, <1>9, Quiet

LEMMA FreeIdInv == ASSUME IInv, NEW t \in Threads, FreeId(t) PROVE IInv'
<1> USE DEF locals, polling, table
<1>0. PICK i \in Ids : i = Victim(t)
  BY InClose DEF FreeId, Closing
<1>1. /\ pc[t] \in Closing /\ freeIds' = Append(freeIds, i) /\ Goto(t, back[t])
      /\ IF new[t] # 0
         THEN new' = [new EXCEPT ![t] = 0] /\ UNCHANGED sock
         ELSE sock' = [sock EXCEPT ![t] = 0] /\ UNCHANGED new
      /\ UNCHANGED <<kind, connecting, work, fresh, sends, polling, queue, lock, back,
                     batch, dest>>
      /\ pc[t] = "free_id"
  BY <1>0 DEF FreeId, Closing
<1>2. /\ i \in Ids /\ i # 0 /\ i \in InHand(t)
      /\ Holds(t) /\ Keeps(t) /\ TypeOK /\ t # None
      /\ InHand(t) = Entries(batch[t]) \cup ({sock[t], new[t]} \ {0})
      /\ sock[t] # 0 => sock[t] # new[t] /\ sock[t] \notin Entries(batch[t])
      /\ new[t] \notin Entries(batch[t]) /\ Once(batch[t])
  BY <1>0, <1>1, InClose
<1>3. /\ pc'[t] = back[t] /\ pc' \in [Threads -> Labels]
      /\ back[t] \in {"receive", "respond", "scan", "dispatch", "plugin", "idle"}
  BY <1>1, <1>2 DEF Goto, TypeOK, Labels
<1>4. sock'[t] = (IF new[t] # 0 THEN sock[t] ELSE 0) /\ new'[t] = 0
  BY <1>1, <1>2 DEF TypeOK
<1>5. TypeOK'
  <2>1. freeIds' \in Seq(Ids)
    BY <1>1, <1>2, AppendProperties DEF TypeOK
  <2>2. QED
    BY <1>1, <1>2, <1>3, <2>1 DEF TypeOK
<1>6. Others(t)
  BY <1>1, <1>2 DEF Others, TypeOK, Goto
<1>7. InHand(t)' = InHand(t) \ {i}
  <2>1. InHand(t)' = Entries(batch[t]) \cup ({sock'[t]} \ {0})
    BY <1>1, <1>3, <1>4, <1>5 DEF InHand, TypeOK, Ids, Entries
  <2>2. QED
    BY <1>0, <1>2, <1>4, <2>1 DEF Victim
<1>8. /\ NowhereElse'
      /\ \A j \in Ids : Somewhere(j)' => Somewhere(j)
      /\ \A j \in Ids : j # i /\ Somewhere(j) => Somewhere(j)'
      /\ Steady
  <2>1. Steady
    BY <1>1 DEF Steady, Waiting
  <2>2. QED
    BY <1>2, <1>6, <1>7, <2>1, Drop
<1>9. kind[i] = "free" /\ lock[i] # t
  BY <1>0, <1>1, <1>2 DEF Keeps
<1>10. ~ Somewhere(i)'
  <2>1. /\ \A q \in Queues : i \notin Waiting(q)
        /\ \A u \in Threads : u # t => i \notin InHand(u)
    BY <1>2 DEF IInv, NowhereElse
  <2>2. \A u \in Threads : u # t => InHand(u)' = InHand(u)
    BY <1>6, OthersHands
  <2>3. QED
    BY <1>7, <1>8, <2>1, <2>2 DEF Somewhere, Steady
<1>11. Holds(t)'
  BY <1>1, <1>2, <1>3, <1>4 DEF Holds, At, Working, Closing, Opens, Polled
<1>12. Keeps(t)'
  BY <1>1, <1>2, <1>3, <1>7, <1>9 DEF Keeps
<1>13. OnceInv'
  <2>1. 0 \notin Entries(batch[t])
    BY <1>2, EntriesIds DEF TypeOK
  <2>2. \A q \in Queues : Once(queue'[q])
    BY <1>1 DEF IInv, OnceInv
  <2>3. QED
    BY <1>1, <1>2, <1>4, <1>6, <2>1, <2>2, HandOnce
<1>14. QED
  BY <1>1, <1>2, <1>5, <1>6, <1>7, <1>8, <1>9, <1>10, <1>11, <1>12, <1>13, Quiet

-----------------------------------------------------------------------------
(* Accepting.                                                              *)

LEMMA InAccept ==
  ASSUME IInv, NEW w \in Workers,
         pc[w] \in {"accept", "listen_release", "listen_enq", "disp_enq", "dispatch"}
  PROVE  /\ sock[w] = 0 /\ new[w] = 0 /\ poller # w /\ w # Plugin /\ w # None
         /\ w \in Threads /\ TypeOK /\ Keeps(w) /\ InHand(w) = Entries(batch[w])
         /\ pc[w] \in Polled => batch[w] # <<>>
         /\ batch[w] \in Seq(Ids) /\ Once(batch[w]) /\ 0 \notin Entries(batch[w])
<1>1. Holds(w) /\ Keeps(w) /\ w \in Threads /\ w # Plugin /\ TypeOK /\ w # None
  BY WorkerThread DEF IInv, ThreadInv
<1>2. sock[w] = 0 /\ new[w] = 0 /\ poller # w /\ (pc[w] \in Polled => batch[w] # <<>>)
  BY <1>1 DEF Holds, At, Working, Closing, Opens, Polled
<1>3. batch[w] \in Seq(Ids) /\ Once(batch[w]) /\ 0 \notin Entries(batch[w])
  BY <1>1, EntriesIds DEF TypeOK, IInv, OnceInv
<1>4. InHand(w) = Entries(batch[w])
  BY <1>2 DEF InHand, Ids
<1>5. QED
  BY <1>1, <1>2, <1>3, <1>4

LEMMA BetweenInv ==
  ASSUME IInv, NEW w \in Workers,
         AcceptNone(w) \/ AcceptEnd(w) \/ PollSkip(w) \/ DispatchEnd(w)
  PROVE  IInv'
<1> USE DEF locals, polling, table
<1> DEFINE l == IF AcceptNone(w) THEN "listen_release"
                ELSE IF AcceptEnd(w) THEN "poll_bl" ELSE "receive"
<1>1. /\ pc[w] \in {"accept", "dispatch", "poll_bl"} /\ Goto(w, l)
      /\ UNCHANGED <<table, polling, queue, lock, locals>>
      /\ l = "listen_release" => batch[w] # <<>>
      /\ l # "listen_release" => batch[w] = <<>> \/ pc[w] = "poll_bl"
      /\ l \in {"listen_release", "poll_bl", "receive"}
  BY DEF AcceptNone, AcceptEnd, PollSkip, DispatchEnd
<1> HIDE DEF l
<1>2. /\ sock[w] = 0 /\ new[w] = 0 /\ poller # w /\ w # Plugin /\ w \in Threads /\ TypeOK
      /\ pc[w] = "poll_bl" => batch[w] = <<>>
  BY <1>1, InAccept, InBetween
<1>3. pc'[w] = l /\ Jump(w, l, back[w]) /\ back[w] \in Backs /\ back' = back
  BY <1>1, <1>2, JumpTo
<1>4. Holds(w)'
  BY <1>1, <1>2, <1>3 DEF Holds, At, Working, Closing, Opens, Polled
<1>5. l \in Labels \ Guarded
  BY <1>1 DEF Labels, Guarded
<1>6. QED
  BY <1>1, <1>2, <1>3, <1>4, <1>5, Proceed DEF TypeOK

LEMMA PollIncomingInv == ASSUME IInv, NEW w \in Workers, PollIncoming(w) PROVE IInv'
<1> USE DEF locals, polling, table
<1> DEFINE s == queue["incoming"]
<1>1. /\ pc[w] = "poll_in" /\ batch' = [batch EXCEPT ![w] = s]
      /\ queue' = [queue EXCEPT !["incoming"] = <<>>]
      /\ lock' = [i \in Ids |-> IF i \in Entries(s) THEN w ELSE lock[i]]
      /\ Goto(w, "accept")
      /\ UNCHANGED <<table, polling, back, sock, new, dest>>
  BY DEF PollIncoming, Entries
<1>2. /\ sock[w] = 0 /\ new[w] = 0 /\ batch[w] = <<>> /\ poller # w /\ InHand(w) = {}
      /\ w # Plugin /\ w # None /\ w \in Threads /\ TypeOK
      /\ \A i \in Ids : lock[i] # w
  BY <1>1, InBetween
<1>3. /\ s \in Seq(Ids) /\ Once(s) /\ 0 \notin Entries(s) /\ Entries(s) \subseteq Ids
      /\ Waiting("incoming") = Entries(s) /\ "incoming" \in Queues
  BY <1>2, EntriesIds, WaitingEntries DEF TypeOK, Queues, IInv, OnceInv
<1> HIDE DEF s
<1>4. pc'[w] = "accept" /\ batch'[w] = s /\ pc' \in [Threads -> Labels]
  BY <1>1, <1>2 DEF Goto, TypeOK, Labels
<1>5. /\ \A q \in Queues : q # "incoming" => queue'[q] = queue[q]
      /\ queue'["incoming"] = <<>> /\ queue' \in [Queues -> Seq(Ids)]
  <2>1. <<>> \in Seq(Ids)
    BY EmptySeq
  <2>2. QED
    BY <1>1, <1>2, <1>3, <2>1 DEF TypeOK
<1>6. TypeOK' /\ Others(w)
  BY <1>1, <1>2, <1>3, <1>4, <1>5 DEF TypeOK, Others, Goto
<1>7. InHand(w)' = Entries(s)
  BY <1>1, <1>2, <1>4 DEF InHand, Ids, Entries
<1>8. \A q \in Queues : Waiting(q)' = IF q = "incoming" THEN {} ELSE Waiting(q)
  <2>1. Waiting("incoming")' = {}
    BY <1>5 DEF Waiting
  <2>2. ASSUME NEW q \in Queues, q # "incoming" PROVE Waiting(q)' = Waiting(q)
    BY <1>1, <1>5, <2>2 DEF Waiting
  <2>3. QED
    BY <2>1, <2>2
<1>9. \A u \in Threads : InHand(u)' = IF u = w THEN Entries(s) ELSE InHand(u)
  BY <1>2, <1>6, <1>7, OthersHands
<1>10. NowhereElse'
  BY <1>2, <1>3, <1>8, <1>9 DEF NowhereElse, IInv
<1>11. \A j \in Ids : Somewhere(j)' <=> Somewhere(j)
  BY <1>2, <1>3, <1>8, <1>9 DEF Somewhere
<1>12. Holds(w)'
  BY <1>1, <1>2, <1>4 DEF Holds, At, Working, Closing, Opens, Polled
<1>13. Keeps(w)'
  BY <1>1, <1>2, <1>4, <1>7 DEF Keeps
<1>14. OnceInv'
  <2>1. \A q \in Queues : Once(queue'[q])
    BY <1>5, EntriesEmpty DEF IInv, OnceInv
  <2>2. QED
    BY <1>1, <1>2, <1>3, <1>4, <1>6, <2>1, HandOnce
<1>15. \A i \in Ids : i >= fresh => lock'[i] \in {lock[i], None}
  <2>1. \A i \in Entries(s) : Somewhere(i)
    BY <1>3 DEF Somewhere
  <2>2. QED
    BY <1>1, <1>3, <2>1 DEF IInv, FreshInv
<1>16. QED
  BY <1>1, <1>2, <1>5, <1>6, <1>10, <1>11, <1>12, <1>13, <1>14, <1>15, Quiet DEF Queues

(* A new identifier is nowhere, and nobody has locked it.                  *)
LEMMA RegisterNew ==
  ASSUME IInv, NeverReused, NEW i \in Ids, NEW k \in Kinds \cup {"accepted"}, Register(i, k)
  PROVE  /\ i = fresh /\ fresh' = fresh + 1 /\ fresh' \in 2 .. Max /\ ~ Somewhere(i)
         /\ kind[i] = "free" /\ lock[i] = None
         /\ \A j \in Ids : kind'[j] = IF j = i THEN k ELSE kind[j]
         /\ kind' \in [Ids -> Kinds \cup {"free", "listener", "accepted"}]
         /\ UNCHANGED <<connecting, work, freeIds, sends>>
<1>1. i = fresh /\ fresh' = fresh + 1 /\ UNCHANGED freeIds /\ fresh < Max
  BY DEF Register, NeverReused
<1>2. TypeOK /\ fresh \in 2 .. Max
  BY DEF IInv, TypeOK
<1>3. fresh' \in 2 .. Max
  BY <1>1, <1>2, MaxAssumption
<1>4. ~ Somewhere(i) /\ kind[i] = "free" /\ lock[i] = None
  BY <1>1, <1>2 DEF IInv, FreshInv, Ids
<1>5. QED
  BY <1>1, <1>2, <1>3, <1>4 DEF Register, TypeOK

(* A thread that registers a socket has it in hand.                        *)
LEMMA Registered ==
  ASSUME IInv, NeverReused, NEW t \in Threads, NEW i \in Ids,
         NEW k \in Kinds \cup {"accepted"}, Register(i, k),
         new[t] = 0, new' = [new EXCEPT ![t] = i],
         NEW l \in {"accept_enq", "open_lock"}, Jump(t, l, back[t]), t # poller,
         pc[t] \notin {"put_release", "open_unlock"},
         UNCHANGED <<polling, queue, lock, sock, batch, dest>>, Holds(t)'
  PROVE  IInv'
<1> USE DEF locals, polling, table
<1>1. /\ i = fresh /\ fresh' = fresh + 1 /\ fresh' \in 2 .. Max /\ ~ Somewhere(i)
      /\ kind[i] = "free" /\ lock[i] = None
      /\ \A j \in Ids : kind'[j] = IF j = i THEN k ELSE kind[j]
      /\ kind' \in [Ids -> Kinds \cup {"free", "listener", "accepted"}]
      /\ UNCHANGED <<connecting, work, freeIds, sends>>
  BY RegisterNew
<1>2. TypeOK /\ Keeps(t) /\ t # None
  BY ThreadsAssumption DEF IInv, ThreadInv
<1>3. /\ pc'[t] = l /\ pc' \in [Threads -> Labels] /\ new'[t] = i
      /\ back' = [back EXCEPT ![t] = back[t]]
  BY <1>2 DEF Jump, TypeOK, Labels
<1>4. TypeOK' /\ Others(t)
  BY <1>1, <1>2, <1>3 DEF TypeOK, Others, Jump
<1>5. InHand(t)' = InHand(t) \cup {i}
  BY <1>2, <1>3 DEF InHand, Ids, Entries
<1>6. \A u \in Threads : InHand(u)' = IF u = t THEN InHand(u) \cup {i} ELSE InHand(u)
  BY <1>4, <1>5, OthersHands
<1>7. Steady
  BY DEF Steady, Waiting
<1>8. /\ \A q \in Queues : i \notin Waiting(q)
      /\ \A u \in Threads : i \notin InHand(u)
  BY <1>1 DEF Somewhere
<1>9. NowhereElse'
  BY <1>6, <1>7, <1>8 DEF NowhereElse, Steady, IInv
<1>10. \A j \in Ids : Somewhere(j)' <=> Somewhere(j) \/ j = i
  BY <1>6, <1>7 DEF Somewhere, Steady
<1>11. ThreadInv'
  <2>1. Keeps(t)'
    <3>1. \A j \in Ids : lock'[j] = t => j \in InHand(t)'
      BY <1>2, <1>5 DEF Keeps
    <3>2. lock'[new'[t]] # t
      BY <1>1, <1>2, <1>3
    <3>3. QED
      BY <1>3, <3>1, <3>2 DEF Keeps
  <2>2. ASSUME NEW u \in Threads, u # t PROVE Holds(u)'
    BY <1>4, <2>2, OthersHold
  <2>3. ASSUME NEW u \in Threads, u # t PROVE Keeps(u)'
    <3>1. InHand(u) \subseteq Ids
      BY <1>2, SocketIds
    <3>2. \A j \in InHand(u) : kind'[j] \in {kind[j], "free"}
      BY <1>1, <1>8, <3>1
    <3>3. \A j \in Ids : lock'[j] \in {lock[j], t, None}
      OBVIOUS
    <3>4. QED
      BY <1>4, <2>3, <3>2, <3>3, OthersKeep
  <2>4. QED
    BY <2>1, <2>2, <2>3 DEF ThreadInv
<1>12. OnceInv'
  <2>1. OnceInv
    BY DEF IInv
  <2>2. Once(batch[t]) /\ sock[t] # i /\ i \notin Entries(batch[t])
    BY <1>1, <1>2, <1>8, <2>1 DEF OnceInv, InHand, IInv, FreshInv
  <2>3. QED
    BY <1>3, <1>4, <2>1, <2>2, HandOnce DEF OnceInv
<1>13. FreshInv'
  <2>1. SUFFICES ASSUME NEW j \in Ids, j >= fresh'
                 PROVE  kind'[j] = "free" /\ lock'[j] = None /\ ~ Somewhere(j)'
    BY DEF FreshInv
  <2>2. j >= fresh /\ j # i
    BY <1>1, <1>2, <2>1 DEF TypeOK, Ids
  <2>3. kind[j] = "free" /\ lock[j] = None /\ ~ Somewhere(j)
    BY <2>2 DEF IInv, FreshInv
  <2>4. QED
    BY <1>1, <1>10, <2>2, <2>3
<1>14. PlaceInv'
  BY <1>1, <1>10 DEF IInv, PlaceInv
<1>15. ScanInv'
  <2>1. poller # None => poller \in Threads /\ InHand(poller)' = InHand(poller)
    BY <1>2, <1>6 DEF TypeOK, Threads
  <2>2. ASSUME NEW m \in 1 .. scanned, NEW j \in Ids, j = queue["blocking"][m]
        PROVE  j \in InHand(poller)' \/ (j < fresh' /\ kind'[j] = "free" /\ ~ Somewhere(j)')
    <3>1. poller # None
      BY DEF IInv, ScanInv
    <3>2. j \in InHand(poller) \/ (j < fresh /\ kind[j] = "free" /\ ~ Somewhere(j))
      BY <2>2 DEF IInv, ScanInv
    <3>3. j < fresh => j < fresh' /\ j # i
      BY <1>1, <1>2 DEF TypeOK, Ids
    <3>4. QED
      BY <1>1, <1>10, <2>1, <3>1, <3>2, <3>3
  <2>3. ASSUME NEW m \in 1 .. scanned PROVE queue["blocking"][m] \in Ids
    BY <1>2 DEF IInv, ScanInv, TypeOK, Queues
  <2>4. poller # None => batch'[poller] = batch[poller]
    OBVIOUS
  <2>5. /\ scanned <= Len(queue["blocking"]) /\ (poller = None => scanned = 0)
        /\ poller # None => \A j \in Entries(batch[poller]) :
              \E m \in 1 .. scanned : queue["blocking"][m] = j
    BY DEF IInv, ScanInv
  <2>6. queue' = queue /\ poller' = poller /\ scanned' = scanned
    OBVIOUS
  <2>7. poller # None => Entries(batch[poller])' = Entries(batch[poller])
    BY <2>4, <2>6 DEF Entries
  <2>8. QED
    BY <2>2, <2>3, <2>5, <2>6, <2>7 DEF ScanInv
<1>16. QED
  BY <1>4, <1>9, <1>11, <1>12, <1>13, <1>14, <1>15 DEF IInv

LEMMA AcceptOneInv == ASSUME IInv, NeverReused, NEW w \in Workers, AcceptOne(w) PROVE IInv'
<1> USE DEF locals, polling, table
<1>1. PICK i \in Ids : Register(i, "accepted") /\ new' = [new EXCEPT ![w] = i]
  BY DEF AcceptOne
<1>2. /\ pc[w] = "accept" /\ batch[w] # <<>> /\ Goto(w, "accept_enq")
      /\ UNCHANGED <<polling, queue, lock, back, sock, batch, dest>>
  BY DEF AcceptOne
<1>3. sock[w] = 0 /\ new[w] = 0 /\ poller # w /\ w # Plugin /\ w \in Threads /\ TypeOK
  BY <1>2, InAccept
<1>4. pc'[w] = "accept_enq" /\ Jump(w, "accept_enq", back[w])
  BY <1>2, <1>3, JumpTo
<1>5. new'[w] = i /\ i # 0
  BY <1>1, <1>3 DEF TypeOK, Ids
<1>6. Holds(w)'
  BY <1>2, <1>3, <1>4, <1>5 DEF Holds, At, Working, Closing, Opens, Polled
<1>7. QED
  BY <1>1, <1>2, <1>3, <1>4, <1>6, Registered

LEMMA AcceptEnqueueInv == ASSUME IInv, NEW w \in Workers, AcceptEnqueue(w) PROVE IInv'
<1> USE DEF locals, polling, table
<1>0. w \in Threads /\ w # Plugin /\ w # None /\ TypeOK /\ Holds(w) /\ Keeps(w)
  BY WorkerThread DEF IInv, ThreadInv
<1>1. /\ pc[w] = "accept_enq" /\ Enqueue("blocking", new[w])
      /\ new' = [new EXCEPT ![w] = 0] /\ Goto(w, "listen_release")
      /\ UNCHANGED <<table, polling, lock, back, sock, batch, dest>>
  BY DEF AcceptEnqueue
<1>2. /\ sock[w] = 0 /\ new[w] # 0 /\ batch[w] # <<>> /\ poller # w /\ new[w] \in Ids
      /\ new[w] \notin Entries(batch[w]) /\ Once(batch[w]) /\ 0 \notin Entries(batch[w])
  <2>1. sock[w] = 0 /\ new[w] # 0 /\ batch[w] # <<>> /\ poller # w
    BY <1>0, <1>1 DEF Holds, At, Working, Closing, Opens, Polled
  <2>2. QED
    BY <1>0, <2>1, EntriesIds DEF TypeOK, IInv, OnceInv
<1>3. PICK i \in Ids : i = new[w]
  BY <1>2
<1>4. InHand(w) = Entries(batch[w]) \cup {i}
  BY <1>0, <1>1, <1>2, <1>3 DEF InHand, Ids
<1>5. /\ queue' \in [Queues -> Seq(Ids)] /\ \A r \in Queues : Once(queue'[r])
      /\ Gain("blocking", i) /\ (poller # None => queue'["blocking"] = queue["blocking"])
  <2>1. i \notin Waiting("blocking") /\ "blocking" \in Queues
    BY <1>0, <1>4 DEF IInv, NowhereElse, Queues
  <2>2. QED
    BY <1>1, <1>3, <2>1, EnqueueGains
<1>6. pc'[w] = "listen_release" /\ pc' \in [Threads -> Labels] /\ new'[w] = 0
  BY <1>0, <1>1 DEF Goto, TypeOK, Labels
<1>7. TypeOK' /\ Others(w)
  BY <1>0, <1>1, <1>5, <1>6 DEF TypeOK, Others, Goto
<1>8. InHand(w)' = InHand(w) \ {i}
  BY <1>1, <1>2, <1>3, <1>4, <1>6 DEF InHand, Ids, Entries
<1>9. NowhereElse' /\ \A j \in Ids : Somewhere(j)' <=> Somewhere(j)
  BY <1>0, <1>4, <1>5, <1>7, <1>8, Put DEF Queues
<1>10. Holds(w)'
  BY <1>0, <1>1, <1>2, <1>6 DEF Holds, At, Working, Closing, Opens, Polled
<1>11. Keeps(w)'
  <2>1. lock[i] # w
    BY <1>0, <1>1, <1>3 DEF Keeps
  <2>2. QED
    BY <1>0, <1>1, <1>6, <1>8, <2>1 DEF Keeps
<1>12. OnceInv'
  BY <1>0, <1>1, <1>2, <1>5, <1>6, <1>7, HandOnce
<1>13. QED
  BY <1>0, <1>1, <1>2, <1>5, <1>7, <1>9, <1>10, <1>11, <1>12, Quiet

(* The first socket of a batch, unlocked and then queued: a listener in    *)
(* ListenRelease and ListenEnqueue, a polled socket in Dispatch and        *)
(* DispatchEnqueue.                                                        *)
LEMMA BatchUnlock ==
  ASSUME IInv, NEW w \in Workers, pc[w] \in {"listen_release", "dispatch"}, batch[w] # <<>>,
         Unlock(Head(batch[w])),
         Goto(w, IF pc[w] = "dispatch" THEN "disp_enq" ELSE "listen_enq"),
         UNCHANGED <<polling, queue, back, sock, new, batch, kind, fresh, freeIds, sends>>,
         connecting' \in [Ids -> BOOLEAN], work' \in [Ids -> Seq(Ops)],
         dest' \in [Threads -> Queues]
  PROVE  IInv'
<1> USE DEF locals, polling, table
<1>1. /\ sock[w] = 0 /\ new[w] = 0 /\ poller # w /\ w # Plugin /\ w # None
      /\ w \in Threads /\ TypeOK /\ Keeps(w) /\ InHand(w) = Entries(batch[w])
      /\ batch[w] \in Seq(Ids)
  BY InAccept
<1>2. PICK l \in {"listen_enq", "disp_enq"} :
        l = IF pc[w] = "dispatch" THEN "disp_enq" ELSE "listen_enq"
  OBVIOUS
<1>3. PICK i \in Ids : i = Head(batch[w])
  BY <1>1, HeadTailProperties
<1>4. /\ pc'[w] = l /\ Jump(w, l, back[w]) /\ back[w] \in Backs /\ back' = back
      /\ l \in Labels
  BY <1>1, <1>2, JumpTo DEF Labels
<1>5. /\ Others(w) /\ InHand(w)' = InHand(w) /\ OnceInv' /\ NowhereElse'
      /\ \A j \in Ids : Somewhere(j)' <=> Somewhere(j)
      /\ pc' \in [Threads -> Labels]
  BY <1>1, <1>4, Still
<1>6. TypeOK'
  BY <1>1, <1>3, <1>5 DEF TypeOK, Unlock
<1>7. Holds(w)'
  BY <1>1, <1>4 DEF Holds, At, Working, Closing, Opens, Polled
<1>8. \A j \in Ids : lock'[j] = IF j = i THEN None ELSE lock[j]
  BY <1>1, <1>3 DEF Unlock, TypeOK
<1>9. Keeps(w)'
  <2>1. Head(batch[w])' = i
    BY <1>3
  <2>2. QED
    BY <1>1, <1>4, <1>5, <1>8, <2>1 DEF Keeps
<1>10. QED
  BY <1>1, <1>5, <1>6, <1>7, <1>8, <1>9, Quiet

LEMMA BatchEnqueue ==
  ASSUME IInv, NEW w \in Workers, pc[w] \in {"listen_enq", "disp_enq"}, NEW q \in Queues,
         Enqueue(q, Head(batch[w])), batch' = [batch EXCEPT ![w] = Tail(@)],
         Goto(w, IF pc[w] = "disp_enq" THEN "dispatch" ELSE "accept"),
         UNCHANGED <<table, polling, lock, back, sock, new>>,
         dest' \in [Threads -> Queues]
  PROVE  IInv'
<1> USE DEF locals, polling, table
<1>1. /\ sock[w] = 0 /\ new[w] = 0 /\ poller # w /\ w # Plugin /\ w # None
      /\ w \in Threads /\ TypeOK /\ Keeps(w) /\ InHand(w) = Entries(batch[w])
      /\ batch[w] # <<>>
      /\ batch[w] \in Seq(Ids) /\ Once(batch[w]) /\ 0 \notin Entries(batch[w])
  BY InAccept DEF Polled
<1>2. PICK l \in {"accept", "dispatch"} :
        l = IF pc[w] = "disp_enq" THEN "dispatch" ELSE "accept"
  OBVIOUS
<1>3. /\ Head(batch[w]) \in Entries(batch[w]) /\ Once(Tail(batch[w]))
      /\ Entries(Tail(batch[w])) = Entries(batch[w]) \ {Head(batch[w])}
      /\ Head(batch[w]) \in Ids /\ Tail(batch[w]) \in Seq(Ids)
  BY <1>1, EntriesTail
<1>4. PICK i \in Ids : i = Head(batch[w])
  BY <1>3
<1>5. /\ queue' \in [Queues -> Seq(Ids)] /\ \A r \in Queues : Once(queue'[r])
      /\ Gain(q, i) /\ (poller # None => queue'["blocking"] = queue["blocking"])
  <2>1. i \notin Waiting(q)
    BY <1>1, <1>3, <1>4 DEF IInv, NowhereElse
  <2>2. QED
    BY <1>4, <2>1, EnqueueGains
<1>6. pc'[w] = l /\ pc' \in [Threads -> Labels] /\ batch'[w] = Tail(batch[w])
  BY <1>1, <1>2 DEF Goto, TypeOK, Labels
<1>7. TypeOK' /\ Others(w)
  BY <1>1, <1>3, <1>5, <1>6 DEF TypeOK, Others, Goto
<1>8. InHand(w)' = InHand(w) \ {i}
  <2>1. Entries(batch[w])' = Entries(batch[w]) \ {i}
    BY <1>3, <1>4, <1>6 DEF Entries
  <2>2. InHand(w)' = Entries(batch[w])'
    BY <1>1 DEF InHand, Ids
  <2>3. QED
    BY <1>1, <2>1, <2>2
<1>9. NowhereElse' /\ \A j \in Ids : Somewhere(j)' <=> Somewhere(j)
  BY <1>1, <1>3, <1>4, <1>5, <1>7, <1>8, Put
<1>10. Holds(w)'
  BY <1>1, <1>6 DEF Holds, At, Working, Closing, Opens, Polled
<1>11. Keeps(w)'
  <2>1. lock[i] # w
    BY <1>1, <1>4 DEF Keeps
  <2>2. QED
    BY <1>1, <1>6, <1>8, <2>1 DEF Keeps
<1>12. OnceInv'
  BY <1>1, <1>3, <1>5, <1>6, <1>7, HandOnce
<1>13. QED
  BY <1>1, <1>5, <1>7, <1>9, <1>10, <1>11, <1>12, Quiet

LEMMA ListenInv ==
  ASSUME IInv, NEW w \in Workers, ListenRelease(w) \/ ListenEnqueue(w)
  PROVE  IInv'
<1> USE DEF locals, polling, table
<1>1. CASE ListenRelease(w)
  <2>1. /\ pc[w] = "listen_release" /\ Unlock(Head(batch[w])) /\ Goto(w, "listen_enq")
        /\ UNCHANGED <<table, polling, queue, locals>>
    BY <1>1 DEF ListenRelease
  <2>2. batch[w] # <<>> /\ TypeOK
    BY <2>1, InAccept DEF Polled
  <2>3. QED
    BY <2>1, <2>2, BatchUnlock DEF TypeOK
<1>2. CASE ListenEnqueue(w)
  <2>1. /\ pc[w] = "listen_enq" /\ Enqueue("incoming", Head(batch[w]))
        /\ batch' = [batch EXCEPT ![w] = Tail(@)] /\ Goto(w, "accept")
        /\ UNCHANGED <<table, polling, lock, back, sock, new, dest>>
    BY <1>2 DEF ListenEnqueue
  <2>2. TypeOK /\ "incoming" \in Queues
    BY DEF IInv, Queues
  <2>3. QED
    BY <2>1, <2>2, BatchEnqueue DEF TypeOK
<1>3. QED
  BY <1>1, <1>2

LEMMA DispatchInv ==
  ASSUME IInv, NEW w \in Workers,
         DispatchReadable(w) \/ DispatchWritable(w) \/ DispatchBlocking(w)
  PROVE  IInv'
<1> USE DEF locals, polling, table
<1>1. PICK q \in Queues : Dispatch(w, q)
  BY DEF DispatchReadable, DispatchWritable, DispatchBlocking, Queues
<1>2. pc[w] = "dispatch" /\ batch[w] # <<>> /\ UNCHANGED table /\ TypeOK
  BY DEF DispatchReadable, DispatchWritable, DispatchBlocking, Sorting, IInv
<1>3. /\ Unlock(Head(batch[w])) /\ Goto(w, "disp_enq")
      /\ UNCHANGED <<polling, queue, back, sock, new, batch>>
      /\ dest' = [dest EXCEPT ![w] = q]
  BY <1>1 DEF Dispatch, First
<1>4. dest' \in [Threads -> Queues]
  BY <1>2, <1>3 DEF TypeOK
<1>5. QED
  BY <1>2, <1>3, <1>4, BatchUnlock DEF TypeOK

LEMMA DispatchEnqueueInv == ASSUME IInv, NEW w \in Workers, DispatchEnqueue(w) PROVE IInv'
<1> USE DEF locals, polling, table
<1>1. /\ pc[w] = "disp_enq" /\ Enqueue(dest[w], Head(batch[w]))
      /\ batch' = [batch EXCEPT ![w] = Tail(@)] /\ Goto(w, "dispatch")
      /\ UNCHANGED <<table, polling, lock, back, sock, new>>
      /\ dest' = [dest EXCEPT ![w] = "blocking"]
  BY DEF DispatchEnqueue, First
<1>2. dest[w] \in Queues /\ dest' \in [Threads -> Queues]
  BY <1>1, WorkerThread DEF IInv, TypeOK, Queues
<1>3. QED
  BY <1>1, <1>2, BatchEnqueue

LEMMA DispatchErrorInv == ASSUME IInv, NEW w \in Workers, DispatchError(w) PROVE IInv'
<1> USE DEF locals, polling, table
<1>1. pc[w] = "dispatch" /\ batch[w] # <<>>
  BY DEF DispatchError, Sorting
<1>2. /\ sock[w] = 0 /\ new[w] = 0 /\ poller # w /\ w # Plugin /\ w # None
      /\ w \in Threads /\ TypeOK /\ Keeps(w) /\ InHand(w) = Entries(batch[w])
      /\ batch[w] \in Seq(Ids) /\ Once(batch[w]) /\ 0 \notin Entries(batch[w])
  BY <1>1, InAccept
<1>3. /\ Head(batch[w]) \in Entries(batch[w]) /\ Once(Tail(batch[w]))
      /\ Entries(Tail(batch[w])) = Entries(batch[w]) \ {Head(batch[w])}
      /\ Head(batch[w]) \in Ids /\ Tail(batch[w]) \in Seq(Ids)
  BY <1>1, <1>2, EntriesTail
<1>4. PICK i \in Ids : i = First(w)
  BY <1>3 DEF First
<1>5. CASE Persist(i) /\ Dispatch(w, "blocking")
  <2>1. /\ connecting' \in [Ids -> BOOLEAN] /\ work' \in [Ids -> Seq(Ops)]
        /\ UNCHANGED <<kind, fresh, freeIds, sends>>
    BY <1>2, <1>5, PersistTypes
  <2>2. /\ Unlock(Head(batch[w])) /\ Goto(w, "disp_enq")
        /\ UNCHANGED <<polling, queue, back, sock, new, batch>>
        /\ dest' = [dest EXCEPT ![w] = "blocking"]
    BY <1>5 DEF Dispatch, First
  <2>3. dest' \in [Threads -> Queues]
    BY <1>2, <2>2 DEF TypeOK, Queues
  <2>4. QED
    BY <1>1, <2>1, <2>2, <2>3, BatchUnlock
<1>6. CASE /\ sock' = [sock EXCEPT ![w] = i] /\ batch' = [batch EXCEPT ![w] = Tail(@)]
           /\ Jump(w, "close_release", "dispatch")
           /\ UNCHANGED <<table, polling, queue, lock, new, dest>>
  <2>1. /\ pc'[w] = "close_release" /\ back'[w] = "dispatch" /\ sock'[w] = i
        /\ batch'[w] = Tail(batch[w]) /\ i # 0
    BY <1>2, <1>6 DEF Jump, TypeOK, Ids
  <2>2. TypeOK' /\ Others(w)
    BY <1>2, <1>3, <1>6 DEF TypeOK, Jump, Others, Labels
  <2>3. InHand(w)' = InHand(w)
    <3>1. Entries(batch[w])' = Entries(batch[w]) \ {i}
      BY <1>3, <1>4, <2>1 DEF Entries, First
    <3>2. InHand(w)' = Entries(batch[w])' \cup {i}
      BY <1>2, <1>6, <2>1 DEF InHand, Ids
    <3>3. QED
      BY <1>2, <1>3, <1>4, <3>1, <3>2 DEF First
  <2>4. Steady
    BY <1>6 DEF Steady, Waiting
  <2>5. NowhereElse' /\ \A j \in Ids : Somewhere(j)' <=> Somewhere(j)
    BY <1>2, <2>2, <2>3, <2>4, Stay
  <2>6. Holds(w)'
    BY <1>2, <1>6, <2>1 DEF Holds, At, Working, Closing, Opens, Polled
  <2>7. Keeps(w)'
    BY <1>2, <1>6, <1>1, <2>1, <2>3 DEF Keeps
  <2>8. OnceInv'
    <3>1. \A q \in Queues : Once(queue'[q])
      BY <1>6 DEF IInv, OnceInv
    <3>2. QED
      BY <1>2, <1>3, <1>4, <1>6, <2>1, <2>2, <3>1, HandOnce DEF First
  <2>9. QED
    BY <1>2, <1>6, <2>2, <2>5, <2>6, <2>7, <2>8, Quiet
<1>7. QED
  BY <1>4, <1>5, <1>6 DEF DispatchError, GotoThen, Goto, Jump, Dispatch

-----------------------------------------------------------------------------
(* What a plugin does.                                                     *)

LEMMA Thread ==
  ASSUME IInv, NEW t \in Threads
  PROVE  TypeOK /\ Holds(t) /\ Keeps(t) /\ t # None /\ (t # Plugin => t \in Workers)
BY ThreadsAssumption DEF IInv, ThreadInv, Threads

LEMMA SendInv ==
  ASSUME IInv, NEW t \in Threads, NEW i \in Ids, NEW op \in Ops, Send(t, i, op)
  PROVE  IInv'
<1> USE DEF locals, polling, table
<1>1. /\ pc[t] \in {"idle", "plugin"} /\ sends < MaxSends
      /\ work' = [work EXCEPT ![i] = Append(@, op)] /\ sends' = sends + 1
      /\ UNCHANGED <<kind, connecting, fresh, freeIds, polling, queue, lock, pc, locals>>
  BY DEF Send, InPlugin
<1>2. TypeOK /\ Holds(t)
  BY Thread
<1>3. Jump(t, pc[t], back[t]) /\ back[t] \in Backs /\ pc[t] \in Labels \ Guarded
  BY <1>1, <1>2 DEF Jump, TypeOK, Backs, Guarded
<1>4. Append(work[i], op) \in Seq(Ops)
  BY <1>2, AppendProperties DEF TypeOK
<1>5. work' \in [Ids -> Seq(Ops)]
  BY <1>1, <1>2, <1>4 DEF TypeOK
<1>6. sends' \in 0 .. MaxSends
  BY <1>1, <1>2, BoundAssumption DEF TypeOK
<1>7. Holds(t)'
  BY <1>1, <1>2 DEF Holds, At
<1>8. QED
  BY <1>1, <1>2, <1>3, <1>5, <1>6, <1>7, Proceed DEF TypeOK

LEMMA OpenRegisterInv ==
  ASSUME IInv, NeverReused, NEW t \in Threads, OpenRegister(t)
  PROVE  IInv'
<1> USE DEF locals, polling, table
<1>1. PICK i \in Ids, k \in Kinds : Register(i, k) /\ new' = [new EXCEPT ![t] = i]
  BY DEF OpenRegister
<1>2. /\ pc[t] = (IF t = Plugin THEN "idle" ELSE "plugin") /\ Goto(t, "open_lock")
      /\ UNCHANGED <<polling, queue, lock, back, sock, batch, dest>>
  BY DEF OpenRegister, InPlugin
<1>3. TypeOK /\ Holds(t)
  BY Thread
<1>4. /\ new[t] = 0 /\ t # poller /\ batch[t] = <<>>
      /\ sock[t] # 0 <=> t # Plugin
  BY <1>2, <1>3 DEF Holds, At, Working, Closing, Opens, Polled
<1>5. pc'[t] = "open_lock" /\ Jump(t, "open_lock", back[t])
  BY <1>2, <1>3, JumpTo
<1>6. new'[t] = i /\ i # 0
  BY <1>1, <1>3 DEF TypeOK, Ids
<1>7. Holds(t)'
  BY <1>2, <1>4, <1>5, <1>6 DEF Holds, At, Working, Closing, Opens, Polled
<1>8. QED
  BY <1>1, <1>2, <1>4, <1>5, <1>7, Registered

(* Where a thread opens a socket, it has registered it.                    *)
LEMMA InOpen ==
  ASSUME IInv, NEW t \in Threads, pc[t] \in Opens
  PROVE  /\ new[t] \in Ids /\ new[t] # 0 /\ t # poller /\ batch[t] = <<>>
         /\ sock[t] # new[t] /\ (sock[t] # 0 <=> t # Plugin)
         /\ InHand(t) = (IF pc[t] = "open_unlock" THEN {} ELSE {new[t]}) \cup ({sock[t]} \ {0})
         /\ pc[t] # "open_unlock" => new[t] < fresh
<1>1. TypeOK /\ Holds(t)
  BY Thread
<1>2. /\ new[t] # 0 /\ t # poller /\ batch[t] = <<>>
      /\ sock[t] # 0 <=> t # Plugin
  BY <1>1 DEF Holds, At, Working, Closing, Opens, Polled
<1>3. new[t] \in Ids /\ sock[t] \in Ids \cup {0} /\ sock[t] # new[t] /\ 0 \notin Ids
  BY <1>1, <1>2 DEF TypeOK, Ids, IInv, OnceInv
<1>4. InHand(t) = (IF pc[t] = "open_unlock" THEN {} ELSE {new[t]}) \cup ({sock[t]} \ {0})
  BY <1>2, <1>3, EntriesEmpty DEF InHand, Opens
<1>5. pc[t] # "open_unlock" => new[t] < fresh
  <2>1. pc[t] # "open_unlock" => Somewhere(new[t])
    BY <1>4 DEF Somewhere
  <2>2. QED
    BY <1>1, <1>3, <2>1 DEF IInv, FreshInv, TypeOK, Ids
<1>6. QED
  BY <1>2, <1>3, <1>4, <1>5

LEMMA OpenLockInv == ASSUME IInv, NEW t \in Threads, OpenLock(t) PROVE IInv'
<1> USE DEF locals, polling, table
<1>1. /\ pc[t] = "open_lock" /\ pc[t] \in Opens /\ Lock(t, new[t]) /\ Goto(t, "connect")
      /\ UNCHANGED <<table, polling, queue, locals>>
  BY DEF OpenLock, Opens
<1>2. /\ new[t] \in Ids /\ new[t] # 0 /\ t # poller /\ batch[t] = <<>>
      /\ (sock[t] # 0 <=> t # Plugin) /\ new[t] \in InHand(t) /\ new[t] < fresh
      /\ TypeOK /\ Keeps(t) /\ t # None
  BY <1>1, InOpen, Thread
<1>3. PICK i \in Ids : i = new[t]
  BY <1>2
<1>4. pc'[t] = "connect" /\ Jump(t, "connect", back[t]) /\ back[t] \in Backs
  BY <1>1, <1>2, JumpTo
<1>5. /\ Others(t) /\ InHand(t)' = InHand(t) /\ OnceInv' /\ NowhereElse'
      /\ \A j \in Ids : Somewhere(j)' <=> Somewhere(j)
      /\ pc' \in [Threads -> Labels]
  BY <1>1, <1>2, <1>4, Still DEF Labels
<1>6. \A j \in Ids : lock'[j] = IF j = i THEN t ELSE lock[j]
  BY <1>1, <1>2, <1>3 DEF Lock, TypeOK
<1>7. TypeOK'
  BY <1>1, <1>2, <1>5 DEF TypeOK, Lock
<1>8. Holds(t)'
  BY <1>1, <1>2, <1>4 DEF Holds, At, Working, Closing, Opens, Polled
<1>9. Keeps(t)'
  BY <1>1, <1>2, <1>3, <1>4, <1>5, <1>6 DEF Keeps
<1>10. \A j \in Ids : j >= fresh => lock'[j] = lock[j]
  BY <1>2, <1>3, <1>6 DEF TypeOK, Ids
<1>11. QED
  BY <1>1, <1>2, <1>5, <1>6, <1>7, <1>8, <1>9, <1>10, Quiet

LEMMA ConnectInv ==
  ASSUME IInv, NEW t \in Threads, Connect(t) \/ ConnectFail(t)
  PROVE  IInv'
<1> USE DEF locals, polling, table
<1>1. /\ pc[t] = "connect" /\ pc[t] \in Opens
      /\ UNCHANGED <<kind, work, fresh, freeIds, sends, polling, queue, lock, sock, new,
                     batch, dest>>
  BY DEF Connect, ConnectFail, Opens
<1>2. /\ new[t] \in Ids /\ new[t] # 0 /\ t # poller /\ batch[t] = <<>>
      /\ (sock[t] # 0 <=> t # Plugin) /\ TypeOK
  BY <1>1, InOpen, Thread
<1>3. connecting' \in [Ids -> BOOLEAN]
  BY <1>2 DEF TypeOK, Connect, ConnectFail
<1>4. CASE Connect(t)
  <2>1. pc'[t] = "open_enq" /\ Jump(t, "open_enq", back[t]) /\ back[t] \in Backs
    BY <1>2, <1>4, JumpTo DEF Connect
  <2>2. Holds(t)'
    BY <1>1, <1>2, <2>1 DEF Holds, At, Working, Closing, Opens, Polled
  <2>3. QED
    BY <1>1, <1>2, <1>3, <2>1, <2>2, Proceed DEF TypeOK, Labels, Guarded
<1>5. CASE ConnectFail(t)
  <2>1. Jump(t, "close_release", Return(t))
    BY <1>5 DEF ConnectFail, GotoThen, Goto, Jump
  <2>2. pc'[t] = "close_release" /\ back'[t] = IF t = Plugin THEN "idle" ELSE "plugin"
    BY <1>2, <2>1 DEF Jump, TypeOK, Return
  <2>3. Holds(t)'
    BY <1>1, <1>2, <2>2 DEF Holds, At, Working, Closing, Opens, Polled
  <2>4. QED
    BY <1>1, <1>2, <1>3, <2>1, <2>3, Proceed DEF TypeOK, Labels, Guarded, Return, Backs
<1>6. QED
  BY <1>4, <1>5

LEMMA OpenEnqueueInv == ASSUME IInv, NEW t \in Threads, OpenEnqueue(t) PROVE IInv'
<1> USE DEF locals, polling, table
<1>1. /\ pc[t] = "open_enq" /\ pc[t] \in Opens /\ Enqueue("blocking", new[t])
      /\ Goto(t, "open_unlock") /\ UNCHANGED <<table, polling, lock, locals>>
  BY DEF OpenEnqueue, Opens
<1>2. /\ new[t] \in Ids /\ new[t] # 0 /\ t # poller /\ batch[t] = <<>> /\ sock[t] # new[t]
      /\ (sock[t] # 0 <=> t # Plugin) /\ InHand(t) = {new[t]} \cup ({sock[t]} \ {0})
      /\ TypeOK /\ Keeps(t) /\ t # None
  BY <1>1, InOpen, Thread
<1>3. PICK i \in Ids : i = new[t]
  BY <1>2
<1>4. /\ queue' \in [Queues -> Seq(Ids)] /\ \A r \in Queues : Once(queue'[r])
      /\ Gain("blocking", i) /\ (poller # None => queue'["blocking"] = queue["blocking"])
  <2>1. i \notin Waiting("blocking") /\ "blocking" \in Queues
    BY <1>2, <1>3 DEF IInv, NowhereElse, Queues
  <2>2. QED
    BY <1>1, <1>3, <2>1, EnqueueGains
<1>5. pc'[t] = "open_unlock" /\ pc' \in [Threads -> Labels]
  BY <1>1, <1>2 DEF Goto, TypeOK, Labels
<1>6. TypeOK' /\ Others(t)
  BY <1>1, <1>2, <1>4, <1>5 DEF TypeOK, Others, Goto
<1>7. InHand(t)' = InHand(t) \ {i}
  <2>1. InHand(t)' = {sock[t]} \ {0}
    BY <1>1, <1>2, <1>5, EntriesEmpty DEF InHand, TypeOK, Ids
  <2>2. QED
    BY <1>2, <1>3, <2>1
<1>8. NowhereElse' /\ \A j \in Ids : Somewhere(j)' <=> Somewhere(j)
  BY <1>2, <1>3, <1>4, <1>6, <1>7, Put DEF Queues
<1>9. Holds(t)'
  BY <1>1, <1>2, <1>5 DEF Holds, At, Working, Closing, Opens, Polled
<1>10. Keeps(t)'
  BY <1>1, <1>2, <1>3, <1>5, <1>7 DEF Keeps
<1>11. OnceInv'
  BY <1>1, <1>2, <1>4, <1>6, EntriesEmpty, HandOnce
<1>12. QED
  BY <1>1, <1>2, <1>4, <1>6, <1>8, <1>9, <1>10, <1>11, Quiet

LEMMA OpenUnlockInv == ASSUME IInv, NEW t \in Threads, OpenUnlock(t) PROVE IInv'
<1> USE DEF locals, polling, table
<1>1. /\ pc[t] = "open_unlock" /\ pc[t] \in Opens /\ Unlock(new[t])
      /\ new' = [new EXCEPT ![t] = 0] /\ Goto(t, Return(t))
      /\ UNCHANGED <<table, polling, queue, back, sock, batch, dest>>
  BY DEF OpenUnlock, Opens
<1>2. /\ new[t] \in Ids /\ new[t] # 0 /\ t # poller /\ batch[t] = <<>>
      /\ (sock[t] # 0 <=> t # Plugin) /\ InHand(t) = {sock[t]} \ {0}
      /\ TypeOK /\ Keeps(t) /\ t # None
  BY <1>1, InOpen, Thread
<1>3. PICK i \in Ids : i = new[t]
  BY <1>2
<1>4. /\ pc'[t] = (IF t = Plugin THEN "idle" ELSE "plugin") /\ pc' \in [Threads -> Labels]
      /\ new'[t] = 0
  BY <1>1, <1>2 DEF Goto, TypeOK, Labels, Return
<1>5. \A j \in Ids : lock'[j] = IF j = i THEN None ELSE lock[j]
  BY <1>1, <1>2, <1>3 DEF Unlock, TypeOK
<1>6. TypeOK' /\ Others(t)
  BY <1>1, <1>2, <1>4 DEF TypeOK, Others, Goto, Unlock
<1>7. InHand(t)' = InHand(t) /\ Steady
  <2>1. InHand(t)' = {sock[t]} \ {0}
    BY <1>1, <1>2, <1>4, EntriesEmpty DEF InHand, TypeOK, Ids
  <2>2. QED
    BY <1>1, <1>2, <2>1 DEF Steady, Waiting
<1>8. NowhereElse' /\ \A j \in Ids : Somewhere(j)' <=> Somewhere(j)
  BY <1>2, <1>6, <1>7, Stay
<1>9. Holds(t)'
  BY <1>1, <1>2, <1>4 DEF Holds, At, Working, Closing, Opens, Polled
<1>10. Keeps(t)'
  <2>1. \A j \in Ids : lock'[j] = t => j \in InHand(t)'
    BY <1>1, <1>2, <1>3, <1>5, <1>7 DEF Keeps
  <2>2. QED
    BY <1>4, <2>1 DEF Keeps
<1>11. OnceInv'
  <2>1. \A q \in Queues : Once(queue'[q])
    BY <1>1 DEF IInv, OnceInv
  <2>2. QED
    BY <1>1, <1>2, <1>4, <1>6, <2>1, EntriesEmpty, HandOnce
<1>12. QED
  BY <1>1, <1>2, <1>5, <1>6, <1>7, <1>8, <1>9, <1>10, <1>11, Quiet

-----------------------------------------------------------------------------
(* Polling _blocking.                                                      *)

LEMMA InScan ==
  ASSUME IInv, NEW w \in Workers, pc[w] = "scan"
  PROVE  /\ poller = w /\ sock[w] = 0 /\ new[w] = 0 /\ w # Plugin /\ w # None
         /\ w \in Threads /\ TypeOK /\ Keeps(w) /\ InHand(w) = Entries(batch[w])
         /\ batch[w] \in Seq(Ids) /\ Once(batch[w]) /\ 0 \notin Entries(batch[w])
         /\ \A i \in Ids : lock[i] = w => i \in InHand(w)
<1>1. Holds(w) /\ Keeps(w) /\ w \in Threads /\ w # Plugin /\ TypeOK /\ w # None
  BY WorkerThread DEF IInv, ThreadInv
<1>2. sock[w] = 0 /\ new[w] = 0 /\ poller = w
  BY <1>1 DEF Holds, At, Working, Closing, Opens, Polled
<1>3. batch[w] \in Seq(Ids) /\ Once(batch[w]) /\ 0 \notin Entries(batch[w])
  BY <1>1, EntriesIds DEF TypeOK, IInv, OnceInv
<1>4. InHand(w) = Entries(batch[w])
  BY <1>2 DEF InHand, Ids
<1>5. QED
  BY <1>1, <1>2, <1>3, <1>4 DEF Keeps

LEMMA NextEntry ==
  ASSUME IInv, NEW w \in Workers, Scanning(w)
  PROVE  /\ Entry \in Ids /\ Entry \in Waiting("blocking") /\ Entry \notin InHand(w)
         /\ Entry < fresh /\ Somewhere(Entry)
         /\ scanned \in Nat /\ scanned + 1 \in 1 .. Len(queue["blocking"])
         /\ \A k \in 1 .. (scanned + 1) : k \in 1 .. scanned \/ k = scanned + 1
         /\ \A k \in 1 .. scanned : queue["blocking"][k] \in Ids
                                    /\ queue["blocking"][k] # Entry
         /\ scanned' = scanned + 1 /\ queue' = queue => Lose("blocking", Entry)
<1> DEFINE s == queue["blocking"]
<1>1. /\ TypeOK /\ s \in Seq(Ids) /\ scanned \in Nat /\ Len(s) \in Nat
      /\ Once(s) /\ scanned < Len(s) /\ Entry = s[scanned + 1] /\ w \in Threads
  BY WorkerThread DEF IInv, TypeOK, Queues, OnceInv, Scanning, Entry
<1>2. /\ scanned + 1 \in 1 .. Len(s) /\ Entry \in Ids
      /\ \A k \in 1 .. (scanned + 1) : k \in 1 .. scanned \/ k = scanned + 1
      /\ \A k \in 1 .. scanned : k \in 1 .. Len(s) /\ k # scanned + 1
  BY <1>1
<1>3. \A k \in 1 .. scanned : s[k] \in Ids /\ s[k] # Entry
  BY <1>1, <1>2 DEF Once
<1>4. Entry \in Waiting("blocking")
  BY <1>1, <1>2 DEF Waiting
<1>5. Entry \notin InHand(w) /\ Somewhere(Entry)
  BY <1>1, <1>4 DEF IInv, NowhereElse, Somewhere, Queues
<1>6. Entry < fresh
  BY <1>1, <1>2, <1>5 DEF IInv, FreshInv, TypeOK, Ids
<1>7. ASSUME scanned' = scanned + 1, queue' = queue
      PROVE  Lose("blocking", Entry)
  <2>1. ASSUME NEW r \in Queues, r # "blocking" PROVE Waiting(r)' = Waiting(r)
    BY <1>7, <2>1 DEF Waiting
  <2>2. Waiting("blocking")' = {s[k] : k \in {k \in 1 .. Len(s) : k > scanned + 1}}
    BY <1>7 DEF Waiting
  <2>3. Waiting("blocking") = {s[k] : k \in {k \in 1 .. Len(s) : k > scanned}}
    BY DEF Waiting
  <2>4. \A k \in 1 .. Len(s) : k > scanned <=> k > scanned + 1 \/ k = scanned + 1
    BY <1>1
  <2>5. \A k \in 1 .. Len(s) : s[k] = Entry <=> k = scanned + 1
    BY <1>1, <1>2 DEF Once
  <2>6. \A k \in 1 .. Len(s) : k > scanned + 1 => k # scanned + 1
    BY <1>1
  <2> HIDE DEF s
  <2>7. Waiting("blocking")' = Waiting("blocking") \ {Entry}
    BY <2>2, <2>3, <2>4, <2>5, <2>6
  <2>8. QED
    BY <2>1, <2>7 DEF Lose
<1>8. QED
  BY <1>1, <1>2, <1>3, <1>4, <1>5, <1>6, <1>7

LEMMA ScanGoneInv == ASSUME IInv, NEW w \in Workers, ScanGone(w) PROVE IInv'
<1> USE DEF locals, table
<1>1. /\ Scanning(w) /\ kind[Entry] = "free" /\ scanned' = scanned + 1 /\ pc[w] = "scan"
      /\ UNCHANGED <<table, poller, queue, lock, pc, locals>>
  BY DEF ScanGone, Scanning
<1>2. poller = w /\ w \in Threads /\ TypeOK /\ w # None
  BY <1>1, InScan
<1>3. PICK e \in Ids : e = Entry
  BY <1>1, NextEntry
<1>4. /\ e \in Waiting("blocking") /\ e < fresh /\ Lose("blocking", e)
      /\ scanned \in Nat /\ scanned + 1 \in 1 .. Len(queue["blocking"])
      /\ \A k \in 1 .. (scanned + 1) : k \in 1 .. scanned \/ k = scanned + 1
      /\ queue["blocking"][scanned + 1] = e
  BY <1>1, <1>3, NextEntry DEF Entry
<1>5. TypeOK'
  BY <1>1, <1>2, <1>4 DEF TypeOK
<1>6. \A u \in Threads : InHand(u)' = InHand(u)
  BY <1>1 DEF InHand, Entries
<1>7. /\ \A j \in Ids : Somewhere(j)' => Somewhere(j)
      /\ \A j \in Ids : j # e /\ Somewhere(j) => Somewhere(j)'
  BY <1>4, <1>6 DEF Somewhere, Lose
<1>8. NowhereElse' /\ ~ Somewhere(e)'
  BY <1>4, <1>6 DEF NowhereElse, Lose, IInv, Somewhere, Queues
<1>9. OnceInv'
  BY <1>1 DEF IInv, OnceInv, Once, Entries
<1>10. ThreadInv'
  <2>1. Others(w)
    BY <1>1 DEF Others
  <2>2. ASSUME NEW u \in Threads PROVE Holds(u)' /\ Keeps(u)'
    BY <1>1, <1>6 DEF IInv, ThreadInv, Holds, At, Keeps, Victim
  <2>3. QED
    BY <2>2 DEF ThreadInv
<1>11. FreshInv'
  BY <1>1, <1>7 DEF IInv, FreshInv
<1>12. PlaceInv'
  BY <1>1, <1>3, <1>7 DEF IInv, PlaceInv
<1>13. ScanInv'
  <2>1. ASSUME NEW k \in 1 .. (scanned + 1), NEW i, i = queue["blocking"][k]
        PROVE  i \in InHand(w) \/ (i < fresh /\ kind[i] = "free" /\ ~ Somewhere(i)')
    <3>1. CASE k = scanned + 1
      BY <1>1, <1>3, <1>4, <1>8, <2>1, <3>1
    <3>2. CASE k \in 1 .. scanned
      <4>1. i \in Ids
        BY <1>1, <2>1, <3>2, NextEntry
      <4>2. QED
        BY <1>2, <1>7, <2>1, <3>2, <4>1 DEF IInv, ScanInv
    <3>3. QED
      BY <1>4, <3>1, <3>2
  <2>2. scanned' <= Len(queue["blocking"]) /\ scanned' = scanned + 1
    BY <1>1, <1>4
  <2>3. \A i \in Entries(batch[w]) : \E k \in 1 .. (scanned + 1) : queue["blocking"][k] = i
    <3>1. \A k \in 1 .. scanned : k \in 1 .. (scanned + 1)
      BY <1>4
    <3>2. QED
      BY <1>2, <3>1 DEF IInv, ScanInv
  <2>4. InHand(w)' = InHand(w) /\ Entries(batch[w])' = Entries(batch[w])
    BY <1>1, <1>2, <1>6 DEF Entries
  <2>5. poller' = w /\ w # None /\ queue' = queue /\ kind' = kind /\ fresh' = fresh
    BY <1>1, <1>2
  <2>6. QED
    BY <2>1, <2>2, <2>3, <2>4, <2>5 DEF ScanInv
<1>14. QED
  BY <1>5, <1>8, <1>9, <1>10, <1>11, <1>12, <1>13 DEF IInv

(* The poller locks the next entry and keeps it.                           *)
LEMMA TakeEntry ==
  ASSUME IInv, NEW w \in Workers, Scanning(w), NEW e \in Ids, e = Entry, lock[e] = None,
         lock' = [lock EXCEPT ![e] = w], scanned' = scanned + 1,
         UNCHANGED <<poller, queue, kind, fresh>>,
         TypeOK', Others(w), Holds(w)', OnceInv', InHand(w)' = InHand(w) \cup {e},
         pc'[w] \notin Guarded,
         Entries(batch'[w]) \subseteq Entries(batch[w]) \cup {e}
  PROVE  IInv'
<1>1. pc[w] = "scan"
  BY DEF Scanning
<1>2. /\ poller = w /\ w \in Threads /\ TypeOK /\ w # None /\ poller' = w
      /\ \A i \in Ids : lock[i] = w => i \in InHand(w)
  BY <1>1, InScan
<1>3. /\ e \in Waiting("blocking") /\ e < fresh /\ Lose("blocking", e)
      /\ scanned \in Nat /\ scanned + 1 \in 1 .. Len(queue["blocking"])
      /\ \A k \in 1 .. (scanned + 1) : k \in 1 .. scanned \/ k = scanned + 1
      /\ queue["blocking"][scanned + 1] = e
  BY NextEntry DEF Entry
<1>4. NowhereElse' /\ \A j \in Ids : Somewhere(j)' <=> Somewhere(j)
  BY <1>2, <1>3, Take DEF Queues
<1>5. \A j \in Ids : lock'[j] = IF j = e THEN w ELSE lock[j]
  BY <1>2 DEF TypeOK
<1>6. Keeps(w)'
  BY <1>2, <1>5 DEF Keeps, Guarded
<1>7. ThreadInv'
  <2>1. \A j \in Ids : lock'[j] \in {lock[j], w, None}
    BY <1>5
  <2>2. ASSUME NEW u \in Threads, u # w PROVE Holds(u)' /\ Keeps(u)'
    BY <1>2, <2>1, <2>2, OthersHold, OthersKeep
  <2>3. QED
    BY <1>6, <2>2 DEF ThreadInv
<1>8. FreshInv'
  <2>1. \A j \in Ids : j >= fresh => j # e
    BY <1>2, <1>3 DEF TypeOK, Ids
  <2>2. QED
    BY <1>4, <1>5, <2>1 DEF IInv, FreshInv
<1>9. PlaceInv'
  BY <1>4 DEF IInv, PlaceInv
<1>10. ScanInv'
  <2>1. ASSUME NEW k \in 1 .. (scanned + 1), NEW i, i = queue["blocking"][k]
        PROVE  i \in InHand(w)' \/ (i < fresh /\ kind[i] = "free" /\ ~ Somewhere(i)')
    <3>1. CASE k = scanned + 1
      BY <1>3, <2>1, <3>1
    <3>2. CASE k \in 1 .. scanned
      <4>1. i \in Ids
        BY <2>1, <3>2, NextEntry
      <4>2. QED
        BY <1>2, <1>4, <2>1, <3>2, <4>1 DEF IInv, ScanInv
    <3>3. QED
      BY <1>3, <3>1, <3>2
  <2>2. scanned' <= Len(queue["blocking"]) /\ scanned' = scanned + 1
    BY <1>3
  <2>3. \A i \in Entries(batch'[w]) : \E k \in 1 .. (scanned + 1) : queue["blocking"][k] = i
    <3>1. (\A k \in 1 .. scanned : k \in 1 .. (scanned + 1)) /\ scanned + 1 \in 1 .. (scanned + 1)
      BY <1>3
    <3>2. \A i \in Entries(batch[w]) : \E k \in 1 .. scanned : queue["blocking"][k] = i
      BY <1>2 DEF IInv, ScanInv
    <3>3. QED
      BY <1>3, <3>1, <3>2
  <2>4. Entries(batch[poller])' = Entries(batch'[w])
    BY <1>2 DEF Entries
  <2>5. queue' = queue /\ kind' = kind /\ fresh' = fresh
    OBVIOUS
  <2>6. QED
    BY <1>2, <2>1, <2>2, <2>3, <2>4, <2>5 DEF ScanInv
<1>11. QED
  BY <1>4, <1>7, <1>8, <1>9, <1>10 DEF IInv

(* The entry joins the polled sockets.                                     *)
LEMMA CollectEntry ==
  ASSUME IInv, NEW w \in Workers, Scanning(w), lock[Entry] = None, Lock(w, Entry), Collect(w),
         scanned' = scanned + 1,
         UNCHANGED <<poller, queue, kind, fresh, freeIds, sends, pc, back, sock, new, dest>>,
         connecting' \in [Ids -> BOOLEAN], work' \in [Ids -> Seq(Ops)]
  PROVE  IInv'
<1>1. pc[w] = "scan"
  BY DEF Scanning
<1>2. /\ poller = w /\ sock[w] = 0 /\ new[w] = 0 /\ w # Plugin
      /\ w \in Threads /\ TypeOK /\ InHand(w) = Entries(batch[w])
      /\ batch[w] \in Seq(Ids) /\ Once(batch[w]) /\ 0 \notin Entries(batch[w])
  BY <1>1, InScan
<1>3. PICK e \in Ids : e = Entry /\ e \notin InHand(w)
  BY NextEntry
<1>4. batch'[w] = Append(batch[w], e) /\ batch' \in [Threads -> Seq(Ids)]
  <2>1. Append(batch[w], e) \in Seq(Ids)
    BY <1>2, AppendProperties
  <2>2. QED
    BY <1>2, <1>3, <2>1 DEF Collect, TypeOK
<1>5. Entries(batch'[w]) = Entries(batch[w]) \cup {e} /\ Once(batch'[w])
  BY <1>2, <1>3, <1>4, EntriesAppend
<1>6. scanned' \in Nat
  BY NextEntry
<1>7. TypeOK' /\ Others(w)
  BY <1>2, <1>3, <1>4, <1>6 DEF TypeOK, Others, Collect, Lock
<1>8. InHand(w)' = InHand(w) \cup {e}
  <2>1. InHand(w)' = Entries(batch'[w])
    BY <1>2 DEF InHand, Ids, Entries
  <2>2. QED
    BY <1>2, <1>5, <2>1
<1>9. Holds(w)'
  BY <1>1, <1>2 DEF Holds, At, Working, Closing, Opens, Polled
<1>10. OnceInv'
  <2>1. 0 \notin Entries(batch'[w])
    BY <1>2, <1>5 DEF Ids
  <2>2. \A q \in Queues : Once(queue'[q])
    BY DEF IInv, OnceInv
  <2>3. QED
    BY <1>2, <1>5, <1>7, <2>1, <2>2, HandOnce
<1>11. QED
  BY <1>1, <1>3, <1>5, <1>7, <1>8, <1>9, <1>10, TakeEntry DEF Lock, Guarded

LEMMA ScanTakeInv ==
  ASSUME IInv, NEW w \in Workers, ScanTake(w) \/ ScanFail(w)
  PROVE  IInv'
<1> USE DEF locals, table
<1>0. Scanning(w) /\ TypeOK /\ pc[w] = "scan" /\ lock[Entry] = None /\ Lock(w, Entry)
        /\ scanned' = scanned + 1 /\ UNCHANGED <<poller, queue, new, dest>>
  BY DEF ScanTake, ScanFail, IInv, Scanning, Acquirable
<1>1. PICK e \in Ids : e = Entry /\ e \notin InHand(w)
  BY <1>0, NextEntry
<1>2. CASE ScanTake(w)
  <2>1. PICK c \in {connecting[Entry], FALSE} :
          connecting' = [connecting EXCEPT ![Entry] = c]
    BY <1>2 DEF ScanTake
  <2>2. c \in BOOLEAN
    BY <1>0, <1>1 DEF TypeOK
  <2>3. connecting' \in [Ids -> BOOLEAN]
    BY <1>0, <1>1, <2>1, <2>2 DEF TypeOK
  <2>4. Collect(w) /\ UNCHANGED <<kind, work, fresh, freeIds, sends, pc, back, sock>>
    BY <1>2 DEF ScanTake
  <2>5. work' \in [Ids -> Seq(Ops)]
    BY <1>0, <2>4 DEF TypeOK
  <2>6. QED
    BY <1>0, <2>3, <2>4, <2>5, CollectEntry
<1>3. CASE Persist(e) /\ Collect(w) /\ UNCHANGED <<pc, back, sock>>
  <2>1. /\ connecting' \in [Ids -> BOOLEAN] /\ work' \in [Ids -> Seq(Ops)]
        /\ UNCHANGED <<kind, fresh, freeIds, sends>>
    BY <1>0, <1>3, PersistTypes
  <2>2. QED
    BY <1>0, <1>3, <2>1, CollectEntry
<1>4. CASE /\ sock' = [sock EXCEPT ![w] = e] /\ Jump(w, "close_release", "scan")
           /\ UNCHANGED <<table, batch>>
  <2>1. /\ poller = w /\ sock[w] = 0 /\ new[w] = 0 /\ w # Plugin
        /\ w \in Threads /\ InHand(w) = Entries(batch[w])
        /\ batch[w] \in Seq(Ids) /\ Once(batch[w]) /\ 0 \notin Entries(batch[w])
    BY <1>0, InScan
  <2>2. /\ pc'[w] = "close_release" /\ back'[w] = "scan" /\ sock'[w] = e /\ e # 0
        /\ pc' \in [Threads -> Labels] /\ scanned' \in Nat
    BY <1>0, <1>4, <2>1, NextEntry DEF Jump, TypeOK, Ids, Labels
  <2>3. TypeOK' /\ Others(w)
    BY <1>0, <1>1, <1>4, <2>1, <2>2 DEF TypeOK, Jump, Others, Lock
  <2>4. InHand(w)' = InHand(w) \cup {e}
    BY <1>0, <1>4, <2>1, <2>2 DEF InHand, Ids, Entries
  <2>5. Holds(w)'
    BY <1>0, <1>4, <2>1, <2>2 DEF Holds, At, Working, Closing, Opens, Polled
  <2>6. OnceInv'
    <3>1. \A q \in Queues : Once(queue'[q])
      BY <1>0 DEF IInv, OnceInv
    <3>2. QED
      BY <1>0, <1>1, <1>4, <2>1, <2>2, <2>3, <3>1, HandOnce
  <2>7. pc'[w] \notin Guarded
    BY <2>2 DEF Guarded
  <2>8. Lock(w, Entry) /\ Entries(batch'[w]) \subseteq Entries(batch[w]) \cup {e}
    BY <1>0, <1>4
  <2>9. QED
    BY <1>0, <1>1, <1>4, <2>3, <2>4, <2>5, <2>6, <2>7, <2>8, TakeEntry DEF Lock
<1>5. QED
  BY <1>1, <1>2, <1>3, <1>4 DEF ScanFail, GotoThen, Goto, Jump

(* The poll begins or ends: what is left to show.                          *)
LEMMA PollEnds ==
  ASSUME IInv, NEW w \in Workers, {poller, poller'} \subseteq {w, None}, TypeOK',
         UNCHANGED <<kind, fresh>>, scanned' = 0, Others(w), Holds(w)', Keeps(w)', OnceInv',
         \A j \in Ids : lock'[j] \in {lock[j], None},
         NowhereElse', \A j \in Ids : Somewhere(j) => Somewhere(j)',
         \A j \in Ids : Somewhere(j)' => Somewhere(j) \/ (j < fresh),
         poller' = None \/ Entries(batch'[w]) = {}
  PROVE  IInv'
<1>1. w \in Threads /\ w # None /\ TypeOK
  BY WorkerThread DEF IInv
<1>2. ThreadInv'
  <2>1. \A j \in Ids : lock'[j] \in {lock[j], w, None}
    OBVIOUS
  <2>2. ASSUME NEW u \in Threads, u # w PROVE Holds(u)' /\ Keeps(u)'
    BY <1>1, <2>1, <2>2, OthersHold, OthersKeep
  <2>3. QED
    BY <2>2 DEF ThreadInv
<1>3. FreshInv'
  BY <1>1 DEF IInv, FreshInv, TypeOK, Ids
<1>4. PlaceInv'
  BY DEF IInv, PlaceInv
<1>5. ScanInv'
  <2>1. scanned' <= Len(queue["blocking"])'
    BY DEF TypeOK, Queues
  <2>2. poller' # None => poller' = w /\ Entries(batch[poller])' = {}
    BY DEF Entries
  <2>3. QED
    BY <2>1, <2>2 DEF ScanInv
<1>6. QED
  BY <1>2, <1>3, <1>4, <1>5 DEF IInv

LEMMA PollStartInv == ASSUME IInv, NEW w \in Workers, PollStart(w) PROVE IInv'
<1> USE DEF locals, table
<1>1. /\ pc[w] = "poll_bl" /\ poller = None /\ poller' = w /\ scanned' = 0 /\ Goto(w, "scan")
      /\ UNCHANGED <<table, queue, lock, locals>>
  BY DEF PollStart
<1>2. /\ sock[w] = 0 /\ new[w] = 0 /\ batch[w] = <<>>
      /\ w # Plugin /\ w # None /\ w \in Threads /\ TypeOK
      /\ \A i \in Ids : lock[i] # w
  BY <1>1, InBetween
<1>3. scanned = 0
  BY <1>1 DEF IInv, ScanInv
<1>4. pc'[w] = "scan" /\ Jump(w, "scan", back[w]) /\ back[w] \in Backs
  BY <1>1, <1>2, JumpTo
<1>5. /\ Others(w) /\ OnceInv' /\ NowhereElse' /\ InHand(w)' = InHand(w)
      /\ \A j \in Ids : Somewhere(j)' <=> Somewhere(j)
      /\ pc' \in [Threads -> Labels]
  BY <1>1, <1>2, <1>3, <1>4, Still DEF Labels
<1>6. TypeOK'
  BY <1>1, <1>2, <1>5 DEF TypeOK
<1>7. Holds(w)'
  BY <1>1, <1>2, <1>4 DEF Holds, At, Working, Closing, Opens, Polled
<1>8. Keeps(w)'
  BY <1>1, <1>2, <1>4 DEF Keeps
<1>9. Entries(batch'[w]) = {}
  BY <1>1, <1>2, EntriesEmpty
<1>10. QED
  BY <1>1, <1>5, <1>6, <1>7, <1>8, <1>9, PollEnds

(* When everything has been scanned, nothing waits in _blocking; its       *)
(* entries are in the hands of the poller or closed.                       *)
LEMMA AllScanned ==
  ASSUME IInv, NEW w \in Workers, Scanned(w)
  PROVE  /\ Waiting("blocking") = {} /\ queue["blocking"] \in Seq(Ids)
         /\ \A j \in Entries(queue["blocking"]) : j \in Ids /\
              (j \in InHand(w) \/ (j < fresh /\ ~ Somewhere(j)))
         /\ InHand(w) \subseteq Entries(queue["blocking"])
<1>1. pc[w] = "scan" /\ scanned = Len(queue["blocking"])
  BY DEF Scanned
<1>2. poller = w /\ w # None /\ TypeOK /\ InHand(w) = Entries(batch[w])
  BY <1>1, InScan
<1>3. queue["blocking"] \in Seq(Ids) /\ Len(queue["blocking"]) \in Nat
  BY <1>2 DEF TypeOK, Queues
<1>4. Waiting("blocking") = {}
  BY <1>1, <1>3 DEF Waiting
<1>5. \A j \in Entries(queue["blocking"]) : j \in Ids
  BY <1>3, EntriesIds
<1>6. ASSUME NEW k \in 1 .. Len(queue["blocking"]), NEW j \in Ids, j = queue["blocking"][k]
      PROVE  j \in InHand(w) \/ (j < fresh /\ ~ Somewhere(j))
  BY <1>1, <1>2, <1>6 DEF IInv, ScanInv
<1>7. \A j \in Entries(queue["blocking"]) : j \in InHand(w) \/ (j < fresh /\ ~ Somewhere(j))
  BY <1>5, <1>6 DEF Entries
<1>8. \A j \in Entries(batch[w]) : \E k \in 1 .. scanned : queue["blocking"][k] = j
  BY <1>2 DEF IInv, ScanInv
<1>9. InHand(w) \subseteq Entries(queue["blocking"])
  BY <1>1, <1>2, <1>8 DEF Entries
<1>10. QED
  BY <1>3, <1>4, <1>5, <1>7, <1>9

LEMMA PollDoneInv == ASSUME IInv, NEW w \in Workers, PollDone(w) PROVE IInv'
<1> USE DEF locals, table
<1>1. /\ Scanned(w) /\ pc[w] = "scan" /\ queue' = [queue EXCEPT !["blocking"] = <<>>]
      /\ poller' = None /\ scanned' = 0 /\ Goto(w, "dispatch")
      /\ UNCHANGED <<table, lock, locals>>
  BY DEF PollDone, Scanned
<1>2. /\ poller = w /\ sock[w] = 0 /\ new[w] = 0 /\ w # Plugin /\ w # None
      /\ w \in Threads /\ TypeOK /\ Keeps(w)
  BY <1>1, InScan
<1>3. pc'[w] = "dispatch" /\ back' = back /\ pc' \in [Threads -> Labels]
  BY <1>1, <1>2 DEF Goto, TypeOK, Labels
<1>4. /\ \A q \in Queues : q # "blocking" => queue'[q] = queue[q]
      /\ queue'["blocking"] = <<>> /\ queue' \in [Queues -> Seq(Ids)]
  <2>1. <<>> \in Seq(Ids)
    BY EmptySeq
  <2>2. QED
    BY <1>1, <1>2, <2>1 DEF TypeOK, Queues
<1>5. TypeOK' /\ Others(w)
  BY <1>1, <1>2, <1>3, <1>4 DEF TypeOK, Others, Goto
<1>6. Steady
  <2>1. Waiting("blocking")' = {}
    BY <1>4 DEF Waiting
  <2>2. ASSUME NEW q \in Queues, q # "blocking" PROVE Waiting(q)' = Waiting(q)
    BY <1>4, <2>2 DEF Waiting
  <2>3. QED
    BY <1>1, <2>1, <2>2, AllScanned DEF Steady
<1>7. InHand(w)' = InHand(w)
  BY <1>1, <1>2, <1>3 DEF InHand, Entries
<1>8. NowhereElse' /\ \A j \in Ids : Somewhere(j)' <=> Somewhere(j)
  BY <1>2, <1>5, <1>6, <1>7, Stay
<1>9. Holds(w)'
  BY <1>1, <1>2, <1>3 DEF Holds, At, Working, Closing, Opens, Polled
<1>10. Keeps(w)'
  BY <1>1, <1>2, <1>3, <1>7 DEF Keeps
<1>11. OnceInv'
  <2>1. \A q \in Queues : Once(queue'[q])
    BY <1>4, EntriesEmpty DEF IInv, OnceInv
  <2>2. QED
    BY <1>1, <1>2, <1>5, <2>1, HandOnce DEF IInv, OnceInv
<1>12. QED
  BY <1>1, <1>2, <1>5, <1>8, <1>9, <1>10, <1>11, PollEnds

LEMMA PollGivesUpInv ==
  ASSUME IInv, NEW w \in Workers, ScanEmpty(w) \/ PollFail(w)
  PROVE  IInv'
<1> USE DEF locals, table
<1>1. /\ Scanned(w) /\ pc[w] = "scan" /\ poller' = None /\ scanned' = 0
      /\ Goto(w, "receive") /\ UNCHANGED <<table, queue, back, sock, new, dest>>
  BY DEF ScanEmpty, PollFail, Scanned
<1>2. /\ poller = w /\ sock[w] = 0 /\ new[w] = 0 /\ w # Plugin /\ w # None
      /\ w \in Threads /\ TypeOK /\ InHand(w) = Entries(batch[w])
      /\ \A i \in Ids : lock[i] = w => i \in InHand(w)
  BY <1>1, InScan
<1>3. /\ batch'[w] = <<>> /\ batch' \in [Threads -> Seq(Ids)]
      /\ \A u \in Threads : u # w => batch'[u] = batch[u]
      /\ lock' \in [Ids -> Threads \cup {None}]
      /\ \A j \in Ids : lock'[j] = IF j \in Entries(batch[w]) THEN None ELSE lock[j]
  <2>1. <<>> \in Seq(Ids)
    BY EmptySeq
  <2>2. CASE ScanEmpty(w)
    BY <1>2, <2>1, <2>2, EntriesEmpty DEF ScanEmpty, TypeOK
  <2>3. CASE PollFail(w)
    <3>1. lock' = [i \in Ids |-> IF i \in Entries(batch[w]) THEN None ELSE lock[i]]
      BY <2>3 DEF PollFail, Entries
    <3>2. QED
      BY <1>2, <2>1, <2>3, <3>1 DEF PollFail, TypeOK
  <2>4. QED
    BY <2>2, <2>3
<1>4. pc'[w] = "receive" /\ pc' \in [Threads -> Labels]
  BY <1>1, <1>2 DEF Goto, TypeOK, Labels
<1>5. TypeOK' /\ Others(w)
  BY <1>1, <1>2, <1>3, <1>4 DEF TypeOK, Others, Goto
<1>6. InHand(w)' = {}
  BY <1>1, <1>2, <1>3, EntriesEmpty DEF InHand, Ids, Entries
<1>7. \A u \in Threads : InHand(u)' = IF u = w THEN {} ELSE InHand(u)
  BY <1>2, <1>5, <1>6, OthersHands
<1>8. \A q \in Queues : Waiting(q)' =
        IF q = "blocking" THEN Entries(queue["blocking"]) ELSE Waiting(q)
  <2>1. Waiting("blocking")' = Entries(queue["blocking"])
    BY <1>1, <1>2 DEF Waiting, Entries, TypeOK, Queues
  <2>2. ASSUME NEW q \in Queues, q # "blocking" PROVE Waiting(q)' = Waiting(q)
    BY <1>1, <2>2 DEF Waiting
  <2>3. QED
    BY <2>1, <2>2
<1>9. /\ Waiting("blocking") = {}
      /\ \A j \in Entries(queue["blocking"]) : j \in Ids /\
           (j \in InHand(w) \/ (j < fresh /\ ~ Somewhere(j)))
      /\ InHand(w) \subseteq Entries(queue["blocking"])
  BY <1>1, AllScanned
<1>10. NowhereElse'
  <2>1. ASSUME NEW j \in Entries(queue["blocking"])
        PROVE  /\ \A q \in Queues : j \notin Waiting(q)
               /\ \A u \in Threads : u # w => j \notin InHand(u)
    BY <1>2, <1>9 DEF IInv, NowhereElse, Somewhere
  <2>2. QED
    BY <1>7, <1>8, <2>1 DEF IInv, NowhereElse
<1>11. \A j \in Ids : Somewhere(j) => Somewhere(j)'
  BY <1>7, <1>8, <1>9 DEF Somewhere, Queues
<1>12. \A j \in Ids : Somewhere(j)' => Somewhere(j) \/ j < fresh
  BY <1>2, <1>7, <1>8, <1>9 DEF Somewhere, Queues
<1>13. Holds(w)'
  BY <1>1, <1>2, <1>3, <1>4 DEF Holds, At, Working, Closing, Opens, Polled
<1>14. Keeps(w)'
  BY <1>2, <1>3, <1>4 DEF Keeps
<1>15. OnceInv'
  <2>1. \A q \in Queues : Once(queue'[q])
    BY <1>1 DEF IInv, OnceInv
  <2>2. QED
    BY <1>1, <1>2, <1>3, <1>5, <2>1, EntriesEmpty, HandOnce
<1>16. QED
  BY <1>1, <1>2, <1>3, <1>5, <1>10, <1>11, <1>12, <1>13, <1>14, <1>15, PollEnds

-----------------------------------------------------------------------------
LEMMA InitInv == Init => IInv
<1> SUFFICES ASSUME Init PROVE IInv
  OBVIOUS
<1>1. TypeOK
  <2>1. <<Listener>> \in Seq(Ids) /\ Listener \in Ids
    BY MaxAssumption DEF Listener, Ids
  <2>2. queue \in [Queues -> Seq(Ids)]
    BY <2>1, EmptySeq DEF Init
  <2>3. fresh \in 2 .. Max /\ sends \in 0 .. MaxSends
    BY MaxAssumption, BoundAssumption DEF Init, Listener
  <2>4. QED
    BY <2>1, <2>2, <2>3, EmptySeq DEF Init, TypeOK, Labels, Queues
<1>2. \A t \in Threads : InHand(t) = {}
  BY EntriesEmpty DEF Init, InHand, Ids
<1>3. \A q \in Queues : Waiting(q) = IF q = "incoming" THEN {Listener} ELSE {}
  <2>1. Waiting("incoming") = {Listener}
    BY DEF Init, Waiting, Queues
  <2>2. ASSUME NEW q \in Queues, q # "incoming" PROVE Waiting(q) = {}
    BY <2>2 DEF Init, Waiting
  <2>3. QED
    BY <2>1, <2>2
<1>4. NowhereElse
  BY <1>2, <1>3 DEF NowhereElse
<1>5. \A i \in Ids : Somewhere(i) <=> i = Listener
  BY <1>2, <1>3 DEF Somewhere, Queues
<1>6. OnceInv
  BY EntriesEmpty DEF Init, OnceInv, Once, Listener
<1>7. ScanInv
  BY EntriesEmpty DEF Init, ScanInv, Queues
<1>8. FreshInv /\ PlaceInv
  BY <1>5 DEF Init, FreshInv, PlaceInv, Listener, Ids
<1>9. ASSUME NEW t \in Threads PROVE Holds(t) /\ Keeps(t)
  <2>1. t # None
    BY ThreadsAssumption
  <2>2. /\ pc[t] = (IF t = Plugin THEN "idle" ELSE "receive") /\ sock[t] = 0 /\ new[t] = 0
        /\ batch[t] = <<>> /\ poller = None /\ \A i \in Ids : lock[i] = None
    BY DEF Init
  <2>3. Holds(t)
    BY <2>1, <2>2 DEF Holds, At, Working, Closing, Opens, Polled
  <2>4. Keeps(t)
    BY <2>1, <2>2 DEF Keeps
  <2>5. QED
    BY <2>3, <2>4
<1>10. QED
  BY <1>1, <1>4, <1>6, <1>7, <1>8, <1>9 DEF IInv, ThreadInv

LEMMA NextInv == ASSUME IInv, NeverReused, [Next]_vars PROVE IInv'
<1>1. ASSUME NEW w \in Workers, Worker(w) PROVE IInv'
  <2>1. CASE Receive(w)
    BY <2>1, DequeueInv, AcquireInv, ReceiveInv DEF Receive
  <2>2. CASE Respond(w)
    BY <2>2, DequeueInv, AcquireInv, RespondInv DEF Respond
  <2>3. CASE Leave(w)
    BY <2>3, PutBackInv, PutReleaseInv DEF Leave
  <2>4. CASE Accept(w)
    BY <2>4, PollIncomingInv, AcceptOneInv, AcceptEnqueueInv, ListenInv, BetweenInv DEF Accept
  <2>5. CASE Scan(w)
    BY <2>5, BetweenInv, PollStartInv, ScanGoneInv, ScanTakeInv, PollDoneInv, PollGivesUpInv
       DEF Scan
  <2>6. CASE Sort(w)
    BY <2>6, DispatchInv, DispatchErrorInv, DispatchEnqueueInv, BetweenInv DEF Sort
  <2>7. QED
    BY <1>1, <2>1, <2>2, <2>3, <2>4, <2>5, <2>6 DEF Worker
<1>2. ASSUME NEW t \in Threads, Close(t) PROVE IInv'
  BY <1>2, CloseReleaseInv, DeregInv, FreeIdInv DEF Close
<1>3. ASSUME NEW t \in Threads, UsePlugin(t) PROVE IInv'
  BY <1>3, SendInv, OpenRegisterInv, OpenLockInv, ConnectInv, OpenEnqueueInv, OpenUnlockInv
     DEF UsePlugin, Open
<1>4. CASE UNCHANGED vars
  <2>1. /\ \A q \in Queues : Waiting(q)' = Waiting(q)
        /\ \A t \in Threads : InHand(t)' = InHand(t)
    BY <1>4 DEF vars, Waiting, InHand, Entries
  <2>2. \A j \in Ids : Somewhere(j)' <=> Somewhere(j)
    BY <2>1 DEF Somewhere
  <2>3. TypeOK' /\ NowhereElse'
    BY <1>4, <2>1 DEF vars, IInv, TypeOK, NowhereElse
  <2>4. FreshInv' /\ PlaceInv'
    BY <1>4, <2>2 DEF vars, IInv, FreshInv, PlaceInv
  <2>5. OnceInv'
    BY <1>4 DEF vars, IInv, OnceInv, Once, Entries
  <2>6. ThreadInv'
    BY <1>4, <2>1 DEF vars, IInv, ThreadInv, Holds, At, Keeps, Victim
  <2>7. ScanInv'
    <3>1. ScanInv /\ UNCHANGED <<queue, poller, scanned, fresh, kind, batch, sock, new, pc>>
      BY <1>4 DEF vars, IInv
    <3>2. InHand(poller)' = InHand(poller)
      BY <3>1 DEF InHand, Entries
    <3>3. Entries(batch[poller])' = Entries(batch[poller])
      BY <3>1 DEF Entries
    <3>4. \A j : Somewhere(j)' <=> Somewhere(j)
      BY <2>1 DEF Somewhere
    <3>5. QED
      BY <3>1, <3>2, <3>3, <3>4 DEF ScanInv
  <2>8. QED
    BY <2>3, <2>4, <2>5, <2>6, <2>7 DEF IInv
<1>5. QED
  BY <1>1, <1>2, <1>3, <1>4 DEF Next

(* What the workers keep true: every open socket is at exactly one place.  *)
THEOREM ServerInvariant == ASSUME NeverReused PROVE Spec => []IInv
BY InitInv, NextInv, PTL DEF Spec

-----------------------------------------------------------------------------
(* Counting the places of a socket.                                        *)

LEMMA OnceLength ==
  ASSUME NEW s \in Seq(Ids), Once(s)
  PROVE  Len(s) \in Nat /\ Len(s) < Max
<1> DEFINE n == Len(s)
<1>1. n \in Nat /\ s \in [1 .. n -> Ids]
  OBVIOUS
<1>2. IsFiniteSet(1 .. n) /\ Cardinality(1 .. n) = n
  BY <1>1, FS_Interval
<1>3. IsFiniteSet(Ids) /\ Cardinality(Ids) = Max - 1
  BY MaxAssumption, FS_Interval DEF Ids
<1>4. ~ (Max - 1 < n)
  <2>1. SUFFICES ASSUME Max - 1 < n PROVE FALSE
    OBVIOUS
  <2>2. \E k, l \in 1 .. n : k # l /\ s[k] = s[l]
    BY <1>1, <1>2, <1>3, <2>1, FS_PigeonHole
  <2>3. QED
    BY <2>2 DEF Once
<1>5. QED
  BY <1>1, <1>4, MaxAssumption

LEMMA PlaceOf ==
  ASSUME IInv, NEW i \in Ids, NEW p \in Places(i)
  PROVE  \/ \E q \in Queues : \E k \in 1 .. Len(queue[q]) :
              p = <<q, "queue", k>> /\ queue[q][k] = i /\ i \in Waiting(q)
         \/ \E t \in Threads : p = <<t, "sock", 0>> /\ sock[t] = i /\ i \in InHand(t)
         \/ \E t \in Threads : p = <<t, "new", 0>> /\ new[t] = i /\ i \in InHand(t)
         \/ \E t \in Threads : \E k \in 1 .. Len(batch[t]) :
              p = <<t, "batch", k>> /\ batch[t][k] = i /\ i \in InHand(t)
<1>1. CASE /\ p \in Queues \X {"queue"} \X (1 .. Max)
           /\ p[3] <= Len(queue[p[1]]) /\ queue[p[1]][p[3]] = i
           /\ p[1] = "blocking" => p[3] > scanned
  <2>1. PICK q \in Queues, k \in 1 .. Max : p = <<q, "queue", k>>
    BY <1>1
  <2>2. Len(queue[q]) \in Nat
    BY DEF IInv, TypeOK
  <2>3. k \in 1 .. Len(queue[q]) /\ queue[q][k] = i /\ (q = "blocking" => k > scanned)
    BY <1>1, <2>1, <2>2
  <2>4. i \in Waiting(q)
    BY <2>3 DEF Waiting
  <2>5. QED
    BY <2>1, <2>3, <2>4
<1>2. CASE p \in Threads \X {"sock"} \X {0} /\ sock[p[1]] = i /\ pc[p[1]] # "put_release"
  <2>1. PICK t \in Threads : p = <<t, "sock", 0>>
    BY <1>2
  <2>2. QED
    BY <1>2, <2>1 DEF InHand
<1>3. CASE p \in Threads \X {"new"} \X {0} /\ new[p[1]] = i /\ pc[p[1]] # "open_unlock"
  <2>1. PICK t \in Threads : p = <<t, "new", 0>>
    BY <1>3
  <2>2. QED
    BY <1>3, <2>1 DEF InHand
<1>4. CASE /\ p \in Threads \X {"batch"} \X (1 .. Max)
           /\ p[3] <= Len(batch[p[1]]) /\ batch[p[1]][p[3]] = i
  <2>1. PICK t \in Threads, k \in 1 .. Max : p = <<t, "batch", k>>
    BY <1>4
  <2>2. Len(batch[t]) \in Nat
    BY DEF IInv, TypeOK
  <2>3. k \in 1 .. Len(batch[t]) /\ batch[t][k] = i
    BY <1>4, <2>1, <2>2
  <2>4. QED
    BY <2>1, <2>3 DEF InHand, Entries
<1>5. QED
  BY <1>1, <1>2, <1>3, <1>4 DEF Places

LEMMA SamePlace ==
  ASSUME IInv, NEW i \in Ids, NEW p \in Places(i), NEW r \in Places(i)
  PROVE  p = r
<1>1. i # 0
  BY DEF Ids
<1>2. \A t, u \in Threads : i \in InHand(t) /\ i \in InHand(u) => t = u
  BY DEF IInv, NowhereElse
<1>3. \A q \in Queues, t \in Threads : ~ (i \in Waiting(q) /\ i \in InHand(t))
  BY DEF IInv, NowhereElse
<1>4. \A t \in Threads : /\ ~ (sock[t] = i /\ new[t] = i)
                         /\ \A k \in 1 .. Len(batch[t]) :
                              batch[t][k] = i => sock[t] # i /\ new[t] # i
  BY <1>1 DEF IInv, OnceInv, Entries
<1>5. CASE \E q \in Queues : \E k \in 1 .. Len(queue[q]) :
              p = <<q, "queue", k>> /\ queue[q][k] = i /\ i \in Waiting(q)
  <2>1. PICK q \in Queues : \E k \in 1 .. Len(queue[q]) :
              p = <<q, "queue", k>> /\ queue[q][k] = i /\ i \in Waiting(q)
    BY <1>5
  <2>2. PICK o \in Queues : \E l \in 1 .. Len(queue[o]) :
              r = <<o, "queue", l>> /\ queue[o][l] = i /\ i \in Waiting(o)
    BY <1>3, <2>1, PlaceOf
  <2>3. q = o
    BY <2>1, <2>2 DEF IInv, NowhereElse
  <2>4. \A k, l \in 1 .. Len(queue[q]) : queue[q][k] = i /\ queue[q][l] = i => k = l
    BY DEF IInv, OnceInv, Once
  <2>5. QED
    BY <2>1, <2>2, <2>3, <2>4
<1>6. CASE ~ \E q \in Queues : \E k \in 1 .. Len(queue[q]) :
              p = <<q, "queue", k>> /\ queue[q][k] = i /\ i \in Waiting(q)
  <2>1. PICK t \in Threads : /\ i \in InHand(t)
          /\ \/ p = <<t, "sock", 0>> /\ sock[t] = i
             \/ p = <<t, "new", 0>> /\ new[t] = i
             \/ \E k \in 1 .. Len(batch[t]) : p = <<t, "batch", k>> /\ batch[t][k] = i
    BY <1>6, PlaceOf
  <2>2. PICK u \in Threads : /\ i \in InHand(u)
          /\ \/ r = <<u, "sock", 0>> /\ sock[u] = i
             \/ r = <<u, "new", 0>> /\ new[u] = i
             \/ \E k \in 1 .. Len(batch[u]) : r = <<u, "batch", k>> /\ batch[u][k] = i
    BY <1>3, <2>1, PlaceOf
  <2>3. t = u
    BY <1>2, <2>1, <2>2
  <2>4. \A k, l \in 1 .. Len(batch[t]) : batch[t][k] = i /\ batch[t][l] = i => k = l
    BY DEF IInv, OnceInv, Once
  <2>5. QED
    BY <1>4, <2>1, <2>2, <2>3, <2>4
<1>7. QED
  BY <1>5, <1>6

LEMMA SomePlace ==
  ASSUME IInv, NEW i \in Ids, Somewhere(i)
  PROVE  \E p : p \in Places(i)
<1>1. CASE \E q \in Queues : i \in Waiting(q)
  <2>1. PICK q \in Queues : \E k \in 1 .. Len(queue[q]) :
          queue[q][k] = i /\ (q = "blocking" => k > scanned)
    BY <1>1 DEF Waiting
  <2>2. Len(queue[q]) \in Nat /\ Len(queue[q]) < Max
    BY OnceLength DEF IInv, TypeOK, OnceInv
  <2>3. PICK k \in 1 .. Len(queue[q]) : queue[q][k] = i /\ (q = "blocking" => k > scanned)
    BY <2>1
  <2>4. k \in 1 .. Max /\ k <= Len(queue[q])
    BY <2>2, MaxAssumption
  <2>5. <<q, "queue", k>> \in Places(i)
    BY <2>3, <2>4 DEF Places
  <2>6. QED
    BY <2>5
<1>2. CASE \E t \in Threads : i \in InHand(t)
  <2>1. PICK t \in Threads : i \in InHand(t)
    BY <1>2
  <2>2. CASE sock[t] = i /\ pc[t] # "put_release"
    <3>1. <<t, "sock", 0>> \in Places(i)
      BY <2>2 DEF Places
    <3>2. QED
      BY <3>1
  <2>3. CASE new[t] = i /\ pc[t] # "open_unlock"
    <3>1. <<t, "new", 0>> \in Places(i)
      BY <2>3 DEF Places
    <3>2. QED
      BY <3>1
  <2>4. CASE \E k \in 1 .. Len(batch[t]) : batch[t][k] = i
    <3>1. PICK k \in 1 .. Len(batch[t]) : batch[t][k] = i
      BY <2>4
    <3>2. Len(batch[t]) \in Nat /\ Len(batch[t]) < Max
      BY OnceLength DEF IInv, TypeOK, OnceInv
    <3>3. k \in 1 .. Max /\ k <= Len(batch[t])
      BY <3>2, MaxAssumption
    <3>4. <<t, "batch", k>> \in Places(i)
      BY <3>1, <3>3 DEF Places
    <3>5. QED
      BY <3>4
  <2>5. QED
    BY <2>1, <2>2, <2>3, <2>4 DEF InHand, Entries
<1>3. QED
  BY <1>1, <1>2 DEF Somewhere

LEMMA TokenInv == IInv => OneToken
<1> SUFFICES ASSUME IInv, NEW i \in Ids, kind[i] # "free"
             PROVE  Cardinality(Places(i)) = 1
  BY DEF OneToken, IInv
<1>1. PICK p : p \in Places(i)
  BY SomePlace DEF IInv, PlaceInv
<1>2. Places(i) = {p}
  BY <1>1, SamePlace
<1>3. QED
  BY <1>2, FS_Singleton

(* An open socket is at one place, in one queue once or in the hands of    *)
(* one thread: no two workers serve it at once (_server_loop) and none of  *)
(* them drops it, whatever fails on the way.                               *)
THEOREM ServerOneToken == ASSUME NeverReused PROVE Spec => []OneToken
BY ServerInvariant, TokenInv, PTL

LEMMA LockCycleInv == IInv => NoLockCycle
<1> SUFFICES ASSUME IInv, poller # None, Scanning(poller), kind[Entry] # "free"
             PROVE  /\ lock[Entry] # poller
                    /\ \A t \in Threads : lock[Entry] = t =>
                         pc[t] \in {"put_release", "open_unlock", "close_release"}
  BY DEF NoLockCycle
<1>1. poller \in Workers /\ poller \in Threads
  BY DEF IInv, TypeOK, Threads
<1>2. Entry \in Ids /\ Entry \in Waiting("blocking")
  BY <1>1, NextEntry
<1>3. \A t \in Threads : Entry \notin InHand(t)
  BY <1>2 DEF IInv, NowhereElse, Queues
<1>4. \A t \in Threads : lock[Entry] = t => pc[t] \in {"put_release", "open_unlock"}
  BY <1>2, <1>3 DEF IInv, ThreadInv, Keeps
<1>5. pc[poller] = "scan"
  BY DEF Scanning
<1>6. QED
  BY <1>1, <1>4, <1>5

(* A worker that polls waits for the lock of a socket only while its       *)
(* holder is about to give it back, and never for a lock of its own: the   *)
(* locks of the sockets and the tail lock of _blocking, which the holder   *)
(* of a socket may be waiting for, never wait in a circle.                 *)
THEOREM ServerNoLockCycle == ASSUME NeverReused PROVE Spec => []NoLockCycle
BY ServerInvariant, LockCycleInv, PTL
=============================================================================
