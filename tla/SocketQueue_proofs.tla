-------------------------- MODULE SocketQueue_proofs --------------------------
(***************************************************************************)
(* Proofs about the ring of socket identifiers, for every size of the ring *)
(* and every number of threads.                                            *)
(***************************************************************************)
EXTENDS SocketQueue, FiniteSetTheorems, SequenceTheorems, TLAPS

(* How the program uses its queues: _readable, _writable and _free_ids are *)
(* read with socket_queue_get, _incoming and _blocking with an array that  *)
(* must hold all they can contain.                                         *)
SingleUse ==
  \/ Pollers = {}
  \/ Consumers = {} /\ PollLen >= Max - 1

-----------------------------------------------------------------------------
(* The window of cells between head and tail.                              *)

LEMMA WindowBounds ==
  ASSUME NEW h \in Cells, NEW tl \in Cells
  PROVE  /\ Between(h, tl) \subseteq Cells
         /\ tl \notin Between(h, tl)
         /\ h # tl => h \in Between(h, tl)
         /\ Between(h, h) = {}
  BY MaxAssumption DEF Between, Cells

LEMMA WindowAdd ==
  ASSUME NEW h \in Cells, NEW tl \in Cells, NextCell(tl) # h
  PROVE  /\ NextCell(tl) \in Cells
         /\ Between(h, NextCell(tl)) = Between(h, tl) \cup {tl}
  BY MaxAssumption DEF Between, Cells, NextCell, Wrap

LEMMA WindowGet ==
  ASSUME NEW h \in Cells, NEW tl \in Cells, h \in Between(h, tl)
  PROVE  Between(Wrap(h + 1), tl) = Between(h, tl) \ {h}
  BY MaxAssumption DEF Between, Cells, Wrap

LEMMA WindowFull ==
  ASSUME NEW h \in Cells, NEW tl \in Cells, NextCell(tl) = h
  PROVE  Between(h, tl) = Cells \ {tl}
  BY MaxAssumption DEF Between, Cells, NextCell, Wrap

(* Walking from head over the length of the queue visits the window.       *)
LEMMA WindowWalk ==
  ASSUME NEW h \in Cells, NEW tl \in Cells
  PROVE  /\ Count(h, tl) \in 0 .. (Max - 1)
         /\ \A k \in 1 .. Count(h, tl) : CellAt(h, k) \in Between(h, tl)
         /\ \A i \in Between(h, tl) :
              \E k \in 1 .. Count(h, tl) : CellAt(h, k) = i
<1>1. Count(h, tl) \in 0 .. (Max - 1)
  BY MaxAssumption DEF Count, Cells
<1>2. ASSUME NEW k \in 1 .. Count(h, tl)
      PROVE  CellAt(h, k) \in Between(h, tl)
  BY <1>1, MaxAssumption DEF Count, Cells, CellAt, Between
<1>3. ASSUME NEW i \in Between(h, tl)
      PROVE  \E k \in 1 .. Count(h, tl) : CellAt(h, k) = i
  <2>1. CASE h <= i
    <3>1. i - h + 1 \in 1 .. Count(h, tl) /\ CellAt(h, i - h + 1) = i
      BY <2>1, <1>1, MaxAssumption DEF Count, Cells, CellAt, Between
    <3>2. QED  BY <3>1
  <2>2. CASE i < h
    <3>1. /\ Max - h + i + 1 \in 1 .. Count(h, tl)
          /\ CellAt(h, Max - h + i + 1) = i
      BY <2>2, <1>1, MaxAssumption DEF Count, Cells, CellAt, Between
    <3>2. QED  BY <3>1
  <2>3. QED
    BY <2>1, <2>2, MaxAssumption DEF Cells, Between
<1>4. QED
  BY <1>1, <1>2, <1>3

(* The ring cannot fill up: there is one identifier less than cells.       *)
LEMMA SpareCell ==
  ASSUME NEW h \in Cells, NEW tl \in Cells,
         NEW r \in [Cells -> {0} \cup Ids], NEW id \in Ids,
         \A i \in Between(h, tl) : r[i] \in Ids \ {id},
         \A i, j \in Between(h, tl) : r[i] = r[j] => i = j
  PROVE  NextCell(tl) # h
<1> DEFINE W == Cells \ {tl}
           V == (1 .. (Max - 1)) \ {id}
           f == [i \in W |-> r[i]]
<1>1. SUFFICES ASSUME NextCell(tl) = h PROVE FALSE
  OBVIOUS
<1>2. Between(h, tl) = W
  BY <1>1, WindowFull
<1>3. /\ IsFiniteSet(W) /\ Cardinality(W) = Max - 1
      /\ IsFiniteSet(V) /\ Cardinality(V) = Max - 2
  <2>1. /\ IsFiniteSet(Cells) /\ Cardinality(Cells) = Max
        /\ IsFiniteSet(1 .. (Max - 1)) /\ Cardinality(1 .. (Max - 1)) = Max - 1
    <3>1. Max - 1 \in Int /\ 0 \in Int /\ 1 \in Int /\ Max >= 2
      BY MaxAssumption
    <3>2. QED  BY <3>1, FS_Interval, MaxAssumption DEF Cells
  <2>2. id \in 1 .. (Max - 1)
    BY IdsAssumption
  <2>3. tl \in Cells
    OBVIOUS
  <2>4. IsFiniteSet(W) /\ Cardinality(W) = Cardinality(Cells) - 1
    BY <2>1, <2>3, FS_RemoveElement
  <2>5. IsFiniteSet(V) /\ Cardinality(V) = Cardinality(1 .. (Max - 1)) - 1
    BY <2>1, <2>2, FS_RemoveElement
  <2>6. QED
    BY <2>1, <2>4, <2>5, MaxAssumption
<1>4. f \in [W -> V]
  BY <1>2, IdsAssumption
<1>5. Cardinality(V) < Cardinality(W)
  BY <1>3, MaxAssumption
<1>6. PICK x, y \in W : x # y /\ f[x] = f[y]
  <2> HIDE DEF W, V, f
  <2>1. QED  BY <1>3, <1>4, <1>5, FS_PigeonHole
<1>7. QED
  BY <1>2, <1>6

-----------------------------------------------------------------------------
(* The inductive invariant.                                                *)

LEMMA InitInv == Init => IInv
<1> SUFFICES ASSUME Init PROVE IInv
  OBVIOUS
<1>1. 0 \in Cells /\ Between(0, 0) = {}
  BY MaxAssumption, WindowBounds DEF Cells
<1>2. Wrap(0) = 0 /\ 0 \in 0 .. Max
  BY MaxAssumption DEF Wrap
<1>3. TypeOK
  BY <1>1, <1>2 DEF Init, TypeOK, Threads
<1>4. LockInv
  BY ThreadsAssumption DEF Init, LockInv
<1>5. RingInv /\ OnePlace
  <2>1. Window = {} /\ Adding = {}
    BY <1>1, <1>2 DEF Init, Window, Adding, Threads
  <2>2. \A i \in Cells : ring[i] = 0
    BY DEF Init
  <2>3. head = 0 /\ tail \in Cells /\ held = Ids
    BY <1>1 DEF Init
  <2>4. \A t \in Producers : pc[t] = "idle"
    BY DEF Init, Threads
  <2>5. QED
    BY <2>1, <2>2, <2>3, <2>4 DEF Init, RingInv, OnePlace
<1>6. QED
  BY <1>3, <1>4, <1>5 DEF IInv

(* Wrapping _head_index does not move the window.                          *)
LEMMA WrapHead ==
  ASSUME TypeOK
  PROVE  /\ Wrap(head) \in Cells
         /\ Wrap(Wrap(head)) = Wrap(head)
         /\ Window \subseteq Cells
         /\ tail \notin Window
  BY MaxAssumption, WindowBounds DEF TypeOK, Wrap, Cells, Window

(* A queued identifier that is not the one being added leaves a spare cell. *)
LEMMA AddHasRoom ==
  ASSUME IInv, NEW t \in Producers, pc[t] = "add_store"
  PROVE  NextCell(tail) # Wrap(head)
<1>1. reg[t] \in Ids /\ t \in Adding
  BY DEF IInv, LockInv, Threads, Adding
<1>2. /\ Wrap(head) \in Cells /\ tail \in Cells
      /\ ring \in [Cells -> {0} \cup Ids]
  BY WrapHead DEF IInv, TypeOK
<1>3. \A i \in Window : ring[i] \in Ids \ {reg[t]}
  BY <1>1 DEF IInv, RingInv, OnePlace
<1>4. \A i, j \in Window : ring[i] = ring[j] => i = j
  BY DEF IInv, OnePlace
<1>5. QED
  BY <1>1, <1>2, <1>3, <1>4, SpareCell DEF Window

(* What socket_queue_poll finds in the queue.                              *)
LEMMA ContentsOfWindow ==
  ASSUME TypeOK
  PROVE  Elements(Contents) = {ring[i] : i \in Window}
<1> DEFINE h == Wrap(head)
<1>1. h \in Cells /\ tail \in Cells
  BY WrapHead DEF TypeOK
<1>2. Elements(Contents) = {ring[CellAt(h, k)] : k \in 1 .. Count(h, tail)}
  BY DEF Elements, Contents
<1>3. QED
  <2> HIDE DEF h
  <2>1. /\ \A k \in 1 .. Count(h, tail) : CellAt(h, k) \in Between(h, tail)
        /\ \A i \in Between(h, tail) :
             \E k \in 1 .. Count(h, tail) : CellAt(h, k) = i
    BY <1>1, WindowWalk
  <2>2. Window = Between(h, tail)
    BY DEF Window, h
  <2>3. QED  BY <1>2, <2>1, <2>2

LEMMA PollsAll ==
  ASSUME TypeOK, PollLen >= Max - 1, NEW live \in SUBSET Elements(Contents)
  PROVE  Polled(live) = live
<1> DEFINE n == Count(Wrap(head), tail)
           upTo(k) == {j \in 1 .. k : Contents[j] \in live}
<1>1. n \in 0 .. (Max - 1) /\ DOMAIN Contents = 1 .. n
  BY WrapHead, WindowWalk DEF TypeOK, Contents
<1>2. ASSUME NEW k \in 1 .. n
      PROVE  Cardinality(upTo(k)) <= PollLen
  <2>1. k \in Nat /\ k <= PollLen
    BY <1>1, PollLenAssumption, MaxAssumption
  <2>2. IsFiniteSet(1 .. k) /\ Cardinality(1 .. k) = k
    BY <2>1, <1>2, FS_Interval
  <2>3. upTo(k) \in SUBSET (1 .. k)
    OBVIOUS
  <2>4. IsFiniteSet(upTo(k)) /\ Cardinality(upTo(k)) <= Cardinality(1 .. k)
    BY <2>2, <2>3, FS_Subset
  <2>5. Cardinality(upTo(k)) \in Nat
    BY <2>4, FS_CardinalityType
  <2>6. QED
    BY <2>1, <2>2, <2>4, <2>5, PollLenAssumption
<1>3. Polled(live) = {Contents[k] : k \in {k \in 1 .. n : Contents[k] \in live}}
  BY <1>1, <1>2 DEF Polled
<1>4. Elements(Contents) = {Contents[k] : k \in 1 .. n}
  BY <1>1 DEF Elements
<1>5. QED
  BY <1>3, <1>4

-----------------------------------------------------------------------------
(* One lemma per operation: the invariant survives each of its steps.      *)

LEMMA AddInv ==
  ASSUME IInv, NEW t \in Producers, Add(t)
  PROVE  IInv'
<1> USE DEF IInv
<1>1. t \in Threads /\ t # None
  BY ThreadsAssumption DEF Threads
<1>2. ASSUME NEW id \in Ids, AddLock(t, id)
      PROVE  IInv'
  <2>1. TypeOK'
    BY <1>1, <1>2 DEF TypeOK, AddLock, Goto, Busy
  <2>3. Window' = Window
    BY <1>2 DEF AddLock, Window
  <2>2. LockInv'
    BY <1>1, <1>2, <2>3, ThreadsAssumption DEF TypeOK, LockInv, AddLock, Goto
  <2>4. Adding = {} /\ Adding' = {t}
    BY <1>1, <1>2, ThreadsAssumption
    DEF TypeOK, LockInv, AddLock, Goto, Adding, Threads
  <2>5. \A u \in Producers : pc[u] # "add_zero"
    BY <1>1, <1>2, ThreadsAssumption DEF LockInv, AddLock, Threads
  <2>6. RingInv'
    <3>1. \A u \in Producers : pc'[u] # "add_zero"
      BY <1>1, <1>2, <2>5 DEF TypeOK, AddLock, Goto, Threads
    <3>2. QED  BY <1>2, <2>3, <2>5, <3>1 DEF RingInv, AddLock
  <2>7. OnePlace'
    <3>1. reg'[t] = id /\ id \in held /\ held' = held \ {id} /\ ring' = ring
      BY <1>1, <1>2 DEF TypeOK, AddLock
    <3>2. QED  BY <2>3, <2>4, <3>1 DEF OnePlace
  <2>8. QED  BY <2>1, <2>2, <2>6, <2>7
<1>3. ASSUME AddStore(t)
      PROVE  IInv'
  <2>1. /\ NextCell(tail) # Wrap(head)
        /\ Wrap(head) \in Cells /\ tail \in Cells
    BY <1>3, AddHasRoom, WrapHead DEF AddStore, TypeOK
  <2>2. /\ NextCell(tail) \in Cells
        /\ Window' = Window \cup {tail}
    BY <1>3, <2>1, WindowAdd DEF AddStore, Window
  <2>3. tail \notin Window /\ Window \subseteq Cells
    BY WrapHead
  <2>4. reg[t] \in Ids /\ tailLock = t /\ t \in Adding
    BY <1>1, <1>3 DEF LockInv, AddStore, Adding
  <2>5. /\ ring' = [ring EXCEPT ![tail] = reg[t]]
        /\ ring'[tail] = reg[t]
        /\ \A i \in Window : ring'[i] = ring[i]
    BY <1>3, <2>1, <2>3 DEF AddStore, TypeOK
  <2>6. TypeOK'
    BY <1>1, <1>3, <2>2, <2>4 DEF TypeOK, AddStore, Goto, Busy
  <2>7. LockInv'
    <3>1. \A u \in Threads : pc[u] = "get_clear" =>
            head \in Window' /\ ring'[head] = ring[head]
      BY <2>2, <2>5 DEF LockInv
    <3>2. head' = head /\ Window' = Window \cup {tail}
      BY <1>3, <2>2 DEF AddStore
    <3>3. QED
      BY <1>1, <1>3, <3>1, <3>2 DEF TypeOK, LockInv, AddStore, Goto
  <2>8. RingInv'
    <3>1. pc'[t] = "add_zero" /\ head' = head
      BY <1>1, <1>3 DEF AddStore, Goto, TypeOK
    <3>2. \A i \in Cells \ Window' : ring'[i] = ring[i]
      BY <2>2, <2>5 DEF TypeOK
    <3>3. Consumers = {} => head' = 0 /\ tail' # 0
      BY <1>3, <2>1, <3>1, MaxAssumption DEF RingInv, AddStore, Wrap
    <3>4. \A u \in Producers : pc'[u] = "add_zero" => u = t
      BY <1>1, <1>3, <2>4, ThreadsAssumption
      DEF AddStore, Goto, TypeOK, LockInv, Threads
    <3>5. QED
      BY <2>2, <2>4, <2>5, <3>1, <3>2, <3>3, <3>4 DEF RingInv
  <2>9. OnePlace'
    <3>1. Adding = {t} /\ Adding' = {} /\ held' = held
      BY <1>1, <1>3, <2>4 DEF OnePlace, TypeOK, AddStore, Goto, Adding
    <3>2. QED
      BY <2>2, <2>3, <2>4, <2>5, <3>1 DEF OnePlace
  <2>10. QED  BY <2>6, <2>7, <2>8, <2>9
<1>4. ASSUME AddZero(t)
      PROVE  IInv'
  <2>1. pc[t] = "add_zero" /\ tailLock = t /\ tailLock' = None
    BY <1>1, <1>4 DEF AddZero, LockInv
  <2>2. /\ pc' \in [Threads -> Busy \cup {"idle"}]
        /\ pc'[t] = "idle"
        /\ \A u \in Threads \ {t} :
             \/ pc'[u] = pc[u]
             \/ u \in Consumers /\ pc[u] = "asleep" /\ pc'[u] = "woken"
    BY <1>1, <1>4, <2>1, ThreadsAssumption
    DEF AddZero, TypeOK, Goto, Busy, Threads
  <2>3. ring' = [ring EXCEPT ![tail] = 0] /\ tail \in Cells
        /\ Window' = Window /\ head' = head /\ tail' = tail
    BY <1>4 DEF AddZero, Window, TypeOK
  <2>4. tail \notin Window /\ Window \subseteq Cells
    BY WrapHead
  <2>5. \A i \in Window : ring'[i] = ring[i]
    BY <2>3, <2>4 DEF TypeOK
  <2>6. TypeOK'
    BY <1>4, <2>2, <2>3 DEF AddZero, TypeOK
  <2>7. LockInv'
    <3>2. \A u \in Threads : pc[u] = "get_clear" => ring'[head] = ring[head]
      BY <2>5 DEF LockInv
    <3>3. QED
      BY <1>1, <1>4, <2>1, <2>2, <2>3, <3>2, ThreadsAssumption
      DEF AddZero, TypeOK, LockInv
  <2>8. RingInv'
    <3>1. \A u \in Producers : pc'[u] # "add_zero"
      BY <1>1, <2>1, <2>2, ThreadsAssumption DEF LockInv, Threads
    <3>2. QED  BY <2>3, <2>5, <3>1 DEF RingInv, TypeOK
  <2>9. OnePlace'
    <3>1. Adding = {} /\ Adding' = {}
      BY <1>1, <2>1, <2>2 DEF LockInv, Adding, Threads
    <3>2. held' = held
      BY <1>4 DEF AddZero
    <3>3. QED  BY <2>3, <2>5, <3>1, <3>2 DEF OnePlace
  <2>10. QED  BY <2>6, <2>7, <2>8, <2>9
<1>5. QED
  BY <1>2, <1>3, <1>4 DEF Add

(* A reader changes neither pc labels of writers nor what they hold.       *)
LEMMA GetInv ==
  ASSUME SingleUse, IInv, NEW t \in Consumers, Get(t)
  PROVE  IInv'
<1> USE DEF IInv
<1>1. /\ t \in Threads /\ t # None /\ t \notin Producers
      /\ Pollers = {}
  BY ThreadsAssumption DEF Threads, SingleUse
<1>2. ASSUME GetRead(t)
      PROVE  IInv'
  <2>1. /\ head' = Wrap(head) /\ head' \in Cells /\ head' \in 0 .. Max
        /\ Window' = Window /\ ring' = ring /\ tail' = tail /\ held' = held
    BY <1>2, WrapHead, MaxAssumption DEF GetRead, Window, Cells
  <2>2. \/ /\ ring[head'] = 0 /\ headLock' = headLock /\ reg' = reg
           /\ pc' = [pc EXCEPT ![t] = "idle"]
        \/ /\ ring[head'] \in Ids /\ headLock' = t
           /\ reg' = [reg EXCEPT ![t] = ring[head']]
           /\ pc' = [pc EXCEPT ![t] = "get_clear"]
    BY <1>2, <2>1 DEF GetRead, Goto, TypeOK
  <2>3. Adding' = Adding /\ \A u \in Adding : reg'[u] = reg[u]
    BY <1>1, <1>2, <2>2 DEF GetRead, Adding, TypeOK, Threads
  <2>4. TypeOK'
    BY <1>1, <1>2, <2>1, <2>2 DEF GetRead, TypeOK, Busy
  <2>5. LockInv'
    <3>1. ring[head'] # 0 => head' \in Window
      BY <1>1, <2>1 DEF RingInv
    <3>2. \A u \in Threads : pc[u] # "get_clear"
      BY <1>2, ThreadsAssumption DEF GetRead, LockInv
    <3>3. 0 \notin Ids
      BY IdsAssumption
    <3>4. QED
      BY <1>1, <1>2, <2>1, <2>2, <3>1, <3>2, <3>3, ThreadsAssumption
      DEF GetRead, LockInv, TypeOK
  <2>6. RingInv'
    BY <1>1, <1>2, <2>1, <2>2 DEF GetRead, RingInv, TypeOK, Threads
  <2>7. OnePlace'
    BY <2>1, <2>3 DEF OnePlace
  <2>8. QED  BY <2>4, <2>5, <2>6, <2>7
<1>3. ASSUME GetClear(t)
      PROVE  IInv'
  <2>1. /\ head \in Window /\ reg[t] = ring[head] /\ reg[t] \in Ids
        /\ headLock = t /\ head \in Cells /\ pc[t] = "get_clear"
    BY <1>1, <1>3, WrapHead DEF GetClear, LockInv
  <2>2. /\ head' = head + 1 /\ head' \in 0 .. Max
        /\ Wrap(head) = head /\ tail' = tail /\ tail \in Cells
        /\ Window' = Window \ {head}
    <3>1. head' = head + 1 /\ tail' = tail /\ tail \in Cells
      BY <1>3 DEF GetClear, TypeOK
    <3>2. Wrap(head) = head /\ head + 1 \in 0 .. Max
      BY <2>1, MaxAssumption DEF Wrap, Cells
    <3>3. QED
      BY <2>1, <3>1, <3>2, WindowGet DEF Window
  <2>3. /\ ring' = [ring EXCEPT ![head] = 0]
        /\ \A i \in Cells \ {head} : ring'[i] = ring[i]
        /\ ring'[head] = 0
    BY <1>3, <2>1 DEF GetClear, TypeOK
  <2>4. Window \subseteq Cells /\ tail \notin Window
    BY WrapHead
  <2>5. TypeOK'
    BY <1>1, <1>3, <2>1, <2>2, <2>3 DEF GetClear, TypeOK, Goto, Busy
  <2>6. LockInv'
    <3>1. \A u \in Threads \ {t} : pc[u] # "get_clear"
      BY <2>1 DEF LockInv
    <3>2. QED
      BY <1>1, <1>3, <2>1, <3>1, ThreadsAssumption
      DEF GetClear, LockInv, TypeOK, Goto
  <2>7. RingInv'
    <3>1. (\E u \in Producers : pc[u] = "add_zero") =>
             \E u \in Producers : pc'[u] = "add_zero"
      BY <1>1, <1>3 DEF GetClear, TypeOK, Goto, Threads
    <3>2. QED
      BY <1>1, <2>2, <2>3, <2>4, <3>1 DEF RingInv, TypeOK
  <2>8. OnePlace'
    <3>1. /\ Adding' = Adding /\ held' = held \cup {reg[t]}
          /\ \A u \in Adding : reg'[u] = reg[u]
      BY <1>1, <1>3, <2>1 DEF GetClear, Adding, TypeOK, Goto, Threads
    <3>2. \A i \in Window' : ring'[i] = ring[i] /\ ring[i] # reg[t]
      BY <2>1, <2>2, <2>3, <2>4 DEF OnePlace
    <3>3. \A u \in Adding : reg[u] # reg[t]
      BY <2>1 DEF OnePlace
    <3>4. \A id \in Ids, i \in Window :
             ring[i] = id => id = reg[t] \/ i \in Window'
      BY <2>1, <2>2
    <3>5. Window' \subseteq Window
      BY <2>2
    <3>6. QED  BY <3>1, <3>2, <3>3, <3>4, <3>5 DEF OnePlace
  <2>9. QED  BY <2>5, <2>6, <2>7, <2>8
<1>4. QED
  BY <1>2, <1>3 DEF Get

LEMMA WaitInv ==
  ASSUME IInv, NEW t \in Consumers, Wait(t)
  PROVE  IInv'
<1> USE DEF IInv
<1>1. t \in Threads /\ t # None /\ t \notin Producers
  BY ThreadsAssumption DEF Threads
<1>2. /\ UNCHANGED <<ring, head, tail, headLock, reg, held, ret>>
      /\ pc[t] \in {"idle", "wait_check", "asleep", "woken"}
      /\ \E label \in {"wait_check", "asleep", "woken", "awake"} :
           /\ pc' = [pc EXCEPT ![t] = label]
           /\ \/ /\ tailLock' = t /\ tailLock = None
                 /\ label = "wait_check"
              \/ /\ tailLock' = None /\ tailLock = t
                 /\ pc[t] = "wait_check" /\ label # "wait_check"
              \/ /\ tailLock' = tailLock
                 /\ pc[t] # "wait_check" /\ label # "wait_check"
  <2>1. CASE WaitLock(t)    BY <2>1 DEF WaitLock, Goto
  <2>2. CASE WaitCheck(t)
    <3>1. tailLock = t  BY <1>1, <2>2 DEF WaitCheck, LockInv
    <3>2. PICK cell \in RawRead(head) :
            pc' = [pc EXCEPT ![t] = IF cell = 0 THEN "asleep" ELSE "awake"]
      BY <2>2 DEF WaitCheck, Goto
    <3>3. CASE cell = 0    BY <2>2, <3>1, <3>2, <3>3 DEF WaitCheck
    <3>4. CASE cell # 0    BY <2>2, <3>1, <3>2, <3>4 DEF WaitCheck
    <3>5. QED  BY <3>3, <3>4
  <2>3. CASE WaitTimeout(t) BY <2>3 DEF WaitTimeout, Goto
  <2>4. CASE WaitReturn(t)  BY <2>4 DEF WaitReturn, Goto
  <2>5. QED  BY <2>1, <2>2, <2>3, <2>4 DEF Wait
<1>3. Window' = Window /\ Adding' = Adding
  BY <1>1, <1>2 DEF Window, Adding, TypeOK, Threads
<1>4. TypeOK'
  BY <1>1, <1>2 DEF TypeOK, Busy
<1>5. LockInv'
  BY <1>1, <1>2, <1>3, ThreadsAssumption DEF TypeOK, LockInv
<1>6. RingInv'
  BY <1>1, <1>2, <1>3 DEF RingInv, TypeOK, Threads
<1>7. OnePlace'
  BY <1>2, <1>3 DEF OnePlace
<1>8. QED  BY <1>4, <1>5, <1>6, <1>7

LEMMA PollInv ==
  ASSUME SingleUse, IInv, NEW t \in Pollers, Poll(t)
  PROVE  IInv'
<1> USE DEF IInv
<1>1. /\ t \in Threads /\ t # None /\ t \notin Producers /\ t \notin Consumers
      /\ Consumers = {} /\ PollLen >= Max - 1
  BY ThreadsAssumption DEF Threads, SingleUse
<1>2. CASE PollHead(t)
  <2>1. Window' = Window /\ Adding' = Adding
    BY <1>1, <1>2 DEF PollHead, Window, Adding, Goto, TypeOK, Threads
  <2>2. TypeOK'
    BY <1>1, <1>2 DEF PollHead, TypeOK, Goto, Busy
  <2>3. LockInv'
    BY <1>1, <1>2, <2>1, ThreadsAssumption DEF PollHead, TypeOK, LockInv, Goto
  <2>4. RingInv' /\ OnePlace'
    BY <1>1, <1>2, <2>1
    DEF PollHead, RingInv, OnePlace, TypeOK, Goto, Threads
  <2>5. QED  BY <2>2, <2>3, <2>4
<1>3. CASE PollTail(t)
  <2>1. /\ UNCHANGED <<ring, head, tail, reg, held, ret>>
        /\ tailLock = None /\ pc[t] = "poll_tail" /\ headLock = t
        /\ \/ /\ headLock' = None /\ tailLock' = tailLock
              /\ pc' = [pc EXCEPT ![t] = "idle"]
           \/ /\ headLock' = headLock /\ tailLock' = t
              /\ pc' = [pc EXCEPT ![t] = "poll_scan"]
    BY <1>1, <1>3 DEF PollTail, Goto, LockInv
  <2>2. Window' = Window /\ Adding' = Adding
    BY <1>1, <2>1 DEF Window, Adding, TypeOK, Threads
  <2>3. TypeOK'
    BY <1>1, <2>1 DEF TypeOK, Busy
  <2>4. LockInv'
    BY <1>1, <2>1, <2>2, ThreadsAssumption DEF TypeOK, LockInv
  <2>5. RingInv' /\ OnePlace'
    BY <1>1, <2>1, <2>2 DEF RingInv, OnePlace, TypeOK, Threads
  <2>6. QED  BY <2>3, <2>4, <2>5
<1>4. CASE PollScan(t)
  <2>1. /\ pc[t] = "poll_scan" /\ headLock = t /\ tailLock = t
        /\ headLock' = None /\ tailLock' = None
        /\ pc' = [pc EXCEPT ![t] = "idle"] /\ reg' = reg /\ ret' = ret
    BY <1>1, <1>4 DEF PollScan, Goto, LockInv
  <2>2. /\ Adding = {} /\ Adding' = {}
        /\ \A u \in Producers : pc[u] # "add_zero"
        /\ \A u \in Threads : pc'[u] # "get_clear"
    BY <1>1, <2>1, ThreadsAssumption DEF LockInv, Adding, TypeOK, Threads
  <2>4. CASE UNCHANGED <<ring, head, tail, held>>
    <3>1. Window' = Window
      BY <2>4 DEF Window
    <3>2. TypeOK'
      BY <1>1, <2>1, <2>4 DEF TypeOK
    <3>3. LockInv'
      BY <1>1, <2>1, <2>2, <2>4, ThreadsAssumption DEF TypeOK, LockInv
    <3>4. RingInv' /\ OnePlace'
      BY <2>1, <2>2, <2>4, <3>1 DEF RingInv, OnePlace
    <3>5. QED  BY <3>2, <3>3, <3>4
  <2>5. CASE ClearQueue /\ held' = held \cup Elements(Contents)
    <3>1. 0 \in Cells /\ 0 \in 0 .. Max /\ Wrap(0) = 0
      BY MaxAssumption DEF Cells, Wrap
    <3>2. Window' = {} /\ ring'[0] = 0 /\ head' = 0 /\ tail' = 0
      BY <2>5, <3>1, WindowBounds DEF ClearQueue, Window, TypeOK
    <3>3. Elements(Contents) = {ring[i] : i \in Window}
      BY ContentsOfWindow
    <3>4. Elements(Contents) \subseteq Ids
      BY <3>3 DEF RingInv
    <3>5. TypeOK'
      BY <1>1, <2>1, <2>5, <3>1, <3>4 DEF ClearQueue, TypeOK
    <3>6. LockInv'
      BY <1>1, <2>1, <2>2, ThreadsAssumption DEF TypeOK, LockInv
    <3>7. RingInv'
      <4>1. \A u \in Producers : pc'[u] # "add_zero"
        BY <1>1, <2>1, <2>2 DEF TypeOK, Threads
      <4>2. QED  BY <1>1, <3>2, <4>1 DEF RingInv
    <3>8. OnePlace'
      BY <2>2, <2>5, <3>2, <3>3 DEF OnePlace
    <3>9. QED  BY <3>5, <3>6, <3>7, <3>8
  <2>6. QED
    <3>1. PICK live \in SUBSET Elements(Contents), ok \in BOOLEAN :
            IF ok /\ Polled(live) # {}
            THEN ClearQueue /\ held' = held \cup Polled(live)
                                            \cup (Elements(Contents) \ live)
            ELSE UNCHANGED <<ring, head, tail, held>>
      BY <1>4 DEF PollScan
    <3>2. Polled(live) = live
      BY <1>1, PollsAll
    <3>3. QED  BY <2>4, <2>5, <3>1, <3>2
<1>5. QED
  BY <1>2, <1>3, <1>4 DEF Poll

(* IInv is inductive.                                                      *)
LEMMA StepInv ==
  ASSUME SingleUse, IInv, [Next]_vars
  PROVE  IInv'
<1>1. CASE UNCHANGED vars
  BY <1>1 DEF vars, IInv, TypeOK, LockInv, RingInv, OnePlace, Window, Adding
<1>2. CASE Next
  BY <1>2, AddInv, GetInv, WaitInv, PollInv DEF Next
<1>3. QED
  BY <1>1, <1>2

(* A queue used in either of the two ways the program uses its queues      *)
(* keeps the inductive invariant.                                          *)
THEOREM QueueInvariant ==
  ASSUME SingleUse
  PROVE  Spec => []IInv
<1>1. Init => IInv
  BY InitInv
<1>2. IInv /\ [Next]_vars => IInv'
  BY StepInv
<1>3. QED
  BY <1>1, <1>2, PTL DEF Spec

(* Every variable keeps its type: no index leaves the ring.                *)
THEOREM QueueTypeOK ==
  ASSUME SingleUse
  PROVE  Spec => []TypeOK
<1>1. IInv => TypeOK
  BY DEF IInv
<1>2. QED
  BY <1>1, QueueInvariant, PTL

(* No identifier is lost, duplicated or read stale, for any ring size and  *)
(* any number of threads.                                                  *)
THEOREM QueueOnePlace ==
  ASSUME SingleUse
  PROVE  Spec => []OnePlace
<1>1. IInv => OnePlace
  BY DEF IInv
<1>2. QED
  BY <1>1, QueueInvariant, PTL

LEMMA EndMarkHolds ==
  ASSUME SingleUse, IInv
  PROVE  EndMark
<1>1. Wrap(head) \in Cells /\ tail \in Cells
  BY WrapHead DEF IInv, TypeOK
<1>2. CASE Wrap(head) # tail
  <2>1. Wrap(head) \in Window
    BY <1>1, <1>2, WindowBounds DEF Window
  <2>2. QED
    BY <1>2, <2>1, IdsAssumption DEF EndMark, IInv, RingInv
<1>3. CASE Wrap(head) = tail
  <2>1. Window = {}
    BY <1>1, <1>3, WindowBounds DEF Window
  <2>2. CASE Pollers = {}
    BY <1>1, <1>3, <2>1, <2>2 DEF EndMark, IInv, RingInv
  <2>3. CASE Consumers = {}
    <3>1. tail = 0
      BY <1>3, <2>3, MaxAssumption DEF IInv, RingInv, Wrap
    <3>2. QED
      BY <1>3, <2>3, <3>1 DEF EndMark, IInv, RingInv
  <2>4. QED
    BY <2>2, <2>3 DEF SingleUse
<1>4. QED
  BY <1>2, <1>3

(* A reader always finds the end of the queue where it is.                 *)
THEOREM QueueEndMark ==
  ASSUME SingleUse
  PROVE  Spec => []EndMark
<1>1. IInv => EndMark
  BY EndMarkHolds
<1>2. QED
  BY <1>1, QueueInvariant, PTL

-----------------------------------------------------------------------------
(* The signal of socket_queue_add.                                         *)

LEMMA EmptyContents ==
  ASSUME TypeOK
  PROVE  /\ Contents = <<>> <=> Wrap(head) = tail
         /\ Contents = <<>> <=> Window = {}
<1>1. Wrap(head) \in Cells /\ tail \in Cells
  BY WrapHead DEF TypeOK
<1>2. Count(Wrap(head), tail) \in 0 .. (Max - 1)
  BY <1>1, WindowWalk
<1>3. Count(Wrap(head), tail) = 0 <=> Wrap(head) = tail
  BY <1>1, MaxAssumption DEF Count, Cells
<1>4. Contents = <<>> <=> Count(Wrap(head), tail) = 0
  <2>1. DOMAIN Contents = 1 .. Count(Wrap(head), tail)
    BY DEF Contents
  <2>2. Count(Wrap(head), tail) = 0 => Contents = <<>>
    BY DEF Contents
  <2>3. Contents = <<>> => DOMAIN Contents = {}
    OBVIOUS
  <2>4. QED
    BY <1>2, <2>1, <2>2, <2>3
<1>5. Wrap(head) = tail <=> Window = {}
  BY <1>1, WindowBounds DEF Window
<1>6. QED
  BY <1>3, <1>4, <1>5

LEMMA WakeupStep ==
  ASSUME SingleUse, Consumers # {}, IInv, NoLostWakeup, [Next]_vars
  PROVE  NoLostWakeup'
<1> USE DEF IInv
<1>0. Pollers = {} /\ Consumers \cap Producers = {} /\ Consumers \subseteq Threads
      /\ Producers \subseteq Threads
  BY ThreadsAssumption DEF SingleUse, Threads
<1>1. CASE UNCHANGED vars
  BY <1>1 DEF vars, NoLostWakeup, Contents
<1>2. ASSUME NEW t \in Producers, Add(t) PROVE NoLostWakeup'
  <2>1. ASSUME NEW id \in Ids, AddLock(t, id) PROVE NoLostWakeup'
    <3>1. Contents' = Contents /\ head' = head
      BY <2>1 DEF AddLock, Contents
    <3>2. pc[t] = "idle" /\ pc' = [pc EXCEPT ![t] = "add_store"]
      BY <2>1 DEF AddLock, Goto
    <3>3. /\ \A c \in Consumers : pc'[c] = pc[c]
          /\ \A u \in Producers : pc[u] = "add_zero" => pc'[u] = "add_zero"
      BY <1>0, <3>2 DEF TypeOK
    <3>4. QED
      BY <3>1, <3>3 DEF NoLostWakeup
  <2>2. CASE AddStore(t)
    <3>1. pc'[t] = "add_zero"
      BY <1>0, <2>2 DEF AddStore, Goto, TypeOK
    <3>2. QED
      BY <3>1 DEF NoLostWakeup
  <2>3. CASE AddZero(t)
    <3>1. \E c \in Consumers : pc'[c] # "asleep"
      <4> DEFINE sleepers == {c \in Consumers : pc[c] = "asleep"}
      <4>1. CASE sleepers = {} /\ pc' = [pc EXCEPT ![t] = "idle"]
        BY <4>1, <1>0 DEF TypeOK
      <4>2. ASSUME NEW c \in sleepers, pc' = [pc EXCEPT ![t] = "idle", ![c] = "woken"]
            PROVE  \E d \in Consumers : pc'[d] # "asleep"
        BY <4>2, <1>0 DEF TypeOK
      <4>3. QED
        BY <2>3, <4>1, <4>2 DEF AddZero, Goto
    <3>2. QED
      BY <3>1 DEF NoLostWakeup
  <2>4. QED
    BY <1>2, <2>1, <2>2, <2>3 DEF Add
<1>3. ASSUME NEW t \in Consumers, Get(t) PROVE NoLostWakeup'
  <2>1. pc'[t] # "asleep"
    BY <1>0, <1>3 DEF Get, GetRead, GetClear, Goto, TypeOK
  <2>2. QED
    BY <2>1 DEF NoLostWakeup
<1>4. ASSUME NEW t \in Consumers, Wait(t) PROVE NoLostWakeup'
  <2>1. CASE WaitLock(t) \/ WaitTimeout(t) \/ WaitReturn(t)
    <3>1. pc'[t] # "asleep"
      BY <1>0, <2>1 DEF WaitLock, WaitTimeout, WaitReturn, Goto, TypeOK
    <3>2. QED
      BY <3>1 DEF NoLostWakeup
  <2>2. CASE WaitCheck(t)
    <3>1. PICK cell \in RawRead(head) :
            pc' = [pc EXCEPT ![t] = IF cell = 0 THEN "asleep" ELSE "awake"]
      BY <2>2 DEF WaitCheck, Goto
    <3>2. CASE cell # 0
      <4>1. pc'[t] = "awake"
        BY <3>1, <3>2, <1>0 DEF TypeOK
      <4>2. QED
        BY <4>1 DEF NoLostWakeup
    <3>3. head' = head /\ Contents' = Contents
      BY <2>2 DEF WaitCheck, Contents
    <3>4. CASE cell = 0 /\ head # Max
      <4>1. ring[Wrap(head)] = 0
        BY <3>4 DEF RawRead, Wrap
      <4>2. Wrap(head) = tail
        BY <4>1, EndMarkHolds DEF EndMark
      <4>3. Contents = <<>>
        BY <4>2, EmptyContents
      <4>4. QED
        BY <4>3, <3>3 DEF NoLostWakeup
    <3>5. CASE head = Max
      BY <3>3, <3>5 DEF NoLostWakeup
    <3>6. QED
      BY <3>2, <3>4, <3>5
  <2>3. QED
    BY <1>4, <2>1, <2>2 DEF Wait
<1>5. QED
  BY <1>0, <1>1, <1>2, <1>3, <1>4 DEF Next

(* However many readers sleep in socket_queue_wait, one of them is awake   *)
(* or about to be signalled while the queue holds an identifier, but for   *)
(* the reader that misreads the cell past the end of the ring: the test    *)
(* and the sleep are made under the lock of the writers.                   *)
THEOREM QueueNoLostWakeup ==
  ASSUME SingleUse, Consumers # {}
  PROVE  Spec => []NoLostWakeup
<1>1. Init => NoLostWakeup
  <2> SUFFICES ASSUME Init PROVE NoLostWakeup
    OBVIOUS
  <2>1. PICK c \in Consumers : pc[c] = "idle"
    BY DEF Init, Threads
  <2>2. QED
    BY <2>1 DEF NoLostWakeup
<1>2. IInv /\ NoLostWakeup /\ [Next]_vars => NoLostWakeup'
  BY WakeupStep
<1>3. QED
  BY <1>1, <1>2, QueueInvariant, PTL DEF Spec

-----------------------------------------------------------------------------
(* The queue implements the FIFO.                                          *)

InHands == held \cup {reg[t] : t \in Adding}

LEMMA CountAdd ==
  ASSUME NEW h \in Cells, NEW tl \in Cells, NextCell(tl) # h
  PROVE  /\ Count(h, NextCell(tl)) = Count(h, tl) + 1
         /\ CellAt(h, Count(h, tl) + 1) = tl
  BY MaxAssumption DEF Count, Cells, NextCell, Wrap, CellAt

LEMMA CountGet ==
  ASSUME NEW h \in Cells, NEW tl \in Cells, h # tl
  PROVE  /\ Count(h, tl) >= 1 /\ CellAt(h, 1) = h
         /\ Count(Wrap(h + 1), tl) = Count(h, tl) - 1
         /\ \A k \in 1 .. (Count(h, tl) - 1) : CellAt(Wrap(h + 1), k) = CellAt(h, k + 1)
<1>1. Count(h, tl) >= 1 /\ CellAt(h, 1) = h
  BY MaxAssumption DEF Count, Cells, CellAt
<1>2. Count(Wrap(h + 1), tl) = Count(h, tl) - 1
  BY MaxAssumption DEF Count, Cells, Wrap
<1>3. ASSUME NEW k \in 1 .. (Count(h, tl) - 1)
      PROVE  CellAt(Wrap(h + 1), k) = CellAt(h, k + 1)
  BY MaxAssumption DEF Count, Cells, Wrap, CellAt
<1>4. QED
  BY <1>1, <1>2, <1>3

LEMMA ContentsType ==
  ASSUME IInv
  PROVE  /\ Contents \in Seq(Ids) /\ Len(Contents) = Count(Wrap(head), tail)
         /\ \A k \in 1 .. Len(Contents) :
              /\ CellAt(Wrap(head), k) \in Window
              /\ Contents[k] = ring[CellAt(Wrap(head), k)]
<1> USE DEF IInv
<1>1. Wrap(head) \in Cells /\ tail \in Cells
  BY WrapHead DEF TypeOK
<1>2. /\ Count(Wrap(head), tail) \in Nat
      /\ \A k \in 1 .. Count(Wrap(head), tail) : CellAt(Wrap(head), k) \in Window
  BY <1>1, WindowWalk DEF Window
<1>3. \A k \in 1 .. Count(Wrap(head), tail) : ring[CellAt(Wrap(head), k)] \in Ids
  BY <1>2 DEF RingInv
<1>4. QED
  BY <1>2, <1>3 DEF Contents

LEMMA FifoAddStore ==
  ASSUME IInv, NEW t \in Producers, AddStore(t)
  PROVE  /\ reg[t] \in Ids /\ reg[t] \in InHands
         /\ Contents' = Append(Contents, reg[t])
         /\ InHands' = InHands \ {reg[t]} /\ ret' = ret
<1> USE DEF IInv
<1> DEFINE h == Wrap(head)
           n == Count(h, tail)
<1>1. /\ NextCell(tail) # h /\ h \in Cells /\ tail \in Cells
      /\ tail \notin Window /\ Window \subseteq Cells
  BY AddHasRoom, WrapHead DEF AddStore, TypeOK
<1>2. /\ ring' = [ring EXCEPT ![tail] = reg[t]] /\ tail' = NextCell(tail)
      /\ head' = head /\ held' = held /\ ret' = ret
  BY DEF AddStore
<1>3. reg[t] \in Ids /\ t \in Adding /\ Adding = {t}
  BY DEF LockInv, AddStore, Adding, Threads, OnePlace
<1>4. Adding' = {}
  BY <1>3 DEF AddStore, Adding, Goto, TypeOK, Threads
<1>5. /\ Contents \in Seq(Ids) /\ Len(Contents) = n /\ n \in Nat
      /\ \A k \in 1 .. n : CellAt(h, k) \in Window /\ Contents[k] = ring[CellAt(h, k)]
  BY ContentsType, <1>1, WindowWalk
<1>6. Count(h, tail') = n + 1 /\ CellAt(h, n + 1) = tail
  BY <1>1, <1>2, CountAdd
<1> HIDE DEF n, h
<1>7. Contents' = [k \in 1 .. n + 1 |-> ring'[CellAt(h, k)]]
  BY <1>2, <1>6 DEF Contents, h
<1>8. \A k \in 1 .. n + 1 : ring'[CellAt(h, k)] = IF k = n + 1 THEN reg[t] ELSE Contents[k]
  <2>1. \A k \in 1 .. n + 1 : k = n + 1 \/ k \in 1 .. n
    BY <1>5
  <2>2. ring'[tail] = reg[t] /\ \A i \in Window : ring'[i] = ring[i]
    BY <1>1, <1>2 DEF TypeOK
  <2>3. QED
    BY <2>1, <2>2, <1>5, <1>6
<1>9. Append(Contents, reg[t]) = [k \in 1 .. n + 1 |-> IF k = n + 1 THEN reg[t] ELSE Contents[k]]
  BY <1>3, <1>5
<1>10. Contents' = Append(Contents, reg[t])
  BY <1>7, <1>8, <1>9
<1>11. InHands = held \cup {reg[t]} /\ InHands' = held
  BY <1>2, <1>3, <1>4 DEF InHands
<1>12. reg[t] \notin held
  BY <1>3 DEF OnePlace
<1>13. QED
  BY <1>2, <1>3, <1>10, <1>11, <1>12

LEMMA FifoGetClear ==
  ASSUME IInv, NEW t \in Consumers, GetClear(t)
  PROVE  /\ Contents # <<>> /\ Contents' = Tail(Contents)
         /\ InHands' = InHands \cup {Head(Contents)}
         /\ ret' = [ret EXCEPT ![t] = Head(Contents)]
<1> USE DEF IInv
<1>1. /\ head \in Window /\ reg[t] = ring[head] /\ reg[t] \in Ids /\ head \in Cells
      /\ tail \in Cells /\ tail \notin Window /\ t \in Threads
  BY WrapHead DEF GetClear, LockInv, TypeOK, Threads
<1>2. Wrap(head) = head /\ head # tail
  BY <1>1, MaxAssumption DEF Wrap, Cells
<1> DEFINE n == Count(head, tail)
<1>3. /\ Contents \in Seq(Ids) /\ Len(Contents) = n /\ n \in Nat
      /\ \A k \in 1 .. n : Contents[k] = ring[CellAt(head, k)]
  BY ContentsType, <1>1, <1>2, WindowWalk
<1>4. /\ n >= 1 /\ CellAt(head, 1) = head /\ Count(Wrap(head + 1), tail) = n - 1
      /\ \A k \in 1 .. n - 1 : CellAt(Wrap(head + 1), k) = CellAt(head, k + 1)
  BY <1>1, <1>2, CountGet
<1>5. Wrap(head + 1) \in Cells
  BY <1>1, MaxAssumption DEF Wrap, Cells
<1>6. \A k \in 1 .. n - 1 : CellAt(Wrap(head + 1), k) \in Window \ {head}
  <2>1. Between(Wrap(head + 1), tail) = Window \ {head}
    BY <1>1, <1>2, WindowGet DEF Window
  <2>2. QED
    BY <2>1, <1>1, <1>4, <1>5, WindowWalk
<1>7. /\ ring' = [ring EXCEPT ![head] = 0] /\ head' = head + 1 /\ tail' = tail
      /\ held' = held \cup {reg[t]} /\ ret' = [ret EXCEPT ![t] = reg[t]]
      /\ reg' = [reg EXCEPT ![t] = 0] /\ pc' = [pc EXCEPT ![t] = "idle"]
  BY DEF GetClear, Goto
<1> HIDE DEF n
<1>8. Contents # <<>> /\ Head(Contents) = reg[t]
  BY <1>1, <1>3, <1>4
<1>9. Contents' = [k \in 1 .. n - 1 |-> ring'[CellAt(Wrap(head + 1), k)]]
  BY <1>4, <1>7 DEF Contents
<1>10. \A k \in 1 .. n - 1 : ring'[CellAt(Wrap(head + 1), k)] = Contents[k + 1]
  <2>1. \A i \in Window \ {head} : ring'[i] = ring[i]
    BY <1>7, WrapHead DEF TypeOK
  <2>2. \A k \in 1 .. n - 1 : k + 1 \in 1 .. n
    BY <1>3
  <2>3. QED
    BY <2>1, <2>2, <1>3, <1>4, <1>6
<1>11. Contents' = Tail(Contents)
  <2>1. Tail(Contents) \in Seq(Ids) /\ Len(Tail(Contents)) = n - 1
    BY <1>3, <1>8, HeadTailProperties
  <2>2. \A s \in Seq(Ids) : s = [k \in 1 .. Len(s) |-> s[k]]
    OBVIOUS
  <2>3. \A k \in 1 .. n - 1 : Tail(Contents)[k] = Contents[k + 1]
    BY <1>3, <1>4, <1>8
  <2> DEFINE s == Tail(Contents)
  <2> HIDE DEF s
  <2>4. s = [k \in 1 .. n - 1 |-> s[k]] /\ \A k \in 1 .. n - 1 : s[k] = Contents[k + 1]
    BY <2>1, <2>2, <2>3 DEF s
  <2>5. Contents' = s
    BY <2>4, <1>9, <1>10
  <2>6. QED
    BY <2>5 DEF s
<1>12. InHands' = InHands \cup {reg[t]}
  <2>1. t \notin Producers
    BY ThreadsAssumption
  <2>2. Adding' = Adding /\ \A u \in Adding : reg'[u] = reg[u]
    BY <1>1, <1>7, <2>1 DEF Adding, TypeOK, Threads
  <2>3. QED
    BY <2>2, <1>7 DEF InHands
<1>13. QED
  BY <1>7, <1>8, <1>11, <1>12

(* The steps of a reader or a writer that do not change what is queued.    *)
LEMMA FifoStutter ==
  ASSUME TypeOK, tail' = tail, Wrap(head') = Wrap(head), held' = held,
         \A i \in Window : ring'[i] = ring[i],
         Adding' = Adding, \A u \in Adding : reg'[u] = reg[u]
  PROVE  Contents' = Contents /\ InHands' = InHands
<1>1. Wrap(head) \in Cells /\ tail \in Cells
  BY WrapHead DEF TypeOK
<1>2. \A k \in 1 .. Count(Wrap(head), tail) : CellAt(Wrap(head), k) \in Window
  BY <1>1, WindowWalk DEF Window
<1>3. Contents' = Contents
  BY <1>2 DEF Contents
<1>4. QED
  BY <1>3 DEF InHands

LEMMA FifoStep ==
  ASSUME SingleUse, IInv, [Next]_vars
  PROVE  [Fifo!Next]_<<Contents, InHands, ret>>
<1> USE DEF IInv
<1>0. /\ Producers \subseteq Threads /\ Consumers \subseteq Threads /\ Pollers \subseteq Threads
      /\ Producers \cap Consumers = {} /\ Pollers \cap Producers = {}
      /\ Pollers \cap Consumers = {}
      /\ None \notin Threads
  BY ThreadsAssumption DEF Threads
<1>1. CASE UNCHANGED vars
  BY <1>1 DEF vars, Contents, InHands, Adding
<1>2. ASSUME NEW t \in Producers, NEW id \in Ids, AddLock(t, id)
      PROVE  UNCHANGED <<Contents, InHands, ret>>
  <2>1. UNCHANGED <<ring, head, tail, ret>> /\ held' = held \ {id} /\ id \in held
    BY <1>2 DEF AddLock
  <2>2. reg'[t] = id
    BY <1>0, <1>2 DEF AddLock, TypeOK
  <2>3. Adding = {} /\ Adding' = {t}
    BY <1>0, <1>2 DEF TypeOK, LockInv, AddLock, Goto, Adding
  <2>4. QED
    BY <2>1, <2>2, <2>3 DEF Contents, InHands
<1>3. ASSUME NEW t \in Producers, AddStore(t)
      PROVE  Fifo!Next
  <2>1. PICK id \in Ids : id = reg[t]
    BY <1>3, FifoAddStore
  <2>2. Fifo!Add(id)
    BY <2>1, <1>3, FifoAddStore DEF Fifo!Add, InHands
  <2>3. QED
    BY <2>2 DEF Fifo!Next
<1>4. ASSUME NEW t \in Producers, AddZero(t)
      PROVE  UNCHANGED <<Contents, InHands, ret>>
  <2>1. ring' = [ring EXCEPT ![tail] = 0] /\ UNCHANGED <<head, tail, reg, held, ret>>
    BY <1>4 DEF AddZero
  <2>2. Adding' = Adding
    BY <1>0, <1>4 DEF AddZero, Adding, Goto, TypeOK
  <2>3. \A i \in Window : ring'[i] = ring[i]
    BY <2>1, WrapHead DEF TypeOK
  <2>4. QED
    BY <2>1, <2>2, <2>3, FifoStutter
<1>5. ASSUME NEW t \in Consumers, GetRead(t)
      PROVE  [Fifo!Next]_<<Contents, InHands, ret>>
  <2>1. /\ head' = Wrap(head) /\ Wrap(head') = Wrap(head)
        /\ UNCHANGED <<ring, tail, held>>
    BY <1>5, WrapHead DEF GetRead
  <2>2. /\ \/ /\ ring[Wrap(head)] = 0 /\ reg' = reg /\ pc' = [pc EXCEPT ![t] = "idle"]
              /\ ret' = [ret EXCEPT ![t] = 0]
           \/ /\ pc' = [pc EXCEPT ![t] = "get_clear"] /\ ret' = ret
              /\ reg' = [reg EXCEPT ![t] = ring[head']]
    BY <1>5, <2>1 DEF GetRead, Goto
  <2>3. Adding' = Adding /\ \A u \in Adding : reg'[u] = reg[u]
    BY <1>0, <2>2 DEF Adding, TypeOK
  <2>4. Contents' = Contents /\ InHands' = InHands
    BY <2>1, <2>3, FifoStutter
  <2>5. CASE ring[Wrap(head)] = 0 /\ ret' = [ret EXCEPT ![t] = 0]
    <3>1. Contents = <<>>
      BY <2>5, EndMarkHolds, EmptyContents DEF EndMark
    <3>2. Fifo!GetNothing(t)
      BY <2>4, <2>5, <3>1 DEF Fifo!GetNothing, InHands
    <3>3. QED
      BY <3>2 DEF Fifo!Next
  <2>6. QED
    BY <2>2, <2>4, <2>5
<1>6. ASSUME NEW t \in Consumers, GetClear(t)
      PROVE  Fifo!Next
  <2>1. Fifo!Get(t)
    BY <1>6, FifoGetClear DEF Fifo!Get, InHands
  <2>2. QED
    BY <2>1 DEF Fifo!Next
<1>7. ASSUME NEW t \in Consumers, Wait(t)
      PROVE  UNCHANGED <<Contents, InHands, ret>>
  <2>1. UNCHANGED <<ring, head, tail, reg, held, ret>>
    BY <1>7 DEF Wait, WaitLock, WaitCheck, WaitTimeout, WaitReturn
  <2>2. \E label : pc' = [pc EXCEPT ![t] = label]
    BY <1>7 DEF Wait, WaitLock, WaitCheck, WaitTimeout, WaitReturn, Goto
  <2>3. Adding' = Adding
    BY <1>0, <2>2 DEF Adding, TypeOK
  <2>4. QED
    BY <2>1, <2>3, FifoStutter
<1>8. ASSUME NEW t \in Pollers, Poll(t)
      PROVE  [Fifo!Next]_<<Contents, InHands, ret>>
  <2>1. Adding' = Adding /\ reg' = reg /\ ret' = ret
    <3>1. \E label : pc' = [pc EXCEPT ![t] = label]
      BY <1>8 DEF Poll, PollHead, PollTail, PollScan, Goto
    <3>2. reg' = reg /\ ret' = ret
      BY <1>8 DEF Poll, PollHead, PollTail, PollScan
    <3>3. QED
      BY <1>0, <3>1, <3>2 DEF Adding, TypeOK
  <2>2. CASE UNCHANGED <<ring, head, tail, held>>
    BY <2>1, <2>2, FifoStutter
  <2>3. CASE PollScan(t)
    <3>1. PICK live \in SUBSET Elements(Contents), ok \in BOOLEAN :
            IF ok /\ Polled(live) # {}
            THEN ClearQueue /\ held' = held \cup Polled(live) \cup (Elements(Contents) \ live)
            ELSE UNCHANGED <<ring, head, tail, held>>
      BY <2>3 DEF PollScan
    <3>2. Polled(live) = live
      BY <1>8, PollsAll DEF SingleUse
    <3>3. CASE ClearQueue /\ held' = held \cup Elements(Contents)
      <4>1. Contents' = <<>>
        <5>1. Wrap(0) = 0 /\ Count(0, 0) = 0
          BY MaxAssumption DEF Wrap, Count
        <5>2. head' = 0 /\ tail' = 0
          BY <3>3 DEF ClearQueue
        <5>3. QED
          BY <5>1, <5>2 DEF Contents
      <4>2. InHands' = InHands \cup {Contents[k] : k \in DOMAIN Contents}
        BY <2>1, <3>3 DEF InHands, Elements
      <4>3. Fifo!Drain
        BY <2>1, <4>1, <4>2 DEF Fifo!Drain, InHands
      <4>4. QED
        BY <4>3 DEF Fifo!Next
    <3>4. QED
      BY <2>2, <3>1, <3>2, <3>3
  <2>4. QED
    BY <1>8, <2>2, <2>3 DEF Poll, PollHead, PollTail
<1>9. QED
  BY <1>1, <1>2, <1>3, <1>4, <1>5, <1>6, <1>7, <1>8 DEF Next, Add, Get

LEMMA FifoInit == Init => Fifo!Init
<1> SUFFICES ASSUME Init PROVE Fifo!Init
  OBVIOUS
<1>1. IInv
  BY InitInv
<1>2. Wrap(head) = tail
  BY MaxAssumption DEF Init, Wrap
<1>3. Contents = <<>>
  BY <1>1, <1>2, EmptyContents DEF IInv
<1>4. Adding = {}
  BY DEF Init, Adding, Threads
<1>5. QED
  BY <1>3, <1>4 DEF Fifo!Init, Init

(* Every behaviour of the ring, for any size of the ring and any number of *)
(* threads, is one of the FIFO that lib/m_socket.h promises: identifiers   *)
(* leave in the order they came, each once, and "empty" is only answered   *)
(* when it is.                                                             *)
THEOREM QueueImplementsFifo ==
  ASSUME SingleUse
  PROVE  Spec => FifoSpec
<1>1. IInv /\ [Next]_vars => [Fifo!Next]_<<Contents, InHands, ret>>
  BY FifoStep
<1>2. QED
  BY <1>1, FifoInit, QueueInvariant, PTL DEF Spec, FifoSpec, Fifo!Spec, InHands

(* The poll that ends has given its caller what it took from the ring.     *)
LEMMA TakesAllStep ==
  ASSUME SingleUse, IInv, [Next]_vars, NEW t \in Pollers, pc[t] = "poll_scan", pc'[t] = "idle"
  PROVE  Elements(Contents) \subseteq Elements(Contents)' \cup held'
<1>0. /\ Producers \subseteq Threads /\ Consumers \subseteq Threads /\ Pollers \subseteq Threads
      /\ Pollers \cap Producers = {} /\ Pollers \cap Consumers = {}
      /\ pc \in [Threads -> Busy \cup {"idle"}]
  BY ThreadsAssumption DEF Threads, IInv, TypeOK
<1>1. ASSUME NEW u \in Producers, Add(u) PROVE pc'[t] = pc[t]
  BY <1>0, <1>1 DEF Add, AddLock, AddStore, AddZero, Goto
<1>2. ASSUME NEW u \in Consumers, Get(u) \/ Wait(u) PROVE pc'[t] = pc[t]
  BY <1>0, <1>2
  DEF Get, GetRead, GetClear, Wait, WaitLock, WaitCheck, WaitTimeout, WaitReturn, Goto
<1>3. ASSUME NEW u \in Pollers, Poll(u), u # t PROVE pc'[t] = pc[t]
  BY <1>0, <1>3 DEF Poll, PollHead, PollTail, PollScan, Goto
<1>4. pc'[t] # pc[t]
  OBVIOUS
<1>5. Poll(t)
  BY <1>1, <1>2, <1>3, <1>4 DEF Next, vars
<1>6. PollScan(t)
  BY <1>5 DEF Poll, PollHead, PollTail
<1>7. PICK live \in SUBSET Elements(Contents), ok \in BOOLEAN :
        IF ok /\ Polled(live) # {}
        THEN ClearQueue /\ held' = held \cup Polled(live) \cup (Elements(Contents) \ live)
        ELSE UNCHANGED <<ring, head, tail, held>>
  BY <1>6 DEF PollScan
<1>8. Polled(live) = live
  BY <1>0, PollsAll DEF SingleUse, IInv
<1>9. CASE UNCHANGED <<ring, head, tail, held>>
  <2>1. Contents' = Contents
    BY <1>9 DEF Contents
  <2>2. QED
    BY <2>1 DEF Elements
<1>10. CASE held' = held \cup live \cup (Elements(Contents) \ live)
  BY <1>10
<1>11. QED
  BY <1>7, <1>8, <1>9, <1>10

(* A poll that empties the queue has handed every identifier to its        *)
(* caller, whatever sockets are gone and however many are queued: the      *)
(* array is long enough.                                                   *)
THEOREM QueuePollTakesAll ==
  ASSUME SingleUse
  PROVE  Spec => PollTakesAll
<1>1. IInv /\ [Next]_vars =>
        [\A t \in Pollers : pc[t] = "poll_scan" /\ pc'[t] = "idle" =>
           Elements(Contents) \subseteq Elements(Contents)' \cup held']_vars
  BY TakesAllStep
<1>2. QED
  BY <1>1, QueueInvariant, PTL DEF Spec, PollTakesAll
=============================================================================
