-------------------------- MODULE Services_proofs --------------------------
(* Proofs about the registry of sockets and about the parts of the server  *)
(* that share no state: the safety property of each, for every value of its*)
(* constants.                                                              *)
EXTENDS Services, FiniteSetTheorems, SequenceTheorems, TLAPS

-----------------------------------------------------------------------------
(* The registry of sockets, for any number of threads, of structures and of*)
(* identifiers.                                                            *)

(* server_open_managed_socket is called by one thread at a time; the       *)
(* README says what two of them can do.                                    *)
OneOpener == \A t, u \in Openers : t = u

LEMMA InitInv == Init => IInv
<1> SUFFICES ASSUME Init PROVE IInv
  OBVIOUS
<1>1. TypeOK
  BY MaxAssumption DEF Init, TypeOK, Labels, Ids
<1>2. PcInv /\ CloserInv /\ OpenerInv /\ ListInv /\ Exclusive
  BY DEF Init, PcInv, CloserInv, Closing, OpenerInv, ListInv, Exclusive
<1>3. ASSUME NEW i \in Ids PROVE AtOnePlace(i)
  BY MaxAssumption DEF Init, AtOnePlace, Queued, Chosen, Returned, Ids
<1>4. QED
  BY <1>1, <1>2, <1>3 DEF IInv

LEMMA OpenAllocInv ==
  ASSUME IInv, OneOpener, NEW t \in Callers, OpenAlloc(t)
  PROVE  IInv'
<1> USE DEF IInv
<1>1. PICK s \in Structs \ allocated :
        /\ allocated' = allocated \cup {s}
        /\ lockstate' = [lockstate EXCEPT ![s] = 1]
        /\ sock' = [sock EXCEPT ![t] = s]
  BY DEF OpenAlloc
<1>2. /\ pc[t] = "idle" /\ t \in Openers
      /\ pc' = [pc EXCEPT ![t] = "open_reg"]
      /\ UNCHANGED <<slot, readers, sid, owned>>
  BY DEF OpenAlloc, MayStart, Goto
<1>3. /\ id'[t] \in Ids /\ id' = [id EXCEPT ![t] = id'[t]]
      /\ fresh' \in 1 .. Max /\ freeIds' \in Seq(Ids)
  <2>1. CASE fresh < Max
    BY <2>1, MaxAssumption DEF OpenAlloc, TypeOK, Ids
  <2>2. CASE ~ (fresh < Max)
    <3>1. freeIds # <<>> /\ freeIds \in Seq(Ids)
      BY <2>2 DEF OpenAlloc, TypeOK
    <3>2. Head(freeIds) \in Ids /\ Tail(freeIds) \in Seq(Ids)
      BY <3>1, HeadTailProperties
    <3>3. QED
      BY <2>2, <3>2 DEF OpenAlloc, TypeOK
  <2>3. QED
    BY <2>1, <2>2
<1>4. TypeOK'
  BY <1>1, <1>2, <1>3 DEF TypeOK, Labels
<1>5. PcInv'
  BY <1>1, <1>2, <1>3 DEF TypeOK, PcInv
<1>6. Unlisted(s) /\ \A u \in Callers : Closing(u) => sock[u] # s
  BY NoneAssumption DEF ListInv, Unlisted, CloserInv, TypeOK
<1>7. CloserInv'
  BY <1>1, <1>2, <1>6, NoneAssumption DEF TypeOK, CloserInv, Closing, Unlisted
<1>8. OpenerInv'
  BY <1>1, <1>2, <1>3, <1>6 DEF OneOpener, TypeOK, OpenerInv, Unlisted, Closing
<1>9. ListInv'
  BY <1>1, <1>2, <1>3, <1>6 DEF TypeOK, ListInv, Unlisted
<1>10. Exclusive'
  BY <1>1, <1>2 DEF TypeOK, Exclusive
<1>11. ASSUME NEW i \in Ids PROVE AtOnePlace(i)'
  <2>1. /\ \A u \in Callers : Returned(u, i)' <=> Returned(u, i)
        /\ \A u \in Callers : Chosen(u, i)' <=> Chosen(u, i) \/ (u = t /\ i = id'[t])
        /\ ~ Chosen(t, i) /\ ~ Returned(t, i)
    BY <1>1, <1>2, <1>3 DEF TypeOK, Chosen, Returned
  <2>2. CASE fresh < Max
    <3>1. fresh' = fresh + 1 /\ id'[t] = fresh /\ freeIds' = freeIds /\ slot' = slot
      BY <1>2, <1>3, <2>2 DEF OpenAlloc, TypeOK
    <3>2. Queued(i)' <=> Queued(i)
      BY <3>1 DEF Queued
    <3>3. i \in Int /\ fresh \in Int
      BY DEF Ids, TypeOK
    <3>4. QED
      BY <2>1, <3>1, <3>2, <3>3 DEF AtOnePlace
  <2>3. CASE ~ (fresh < Max)
    <3>1. /\ freeIds # <<>> /\ id'[t] = Head(freeIds) /\ freeIds' = Tail(freeIds)
          /\ slot' = slot /\ fresh' = fresh
      BY <1>2, <1>3, <2>3 DEF OpenAlloc, TypeOK
    <3>2. /\ Len(freeIds') = Len(freeIds) - 1 /\ Len(freeIds) \in Nat \ {0}
          /\ \A k \in 1 .. Len(freeIds') : freeIds'[k] = freeIds[k + 1]
          /\ id'[t] = freeIds[1]
      BY <3>1, HeadTailProperties, EmptySeq DEF TypeOK
    <3>3. i # id'[t] => (Queued(i)' <=> Queued(i))
      <4>1. ASSUME i # id'[t], NEW k \in 1 .. Len(freeIds), freeIds[k] = i
            PROVE  k - 1 \in 1 .. Len(freeIds') /\ freeIds'[k - 1] = i
        BY <3>2, <4>1
      <4>2. ASSUME NEW k \in 1 .. Len(freeIds'), freeIds'[k] = i
            PROVE  k + 1 \in 1 .. Len(freeIds) /\ freeIds[k + 1] = i
        BY <3>2, <4>2
      <4>3. QED
        BY <4>1, <4>2 DEF Queued
    <3>4. i = id'[t] => Queued(i) /\ ~ Queued(i)'
      BY <3>2 DEF Queued, AtOnePlace
    <3>5. \A k, l \in 1 .. Len(freeIds') : freeIds'[k] = i /\ freeIds'[l] = i => k = l
      BY <3>2 DEF AtOnePlace
    <3>6. CASE i = id'[t]
      BY <2>1, <3>1, <3>4, <3>5, <3>6 DEF AtOnePlace
    <3>7. CASE i # id'[t]
      BY <2>1, <3>1, <3>3, <3>5, <3>7 DEF AtOnePlace
    <3>8. QED
      BY <3>6, <3>7
  <2>4. QED
    BY <2>2, <2>3
<1>12. QED
  BY <1>4, <1>5, <1>7, <1>8, <1>9, <1>10, <1>11

LEMMA OpenRegInv ==
  ASSUME IInv, OneOpener, NEW t \in Callers, OpenReg(t)
  PROVE  IInv'
<1> USE DEF IInv
<1> DEFINE s == sock[t]
           i == id[t]
<1>1. /\ pc[t] = "open_reg" /\ readers = {} /\ s \in Structs /\ i \in Ids
      /\ slot' = [slot EXCEPT ![i] = s] /\ pc' = [pc EXCEPT ![t] = "open_flags"]
      /\ UNCHANGED <<readers, numbers, memory, lockstate, id, sock, owned>>
  BY DEF OpenReg, Goto, PcInv, OpenerInv
<1>2. /\ s \in allocated /\ lockstate[s] = 1 /\ Unlisted(s) /\ slot[i] = None
      /\ \A u \in Callers : Closing(u) => sock[u] # s
  BY <1>1 DEF OpenerInv, AtOnePlace, Chosen
<1> HIDE DEF s, i
<1>3. TypeOK'
  BY <1>1 DEF TypeOK, Labels, numbers, memory
<1>4. PcInv'
  BY <1>1 DEF TypeOK, PcInv
<1>5. CloserInv'
  BY <1>1, <1>2 DEF TypeOK, CloserInv, Closing, Unlisted, memory
<1>6. OpenerInv'
  BY <1>1, <1>2 DEF OneOpener, TypeOK, OpenerInv, Unlisted, Closing, memory, s, i
<1>7. ListInv'
  BY <1>1, <1>2 DEF TypeOK, ListInv, Unlisted, memory, s, i
<1>8. Exclusive'
  BY <1>1 DEF TypeOK, Exclusive, memory
<1>9. ASSUME NEW j \in Ids PROVE AtOnePlace(j)'
  <2>1. /\ \A u \in Callers : Returned(u, j)' <=> Returned(u, j)
        /\ \A u \in Callers : Chosen(u, j)' <=> Chosen(u, j) /\ u # t
        /\ Chosen(t, j) <=> j = i
        /\ Queued(j)' <=> Queued(j)
        /\ slot'[j] = IF j = i THEN s ELSE slot[j]
    BY <1>1 DEF TypeOK, Chosen, Returned, Queued, numbers, memory, i
  <2>2. freeIds' = freeIds /\ fresh' = fresh /\ s # None
    BY <1>1, NoneAssumption DEF numbers
  <2>3. QED
    BY <2>1, <2>2 DEF AtOnePlace
<1>10. QED
  BY <1>3, <1>4, <1>5, <1>6, <1>7, <1>8, <1>9

LEMMA OpenFlagsInv ==
  ASSUME IInv, OneOpener, NEW t \in Callers, OpenFlags(t)
  PROVE  IInv'
<1> USE DEF IInv
<1> DEFINE s == sock[t]
           i == id[t]
<1>1. /\ pc[t] = "open_flags" /\ s \in Structs /\ i \in Ids
      /\ sid' = [sid EXCEPT ![s] = i] /\ id' = [id EXCEPT ![t] = 0]
      /\ pc' = [pc EXCEPT ![t] = "open_lock"]
      /\ UNCHANGED <<slot, readers, numbers, allocated, lockstate, sock, owned>>
  BY DEF OpenFlags, Goto, PcInv, OpenerInv
<1>2. /\ slot[i] = s \/ sid[s] = i
      /\ s \in allocated \/ lockstate[s] = -1
      /\ t \in Openers
  BY <1>1 DEF OpenerInv
<1>3. \A u \in Callers : Closing(u) /\ sock[u] = s => sid[s] = i
  BY <1>1, <1>2 DEF CloserInv, Unlisted
<1> HIDE DEF s, i
<1>4. TypeOK'
  BY <1>1 DEF TypeOK, Labels, numbers
<1>5. PcInv'
  BY <1>1 DEF TypeOK, PcInv
<1>6. CloserInv'
  BY <1>1, <1>3 DEF TypeOK, CloserInv, Closing, Unlisted
<1>7. OpenerInv'
  BY <1>1, <1>2 DEF OneOpener, TypeOK, OpenerInv, Unlisted, Closing, s, i
<1>8. ListInv'
  BY <1>1, <1>2 DEF OneOpener, TypeOK, ListInv, OpenerInv, s, i
<1>9. Exclusive'
  BY <1>1 DEF TypeOK, Exclusive
<1>10. ASSUME NEW j \in Ids PROVE AtOnePlace(j)'
  <2>1. /\ \A u \in Callers : Returned(u, j)' <=> Returned(u, j)
        /\ \A u \in Callers : Chosen(u, j)' <=> Chosen(u, j)
        /\ Queued(j)' <=> Queued(j)
    BY <1>1, <1>3 DEF TypeOK, Chosen, Returned, Queued, numbers, Closing
  <2>2. UNCHANGED <<freeIds, fresh, slot>>
    BY <1>1 DEF numbers
  <2>3. QED
    BY <2>1, <2>2 DEF AtOnePlace
<1>11. QED
  BY <1>4, <1>5, <1>6, <1>7, <1>8, <1>9, <1>10

(* Steps that only change the locks of structures and what threads own.    *)
LEMMA PlacesKept ==
  ASSUME NEW i \in Ids, AtOnePlace(i), UNCHANGED <<slot, freeIds, fresh>>,
         \A u \in Callers : Returned(u, i)' <=> Returned(u, i),
         \A u \in Callers : Chosen(u, i)' <=> Chosen(u, i)
  PROVE  AtOnePlace(i)'
<1>1. Queued(i)' <=> Queued(i)
  BY DEF Queued
<1>2. QED
  BY <1>1 DEF AtOnePlace

LEMMA OpenLockInv ==
  ASSUME IInv, OneOpener, NEW t \in Callers, OpenLock(t)
  PROVE  IInv'
<1> USE DEF IInv
<1> DEFINE s == sock[t]
<1>1. /\ pc[t] = "open_lock" /\ s \in Structs /\ lockstate[s] = 1 /\ s \in allocated
      /\ lockstate' = [lockstate EXCEPT ![s] = 0]
      /\ owned' = [owned EXCEPT ![t] = @ \cup {s}]
      /\ sock' = [sock EXCEPT ![t] = None] /\ pc' = [pc EXCEPT ![t] = "idle"]
      /\ UNCHANGED <<slot, readers, numbers, memory, id>>
  <2>1. /\ pc[t] = "open_lock" /\ s \in Structs /\ lockstate[s] > 0
        /\ lockstate' = [lockstate EXCEPT ![s] = @ - 1]
    BY DEF OpenLock, PcInv
  <2>2. lockstate[s] = 1 /\ lockstate[s] - 1 = 0
    BY <2>1 DEF TypeOK
  <2>3. QED
    BY <2>1, <2>2 DEF OpenLock, Goto, Own, Forget, OpenerInv
<1>2. \A u \in Callers : s \notin owned[u]
  BY <1>1 DEF Exclusive
<1>3. /\ t \in Openers
      /\ \A u \in Callers : Closing(u) /\ sock[u] = s => pc[u] \in {"free_id", "close_lock"}
      /\ \A u \in Callers : pc[u] = "open_reg" => sock[u] # s
  BY <1>1 DEF OneOpener, OpenerInv, CloserInv, Closing
<1> HIDE DEF s
<1>4. TypeOK'
  BY <1>1 DEF TypeOK, Labels, numbers, memory
<1>5. PcInv'
  BY <1>1 DEF TypeOK, PcInv
<1>6. CloserInv'
  BY <1>1, <1>3 DEF TypeOK, CloserInv, Closing, Unlisted, memory
<1>7. OpenerInv'
  BY <1>1, <1>3 DEF OneOpener, TypeOK, OpenerInv, Unlisted, Closing, memory
<1>8. ListInv'
  BY <1>1 DEF TypeOK, ListInv, memory
<1>9. Exclusive'
  BY <1>1, <1>2 DEF TypeOK, Exclusive, memory
<1>10. ASSUME NEW j \in Ids PROVE AtOnePlace(j)'
  BY <1>1, PlacesKept DEF TypeOK, Chosen, Returned, numbers, memory
<1>11. QED
  BY <1>4, <1>5, <1>6, <1>7, <1>8, <1>9, <1>10

LEMMA OpenBrokenInv ==
  ASSUME IInv, NEW t \in Callers, OpenBroken(t)
  PROVE  IInv'
<1> USE DEF IInv
<1>1. /\ pc[t] = "open_lock" /\ pc' = [pc EXCEPT ![t] = "dereg"]
      /\ UNCHANGED <<slot, readers, numbers, memory, lockstate, id, sock, owned>>
  BY DEF OpenBroken, Goto
<1>2. TypeOK' /\ PcInv'
  BY <1>1 DEF TypeOK, PcInv, Labels, numbers, memory
<1>3. CloserInv' /\ OpenerInv'
  BY <1>1 DEF TypeOK, CloserInv, OpenerInv, Closing, Unlisted, memory
<1>4. ListInv' /\ Exclusive'
  BY <1>1 DEF TypeOK, ListInv, Exclusive, memory
<1>5. ASSUME NEW j \in Ids PROVE AtOnePlace(j)'
  BY <1>1, PlacesKept DEF TypeOK, Chosen, Returned, numbers, memory
<1>6. QED
  BY <1>2, <1>3, <1>4, <1>5

LEMMA OpenInv ==
  ASSUME IInv, OneOpener, NEW t \in Callers, Open(t)
  PROVE  IInv'
BY OpenAllocInv, OpenRegInv, OpenFlagsInv, OpenLockInv, OpenBrokenInv DEF Open

-----------------------------------------------------------------------------
LEMMA AcquireInv ==
  ASSUME IInv, NEW t \in Callers, Acquire(t)
  PROVE  IInv'
<1> USE DEF IInv
<1>1. ASSUME NEW i \in Ids, AcquireStart(t, i)
      PROVE  IInv'
  <2>1. /\ pc[t] = "idle" /\ pc' = [pc EXCEPT ![t] = "acquire"]
        /\ readers' = readers \cup {t} /\ id' = [id EXCEPT ![t] = i]
        /\ UNCHANGED <<slot, numbers, memory, lockstate, sock, owned>>
    BY <1>1 DEF AcquireStart, MayStart, Goto
  <2>2. TypeOK' /\ PcInv'
    BY <2>1 DEF TypeOK, PcInv, Labels, numbers, memory
  <2>3. CloserInv' /\ OpenerInv'
    BY <2>1 DEF TypeOK, CloserInv, OpenerInv, Closing, Unlisted, memory
  <2>4. ListInv' /\ Exclusive'
    BY <2>1 DEF TypeOK, ListInv, Exclusive, memory
  <2>5. ASSUME NEW j \in Ids PROVE AtOnePlace(j)'
    BY <2>1, PlacesKept DEF TypeOK, Chosen, Returned, numbers, memory
  <2>6. QED
    BY <2>2, <2>3, <2>4, <2>5
<1>2. ASSUME AcquireLock(t)
      PROVE  IInv'
  <2> DEFINE s == Target(t)
  <2>1. /\ pc[t] = "acquire" /\ id[t] \in Ids /\ slot[id[t]] = s
        /\ s \in Structs /\ lockstate[s] = 1 /\ s \in allocated
        /\ lockstate' = [lockstate EXCEPT ![s] = 0]
        /\ owned' = [owned EXCEPT ![t] = @ \cup {s}]
        /\ readers' = readers \ {t} /\ id' = [id EXCEPT ![t] = 0]
        /\ pc' = [pc EXCEPT ![t] = "idle"]
        /\ UNCHANGED <<slot, numbers, memory, sock>>
    <3>1. /\ pc[t] = "acquire" /\ id[t] \in Ids /\ slot[id[t]] = s
          /\ s # None /\ lockstate[s] > 0
          /\ lockstate' = [lockstate EXCEPT ![s] = @ - 1]
      BY <1>2 DEF AcquireLock, PcInv, Target
    <3>2. s \in Structs /\ s \in allocated
      BY <3>1 DEF TypeOK, ListInv
    <3>3. lockstate[s] = 1 /\ lockstate[s] - 1 = 0
      BY <3>1, <3>2 DEF TypeOK
    <3>4. QED
      BY <1>2, <3>1, <3>2, <3>3 DEF AcquireLock, AcquireEnd, Goto, Own
  <2>2. \A u \in Callers : s \notin owned[u] /\ (Closing(u) => sock[u] # s)
    BY <2>1 DEF Exclusive, CloserInv, Unlisted
  <2>3. \A u \in Callers : pc[u] = "open_reg" => sock[u] # s
    BY <2>1 DEF OpenerInv, Unlisted
  <2> HIDE DEF s
  <2>4. TypeOK' /\ PcInv'
    BY <2>1 DEF TypeOK, PcInv, Labels, numbers, memory
  <2>5. CloserInv'
    BY <2>1, <2>2 DEF TypeOK, CloserInv, Closing, Unlisted, memory
  <2>6. OpenerInv'
    BY <2>1, <2>3 DEF TypeOK, OpenerInv, Closing, Unlisted, memory
  <2>7. ListInv' /\ Exclusive'
    BY <2>1, <2>2 DEF TypeOK, ListInv, Exclusive, memory
  <2>8. ASSUME NEW j \in Ids PROVE AtOnePlace(j)'
    BY <2>1, PlacesKept DEF TypeOK, Chosen, Returned, numbers, memory
  <2>9. QED
    BY <2>4, <2>5, <2>6, <2>7, <2>8
<1>3. ASSUME AcquireFail(t)
      PROVE  IInv'
  <2>1. /\ pc[t] = "acquire" /\ pc' = [pc EXCEPT ![t] = "idle"]
        /\ readers' = readers \ {t} /\ id' = [id EXCEPT ![t] = 0]
        /\ UNCHANGED <<slot, numbers, memory, lockstate, sock, owned>>
    BY <1>3 DEF AcquireFail, AcquireEnd, Goto
  <2>2. TypeOK' /\ PcInv'
    BY <2>1 DEF TypeOK, PcInv, Labels, numbers, memory
  <2>3. CloserInv' /\ OpenerInv'
    BY <2>1 DEF TypeOK, CloserInv, OpenerInv, Closing, Unlisted, memory
  <2>4. ListInv' /\ Exclusive'
    BY <2>1 DEF TypeOK, ListInv, Exclusive, memory
  <2>5. ASSUME NEW j \in Ids PROVE AtOnePlace(j)'
    BY <2>1, PlacesKept DEF TypeOK, Chosen, Returned, numbers, memory
  <2>6. QED
    BY <2>2, <2>3, <2>4, <2>5
<1>4. QED
  BY <1>1, <1>2, <1>3 DEF Acquire

LEMMA ReleaseInv ==
  ASSUME IInv, NEW t \in Callers, Release(t)
  PROVE  IInv'
<1> USE DEF IInv
<1>1. PICK s \in owned[t] :
        /\ lockstate' = [lockstate EXCEPT ![s] = IF @ >= 0 THEN @ + 1 ELSE @]
        /\ sock' = [sock EXCEPT ![t] = s]
        /\ owned' = [owned EXCEPT ![t] = @ \ {s}]
  BY DEF Release
<1>2. PICK l \in {"broadcast", "then_close"} : pc' = [pc EXCEPT ![t] = l]
  BY DEF Release, Goto
<1>3. /\ pc[t] = "idle" /\ UNCHANGED <<slot, readers, numbers, memory, id>>
  BY DEF Release
<1>4. /\ s \in Structs /\ s \in allocated /\ lockstate[s] = 0
      /\ lockstate' = [lockstate EXCEPT ![s] = 1]
  <2>1. s \in Structs /\ s \in allocated /\ lockstate[s] = 0
    BY <1>1 DEF TypeOK, Exclusive
  <2>2. (IF lockstate[s] >= 0 THEN lockstate[s] + 1 ELSE lockstate[s]) = 1
    BY <2>1
  <2>3. QED
    BY <1>1, <2>1, <2>2
<1>5. \A u \in Callers \ {t} : s \notin owned[u]
  BY <1>1 DEF Exclusive
<1>6. \A u \in Callers : Closing(u) /\ sock[u] = s => pc[u] \in {"free_id", "close_lock"}
  BY <1>1, <1>4 DEF CloserInv, Closing
<1>7. TypeOK' /\ PcInv'
  BY <1>1, <1>2, <1>3, <1>4 DEF TypeOK, PcInv, Labels, numbers, memory
<1>8. CloserInv'
  BY <1>1, <1>2, <1>3, <1>4, <1>6 DEF TypeOK, CloserInv, Closing, Unlisted, memory
<1>9. OpenerInv'
  BY <1>1, <1>2, <1>3, <1>4 DEF TypeOK, OpenerInv, Closing, Unlisted, memory
<1>10. ListInv' /\ Exclusive'
  BY <1>1, <1>2, <1>3, <1>4, <1>5 DEF TypeOK, ListInv, Exclusive, memory
<1>11. ASSUME NEW j \in Ids PROVE AtOnePlace(j)'
  BY <1>1, <1>2, <1>3, PlacesKept DEF TypeOK, Chosen, Returned, numbers, memory
<1>12. QED
  BY <1>7, <1>8, <1>9, <1>10, <1>11

LEMMA BroadcastInv ==
  ASSUME IInv, NEW t \in Callers, Broadcast(t)
  PROVE  IInv'
<1> USE DEF IInv
<1>1. /\ pc[t] \in {"broadcast", "then_close"}
      /\ UNCHANGED <<slot, readers, numbers, memory, lockstate, id, owned>>
      /\ \/ pc' = [pc EXCEPT ![t] = "idle"] /\ sock' = [sock EXCEPT ![t] = None]
         \/ pc' = [pc EXCEPT ![t] = "dereg"] /\ sock' = sock
  BY DEF Broadcast, Goto, Forget
<1>2. TypeOK' /\ PcInv'
  BY <1>1 DEF TypeOK, PcInv, Labels, numbers, memory
<1>3. CloserInv' /\ OpenerInv'
  BY <1>1 DEF TypeOK, CloserInv, OpenerInv, Closing, Unlisted, memory
<1>4. ListInv' /\ Exclusive'
  BY <1>1 DEF TypeOK, ListInv, Exclusive, memory
<1>5. ASSUME NEW j \in Ids PROVE AtOnePlace(j)'
  BY <1>1, PlacesKept DEF TypeOK, Chosen, Returned, numbers, memory
<1>6. QED
  BY <1>2, <1>3, <1>4, <1>5

-----------------------------------------------------------------------------
LEMMA DeregInv ==
  ASSUME IInv, NEW t \in Callers, Dereg(t)
  PROVE  IInv'
<1> USE DEF IInv
<1> DEFINE s == sock[t]
           i == sid[s]
<1>1. /\ pc[t] = "dereg" /\ readers = {} /\ s \in Structs
      /\ UNCHANGED <<readers, numbers, memory, lockstate, id, owned>>
  BY DEF Dereg, PcInv
<1>2. CASE Matches(t)
  <2>1. /\ i \in Ids /\ slot[i] = s /\ slot' = [slot EXCEPT ![i] = None]
        /\ pc' = [pc EXCEPT ![t] = "free_id"] /\ sock' = sock
    BY <1>2 DEF Dereg, Goto, Matches
  <2>2. /\ s \in allocated /\ \A j \in Ids \ {i} : slot[j] # s
        /\ \A u \in Callers : Closing(u) => sock[u] # s
        /\ \A u \in Callers : pc[u] = "open_reg" => sock[u] # s
        /\ s # None
    BY <1>1, <2>1, NoneAssumption DEF ListInv, CloserInv, OpenerInv, Unlisted
  <2>3. i = sid[s] /\ s = sock[t]
    OBVIOUS
  <2> HIDE DEF s, i
  <2>4. TypeOK' /\ PcInv'
    BY <1>1, <2>1 DEF TypeOK, PcInv, Labels, numbers, memory
  <2>5. CloserInv'
    BY <1>1, <2>1, <2>2, <2>3, NoneAssumption DEF TypeOK, CloserInv, Closing, Unlisted, memory
  <2>6. OpenerInv'
    BY <1>1, <2>1, <2>2, <2>3, NoneAssumption DEF TypeOK, OpenerInv, Closing, Unlisted, memory
  <2>7. ListInv' /\ Exclusive'
    BY <1>1, <2>1, <2>2, <2>3 DEF TypeOK, ListInv, Exclusive, memory
  <2>8. ASSUME NEW j \in Ids PROVE AtOnePlace(j)'
    <3>1. /\ \A u \in Callers : Returned(u, j)' <=> Returned(u, j) \/ (u = t /\ j = i)
          /\ \A u \in Callers : Chosen(u, j)' <=> Chosen(u, j)
          /\ ~ Returned(t, j)
          /\ Queued(j)' <=> Queued(j)
          /\ slot'[j] = IF j = i THEN None ELSE slot[j]
      BY <1>1, <2>1, <2>3 DEF TypeOK, Chosen, Returned, Queued, numbers, memory
    <3>2. UNCHANGED <<freeIds, fresh>> /\ slot[i] # None
      BY <1>1, <2>1, <2>2 DEF numbers
    <3>3. QED
      BY <3>1, <3>2 DEF AtOnePlace
  <2>9. QED
    BY <2>4, <2>5, <2>6, <2>7, <2>8
<1>3. CASE ~ Matches(t)
  <2>1. /\ sock' = [sock EXCEPT ![t] = None] /\ slot' = slot
        /\ pc' = [pc EXCEPT ![t] = "idle"]
    BY <1>3 DEF Dereg, Goto, Forget
  <2>2. TypeOK' /\ PcInv'
    BY <1>1, <2>1 DEF TypeOK, PcInv, Labels, numbers, memory
  <2>3. CloserInv' /\ OpenerInv'
    BY <1>1, <2>1 DEF TypeOK, CloserInv, OpenerInv, Closing, Unlisted, memory
  <2>4. ListInv' /\ Exclusive'
    BY <1>1, <2>1 DEF TypeOK, ListInv, Exclusive, memory
  <2>5. ASSUME NEW j \in Ids PROVE AtOnePlace(j)'
    BY <1>1, <2>1, PlacesKept DEF TypeOK, Chosen, Returned, numbers, memory
  <2>6. QED
    BY <2>2, <2>3, <2>4, <2>5
<1>4. QED
  BY <1>2, <1>3

LEMMA FreeIdInv ==
  ASSUME IInv, NEW t \in Callers, FreeId(t)
  PROVE  IInv'
<1> USE DEF IInv
<1> DEFINE i == sid[sock[t]]
<1>1. /\ pc[t] = "free_id" /\ i \in Ids /\ freeIds' = Append(freeIds, i)
      /\ pc' = [pc EXCEPT ![t] = "close_lock"]
      /\ UNCHANGED <<slot, readers, fresh, memory, lockstate, id, sock, owned>>
  BY DEF FreeId, Goto, CloserInv, Closing
<1>2. /\ freeIds' \in Seq(Ids) /\ Len(freeIds) \in Nat
      /\ Len(freeIds') = Len(freeIds) + 1 /\ freeIds'[Len(freeIds) + 1] = i
      /\ \A k \in 1 .. Len(freeIds) : freeIds'[k] = freeIds[k]
  BY <1>1, AppendProperties DEF TypeOK
<1>3. TypeOK' /\ PcInv'
  BY <1>1, <1>2 DEF TypeOK, PcInv, Labels, memory
<1>4. CloserInv' /\ OpenerInv'
  BY <1>1 DEF TypeOK, CloserInv, OpenerInv, Closing, Unlisted, memory
<1>5. ListInv' /\ Exclusive'
  BY <1>1 DEF TypeOK, ListInv, Exclusive, memory
<1>6. ASSUME NEW j \in Ids PROVE AtOnePlace(j)'
  <2>1. /\ \A u \in Callers : Returned(u, j)' <=> Returned(u, j) /\ u # t
        /\ \A u \in Callers : Chosen(u, j)' <=> Chosen(u, j)
        /\ Returned(t, j) <=> j = i
    BY <1>1 DEF TypeOK, Chosen, Returned, memory
  <2>2. Queued(j)' <=> Queued(j) \/ j = i
    <3>1. Len(freeIds) + 1 \in 1 .. Len(freeIds')
      BY <1>2
    <3>2. QED
      BY <1>2, <3>1 DEF Queued
  <2>3. \A k, l \in 1 .. Len(freeIds') : freeIds'[k] = j /\ freeIds'[l] = j => k = l
    BY <1>2, <2>1 DEF AtOnePlace, Queued
  <2>4. QED
    BY <1>1, <2>1, <2>2, <2>3 DEF AtOnePlace
<1>7. QED
  BY <1>3, <1>4, <1>5, <1>6

LEMMA CloseLockInv ==
  ASSUME IInv, NEW t \in Callers, CloseLock(t)
  PROVE  IInv'
<1> USE DEF IInv
<1> DEFINE s == sock[t]
<1>1. /\ pc[t] = "close_lock" /\ s \in Structs
      /\ UNCHANGED <<slot, readers, numbers, memory, id, owned>>
  BY DEF CloseLock, PcInv
<1>2. /\ s \in allocated /\ Unlisted(s)
      /\ \A u \in Callers \ {t} : Closing(u) => sock[u] # s
      /\ \A u \in Callers : pc[u] = "open_reg" => sock[u] # s
  BY <1>1 DEF CloserInv, OpenerInv, Closing
<1>3. CASE lockstate[s] = -1
  <2>1. /\ sock' = [sock EXCEPT ![t] = None] /\ pc' = [pc EXCEPT ![t] = "idle"]
        /\ lockstate' = lockstate
    BY <1>3 DEF CloseLock, Goto, Forget
  <2>2. TypeOK' /\ PcInv'
    BY <1>1, <2>1 DEF TypeOK, PcInv, Labels, numbers, memory
  <2>3. CloserInv' /\ OpenerInv'
    BY <1>1, <2>1 DEF TypeOK, CloserInv, OpenerInv, Closing, Unlisted, memory
  <2>4. ListInv' /\ Exclusive'
    BY <1>1, <2>1 DEF TypeOK, ListInv, Exclusive, memory
  <2>5. ASSUME NEW j \in Ids PROVE AtOnePlace(j)'
    BY <1>1, <2>1, PlacesKept DEF TypeOK, Chosen, Returned, numbers, memory
  <2>6. QED
    BY <2>2, <2>3, <2>4, <2>5
<1>4. CASE lockstate[s] # -1
  <2>1. /\ lockstate[s] = 1 /\ lockstate' = [lockstate EXCEPT ![s] = 0]
        /\ pc' = [pc EXCEPT ![t] = "break"] /\ sock' = sock
    BY <1>1, <1>4 DEF CloseLock, Goto, TypeOK
  <2>2. \A u \in Callers : s \notin owned[u]
    BY <2>1 DEF Exclusive
  <2>3. s = sock[t]
    OBVIOUS
  <2> HIDE DEF s
  <2>4. TypeOK' /\ PcInv'
    BY <1>1, <2>1 DEF TypeOK, PcInv, Labels, numbers, memory
  <2>5. CloserInv'
    BY <1>1, <1>2, <2>1, <2>2, <2>3 DEF TypeOK, CloserInv, Closing, Unlisted, memory
  <2>6. OpenerInv'
    BY <1>1, <1>2, <2>1, <2>3 DEF TypeOK, OpenerInv, Closing, Unlisted, memory
  <2>7. ListInv' /\ Exclusive'
    BY <1>1, <1>2, <2>1, <2>2 DEF TypeOK, ListInv, Exclusive, Unlisted, memory
  <2>8. ASSUME NEW j \in Ids PROVE AtOnePlace(j)'
    BY <1>1, <2>1, PlacesKept DEF TypeOK, Chosen, Returned, numbers, memory
  <2>9. QED
    BY <2>4, <2>5, <2>6, <2>7, <2>8
<1>5. QED
  BY <1>3, <1>4

LEMMA BreakInv ==
  ASSUME IInv, NEW t \in Callers, Break(t)
  PROVE  IInv'
<1> USE DEF IInv
<1> DEFINE s == sock[t]
<1>1. /\ pc[t] = "break" /\ s \in Structs
      /\ lockstate' = [lockstate EXCEPT ![s] = -1]
      /\ pc' = [pc EXCEPT ![t] = "free"]
      /\ UNCHANGED <<slot, readers, numbers, memory, id, sock, owned>>
  BY DEF Break, PcInv, Goto
<1>2. /\ s \in allocated /\ Unlisted(s)
      /\ \A u \in Callers \ {t} : Closing(u) => sock[u] # s
      /\ \A u \in Callers : pc[u] = "open_reg" => sock[u] # s
      /\ \A u \in Callers : s \notin owned[u]
  BY <1>1 DEF CloserInv, OpenerInv, Closing
<1>3. s = sock[t]
  OBVIOUS
<1> HIDE DEF s
<1>4. TypeOK' /\ PcInv'
  BY <1>1 DEF TypeOK, PcInv, Labels, numbers, memory
<1>5. CloserInv'
  BY <1>1, <1>2, <1>3 DEF TypeOK, CloserInv, Closing, Unlisted, memory
<1>6. OpenerInv'
  BY <1>1, <1>2, <1>3 DEF TypeOK, OpenerInv, Closing, Unlisted, memory
<1>7. ListInv' /\ Exclusive'
  BY <1>1, <1>2 DEF TypeOK, ListInv, Exclusive, Unlisted, memory
<1>8. ASSUME NEW j \in Ids PROVE AtOnePlace(j)'
  BY <1>1, PlacesKept DEF TypeOK, Chosen, Returned, numbers, memory
<1>9. QED
  BY <1>4, <1>5, <1>6, <1>7, <1>8

LEMMA FreeInv ==
  ASSUME IInv, NEW t \in Callers, Free(t)
  PROVE  IInv'
<1> USE DEF IInv
<1> DEFINE s == sock[t]
<1>1. /\ pc[t] = "free" /\ s \in Structs
      /\ allocated' = allocated \ {s} /\ sock' = [sock EXCEPT ![t] = None]
      /\ pc' = [pc EXCEPT ![t] = "idle"]
      /\ UNCHANGED <<slot, readers, numbers, sid, lockstate, id, owned>>
  BY DEF Free, PcInv, Goto, Forget
<1>2. /\ Unlisted(s) /\ lockstate[s] = -1
      /\ \A u \in Callers \ {t} : Closing(u) => sock[u] # s
      /\ \A u \in Callers : pc[u] = "open_reg" => sock[u] # s
      /\ \A u \in Callers : s \notin owned[u]
  BY <1>1 DEF CloserInv, OpenerInv, Closing, Exclusive
<1> HIDE DEF s
<1>4. TypeOK' /\ PcInv'
  BY <1>1 DEF TypeOK, PcInv, Labels, numbers
<1>5. CloserInv'
  BY <1>1, <1>2 DEF TypeOK, CloserInv, Closing, Unlisted
<1>6. OpenerInv'
  BY <1>1, <1>2 DEF TypeOK, OpenerInv, Closing, Unlisted
<1>7. ListInv' /\ Exclusive'
  BY <1>1, <1>2 DEF TypeOK, ListInv, Exclusive, Unlisted
<1>8. ASSUME NEW j \in Ids PROVE AtOnePlace(j)'
  BY <1>1, PlacesKept DEF TypeOK, Chosen, Returned, numbers
<1>9. QED
  BY <1>4, <1>5, <1>6, <1>7, <1>8

LEMMA CloseInv ==
  ASSUME IInv, NEW t \in Callers, Close(t)
  PROVE  IInv'
BY DeregInv, FreeIdInv, CloseLockInv, BreakInv, FreeInv DEF Close

LEMMA StutterInv ==
  ASSUME IInv, UNCHANGED vars
  PROVE  IInv'
<1> USE DEF vars, IInv
<1>1. TypeOK' /\ PcInv'
  BY DEF TypeOK, PcInv
<1>2. CloserInv' /\ OpenerInv' /\ ListInv' /\ Exclusive'
  BY DEF CloserInv, OpenerInv, Closing, Unlisted, ListInv, Exclusive
<1>3. ASSUME NEW j \in Ids PROVE AtOnePlace(j)'
  BY PlacesKept DEF Chosen, Returned
<1>4. QED
  BY <1>1, <1>2, <1>3

-----------------------------------------------------------------------------
(* The invariant says what the counting of IdsConserved says.              *)
LEMMA CountPlaces ==
  ASSUME TypeOK, NEW i \in Ids, AtOnePlace(i)
  PROVE  Whereabouts(i) = 1
<1> DEFINE Q == {k \in 1 .. Len(freeIds) : freeIds[k] = i}
           C == {t \in Callers : pc[t] = "open_reg" /\ id[t] = i}
           R == {t \in Callers : pc[t] = "free_id" /\ sid[sock[t]] = i}
           one(b) == IF b THEN 1 ELSE 0
<1>1. Cardinality(Q) = one(Queued(i))
  <2>1. CASE Queued(i)
    <3>1. PICK k \in 1 .. Len(freeIds) : freeIds[k] = i
      BY <2>1 DEF Queued
    <3>2. Q = {k}
      BY <3>1 DEF AtOnePlace
    <3>3. QED
      BY <2>1, <3>2, FS_Singleton
  <2>2. CASE ~ Queued(i)
    <3>1. Q = {}
      BY <2>2 DEF Queued
    <3>2. QED
      BY <2>2, <3>1, FS_EmptySet
  <2>3. QED
    BY <2>1, <2>2
<1>2. Cardinality(C) = one(\E t \in Callers : Chosen(t, i))
  <2>1. CASE \E t \in Callers : Chosen(t, i)
    <3>1. PICK t \in Callers : Chosen(t, i)
      BY <2>1
    <3>2. C = {t}
      BY <3>1 DEF AtOnePlace, Chosen
    <3>3. QED
      BY <2>1, <3>2, FS_Singleton
  <2>2. CASE ~ \E t \in Callers : Chosen(t, i)
    <3>1. C = {}
      BY <2>2 DEF Chosen
    <3>2. QED
      BY <2>2, <3>1, FS_EmptySet
  <2>3. QED
    BY <2>1, <2>2
<1>3. Cardinality(R) = one(\E t \in Callers : Returned(t, i))
  <2>1. CASE \E t \in Callers : Returned(t, i)
    <3>1. PICK t \in Callers : Returned(t, i)
      BY <2>1
    <3>2. R = {t}
      BY <3>1 DEF AtOnePlace, Returned
    <3>3. QED
      BY <2>1, <3>2, FS_Singleton
  <2>2. CASE ~ \E t \in Callers : Returned(t, i)
    <3>1. R = {}
      BY <2>2 DEF Returned
    <3>2. QED
      BY <2>2, <3>1, FS_EmptySet
  <2>3. QED
    BY <2>1, <2>2
<1>4. Whereabouts(i) = Cardinality(Q) + Cardinality(C) + Cardinality(R)
                        + one(slot[i] # None) + one(i >= fresh)
  BY DEF Whereabouts
<1>5. i \in Int /\ fresh \in Int
  BY DEF Ids, TypeOK
<1> HIDE DEF Q, C, R
<1>6. QED
  BY <1>1, <1>2, <1>3, <1>4, <1>5 DEF AtOnePlace

(* The inductive invariant of the registry.                                *)
THEOREM TableInvariant ==
  ASSUME OneOpener
  PROVE  Spec => []IInv
<1>1. Init => IInv
  BY InitInv
<1>2. IInv /\ [Next]_vars => IInv'
  BY OpenInv, AcquireInv, ReleaseInv, BroadcastInv, CloseInv, StutterInv DEF Next
<1>3. QED
  BY <1>1, <1>2, PTL DEF Spec

(* No two threads own a socket, an identifier is at one place and what is  *)
(* found in the table is alive, for any number of threads that acquire,    *)
(* release and close sockets, and one that opens them.                     *)
THEOREM RegistrySafe ==
  ASSUME OneOpener
  PROVE  Spec => []TableSafe
<1>1. IInv => TableSafe
  <2> SUFFICES ASSUME IInv PROVE TableSafe
    OBVIOUS
  <2>1. IdsConserved
    BY CountPlaces DEF IInv, IdsConserved
  <2>2. TableAlive
    BY DEF IInv, ListInv, TableAlive
  <2>3. QED
    BY <2>1, <2>2 DEF IInv, TableSafe
<1>2. QED
  BY <1>1, TableInvariant, PTL

-----------------------------------------------------------------------------
LEMMA HoldStep ==
  ASSUME Nested = {}, HoldInv, [Next]_vars
  PROVE  HoldInv'
<1> USE DEF HoldInv, Goto, Forget, Own
<1>1. CASE UNCHANGED vars
  BY <1>1 DEF vars
<1>2. ASSUME NEW t \in Callers, Open(t) PROVE HoldInv'
  <2>1. CASE OpenAlloc(t)
    BY <2>1 DEF OpenAlloc, MayStart, Labels
  <2>2. CASE OpenReg(t) \/ OpenFlags(t) \/ OpenBroken(t)
    BY <2>2 DEF OpenReg, OpenFlags, OpenBroken, Labels
  <2>3. CASE OpenLock(t)
    BY <2>3 DEF OpenLock, Labels
  <2>4. QED
    BY <1>2, <2>1, <2>2, <2>3 DEF Open
<1>3. ASSUME NEW t \in Callers, Acquire(t) PROVE HoldInv'
  BY <1>3 DEF Acquire, AcquireStart, AcquireLock, AcquireFail, AcquireEnd, MayStart, Labels
<1>4. ASSUME NEW t \in Callers, Release(t) \/ Broadcast(t) PROVE HoldInv'
  BY <1>4 DEF Release, Broadcast, Labels
<1>5. ASSUME NEW t \in Callers, Close(t) PROVE HoldInv'
  BY <1>5 DEF Close, Dereg, FreeId, CloseLock, Break, Free, Labels
<1>6. QED
  BY <1>1, <1>2, <1>3, <1>4, <1>5 DEF Next

(* Threads that open or acquire a socket while they hold none never wait   *)
(* for each other in a circle, however many they are and whatever they     *)
(* close: the one deadlock is that of a thread that holds two.             *)
THEOREM RegistryNoDeadlock ==
  ASSUME Nested = {}
  PROVE  Spec => []NoOtherDeadlock
<1>1. Init => HoldInv
  BY DEF Init, HoldInv, Labels
<1>2. HoldInv /\ [Next]_vars => HoldInv'
  BY HoldStep
<1>3. HoldInv => NoOtherDeadlock
  <2> SUFFICES ASSUME HoldInv, NEW S \in (SUBSET Callers) \ {{}},
                      \A t \in S : WaitsFor(t) \cap S # {}
               PROVE  FALSE
    BY DEF NoOtherDeadlock
  <2>1. ASSUME NEW t \in S, pc[t] = "idle" PROVE FALSE
    BY <2>1 DEF WaitsFor
  <2>2. ASSUME NEW t \in S, NEW s, Owners(s) \cap S # {} PROVE FALSE
    BY <2>1, <2>2 DEF Owners, HoldInv
  <2>3. ASSUME NEW t \in S, pc[t] = "acquire" PROVE FALSE
    BY <2>2, <2>3 DEF WaitsFor
  <2>4. ASSUME NEW t \in S, readers \cap S # {} PROVE FALSE
    BY <2>3, <2>4 DEF HoldInv
  <2>5. PICK t \in S : TRUE
    OBVIOUS
  <2>6. CASE pc[t] \in {"open_lock", "close_lock"}
    BY <2>2, <2>6 DEF WaitsFor
  <2>7. CASE pc[t] \in {"open_reg", "dereg"}
    BY <2>4, <2>7 DEF WaitsFor
  <2>8. CASE pc[t] \notin {"acquire", "open_lock", "close_lock", "open_reg", "dereg"}
    BY <2>8 DEF WaitsFor
  <2>9. QED
    BY <2>3, <2>6, <2>7, <2>8
<1>4. QED
  BY <1>1, <1>2, <1>3, PTL DEF Spec

-----------------------------------------------------------------------------
(* The privileged channel.                                                 *)

LEMMA ChannelInit == PartsInit => Priv!IInv
BY ChannelAssumption DEF PartsInit, Priv!Init, Priv!IInv, Priv!TypeOK, Priv!Wire

LEMMA ChannelCall ==
  ASSUME Priv!IInv, NEW c \in ChannelCallers, NEW o \in {"BIND", "AUTH", "EXIT", "CONF"},
         Priv!Call(c, o)
  PROVE  Priv!IInv'
<1> USE DEF Priv!Call, Priv!IInv
<1>1. Priv!TypeOK'
  BY DEF Priv!TypeOK
<1>2. ASSUME ~ left'
      PROVE  /\ (fd = [b \in ChannelCallers |-> b])'
             /\ \A b \in ChannelCallers : holder' # b => callPc'[b] = "idle"
             /\ Priv!Binding(c)' \/ Priv!Asking(c)' \/ Priv!Loading(c)'
  <2>1. /\ holder = None /\ request = <<>> /\ answer = <<>> /\ server = "request"
        /\ fd = [b \in ChannelCallers |-> b]
        /\ \A b \in ChannelCallers : callPc[b] = "idle"
    BY <1>2, ChannelAssumption DEF Priv!Wire
  <2>2. /\ request' = <<Priv!Item(o, None, c)>> /\ answer' = <<>> /\ server' = "request"
        /\ callPc'[c] = "first" /\ op'[c] = o
    BY <2>1 DEF Priv!TypeOK
  <2>3. \A b \in ChannelCallers : holder' # b => callPc'[b] = "idle"
    BY <2>1 DEF Priv!TypeOK
  <2>4. QED
    BY <2>1, <2>2, <2>3 DEF Priv!Binding, Priv!Asking, Priv!Loading, Priv!Wire
<1>3. QED
  BY <1>1, <1>2, ChannelAssumption

(* While something is in the channel, a call is under way.                 *)
LEMMA ChannelBusy ==
  ASSUME Priv!IInv, ~ left, request # <<>> \/ answer # <<>>
  PROVE  /\ holder \in ChannelCallers
         /\ Priv!Binding(holder) \/ Priv!Asking(holder) \/ Priv!Loading(holder)
BY ChannelAssumption DEF Priv!IInv, Priv!TypeOK, Priv!Wire

(* The steps of the privileged process.                                    *)
LEMMA ChannelServe ==
  ASSUME Priv!IInv,
         Priv!ServeBind \/ Priv!Bind \/ Priv!ServeAuth \/ Priv!ServeExit \/ Priv!ServeConf
  PROVE  Priv!IInv'
<1> USE DEF Priv!Receive
<1>1. /\ request # <<>>
      /\ UNCHANGED <<callPc, op, fd, calls, holder, left>>
  BY DEF Priv!ServeBind, Priv!Bind, Priv!ServeAuth, Priv!ServeExit, Priv!ServeConf
<1>2. Priv!TypeOK'
  BY <1>1 DEF Priv!IInv, Priv!TypeOK
<1>3. ASSUME ~ left
      PROVE  Priv!Binding(holder)' \/ Priv!Asking(holder)' \/ Priv!Loading(holder)'
  <2>1. /\ holder \in ChannelCallers
        /\ Priv!Binding(holder) \/ Priv!Asking(holder) \/ Priv!Loading(holder)
    BY <1>1, <1>3, ChannelBusy
  <2>2. CASE Priv!Binding(holder) /\ callPc[holder] = "first"
    <3>1. request = <<Priv!Item("BIND", None, holder)>> /\ answer = <<>> /\ server = "request"
      BY <1>1, <2>2 DEF Priv!Binding, Priv!Wire
    <3>2. Head(request) = Priv!Item("BIND", None, holder) /\ Tail(request) = <<>>
      BY <3>1
    <3>3. Priv!ServeBind
      BY <3>1, <3>2 DEF Priv!Bind, Priv!ServeAuth, Priv!ServeExit, Priv!ServeConf, Priv!Item
    <3>4. /\ request' = <<>>
          /\ \/ answer' = <<Priv!Answer(1, holder)>> /\ server' = "request"
             \/ answer' = <<Priv!Answer(0, holder)>> /\ server' = "descriptor"
      BY <3>1, <3>2, <3>3 DEF Priv!ServeBind, Priv!Item, Priv!Answer
    <3>5. QED
      BY <1>1, <2>2, <3>4 DEF Priv!Binding, Priv!Wire
  <2>3. CASE Priv!Binding(holder) /\ callPc[holder] # "first"
    <3>1. /\ request = <<Priv!Item("fd", holder, holder)>> /\ answer = <<>>
          /\ server = "descriptor" /\ callPc[holder] = "second"
      BY <1>1, <2>3 DEF Priv!Binding, Priv!Wire
    <3>2. Head(request) = Priv!Item("fd", holder, holder) /\ Tail(request) = <<>>
      BY <3>1
    <3>3. Priv!Bind
      BY <3>1 DEF Priv!ServeBind, Priv!ServeAuth, Priv!ServeExit, Priv!ServeConf
    <3>4. /\ request' = <<>> /\ server' = "request"
          /\ \/ answer' = <<Priv!Answer(1, holder)>>
             \/ answer' = <<Priv!Answer(0, holder), Priv!Item("descriptor", holder, holder)>>
      BY <3>1, <3>2, <3>3 DEF Priv!Bind, Priv!Item, Priv!Answer
    <3>5. QED
      BY <1>1, <2>3, <3>1, <3>4 DEF Priv!Binding, Priv!Wire
  <2>4. CASE Priv!Asking(holder)
    <3>1. /\ request = <<Priv!Item(op[holder], None, holder)>> /\ answer = <<>>
          /\ server = "request" /\ op[holder] \in {"AUTH", "EXIT"}
      BY <1>1, <2>4 DEF Priv!Asking, Priv!Wire
    <3>2. Head(request) = Priv!Item(op[holder], None, holder) /\ Tail(request) = <<>>
      BY <3>1
    <3>3. Priv!ServeAuth \/ Priv!ServeExit
      BY <3>1, <3>2 DEF Priv!ServeBind, Priv!Bind, Priv!ServeConf, Priv!Item
    <3>4. /\ request' = <<>> /\ server' \in {"request", "gone"}
          /\ \E v \in {0, 1} : answer' = <<Priv!Answer(v, holder)>>
      BY <3>1, <3>2, <3>3 DEF Priv!ServeAuth, Priv!ServeExit, Priv!Item, Priv!Answer
    <3>5. QED
      BY <1>1, <2>4, <3>4 DEF Priv!Asking, Priv!Wire
  <2>5. CASE Priv!Loading(holder)
    <3>1. /\ request = <<Priv!Item("CONF", None, holder)>> /\ answer = <<>>
          /\ server = "request" /\ callPc[holder] = "first"
      BY <1>1, <2>5 DEF Priv!Loading, Priv!Wire
    <3>2. Head(request) = Priv!Item("CONF", None, holder) /\ Tail(request) = <<>>
      BY <3>1
    <3>3. Priv!ServeConf
      BY <3>1, <3>2 DEF Priv!ServeBind, Priv!Bind, Priv!ServeAuth, Priv!ServeExit, Priv!Item
    <3>4. /\ request' = <<>> /\ server' = "request"
          /\ \/ answer' = <<Priv!Answer(0, holder)>>
             \/ answer' = <<Priv!Answer(2, holder), Priv!Item("text", 1, holder),
                            Priv!Item("text", 2, holder)>>
      BY <3>1, <3>2, <3>3 DEF Priv!ServeConf, Priv!Item, Priv!Answer
    <3>5. QED
      BY <1>1, <2>5, <3>1, <3>4 DEF Priv!Loading, Priv!Wire
  <2>6. QED
    BY <2>1, <2>2, <2>3, <2>4, <2>5
<1>4. ~ left => holder # None
  BY <1>1, ChannelBusy, ChannelAssumption
<1>5. QED
  BY <1>1, <1>2, <1>3, <1>4 DEF Priv!IInv

(* The steps of a caller that is answered.                                 *)
LEMMA ChannelCallee ==
  ASSUME Priv!IInv, ~ left, NEW c \in ChannelCallers, callPc[c] # "idle"
  PROVE  holder = c /\ (Priv!Binding(c) \/ Priv!Asking(c) \/ Priv!Loading(c))
BY ChannelAssumption DEF Priv!IInv

LEMMA ChannelGivesUp ==
  ASSUME Priv!IInv, NEW c \in ChannelCallers, callPc[c] # "idle", Priv!GiveUp(c),
         UNCHANGED op, left => left',
         ~ left' => fd' = fd /\ \E at \in {"request", "gone"} : Priv!Wire(<<>>, <<>>, at)'
  PROVE  Priv!IInv'
<1>1. callPc' = [callPc EXCEPT ![c] = "idle"] /\ holder' = None
  BY DEF Priv!GiveUp
<1>2. Priv!TypeOK'
  BY <1>1 DEF Priv!IInv, Priv!TypeOK
<1>3. ASSUME ~ left' PROVE \A b \in ChannelCallers : callPc'[b] = "idle"
  BY <1>1, <1>3, ChannelCallee DEF Priv!IInv, Priv!TypeOK
<1>4. QED
  BY <1>1, <1>2, <1>3 DEF Priv!IInv

LEMMA ChannelGoesOn ==
  ASSUME Priv!IInv, NEW c \in ChannelCallers, callPc[c] # "idle",
         NEW l \in {"second", "descriptor", "text"}, Priv!GoOn(c, l),
         UNCHANGED <<op, fd, left>>,
         ~ left => Priv!Binding(c)' \/ Priv!Asking(c)' \/ Priv!Loading(c)'
  PROVE  Priv!IInv'
<1>1. callPc' = [callPc EXCEPT ![c] = l] /\ holder' = holder
  BY DEF Priv!GoOn
<1>2. Priv!TypeOK'
  BY <1>1 DEF Priv!IInv, Priv!TypeOK
<1>3. ASSUME ~ left
      PROVE  holder = c /\ \A b \in ChannelCallers : holder # b => callPc'[b] = "idle"
  BY <1>1, <1>3, ChannelCallee DEF Priv!IInv, Priv!TypeOK
<1>4. QED
  BY <1>1, <1>2, <1>3, ChannelAssumption DEF Priv!IInv

LEMMA ChannelBind ==
  ASSUME Priv!IInv, NEW c \in ChannelCallers,
         Priv!BindFirst(c) \/ Priv!BindSecond(c) \/ Priv!BindThird(c)
  PROVE  Priv!IInv'
<1> USE DEF Priv!Take
<1>1. CASE Priv!BindFirst(c)
  <2> USE DEF Priv!BindFirst
  <2>1. ASSUME ~ left PROVE Priv!Binding(c)'
    <3>1. /\ Priv!Binding(c) /\ callPc[c] = "first" /\ fd[c] = c
      BY <1>1, <2>1, ChannelCallee DEF Priv!IInv, Priv!Asking, Priv!Loading
    <3>2. /\ request = <<>>
          /\ \/ answer = <<Priv!Answer(1, c)>> /\ server = "request"
             \/ answer = <<Priv!Answer(0, c)>> /\ server = "descriptor"
      BY <1>1, <3>1 DEF Priv!Binding, Priv!Wire
    <3>3. /\ answer' = <<>> /\ server' = server /\ op' = op /\ callPc'[c] = "second"
          /\ \/ request' = <<>> /\ server = "request"
             \/ request' = <<Priv!Item("fd", c, c)>> /\ server = "descriptor"
      <4>1. answer' = <<>> /\ server' = server /\ op' = op /\ callPc'[c] = "second"
        BY <1>1, <3>1, <3>2 DEF Priv!GoOn, Priv!IInv, Priv!TypeOK
      <4>2. CASE server = "request"
        BY <1>1, <3>2, <4>1, <4>2 DEF Priv!Answer, Priv!Item
      <4>3. CASE server = "descriptor"
        <5>1. Head(answer).value = 0
          BY <3>2, <4>3 DEF Priv!Answer, Priv!Item
        <5>2. request' = Append(<<>>, Priv!Item("fd", c, c))
          BY <1>1, <3>1, <3>2, <5>1
        <5>3. QED
          BY <4>1, <4>3, <5>2
      <4>4. QED
        BY <3>2, <4>2, <4>3
    <3>4. QED
      BY <3>1, <3>3 DEF Priv!Binding, Priv!Wire
  <2>2. QED
    BY <1>1, <2>1, ChannelGoesOn
<1>2. CASE Priv!BindSecond(c)
  <2> USE DEF Priv!BindSecond
  <2>1. ASSUME ~ left
        PROVE  /\ Priv!Binding(c) /\ callPc[c] = "second" /\ request = <<>> /\ server = "request"
               /\ \/ answer = <<Priv!Answer(1, c)>>
                  \/ answer = <<Priv!Answer(0, c), Priv!Item("descriptor", c, c)>>
    <3>1. Priv!Binding(c)
      BY <1>2, <2>1, ChannelCallee DEF Priv!Asking, Priv!Loading
    <3>2. QED
      BY <1>2, <3>1 DEF Priv!Binding, Priv!Wire
  <2>2. CASE Head(answer).value = 0
    <3>1. ASSUME ~ left PROVE Priv!Binding(c)'
      <4>1. answer = <<Priv!Answer(0, c), Priv!Item("descriptor", c, c)>>
        BY <2>1, <2>2, <3>1 DEF Priv!Answer, Priv!Item
      <4>2. /\ answer' = <<Priv!Item("descriptor", c, c)>> /\ request' = <<>>
            /\ server' = "request" /\ callPc'[c] = "descriptor" /\ op' = op
        BY <1>2, <2>1, <2>2, <3>1, <4>1 DEF Priv!GoOn, Priv!IInv, Priv!TypeOK
      <4>3. QED
        BY <2>1, <3>1, <4>2 DEF Priv!Binding, Priv!Wire
    <3>2. QED
      BY <1>2, <2>2, <3>1, ChannelGoesOn
  <2>3. CASE Head(answer).value # 0
    <3>1. ASSUME ~ left PROVE Priv!Wire(<<>>, <<>>, "request")'
      <4>1. answer = <<Priv!Answer(1, c)>>
        BY <2>1, <2>3, <3>1 DEF Priv!Answer, Priv!Item
      <4>2. QED
        BY <1>2, <2>1, <3>1, <4>1 DEF Priv!Wire
    <3>2. QED
      BY <1>2, <2>3, <3>1, ChannelGivesUp
  <2>4. QED
    BY <2>2, <2>3
<1>3. CASE Priv!BindThird(c)
  <2> USE DEF Priv!BindThird
  <2>1. ASSUME ~ left PROVE fd' = fd /\ Priv!Wire(<<>>, <<>>, "request")'
    <3>1. Priv!Binding(c)
      BY <1>3, <2>1, ChannelCallee DEF Priv!Asking, Priv!Loading
    <3>2. answer = <<Priv!Item("descriptor", c, c)>> /\ request = <<>> /\ server = "request"
      BY <1>3, <3>1 DEF Priv!Binding, Priv!Wire
    <3>3. fd = [b \in ChannelCallers |-> b] /\ Head(answer).value = c
      BY <2>1, <3>2 DEF Priv!IInv, Priv!Item
    <3>4. QED
      BY <1>3, <3>2, <3>3 DEF Priv!Wire
  <2>2. QED
    BY <1>3, <2>1, ChannelGivesUp
<1>4. QED
  BY <1>1, <1>2, <1>3

LEMMA ChannelAnswer ==
  ASSUME Priv!IInv, NEW c \in ChannelCallers,
         Priv!OneAnswer(c) \/ Priv!ConfSize(c) \/ Priv!ConfText(c)
  PROVE  Priv!IInv'
<1> USE DEF Priv!Take
<1>1. CASE Priv!OneAnswer(c)
  <2> USE DEF Priv!OneAnswer
  <2>1. ASSUME ~ left PROVE \E at \in {"request", "gone"} : Priv!Wire(<<>>, <<>>, at)'
    <3>1. Priv!Asking(c)
      BY <1>1, <2>1, ChannelCallee DEF Priv!Binding, Priv!Loading
    <3>2. /\ request = <<>> /\ Tail(answer) = <<>> /\ server \in {"request", "gone"}
      BY <1>1, <3>1 DEF Priv!Asking, Priv!Wire
    <3>3. QED
      BY <1>1, <3>2 DEF Priv!Wire
  <2>2. QED
    BY <1>1, <2>1, ChannelGivesUp
<1>2. CASE Priv!ConfSize(c)
  <2> USE DEF Priv!ConfSize
  <2>1. ASSUME ~ left
        PROVE  /\ Priv!Loading(c) /\ callPc[c] = "first" /\ request = <<>> /\ server = "request"
               /\ \/ answer = <<Priv!Answer(0, c)>>
                  \/ answer = <<Priv!Answer(2, c), Priv!Item("text", 1, c), Priv!Item("text", 2, c)>>
    <3>1. Priv!Loading(c)
      BY <1>2, <2>1, ChannelCallee DEF Priv!Binding, Priv!Asking
    <3>2. QED
      BY <1>2, <3>1 DEF Priv!Loading, Priv!Wire
  <2>2. CASE Head(answer).value = 0 /\ Priv!GiveUp(c) /\ UNCHANGED left
    <3>1. ASSUME ~ left PROVE Priv!Wire(<<>>, <<>>, "request")'
      <4>1. answer = <<Priv!Answer(0, c)>>
        BY <2>1, <2>2, <3>1 DEF Priv!Answer, Priv!Item
      <4>2. QED
        BY <1>2, <2>1, <3>1, <4>1 DEF Priv!Wire
    <3>2. QED
      BY <1>2, <2>2, <3>1, ChannelGivesUp
  <2>3. CASE Head(answer).value # 0 /\ Priv!GoOn(c, "text") /\ UNCHANGED left
    <3>1. ASSUME ~ left PROVE Priv!Loading(c)'
      <4>1. answer = <<Priv!Answer(2, c), Priv!Item("text", 1, c), Priv!Item("text", 2, c)>>
        BY <2>1, <2>3, <3>1 DEF Priv!Answer, Priv!Item
      <4>2. /\ answer' = <<Priv!Item("text", 1, c), Priv!Item("text", 2, c)>>
            /\ request' = <<>> /\ server' = "request" /\ callPc'[c] = "text" /\ op' = op
        BY <1>2, <2>1, <2>3, <3>1, <4>1 DEF Priv!GoOn, Priv!IInv, Priv!TypeOK
      <4>3. QED
        BY <2>1, <3>1, <4>2 DEF Priv!Loading, Priv!Wire
    <3>2. QED
      BY <1>2, <2>3, <3>1, ChannelGoesOn
  <2>4. CASE Priv!GiveUp(c) /\ left' = TRUE
    BY <1>2, <2>4, ChannelGivesUp
  <2>5. QED
    BY <1>2, <2>2, <2>3, <2>4
<1>3. CASE Priv!ConfText(c)
  <2> USE DEF Priv!ConfText
  <2>1. ASSUME ~ left' PROVE Priv!Wire(<<>>, <<>>, "request")'
    <3>1. Priv!Loading(c) /\ ~ left /\ answer' = <<>>
      BY <1>3, <2>1, ChannelCallee DEF Priv!Binding, Priv!Asking
    <3>2. request = <<>> /\ server = "request"
      BY <1>3, <3>1 DEF Priv!Loading, Priv!Wire
    <3>3. QED
      BY <1>3, <3>1, <3>2 DEF Priv!Wire
  <2>2. QED
    BY <1>3, <2>1, ChannelGivesUp
<1>4. QED
  BY <1>1, <1>2, <1>3

LEMMA ChannelNext == ASSUME Priv!IInv, [Priv!Next]_channelVars PROVE Priv!IInv'
<1>1. CASE UNCHANGED channelVars
  BY <1>1 DEF channelVars, Priv!IInv, Priv!TypeOK, Priv!Binding, Priv!Asking, Priv!Loading,
       Priv!Wire
<1>2. CASE Priv!Next
  BY <1>2, ChannelCall, ChannelServe, ChannelBind, ChannelAnswer DEF Priv!Next
<1>3. QED
  BY <1>1, <1>2

LEMMA ChannelInStep == Priv!IInv => InStep
<1> SUFFICES ASSUME Priv!IInv, ~ left PROVE InStep
  BY DEF InStep, Priv!InStep
<1>1. CASE holder = None
  BY <1>1, ChannelAssumption DEF InStep, Priv!InStep, Priv!Waiting, Priv!IInv, Priv!Wire
<1>2. CASE holder # None
  <2>1. /\ holder \in ChannelCallers /\ fd = [c \in ChannelCallers |-> c]
        /\ \A c \in ChannelCallers : holder # c => callPc[c] = "idle"
        /\ Priv!Binding(holder) \/ Priv!Asking(holder) \/ Priv!Loading(holder)
    BY <1>2 DEF Priv!IInv, Priv!TypeOK
  <2>2. CASE answer # <<>>
    <3>1. /\ Head(answer).for = holder
          /\ Head(answer).kind = CASE callPc[holder] = "text" -> "text"
                                   [] callPc[holder] = "descriptor" -> "descriptor"
                                   [] OTHER -> "value"
          /\ request = <<>>
      BY <2>1, <2>2 DEF Priv!Binding, Priv!Asking, Priv!Loading, Priv!Wire, Priv!Answer, Priv!Item
    <3>2. QED
      BY <1>2, <2>1, <2>2, <3>1 DEF InStep, Priv!InStep, Priv!Waiting
  <2>3. CASE answer = <<>> /\ request # <<>>
    <3>1. Head(request).kind = "fd" <=> server = "descriptor"
      BY <2>1, <2>3 DEF Priv!Binding, Priv!Asking, Priv!Loading, Priv!Wire, Priv!Item, Priv!Answer
    <3>2. QED
      BY <1>2, <2>1, <2>3, <3>1 DEF InStep, Priv!InStep, Priv!Waiting
  <2>4. CASE answer = <<>> /\ request = <<>>
    <3>1. server # "descriptor" /\ callPc[holder] = "second" /\ op[holder] = "BIND"
      BY <2>1, <2>4 DEF Priv!Binding, Priv!Asking, Priv!Loading, Priv!Wire
    <3>2. QED
      BY <1>2, <2>1, <2>4, <3>1 DEF InStep, Priv!InStep, Priv!Waiting
  <2>5. QED
    BY <2>2, <2>3, <2>4
<1>3. QED
  BY <1>1, <1>2

(* A caller of the privileged channel only meets answers to its own        *)
(* request, whatever the number of callers and calls.                      *)
THEOREM ChannelSafe == PartsSpec => []InStep
<1>1. ASSUME Priv!IInv, [PartsNext]_partsVars PROVE Priv!IInv'
  <2>1. [Priv!Next]_channelVars
    BY <1>1 DEF PartsNext, Others, partsVars
  <2>2. QED
    BY <1>1, <2>1, ChannelNext
<1>2. QED
  BY <1>1, ChannelInit, ChannelInStep, PTL DEF PartsSpec

-----------------------------------------------------------------------------
(* Virtual UDP sockets.                                                    *)

LEMMA UdpInit == PartsInit => Udp!IInv
BY UdpAssumption DEF PartsInit, Udp!Init, Udp!IInv, Udp!TypeOK, Udp!OneHolder, Udp!Held,
     Udp!Sockets

(* Steps that leave the workers as they are.                               *)
LEMMA UdpOutside ==
  ASSUME Udp!IInv,
         \/ \E c \in Clients : Udp!Arrive(c)
         \/ \E s \in Udp!Sockets : Udp!Send(s) \/ Udp!Poll(s)
         \/ Udp!PollUdp
  PROVE  Udp!IInv'
<1> USE DEF Udp!IInv
<1>1. UNCHANGED <<client, addr, udpPc, udpSock, wanted>>
  BY DEF Udp!Arrive, Udp!Send, Udp!Poll, Udp!PollUdp, Udp!queues
<1>2. /\ work' \in [Udp!Sockets -> Nat]
      /\ \A s \in Udp!Sockets : client[s] = None => work'[s] = work[s]
  <2>1. CASE \E s \in Udp!Sockets : Udp!Send(s)
    BY <2>1 DEF Udp!Send, Udp!TypeOK
  <2>2. CASE UNCHANGED work
    BY <2>2 DEF Udp!TypeOK
  <2>3. QED
    BY <2>1, <2>2 DEF Udp!Arrive, Udp!Poll, Udp!PollUdp
<1>3. Udp!TypeOK'
  <2>1. inbox' \in Seq(Clients)
    <3>1. CASE \E c \in Clients : Udp!Arrive(c)
      BY <3>1 DEF Udp!Arrive, Udp!TypeOK
    <3>2. CASE UNCHANGED inbox
      BY <3>2 DEF Udp!TypeOK
    <3>3. QED
      BY <3>1, <3>2 DEF Udp!Send, Udp!Poll, Udp!PollUdp
  <2>2. /\ blocking' \subseteq Udp!Sockets /\ readable' \subseteq Udp!Sockets
        /\ writable' \subseteq Udp!Sockets /\ udp' \in [Clients -> Udp!Sockets \cup {None}]
    <3>1. CASE Udp!PollUdp
      BY <3>1 DEF Udp!PollUdp, Udp!TypeOK
    <3>2. CASE \E s \in Udp!Sockets : Udp!Poll(s)
      BY <3>2 DEF Udp!Poll, Udp!TypeOK
    <3>3. CASE UNCHANGED <<udp, Udp!queues>>
      BY <3>3 DEF Udp!TypeOK, Udp!queues
    <3>4. QED
      BY <3>1, <3>2, <3>3 DEF Udp!Arrive, Udp!Send
  <2>3. QED
    BY <1>1, <1>2, <2>1, <2>2 DEF Udp!TypeOK
<1>4. QED
  BY <1>1, <1>2, <1>3 DEF Udp!OneHolder, Udp!Held

(* A worker takes a socket nobody holds.                                   *)
LEMMA UdpTake ==
  ASSUME Udp!IInv, NEW w \in UdpWorkers, NEW s \in Udp!Sockets,
         Udp!Receive(w, s) \/ Udp!TakeWritable(w, s)
  PROVE  Udp!IInv'
<1> USE DEF Udp!IInv
<1>1. PICK l \in {"find", "respond"} : udpPc' = [udpPc EXCEPT ![w] = l]
  BY DEF Udp!Receive, Udp!TakeWritable
<1>2. /\ udpSock' = [udpSock EXCEPT ![w] = s] /\ ~ Udp!Held(s) /\ client[s] # None
      /\ UNCHANGED <<client, work, udp, blocking, wanted>>
      /\ readable' \subseteq readable /\ writable' \subseteq writable
  BY DEF Udp!Receive, Udp!TakeWritable
<1>3. inbox' \in Seq(Clients) /\ addr' \in [Udp!Sockets -> Clients \cup {None}]
  <2>1. CASE UNCHANGED <<inbox, addr>>
    BY <2>1 DEF Udp!TypeOK
  <2>2. CASE inbox # <<>> /\ inbox' = Tail(inbox) /\ addr' = [addr EXCEPT ![s] = Head(inbox)]
    <3>1. inbox \in Seq(Clients) /\ addr \in [Udp!Sockets -> Clients \cup {None}]
      BY DEF Udp!TypeOK
    <3>2. Head(inbox) \in Clients /\ Tail(inbox) \in Seq(Clients)
      BY <2>2, <3>1
    <3>3. QED
      BY <2>2, <3>1, <3>2
  <2>3. QED
    BY <2>1, <2>2 DEF Udp!Receive, Udp!TakeWritable
<1>4. s # None
  BY UdpAssumption DEF Udp!Sockets
<1>5. Udp!TypeOK'
  BY <1>1, <1>2, <1>3 DEF Udp!TypeOK
<1>6. Udp!OneHolder'
  BY <1>2 DEF Udp!TypeOK, Udp!OneHolder, Udp!Held
<1>7. QED
  BY <1>1, <1>2, <1>4, <1>5, <1>6 DEF Udp!TypeOK

(* A worker lets go of its socket.                                         *)
LEMMA UdpLetGo ==
  ASSUME Udp!IInv, NEW w \in UdpWorkers, udpSock[w] # None,
         udpPc' = [udpPc EXCEPT ![w] = "idle"], udpSock' = [udpSock EXCEPT ![w] = None],
         UNCHANGED wanted, Udp!TypeOK',
         \A s \in Udp!Sockets :
           client'[s] = None => work'[s] = 0 /\ (client[s] = None \/ s = udpSock[w])
  PROVE  Udp!IInv'
<1> USE DEF Udp!IInv
<1>1. Udp!OneHolder'
  <2>1. \A v \in UdpWorkers : udpSock'[v] = IF v = w THEN None ELSE udpSock[v]
    BY DEF Udp!TypeOK
  <2>2. \A u, v \in UdpWorkers : u # v /\ udpSock[u] # None => udpSock[u] # udpSock[v]
    BY DEF Udp!OneHolder
  <2>3. ASSUME NEW s \in Udp!Sockets, client'[s] = None, Udp!Held(s)' PROVE FALSE
    <3>1. PICK v \in UdpWorkers : udpSock'[v] = s
      BY <2>3 DEF Udp!Held
    <3>2. s # None
      BY UdpAssumption DEF Udp!Sockets
    <3>3. v # w /\ udpSock[v] = s
      BY <2>1, <3>1, <3>2
    <3>4. client[s] # None
      BY <3>3 DEF Udp!OneHolder, Udp!Held
    <3>5. s = udpSock[w]
      BY <2>3, <3>4
    <3>6. QED
      BY <2>2, <3>2, <3>3, <3>5
  <2>4. QED
    BY <2>1, <2>2, <2>3 DEF Udp!OneHolder
<1>2. QED
  BY <1>1 DEF Udp!TypeOK

LEMMA UdpSpawn ==
  ASSUME Udp!IInv, NEW w \in UdpWorkers, Udp!Spawn(w)
  PROVE  Udp!IInv'
<1> USE DEF Udp!IInv, Udp!Spawn
<1>1. /\ udpSock[w] \in Udp!Sockets /\ addr[udpSock[w]] \in Clients /\ udpPc[w] = "find"
      /\ UNCHANGED <<inbox, work, readable, writable, wanted>>
      /\ blocking' = blocking \cup {udpSock[w]}
  BY DEF Udp!TypeOK
<1>2. CASE udpPc' = [udpPc EXCEPT ![w] = "idle"]
  <2>1. udpSock' = [udpSock EXCEPT ![w] = None] /\ UNCHANGED <<client, addr, udp>>
    BY <1>1, <1>2 DEF Udp!TypeOK
  <2>2. Udp!TypeOK'
    BY <1>1, <1>2, <2>1 DEF Udp!TypeOK
  <2>3. QED
    <3>1. \A s \in Udp!Sockets : client'[s] = None => work'[s] = 0 /\ client[s] = None
      BY <1>1, <2>1 DEF Udp!OneHolder
    <3>2. udpSock[w] # None
      BY <1>1
    <3>3. QED
      BY <1>1, <1>2, <2>1, <2>2, <3>1, <3>2, UdpLetGo
<1>3. CASE udpPc' # [udpPc EXCEPT ![w] = "idle"]
  <2>1. PICK z \in Virtual :
          /\ client[z] = None
          /\ client' = [client EXCEPT ![z] = addr[udpSock[w]]]
          /\ addr' = [addr EXCEPT ![z] = addr[udpSock[w]]]
          /\ udp' = [udp EXCEPT ![addr[udpSock[w]]] = z]
          /\ udpSock' = [udpSock EXCEPT ![w] = z]
          /\ udpPc' = [udpPc EXCEPT ![w] = "handle"]
    BY <1>3
  <2>2. z \in Udp!Sockets /\ z # None
    BY UdpAssumption DEF Udp!Sockets
  <2>3. Udp!TypeOK'
    BY <1>1, <2>1, <2>2 DEF Udp!TypeOK
  <2>4. ~ Udp!Held(z)
    BY <2>1, <2>2 DEF Udp!OneHolder
  <2>5. Udp!OneHolder'
    BY <1>1, <2>1, <2>2, <2>4, UdpAssumption DEF Udp!OneHolder, Udp!TypeOK, Udp!Held
  <2>6. QED
    BY <1>1, <2>1, <2>2, <2>3, <2>5 DEF Udp!TypeOK
<1>4. QED
  BY <1>2, <1>3

LEMMA UdpFind ==
  ASSUME Udp!IInv, NEW w \in UdpWorkers, Udp!Find(w)
  PROVE  Udp!IInv'
<1> USE DEF Udp!IInv, Udp!Find
<1>1. /\ UNCHANGED <<inbox, client, addr, work, udp, blocking, readable, writable, udpSock>>
      /\ udpPc[w] = "find" /\ udpSock[w] \in Udp!Sockets
  BY DEF Udp!queues, Udp!TypeOK
<1>2. \/ udpPc' = [udpPc EXCEPT ![w] = "handle"] /\ UNCHANGED wanted
      \/ \E s \in Udp!Sockets : /\ s # None /\ wanted' = [wanted EXCEPT ![w] = s]
                                /\ udpPc' = [udpPc EXCEPT ![w] = "acquire"]
  BY <1>1, UdpAssumption DEF Udp!TypeOK, Udp!Sockets
<1>3. Udp!TypeOK'
  BY <1>1, <1>2 DEF Udp!TypeOK
<1>4. QED
  BY <1>1, <1>2, <1>3 DEF Udp!TypeOK, Udp!OneHolder, Udp!Held

LEMMA UdpAcquire ==
  ASSUME Udp!IInv, NEW w \in UdpWorkers, Udp!Acquire(w)
  PROVE  Udp!IInv'
<1> USE DEF Udp!IInv, Udp!Acquire
<1>1. /\ UNCHANGED <<inbox, client, addr, work, udp, readable, writable>>
      /\ udpPc[w] = "acquire" /\ udpSock[w] \in Udp!Sockets
      /\ wanted[w] \in Udp!Sockets /\ ~ Udp!Held(wanted[w])
      /\ wanted' = [wanted EXCEPT ![w] = None] /\ udpPc' = [udpPc EXCEPT ![w] = "handle"]
  BY DEF Udp!TypeOK
<1>2. \/ UNCHANGED <<blocking, udpSock>>
      \/ /\ blocking' = blocking \cup {udpSock[w]} /\ client[wanted[w]] # None
         /\ udpSock' = [udpSock EXCEPT ![w] = wanted[w]]
  OBVIOUS
<1>3. Udp!TypeOK'
  BY <1>1, <1>2 DEF Udp!TypeOK
<1>4. Udp!OneHolder'
  <2>1. CASE UNCHANGED udpSock
    BY <1>1, <2>1 DEF Udp!OneHolder, Udp!Held
  <2>2. CASE /\ client[wanted[w]] # None
             /\ udpSock' = [udpSock EXCEPT ![w] = wanted[w]]
    <3>1. \A v \in UdpWorkers : udpSock'[v] = IF v = w THEN wanted[w] ELSE udpSock[v]
      BY <2>2 DEF Udp!TypeOK
    <3>2. \A v \in UdpWorkers : udpSock[v] # wanted[w]
      BY <1>1 DEF Udp!Held
    <3>3. \A u, v \in UdpWorkers : u # v /\ udpSock'[u] # None => udpSock'[u] # udpSock'[v]
      BY <3>1, <3>2 DEF Udp!OneHolder
    <3>4. \A s \in Udp!Sockets : client[s] = None => work[s] = 0 /\ ~ Udp!Held(s)'
      BY <2>2, <3>1 DEF Udp!OneHolder, Udp!Held
    <3>5. QED
      BY <1>1, <3>3, <3>4 DEF Udp!OneHolder
  <2>3. QED
    BY <1>2, <2>1, <2>2
<1>5. QED
  BY <1>1, <1>2, <1>3, <1>4, UdpAssumption DEF Udp!TypeOK, Udp!Sockets

LEMMA UdpHandle ==
  ASSUME Udp!IInv, NEW w \in UdpWorkers, Udp!Handle(w) \/ Udp!Respond(w) \/ Udp!Close(w)
  PROVE  Udp!IInv'
<1> USE DEF Udp!IInv
<1>1. udpPc[w] \in {"handle", "respond"} /\ udpSock[w] \in Udp!Sockets /\ udpSock[w] # None
  BY DEF Udp!Handle, Udp!Respond, Udp!Close, Udp!TypeOK
<1>2. /\ client[udpSock[w]] # None
      /\ \A v \in UdpWorkers : v # w => udpSock[v] # udpSock[w]
  BY <1>1 DEF Udp!OneHolder, Udp!Held
<1>3. CASE Udp!Handle(w)
  <2> USE DEF Udp!Handle
  <2>1. UNCHANGED <<inbox, client, addr, udp, readable, writable, wanted>>
    BY <1>3
  <2>2. PICK n \in 0 .. 1 : work' = [work EXCEPT ![udpSock[w]] = @ + n]
    BY <1>3
  <2>3. /\ work' \in [Udp!Sockets -> Nat]
        /\ \A s \in Udp!Sockets : client[s] = None => work'[s] = 0
    BY <1>1, <1>2, <2>2 DEF Udp!TypeOK, Udp!OneHolder
  <2>4. CASE work'[udpSock[w]] = 0
    <3>1. /\ blocking' = blocking \cup {udpSock[w]}
          /\ udpSock' = [udpSock EXCEPT ![w] = None] /\ udpPc' = [udpPc EXCEPT ![w] = "idle"]
      BY <1>3, <2>4
    <3>2. Udp!TypeOK'
      BY <1>1, <2>1, <2>3, <3>1 DEF Udp!TypeOK
    <3>3. QED
      BY <1>1, <2>1, <2>3, <3>1, <3>2, UdpLetGo
  <2>5. CASE work'[udpSock[w]] # 0
    <3>1. udpPc' = [udpPc EXCEPT ![w] = "respond"] /\ UNCHANGED <<blocking, udpSock>>
      BY <1>3, <2>5
    <3>2. Udp!TypeOK'
      BY <1>1, <2>1, <2>3, <3>1 DEF Udp!TypeOK
    <3>3. QED
      BY <1>1, <2>1, <2>3, <3>1, <3>2 DEF Udp!TypeOK, Udp!OneHolder, Udp!Held
  <2>6. QED
    BY <2>4, <2>5
<1>4. CASE Udp!Respond(w) \/ Udp!Close(w)
  <2> USE DEF Udp!Respond, Udp!Close
  <2>1. /\ UNCHANGED <<inbox, blocking, readable, writable, wanted>>
        /\ work' = [work EXCEPT ![udpSock[w]] = 0]
        /\ udpSock' = [udpSock EXCEPT ![w] = None] /\ udpPc' = [udpPc EXCEPT ![w] = "idle"]
    BY <1>4 DEF Udp!queues
  <2>2. /\ client' \in {client, [client EXCEPT ![udpSock[w]] = None]}
        /\ addr' \in {addr, [addr EXCEPT ![udpSock[w]] = None]}
    BY <1>4
  <2>3. udp' \in [Clients -> Udp!Sockets \cup {None}]
    <3>1. addr[udpSock[w]] \in Clients \cup {None}
      BY <1>1 DEF Udp!TypeOK
    <3>2. QED
      BY <1>1, <1>4, <3>1 DEF Udp!TypeOK
  <2>4. Udp!TypeOK'
    BY <1>1, <2>1, <2>2, <2>3 DEF Udp!TypeOK
  <2>5. \A s \in Udp!Sockets :
          client'[s] = None => work'[s] = 0 /\ (client[s] = None \/ s = udpSock[w])
    BY <1>1, <2>1, <2>2 DEF Udp!TypeOK, Udp!OneHolder
  <2>6. QED
    BY <1>1, <2>1, <2>4, <2>5, UdpLetGo
<1>5. QED
  BY <1>3, <1>4

LEMMA UdpNext == ASSUME Udp!IInv, [Udp!Next]_udpVars PROVE Udp!IInv'
<1>1. CASE UNCHANGED udpVars
  BY <1>1 DEF udpVars, Udp!IInv, Udp!TypeOK, Udp!OneHolder, Udp!Held
<1>2. CASE Udp!Next
  BY <1>2, UdpOutside, UdpTake, UdpSpawn, UdpFind, UdpAcquire, UdpHandle DEF Udp!Next
<1>3. QED
  BY <1>1, <1>2

(* No two workers have the same virtual socket, and nothing is left of a   *)
(* closed one, whatever the number of workers, clients and sockets.        *)
THEOREM UdpSafe == PartsSpec => []OneHolder
<1>1. ASSUME Udp!IInv, [PartsNext]_partsVars PROVE Udp!IInv'
  <2>1. [Udp!Next]_udpVars
    BY <1>1 DEF PartsNext, Others, partsVars
  <2>2. QED
    BY <1>1, <2>1, UdpNext
<1>2. Udp!IInv => OneHolder
  BY DEF Udp!IInv, OneHolder
<1>3. QED
  BY <1>1, <1>2, UdpInit, PTL DEF PartsSpec

-----------------------------------------------------------------------------
(* The life cycle of the server.                                           *)

LEMMA EngineInit == PartsInit => Core!IInv
<1> SUFFICES ASSUME Core!Init PROVE Core!IInv
  BY DEF PartsInit
<1> USE DEF Core!Init
<1>1. Core!TypeOK
  <2>1. stage \in 1 .. Len(Core!Stages)
    BY DEF Core!Stages
  <2>2. inside \in [EngineWorkers -> Seq(Core!Ids)]
    OBVIOUS
  <2>3. QED
    BY <2>1, <2>2 DEF Core!TypeOK
<1>2. Core!WorkersInv
  BY DEF Core!WorkersInv
<1>3. Core!StartInv
  BY DEF Core!StartInv, Core!Begun
<1>4. Core!StopInv /\ Core!OrderlyStop /\ Core!FailedStart
  BY DEF Core!StopInv, Core!OrderlyStop, Core!FailedStart
<1>5. QED
  BY <1>1, <1>2, <1>3, <1>4 DEF Core!IInv

(* Steps that leave the registry of plugins and the workers alone.         *)
LEMMA EngineCalm ==
  ASSUME Core!IInv, UNCHANGED <<plugin, finished, sockets, silent, wpc, inside>>,
         enginePc' \in {"init", "builtin", "serve", "tell", "join", "sockets", "exit"},
         stage' \in 1 .. Len(Core!Stages), running' = (enginePc' = "serve"),
         told' \in [Core!Ids -> {0, 1}],
         enginePc' \notin {"builtin", "serve", "tell", "join"} =>
           \A w \in EngineWorkers : wpc[w] \in {"none", "exited"},
         Core!StartInv', Core!StopInv'
  PROVE  Core!IInv'
<1> USE DEF Core!IInv
<1>1. Core!TypeOK'
  BY DEF Core!TypeOK
<1>2. Core!WorkersInv'
  BY DEF Core!WorkersInv
<1>3. Core!OrderlyStop' /\ Core!FailedStart'
  BY DEF Core!TypeOK, Core!OrderlyStop, Core!FailedStart
<1>4. QED
  BY <1>1, <1>2, <1>3

(* A load changes the registry only where nobody is.                       *)
LEMMA EngineLoad ==
  ASSUME Core!IInv, Core!LoadPlugin
  PROVE  /\ UNCHANGED <<finished, told, silent>>
         /\ plugin' \in [Core!Ids -> {"none", "opened", "started"}] /\ sockets' \subseteq Core!Ids
         /\ \A i \in Core!Ids : plugin[i] # "none" => plugin'[i] = plugin[i]
<1> USE DEF Core!IInv, Core!TypeOK, Core!LoadPlugin
<1>1. CASE UNCHANGED <<plugin, finished, told, sockets, silent>>
  BY <1>1
<1>2. CASE ~ UNCHANGED <<plugin, finished, told, sockets, silent>>
  <2>1. PICK i \in Core!Ids, code \in Core!InitStatus :
          /\ Core!FirstFree(i)
          /\ plugin' = [plugin EXCEPT ![i] = code]
          /\ sockets' \in {sockets, sockets \cup {i}}
          /\ UNCHANGED <<finished, told, silent>>
    BY <1>2 DEF Core!registry
  <2>2. QED
    BY <2>1 DEF Core!FirstFree, Core!InitStatus
<1>3. QED
  BY <1>1, <1>2

(* Steps of the start that may load a plugin.                              *)
LEMMA EngineBegin ==
  ASSUME Core!IInv, Core!ConfigurePlugin \/ Core!Start
  PROVE  Core!IInv'
<1> USE DEF Core!IInv, Core!ConfigurePlugin, Core!Start
<1>1. /\ UNCHANGED <<stage, up, twice, wpc, inside>> /\ Core!LoadPlugin
      /\ \/ enginePc = "init" /\ enginePc' = "init" /\ running' = running
         \/ enginePc = "builtin" /\ enginePc' = "serve" /\ running' = TRUE
  BY DEF Core!threads, Core!setup
<1>2. /\ UNCHANGED <<finished, told, silent>>
      /\ plugin' \in [Core!Ids -> {"none", "opened", "started"}] /\ sockets' \subseteq Core!Ids
      /\ \A i \in Core!Ids : plugin[i] # "none" => plugin'[i] = plugin[i]
  BY <1>1, EngineLoad
<1>3. Core!TypeOK'
  BY <1>1, <1>2 DEF Core!TypeOK
<1>4. Core!WorkersInv'
  <2>1. ASSUME NEW w \in EngineWorkers, NEW k \in 1 .. Len(inside[w])
        PROVE  plugin'[inside[w][k]] = "started"
    <3>1. inside[w] \in Seq(Core!Ids)
      BY DEF Core!TypeOK
    <3>2. inside[w][k] \in Core!Ids
      BY <2>1, <3>1, ElementOfSeq
    <3>3. plugin[inside[w][k]] = "started"
      BY DEF Core!WorkersInv
    <3>4. QED
      BY <1>2, <3>2, <3>3
  <2>2. QED
    BY <1>1, <2>1 DEF Core!WorkersInv
<1>5. Core!StartInv' /\ Core!StopInv'
  BY <1>1, <1>2 DEF Core!StartInv, Core!StopInv, Core!Begun
<1>6. Core!OrderlyStop' /\ Core!FailedStart'
  BY <1>1, <1>2 DEF Core!TypeOK, Core!OrderlyStop, Core!FailedStart
<1>7. QED
  BY <1>3, <1>4, <1>5, <1>6

LEMMA EngineSetUp == ASSUME Core!IInv, Core!SetUp PROVE Core!IInv'
<1> USE DEF Core!IInv, Core!SetUp
<1>1. /\ enginePc = "init" /\ up' = up \cup {Core!Stages[stage]}
      /\ UNCHANGED <<twice, plugin, finished, told, sockets, silent, running, inside>>
  BY DEF Core!registry
<1>2. stage \in 1 .. 13 /\ Len(Core!Stages) = 13
  BY DEF Core!TypeOK, Core!Stages
<1>3. CASE stage < 13
  <2>1. stage' = stage + 1 /\ UNCHANGED <<enginePc, wpc>>
    BY <1>2, <1>3
  <2>2. Core!Begun' = Core!Begun \cup {Core!Stages[stage]}
    BY <1>2, <2>1 DEF Core!Begun
  <2>3. Core!StartInv' /\ Core!StopInv'
    BY <1>1, <2>1, <2>2 DEF Core!StartInv, Core!StopInv
  <2>4. QED
    BY <1>1, <1>2, <1>3, <2>1, <2>3, EngineCalm DEF Core!TypeOK, Core!WorkersInv
<1>4. CASE stage = 13
  <2>1. /\ enginePc' = "builtin" /\ stage' = stage
        /\ wpc' = [w \in EngineWorkers |-> "wait"]
    BY <1>2, <1>4
  <2>2. ASSUME NEW w \in EngineWorkers PROVE inside[w] = <<>>
    BY <1>1, <2>2 DEF Core!WorkersInv, Core!TypeOK
  <2>3. Core!TypeOK'
    BY <1>1, <2>1 DEF Core!TypeOK
  <2>4. Core!WorkersInv'
    BY <1>1, <2>1, <2>2 DEF Core!WorkersInv
  <2>5. Core!StartInv' /\ Core!StopInv'
    BY <1>1, <2>1 DEF Core!StartInv, Core!StopInv
  <2>6. Core!OrderlyStop' /\ Core!FailedStart'
    BY <1>1, <2>1 DEF Core!TypeOK, Core!OrderlyStop, Core!FailedStart
  <2>7. QED
    BY <2>3, <2>4, <2>5, <2>6
<1>5. QED
  BY <1>2, <1>3, <1>4

(* The end of all the plugins, when no worker is in a handler.             *)
LEMMA EngineCleanup ==
  ASSUME Core!IInv, Core!PluginCleanup, UNCHANGED <<wpc, inside>>,
         enginePc \notin {"builtin", "serve", "tell", "join", "stopped", "failed", "exit"}
  PROVE  /\ plugin' = [i \in Core!Ids |-> "none"]
         /\ finished' \in [Core!Ids -> {0, 1}]
         /\ \A i \in Core!Ids : finished'[i] = 1 <=> plugin[i] = "started"
         /\ \A w \in EngineWorkers : inside[w] = <<>> /\ wpc[w] \in {"none", "exited"}
BY DEF Core!IInv, Core!TypeOK, Core!PluginCleanup, Core!WorkersInv, Core!StartInv

LEMMA EngineFails == ASSUME Core!IInv, Core!InitFails PROVE Core!IInv'
<1> USE DEF Core!IInv, Core!InitFails
<1>1. /\ enginePc = "init" /\ enginePc' = "failed"
      /\ up' = up \ Core!Ladder(stage) /\ twice' = twice \cup Core!CleanedAgain(stage)
      /\ sockets' = {} /\ silent' = silent \cup sockets
      /\ UNCHANGED <<stage, images, told, running, wpc, inside>>
  BY DEF Core!threads
<1>2. /\ plugin' = [i \in Core!Ids |-> "none"]
      /\ finished' \in [Core!Ids -> {0, 1}]
      /\ \A i \in Core!Ids : finished'[i] = 1 <=> plugin[i] = "started"
      /\ \A w \in EngineWorkers : inside[w] = <<>> /\ wpc[w] \in {"none", "exited"}
  BY <1>1, EngineCleanup
<1>3. Core!TypeOK'
  BY <1>1, <1>2 DEF Core!TypeOK
<1>4. Core!WorkersInv'
  BY <1>1, <1>2 DEF Core!WorkersInv
<1>5. Core!StartInv' /\ Core!StopInv'
  BY <1>1 DEF Core!StartInv, Core!StopInv
<1>6. Core!OrderlyStop'
  BY <1>1, <1>3 DEF Core!OrderlyStop, Core!TypeOK
<1>7. Core!FailedStart'
  <2>1. /\ up = {Core!Stages[j] : j \in 1 .. stage - 1} /\ twice = {} /\ stage \in 1 .. 13
    BY <1>1 DEF Core!StartInv, Core!Begun, Core!TypeOK, Core!Stages
  <2>2. CASE Core!Stages[stage] = "blocking"
    <3>1. stage = 8
      BY <2>1, <2>2 DEF Core!Stages
    <3>2. up' = {Core!Stages[k] : k \in 1 .. 7}
      BY <1>1, <2>1, <2>2, <3>1 DEF Core!Ladder
    <3>3. QED
      BY <1>1, <2>2, <3>2 DEF Core!FailedStart
  <2>3. CASE Core!Stages[stage] # "blocking"
    <3>1. up' \subseteq {"hook", "config"}
      BY <1>1, <2>1, <2>3 DEF Core!Ladder
    <3>2. CASE Core!Stages[stage] \in {"config", "threads"}
      BY <1>1, <2>1, <2>3, <3>1, <3>2 DEF Core!CleanedAgain, Core!FailedStart
    <3>3. CASE Core!Stages[stage] \notin {"config", "threads"}
      <4>1. stage < 12
        BY <2>1, <3>3 DEF Core!Stages
      <4>2. "config" \notin up
        BY <2>1, <4>1 DEF Core!Stages
      <4>3. twice' = {}
        BY <1>1, <2>1, <3>3 DEF Core!CleanedAgain
      <4>4. QED
        BY <1>1, <2>3, <3>1, <3>3, <4>2, <4>3 DEF Core!FailedStart
    <3>4. QED
      BY <3>2, <3>3
  <2>4. QED
    BY <2>2, <2>3
<1>8. QED
  BY <1>3, <1>4, <1>5, <1>6, <1>7

(* Steps of the workers.                                                   *)
LEMMA EngineWorker ==
  ASSUME Core!IInv, NEW w \in EngineWorkers,
         UNCHANGED <<enginePc, stage, up, twice, plugin, finished, told, silent, running>>,
         sockets' \subseteq Core!Ids,
         wpc[w] \notin {"none", "exited"},
         NEW l \in {"loop", "work", "exited"}, wpc' = [wpc EXCEPT ![w] = l],
         NEW s \in Seq(Core!Ids), inside' = [inside EXCEPT ![w] = s],
         s # <<>> => l = "work",
         \A k \in 1 .. Len(s) : plugin[s[k]] = "started"
  PROVE  Core!IInv'
<1> USE DEF Core!IInv
<1>1. enginePc \in {"builtin", "serve", "tell", "join"}
  BY DEF Core!WorkersInv
<1>2. Core!TypeOK'
  BY DEF Core!TypeOK
<1>3. Core!WorkersInv'
  BY <1>1 DEF Core!WorkersInv, Core!TypeOK
<1>4. Core!StartInv' /\ Core!StopInv'
  BY <1>1 DEF Core!StartInv, Core!StopInv
<1>5. Core!OrderlyStop' /\ Core!FailedStart'
  BY <1>1 DEF Core!OrderlyStop, Core!FailedStart
<1>6. QED
  BY <1>2, <1>3, <1>4, <1>5

LEMMA EngineWorks ==
  ASSUME Core!IInv, NEW w \in EngineWorkers, Core!Wake(w) \/ Core!Loop(w) \/ Core!Leave(w)
  PROVE  Core!IInv'
<1> USE DEF Core!IInv
<1>1. /\ UNCHANGED <<enginePc, stage, up, twice, plugin, finished, told, sockets, silent, running>>
      /\ sockets' \subseteq Core!Ids /\ wpc[w] \notin {"none", "exited"}
      /\ wpc[w] \in {"wait", "loop", "work"}
  BY DEF Core!Wake, Core!Loop, Core!Leave, Core!setup, Core!registry, Core!TypeOK
<1>2. inside[w] \in Seq(Core!Ids) /\ inside = [inside EXCEPT ![w] = inside[w]]
  BY DEF Core!TypeOK
<1>3. \A k \in 1 .. Len(inside[w]) : plugin[inside[w][k]] = "started"
  BY DEF Core!WorkersInv
<1>4. CASE Core!Wake(w) \/ Core!Loop(w)
  <2>1. inside[w] = <<>> /\ inside' = [inside EXCEPT ![w] = inside[w]]
    BY <1>2, <1>4 DEF Core!Wake, Core!Loop, Core!WorkersInv
  <2>2. \E l \in {"loop", "work", "exited"} : wpc' = [wpc EXCEPT ![w] = l]
    BY <1>4 DEF Core!Wake, Core!Loop
  <2>3. QED
    BY <1>1, <1>2, <1>3, <2>1, <2>2, EngineWorker
<1>5. CASE Core!Leave(w)
  <2> USE DEF Core!Leave
  <2>1. CASE Len(inside[w]) > 0
    <3>1. /\ inside' = [inside EXCEPT ![w] = SubSeq(inside[w], 1, Len(inside[w]) - 1)]
          /\ wpc' = [wpc EXCEPT ![w] = IF Len(inside[w]) > 1 THEN "work" ELSE "loop"]
      BY <1>5, <2>1
    <3>2. /\ SubSeq(inside[w], 1, Len(inside[w]) - 1) \in Seq(Core!Ids)
          /\ Len(SubSeq(inside[w], 1, Len(inside[w]) - 1)) = Len(inside[w]) - 1
          /\ \A k \in 1 .. Len(inside[w]) - 1 :
               SubSeq(inside[w], 1, Len(inside[w]) - 1)[k] = inside[w][k]
      BY <1>2, <2>1
    <3>3. Len(inside[w]) = 1 => SubSeq(inside[w], 1, Len(inside[w]) - 1) = <<>>
      BY <1>2, <3>2, EmptySeq
    <3>4. QED
      <4>1. PICK s \in Seq(Core!Ids) : s = SubSeq(inside[w], 1, Len(inside[w]) - 1)
        BY <3>2
      <4>2. PICK l \in {"loop", "work", "exited"} :
              l = IF Len(inside[w]) > 1 THEN "work" ELSE "loop"
        OBVIOUS
      <4>3. \A k \in 1 .. Len(s) : plugin[s[k]] = "started"
        BY <1>2, <1>3, <3>2, <4>1
      <4>4. s # <<>> => l = "work"
        BY <1>2, <2>1, <3>3, <4>1, <4>2
      <4>5. inside' = [inside EXCEPT ![w] = s] /\ wpc' = [wpc EXCEPT ![w] = l]
        BY <3>1, <4>1, <4>2
      <4>6. QED
        BY <1>1, <4>3, <4>4, <4>5, EngineWorker
  <2>2. CASE ~ (Len(inside[w]) > 0)
    <3>1. /\ inside' = [inside EXCEPT ![w] = inside[w]] /\ inside[w] = <<>>
          /\ wpc' = [wpc EXCEPT ![w] = "loop"]
      <4>1. inside' = inside
        BY <1>5, <2>2
      <4>2. Len(inside[w]) = 0
        BY <1>2, <2>2
      <4>3. inside[w] = <<>>
        BY <1>2, <4>2
      <4>4. ~ (Len(inside[w]) > 1)
        BY <4>2
      <4>5. QED
        BY <1>2, <1>5, <4>1, <4>3, <4>4
    <3>2. QED
      BY <1>1, <1>2, <1>3, <3>1, EngineWorker
  <2>3. QED
    BY <2>1, <2>2
<1>6. QED
  BY <1>4, <1>5

LEMMA EngineCalls ==
  ASSUME Core!IInv, NEW w \in EngineWorkers, NEW i \in Core!Ids,
         Core!CallHandler(w, i) \/ Core!CallPlugin(w, i)
  PROVE  Core!IInv'
<1> USE DEF Core!IInv, Core!Acquire
<1>1. /\ UNCHANGED <<enginePc, stage, up, twice, plugin, finished, told, silent, running, wpc>>
      /\ plugin[i] = "started" /\ inside' = [inside EXCEPT ![w] = Append(inside[w], i)]
      /\ wpc[w] = "work"
  BY DEF Core!CallHandler, Core!CallPlugin, Core!setup, Core!WorkersInv
<1>2. sockets' \subseteq Core!Ids
  BY DEF Core!CallHandler, Core!CallPlugin, Core!TypeOK
<1>3. inside[w] \in Seq(Core!Ids)
  BY DEF Core!TypeOK
<1>4. /\ Append(inside[w], i) \in Seq(Core!Ids)
      /\ \A k \in 1 .. Len(Append(inside[w], i)) :
           Append(inside[w], i)[k] = IF k <= Len(inside[w]) THEN inside[w][k] ELSE i
      /\ Len(Append(inside[w], i)) = Len(inside[w]) + 1
  BY <1>3
<1>5. \A k \in 1 .. Len(Append(inside[w], i)) : plugin[Append(inside[w], i)[k]] = "started"
  <2>1. \A k \in 1 .. Len(inside[w]) : plugin[inside[w][k]] = "started"
    BY DEF Core!WorkersInv
  <2>2. QED
    BY <1>1, <1>3, <1>4, <2>1
<1>6. wpc' = [wpc EXCEPT ![w] = "work"]
  BY <1>1 DEF Core!TypeOK
<1>7. QED
  BY <1>1, <1>2, <1>4, <1>5, <1>6, EngineWorker

(* Steps of the stop.                                                      *)
LEMMA EngineStops ==
  ASSUME Core!IInv,
         \/ Core!Quit \/ Core!Tell \/ Core!Join \/ Core!CloseSockets \/ Core!ClosePlugins
         \/ Core!Exit
  PROVE  Core!IInv'
<1> USE DEF Core!IInv, Core!setup, Core!registry, Core!threads
<1>1. CASE Core!Quit
  <2>1. Core!StartInv' /\ Core!StopInv'
    BY <1>1 DEF Core!Quit, Core!StartInv, Core!StopInv
  <2>2. QED
    BY <1>1, <2>1, EngineCalm DEF Core!Quit, Core!TypeOK
<1>2. CASE Core!Tell
  <2> USE DEF Core!Tell
  <2>1. /\ told' \in [Core!Ids -> {0, 1}]
        /\ \A i \in Core!Ids : told'[i] = 1 <=> (i < PluginMax /\ plugin[i] # "none")
    BY <1>2 DEF Core!TypeOK, Core!StartInv
  <2>2. Core!StartInv' /\ Core!StopInv'
    BY <1>2, <2>1 DEF Core!StartInv, Core!StopInv
  <2>3. QED
    BY <1>2, <2>1, <2>2, EngineCalm DEF Core!TypeOK
<1>3. CASE Core!Join
  <2>1. Core!StartInv' /\ Core!StopInv'
    BY <1>3 DEF Core!Join, Core!StartInv, Core!StopInv
  <2>2. QED
    BY <1>3, <2>1, EngineCalm DEF Core!Join, Core!TypeOK
<1>4. CASE Core!CloseSockets
  <2> USE DEF Core!CloseSockets
  <2>1. Core!TypeOK'
    BY <1>4 DEF Core!TypeOK
  <2>2. Core!WorkersInv'
    BY <1>4 DEF Core!WorkersInv
  <2>3. Core!StartInv' /\ Core!StopInv'
    BY <1>4 DEF Core!StartInv, Core!StopInv
  <2>4. Core!OrderlyStop' /\ Core!FailedStart'
    BY <1>4 DEF Core!TypeOK, Core!OrderlyStop, Core!FailedStart
  <2>5. QED
    BY <2>1, <2>2, <2>3, <2>4
<1>5. CASE Core!ClosePlugins
  <2> USE DEF Core!ClosePlugins
  <2>1. /\ plugin' = [i \in Core!Ids |-> "none"]
        /\ finished' \in [Core!Ids -> {0, 1}]
        /\ \A i \in Core!Ids : finished'[i] = 1 <=> plugin[i] = "started"
        /\ \A w \in EngineWorkers : inside[w] = <<>> /\ wpc[w] \in {"none", "exited"}
    BY <1>5, EngineCleanup
  <2>2. Core!TypeOK'
    BY <1>5, <2>1 DEF Core!TypeOK
  <2>3. Core!WorkersInv'
    BY <1>5, <2>1 DEF Core!WorkersInv
  <2>4. Core!StartInv' /\ Core!StopInv'
    BY <1>5 DEF Core!StartInv, Core!StopInv
  <2>5. Core!OrderlyStop' /\ Core!FailedStart'
    <3>1. ASSUME NEW i \in Core!Ids, plugin[i] = "started" PROVE told[i] = 1 <=> i < PluginMax
      BY <1>5, <3>1 DEF Core!StopInv
    <3>2. sockets = {} /\ \A i \in silent : plugin[i] # "started"
      BY <1>5 DEF Core!StopInv
    <3>3. silent \subseteq Core!Ids /\ \A i \in Core!Ids : told[i] <= 1
      BY DEF Core!TypeOK
    <3>4. \A i \in silent : finished'[i] = 0
      BY <2>1, <3>2, <3>3
    <3>5. QED
      BY <1>5, <2>1, <3>1, <3>2, <3>3, <3>4 DEF Core!OrderlyStop, Core!FailedStart
  <2>6. QED
    BY <2>2, <2>3, <2>4, <2>5
<1>6. CASE Core!Exit
  <2>1. Core!StartInv' /\ Core!StopInv'
    BY <1>6 DEF Core!Exit, Core!StartInv, Core!StopInv
  <2>2. QED
    BY <1>6, <2>1, EngineCalm DEF Core!Exit, Core!TypeOK, Core!WorkersInv
<1>7. QED
  BY <1>1, <1>2, <1>3, <1>4, <1>5, <1>6

LEMMA EngineNext == ASSUME Core!IInv, [Core!Next]_engineVars PROVE Core!IInv'
<1>1. CASE UNCHANGED engineVars
  BY <1>1 DEF engineVars, Core!IInv, Core!TypeOK, Core!WorkersInv, Core!StartInv, Core!Begun,
       Core!StopInv, Core!OrderlyStop, Core!FailedStart
<1>2. CASE Core!Next
  BY <1>2, EngineBegin, EngineSetUp, EngineFails, EngineWorks, EngineCalls, EngineStops
  DEF Core!Next
<1>3. QED
  BY <1>1, <1>2

LEMMA EngineIsSafe == Core!IInv => EngineSafe
<1> SUFFICES ASSUME Core!IInv PROVE Core!HandlersAlive
  BY DEF Core!IInv, EngineSafe, Core!EngineSafe
<1>1. ASSUME NEW i \in Core!Ids, NEW w \in EngineWorkers, NEW k \in 1 .. Len(inside[w]),
             inside[w][k] = i
      PROVE  plugin[i] = "started" /\ finished[i] = 0
  <2>1. inside[w] \in Seq(Core!Ids)
    BY DEF Core!IInv, Core!TypeOK
  <2>2. inside[w] # <<>> /\ plugin[i] = "started"
    BY <1>1, <2>1 DEF Core!IInv, Core!WorkersInv
  <2>3. enginePc \in {"builtin", "serve", "tell", "join"}
    BY <2>2 DEF Core!IInv, Core!WorkersInv
  <2>4. QED
    BY <2>2, <2>3 DEF Core!IInv, Core!StartInv
<1>2. ASSUME NEW i \in Core!Ids
      PROVE  /\ finished[i] <= 1
             /\ finished[i] = 1 => \A w \in EngineWorkers : wpc[w] \in {"none", "exited"}
  BY DEF Core!IInv, Core!TypeOK, Core!StartInv, Core!WorkersInv
<1>3. QED
  BY <1>1, <1>2 DEF Core!HandlersAlive

(* Plugins outlive their callers, the stop is in order, and a failed start *)
(* cleans up, whatever the number of workers and plugins and however deep  *)
(* plugins call each other.                                                *)
THEOREM EngineIsAlwaysSafe == PartsSpec => []EngineSafe
<1>1. ASSUME Core!IInv, [PartsNext]_partsVars PROVE Core!IInv'
  <2>1. [Core!Next]_engineVars
    BY <1>1 DEF PartsNext, Others, partsVars
  <2>2. QED
    BY <1>1, <2>1, EngineNext
<1>2. QED
  BY <1>1, EngineInit, EngineIsSafe, PTL DEF PartsSpec

-----------------------------------------------------------------------------
(* The Windows service.                                                    *)

LEMMA ServiceInit == PartsInit => Windows!IInv
BY DEF PartsInit, Windows!Init, Windows!IInv, Windows!TypeOK, Windows!ServiceSafe

LEMMA ServiceNext == ASSUME Windows!IInv, [Windows!Next]_serviceVars PROVE Windows!IInv'
<1> USE DEF Windows!IInv, Windows!TypeOK, Windows!ServiceSafe
<1>1. CASE UNCHANGED serviceVars
  BY <1>1 DEF serviceVars
<1>2. CASE Windows!Install
  BY <1>2 DEF Windows!Install
<1>3. CASE Windows!Uninstall
  BY <1>3 DEF Windows!Uninstall, Windows!Remove
<1>4. CASE Windows!StopCommand
  BY <1>4 DEF Windows!StopCommand, Windows!Remove
<1>5. CASE Windows!Start
  BY <1>5 DEF Windows!Start
<1>6. CASE Windows!Stop
  BY <1>6 DEF Windows!Stop, Windows!Reported
<1>7. CASE Windows!Interrogate
  BY <1>7 DEF Windows!Interrogate, Windows!Reported
<1>8. CASE Windows!MakeEvent
  BY <1>8 DEF Windows!MakeEvent, Windows!Die, Windows!Keep, Windows!Reported
<1>9. CASE Windows!Spawn
  BY <1>9 DEF Windows!Spawn, Windows!Die, Windows!Reported
<1>10. CASE Windows!Run
  BY <1>10 DEF Windows!Run, Windows!Keep, Windows!Reported
<1>11. CASE Windows!Finish
  BY <1>11 DEF Windows!Finish
<1>12. CASE Windows!Report
  BY <1>12 DEF Windows!Report, Windows!Keep, Windows!Reported
<1>13. CASE Windows!Break
  BY <1>13 DEF Windows!Break, Windows!Keep
<1>14. CASE Windows!Notice
  BY <1>14 DEF Windows!Notice, Windows!Keep, Windows!Reported
<1>15. CASE Windows!Child
  <2>1. /\ UNCHANGED <<installed, status, accepts, service, event, asked, missed, removed>>
        /\ child # "gone" /\ child' \in {"gone", "wait", "fini", "exit"}
    BY <1>15 DEF Windows!Child, Windows!ChildStep
  <2>2. QED
    BY <2>1
<1>16. QED
  BY <1>1, <1>2, <1>3, <1>4, <1>5, <1>6, <1>7, <1>8, <1>9, <1>10, <1>11, <1>12, <1>13, <1>14, <1>15 DEF Windows!Next

(* A stop that was accepted reaches the server, unless it came before the  *)
(* event, and no server outlives the report that the service stopped.      *)
THEOREM ServiceIsSafe == PartsSpec => []ServiceSafe
<1>1. ASSUME Windows!IInv, [PartsNext]_partsVars PROVE Windows!IInv'
  <2>1. [Windows!Next]_serviceVars
    BY <1>1 DEF PartsNext, Others, partsVars
  <2>2. QED
    BY <1>1, <2>1, ServiceNext
<1>2. Windows!IInv => ServiceSafe
  BY DEF Windows!IInv, ServiceSafe
<1>3. QED
  BY <1>1, <1>2, ServiceInit, PTL DEF PartsSpec

-----------------------------------------------------------------------------
(* Input and output of a socket.                                           *)

(* What the invariant says of the connection, without what was sent.       *)
ConnectionInv ==
  /\ kind \in Kinds /\ ssl \in Links
  /\ ioState \subseteq {"B", "A", "C", "O", "W", "E"}
  /\ used \in Nat \ {0} /\ ioFd \in {0, used} /\ sslfd \in {0, 1}
  /\ link \in {"none", "pending", "up", "down"}
  /\ shaken \in BOOLEAN /\ opened \in {0, 1}
  /\ IO!OpenedOnce
  /\ "C" \in ioState => opened = 0
  /\ link # "none" => ioFd # 0
  /\ ioFd = 0 => "C" \in ioState

SentInv ==
  /\ sent \in Nat /\ tx \in Nat /\ fallback \in Nat /\ early \in BOOLEAN
  /\ IO!SentCounted

LEMMA InputParts == IO!IInv <=> ConnectionInv /\ SentInv
BY DEF IO!IInv, IO!TypeOK, ConnectionInv, SentInv

LEMMA InputInit == PartsInit => IO!IInv
<1> SUFFICES ASSUME IO!Init PROVE IO!IInv
  BY DEF PartsInit
<1>1. ConnectionInv
  <2>1. /\ kind \in Kinds /\ ssl \in Links /\ ioState = {"W"}
        /\ used = 1 /\ ioFd = 1 /\ sslfd \in {0, 1}
        /\ link \in {"none", "up"} /\ shaken = FALSE /\ opened = 0
    BY DEF IO!Init
  <2>2. IO!OpenedOnce
    BY <2>1 DEF IO!OpenedOnce
  <2>3. ioState \subseteq {"B", "A", "C", "O", "W", "E"} /\ "C" \notin ioState
    BY <2>1
  <2>4. used \in Nat \ {0} /\ ioFd \in {0, used} /\ ioFd # 0
    BY <2>1
  <2>5. shaken \in BOOLEAN
    BY <2>1
  <2>6. /\ kind \in Kinds /\ ssl \in Links /\ sslfd \in {0, 1} /\ opened \in {0, 1}
        /\ link \in {"none", "pending", "up", "down"} /\ opened = 0
    BY <2>1
  <2>7. QED
    BY <2>2, <2>3, <2>4, <2>5, <2>6, Zenon DEF ConnectionInv
<1>2. SentInv
  <2>1. sent = 0 /\ tx = 0 /\ fallback = 0 /\ early = FALSE
    BY DEF IO!Init
  <2>2. ~ early /\ early \in BOOLEAN
    BY <2>1, Zenon
  <2>3. sent \in Nat /\ tx \in Nat /\ fallback \in Nat /\ tx = sent + fallback
    BY <2>1
  <2>4. QED
    BY <2>2, <2>3, Zenon DEF SentInv, IO!SentCounted
<1>3. QED
  BY <1>1, <1>2, InputParts

(* Steps that leave the descriptor and the link.                           *)
LEMMA InputState ==
  ASSUME ConnectionInv, UNCHANGED <<kind, ssl, ioFd, used, sslfd, shaken, opened>>,
         link' \in {"none", "pending", "up", "down"}, link = "none" => link' = "none",
         ioState' \subseteq {"B", "A", "C", "O", "W", "E"},
         \A x \in {"C", "O"} : x \in ioState' <=> x \in ioState
  PROVE  ConnectionInv'
<1>1. IO!OpenedOnce'
  BY DEF ConnectionInv, IO!OpenedOnce, IO!Outgoing
<1>2. QED
  BY <1>1 DEF ConnectionInv

LEMMA InputDials ==
  ASSUME ConnectionInv, IO!Dial
  PROVE  /\ used' \in Nat \ {0} /\ ioFd' = used' /\ link' \in {"pending", "up", "down"}
         /\ ioFd > 0 => ioFd' = ioFd
<1>1. CASE kind = "client" /\ ioFd = 0
  BY <1>1 DEF ConnectionInv, IO!Dial
<1>2. CASE ~ (kind = "client" /\ ioFd = 0)
  BY <1>2 DEF ConnectionInv, IO!Dial
<1>3. QED
  BY <1>1, <1>2

(* A connection is started, or tried again, by a socket that has announced *)
(* nothing.                                                                *)
LEMMA InputConnects ==
  ASSUME ConnectionInv, opened = 0, NEW res \in {"ok", "again", "failed"},
         IO!DoConnect(res), UNCHANGED <<kind, ssl>>
  PROVE  ConnectionInv'
<1>1. /\ IO!Dial /\ sslfd' = sslfd
      /\ \/ IO!Connected(res)
         \/ /\ link' = "pending" /\ ioState' = (ioState \cup {"C"}) \ {"W"}
            /\ UNCHANGED <<shaken, opened>>
         \/ link' = "down" /\ UNCHANGED <<ioState, shaken, opened>>
  BY DEF IO!DoConnect
<1>2. used' \in Nat \ {0} /\ ioFd' = used' /\ ioFd' # 0 /\ link' \in {"pending", "up", "down"}
  BY <1>1, InputDials
<1>3. CASE IO!Connected(res)
  <2>1. /\ shaken' \in BOOLEAN /\ opened' \in {0, 1}
        /\ opened' = 1 <=> res = "ok"
        /\ res = "ok" => ioState' = (ioState \ {"C"}) \cup {"O"} \/ ioState' = ((ioState \ {"C"}) \cup {"O"}) \ {"C"}
        /\ res # "ok" => ssl = "ssl"
        /\ res = "ok" /\ ssl = "ssl" => shaken'
        /\ ioState' \subseteq {"B", "A", "C", "O", "W", "E"}
    <3> DEFINE st == (ioState \ {"C"}) \cup {"O"}
    <3>1. /\ st \subseteq {"B", "A", "C", "O", "W", "E"} /\ st \ {"C"} = st
          /\ shaken \in BOOLEAN
      BY DEF ConnectionInv
    <3>2. opened' = IF res = "ok" THEN 1 ELSE 0
      BY <1>3 DEF IO!Connected
    <3>3. \/ ssl = "ssl" /\ IO!SslConnect(st, res)
          \/ ssl # "ssl" /\ res = "ok" /\ ioState' = st /\ shaken' = shaken
      BY <1>3 DEF IO!Connected
    <3> HIDE DEF st
    <3>4. /\ res = "ok" => ioState' = st \/ ioState' = st \ {"C"}
          /\ res # "ok" => ssl = "ssl"
          /\ ioState' \subseteq {"B", "A", "C", "O", "W", "E"}
      BY <3>1, <3>3 DEF IO!SslConnect
    <3>5. res = "ok" /\ ssl = "ssl" => shaken' = TRUE
      BY <3>3 DEF IO!SslConnect
    <3>6. shaken' = shaken \/ shaken' = TRUE
      BY <3>3 DEF IO!SslConnect
    <3>7. shaken' \in BOOLEAN
      BY <3>1, <3>6
    <3>8. /\ opened' \in {0, 1}
          /\ opened' = 1 <=> res = "ok"
      BY <3>2
    <3>9. QED
      BY <3>4, <3>5, <3>7, <3>8, Zenon DEF st
  <2>2. opened' = 1 => "O" \in ioState' /\ "C" \notin ioState'
    BY <2>1
  <2>3. IO!OpenedOnce'
    BY <1>2, <2>1, <2>2 DEF IO!OpenedOnce, IO!Outgoing
  <2>4. QED
    BY <1>1, <1>2, <2>1, <2>2, <2>3 DEF ConnectionInv
<1>4. CASE /\ ioState' = (ioState \cup {"C"}) \ {"W"}
           /\ UNCHANGED <<shaken, opened>>
  <2>1. IO!OpenedOnce'
    BY <1>4 DEF IO!OpenedOnce
  <2>2. QED
    BY <1>1, <1>2, <1>4, <2>1 DEF ConnectionInv
<1>5. CASE UNCHANGED <<ioState, shaken, opened>>
  <2>1. CASE ioFd > 0
    <3>1. ioFd' = ioFd
      BY <1>1, <2>1, InputDials
    <3>2. IO!OpenedOnce'
      BY <1>5, <2>1, <3>1 DEF IO!OpenedOnce, IO!Outgoing, ConnectionInv
    <3>3. QED
      BY <1>1, <1>2, <1>5, <3>2 DEF ConnectionInv
  <2>2. CASE ~ (ioFd > 0)
    <3>1. "C" \in ioState'
      BY <1>5, <2>2 DEF ConnectionInv
    <3>2. IO!OpenedOnce'
      BY <1>5, <3>1 DEF IO!OpenedOnce
    <3>3. QED
      BY <1>1, <1>2, <1>5, <3>2 DEF ConnectionInv
  <2>3. QED
    BY <2>1, <2>2
<1>6. QED
  BY <1>1, <1>3, <1>4, <1>5

(* A handshake on a link that is there.                                    *)
LEMMA InputShakes ==
  ASSUME ConnectionInv, NEW res \in {"ok", "again", "failed"}, ssl = "ssl",
         UNCHANGED <<kind, ssl, ioFd, used, sslfd, link, opened>>,
         \/ "C" \in ioState /\ IO!SslConnect(ioState, res)
         \/ IO!SslAccept(ioState, res)
  PROVE  ConnectionInv'
<1>1. /\ ioState' \in {ioState, ioState \ {"C"}, ioState \cup {"C"}, ioState \ {"A"}, ioState \cup {"A"}}
      /\ shaken' \in BOOLEAN /\ (shaken => shaken')
      /\ "C" \in ioState' => "C" \in ioState
      /\ "C" \in ioState /\ "C" \notin ioState' => link' = "up"
  BY DEF ConnectionInv, IO!SslConnect, IO!SslAccept
<1>2. IO!OpenedOnce'
  BY <1>1 DEF ConnectionInv, IO!OpenedOnce
<1>3. QED
  BY <1>1, <1>2 DEF ConnectionInv

LEMMA InputPrepares ==
  ASSUME ConnectionInv, NEW res \in {"ok", "again", "failed"}, IO!Prepare(res),
         UNCHANGED <<kind, ssl>>
  PROVE  ConnectionInv'
<1> USE DEF IO!Prepare, IO!wire
<1>1. CASE "C" \in ioState /\ ssl = "plain"
  BY <1>1, InputConnects DEF ConnectionInv
<1>2. CASE "C" \in ioState /\ ssl = "ssl"
  BY <1>2, InputShakes
<1>3. CASE "C" \notin ioState /\ "A" \in ioState /\ ssl = "ssl"
  BY <1>3, InputShakes
<1>4. CASE UNCHANGED <<ioState, shaken, opened, ioFd, used, sslfd, link>>
  BY <1>4, InputState DEF ConnectionInv
<1>5. QED
  BY <1>1, <1>2, <1>3, <1>4

LEMMA InputTransfers ==
  ASSUME SentInv, NEW n \in 1 .. 2, NEW file \in BOOLEAN, IO!Reaches, IO!Transfer(n, file)
  PROVE  SentInv'
BY DEF SentInv, IO!SentCounted, IO!Transfer

LEMMA InputWrites ==
  ASSUME ConnectionInv, SentInv, NEW file \in BOOLEAN, IO!Writes(file)
  PROVE  ConnectionInv' /\ SentInv'
<1>1. PICK res \in {"ok", "again", "failed"} :
        /\ IO!Prepare(res)
        /\ \/ \E n \in 1 .. 2 : res = "ok" /\ IO!Reaches /\ IO!Transfer(n, file)
           \/ UNCHANGED IO!counts
        /\ UNCHANGED <<kind, ssl>>
  BY DEF IO!Writes
<1>2. ConnectionInv'
  BY <1>1, InputPrepares
<1>3. SentInv'
  BY <1>1, InputTransfers DEF IO!counts, SentInv, IO!SentCounted
<1>4. QED
  BY <1>2, <1>3

LEMMA InputNext == ASSUME IO!IInv, [IO!Next]_ioVars PROVE IO!IInv'
<1> SUFFICES ConnectionInv' /\ SentInv'
  BY DEF IO!IInv, IO!TypeOK, ConnectionInv, SentInv
<1>0. ConnectionInv /\ SentInv
  BY InputParts
<1> USE <1>0 DEF IO!wire, IO!counts
<1>1. ASSUME UNCHANGED <<sent, tx, fallback, early>> PROVE SentInv'
  BY <1>1 DEF SentInv, IO!SentCounted
<1>2. CASE UNCHANGED ioVars
  BY <1>1, <1>2, InputState DEF ioVars, ConnectionInv
<1>3. CASE IO!LinkChanges
  BY <1>1, <1>3, InputState DEF IO!LinkChanges, ConnectionInv
<1>4. CASE IO!Connect
  <2>1. opened = 0
    BY <1>4 DEF IO!Connect, ConnectionInv, IO!OpenedOnce
  <2>2. QED
    BY <1>1, <1>4, <2>1, InputConnects DEF IO!Connect
<1>5. CASE IO!Listen
  BY <1>1, <1>5, InputState DEF IO!Listen, ConnectionInv
<1>6. CASE IO!Accepted
  BY <1>1, <1>6, InputShakes DEF IO!Accepted
<1>7. CASE IO!Write
  BY <1>7, InputWrites DEF IO!Write
<1>8. CASE IO!WriteBlocked
  BY <1>1, <1>8, InputState DEF IO!WriteBlocked, ConnectionInv
<1>9. CASE IO!Read
  BY <1>1, <1>9, InputPrepares DEF IO!Read
<1>10. CASE IO!SendFile
  <2>1. CASE IO!Writes(TRUE)
    BY <2>1, InputWrites
  <2>2. CASE /\ ssl = "plain" /\ link = "up"
             /\ UNCHANGED <<kind, ssl, ioState, ioFd, used, sslfd, link, shaken, opened>>
             /\ \E n \in 1 .. 2 : IO!Transfer(n, FALSE)
    <3>1. ConnectionInv'
      BY <2>2, InputState DEF ConnectionInv
    <3>2. IO!Reaches
      BY <2>2 DEF IO!Reaches, ConnectionInv
    <3>3. QED
      BY <2>2, <3>1, <3>2, InputTransfers
  <2>3. QED
    BY <1>10, <2>1, <2>2 DEF IO!SendFile
<1>11. CASE IO!Persist
  <2>1. /\ ioFd' = 0 /\ link' = "none" /\ ioState' = ioState \cup {"E", "C"}
        /\ shaken' = FALSE /\ opened' = 0
        /\ UNCHANGED <<kind, ssl, used, sslfd, sent, tx, fallback, early>>
    BY <1>11 DEF IO!Persist
  <2>2. IO!OpenedOnce'
    BY <2>1 DEF IO!OpenedOnce
  <2>3. QED
    BY <1>1, <2>1, <2>2 DEF ConnectionInv
<1>12. CASE IO!Polled
  BY <1>1, <1>12, InputState DEF IO!Polled, ConnectionInv
<1>13. QED
  BY <1>2, <1>3, <1>4, <1>5, <1>6, <1>7, <1>8, <1>9, <1>10, <1>11, <1>12 DEF IO!Next

(* Connections are announced once, when they are made; bytes are sent on   *)
(* links that are up and shaken, and counted as the code counts them; for  *)
(* any number of bytes and of descriptors.                                 *)
THEOREM InputIsSafe == PartsSpec => []IoSafe
<1>1. ASSUME IO!IInv, [PartsNext]_partsVars PROVE IO!IInv'
  <2>1. [IO!Next]_ioVars
    BY <1>1 DEF PartsNext, Others, partsVars
  <2>2. QED
    BY <1>1, <2>1, InputNext
<1>2. IO!IInv => IoSafe
  BY DEF IO!IInv, IO!TypeOK, IoSafe, IO!IoSafe, IO!StaleTls
<1>3. QED
  BY <1>1, <1>2, InputInit, PTL DEF PartsSpec

-----------------------------------------------------------------------------
(* The connections of a database.                                          *)

DbItems(p) == {p[i] : i \in 1 .. Len(p)}

(* An unsigned remainder.                                                  *)
LEMMA WordStep ==
  ASSUME NEW n \in 1 .. Word - 1
  PROVE  (n - 1 + Word) % Word = n - 1
BY DbAssumption

LEMMA WordRange == ASSUME NEW n \in Int PROVE n % Word \in 0 .. Word - 1
BY DbAssumption

(* A pool with each connection once has as many as it is long.             *)
LEMMA PoolCounted ==
  ASSUME NEW S, NEW p \in Seq(S), \A i, j \in 1 .. Len(p) : p[i] = p[j] => i = j
  PROVE  Cardinality(DbItems(p)) = Len(p)
<1> DEFINE f == [i \in 1 .. Len(p) |-> p[i]]
<1>1. f \in Bijection(1 .. Len(p), DbItems(p))
  BY DEF Bijection, Injection, Surjection, DbItems, IsInjective
<1>2. ExistsBijection(1 .. Len(p), DbItems(p))
  BY <1>1 DEF ExistsBijection
<1>3. QED
  BY <1>2, FS_CountingElements

LEMMA AtMostOne ==
  ASSUME NEW S, \A x, y \in S : x = y
  PROVE  Cardinality(S) <= 1
<1>1. CASE S = {}
  BY <1>1, FS_EmptySet
<1>2. CASE S # {}
  <2>1. PICK x \in S : S = {x}
    BY <1>2
  <2>2. QED
    BY <2>1, FS_Singleton
<1>3. QED
  BY <1>1, <1>2

LEMMA DbFacts ==
  /\ 0 \in Db!Connections /\ None \notin Db!Connections /\ Db!Safe = 0
  /\ Word \in Nat /\ 0 \in 0 .. Word - 1 /\ 0 \in 0 .. Rows /\ Word > 0
BY DbAssumption DEF Db!Connections, Db!Safe

LEMMA DbInit == PartsInit => Db!IInv
<1> SUFFICES ASSUME Db!Init PROVE Db!IInv
  BY DEF PartsInit
<1>1. Db!TypeOK
  BY DbFacts DEF Db!Init, Db!TypeOK, Db!NoSet
<1>2. Db!Lent = {} /\ Len(pool) = 0
  BY DEF Db!Init, Db!Lent
<1>3. Db!PoolInv
  BY <1>2 DEF Db!Init, Db!PoolInv
<1>4. Db!LockInv
  BY DEF Db!Init, Db!LockInv
<1>5. Db!CursorInv
  BY DbFacts DEF Db!Init, Db!CursorInv, Db!NoSet
<1>6. QED
  BY <1>1, <1>3, <1>4, <1>5 DEF Db!IInv

LEMMA DbIsSafe == Db!IInv => DbSafe
<1> SUFFICES ASSUME Db!IInv PROVE Db!PoolSafe /\ Db!CursorSafe
  BY DEF DbSafe, Db!DbSafe
<1> USE DEF Db!IInv
<1>1. pool \in Seq(Db!Connections \ {Db!Safe})
  BY DEF Db!TypeOK
<1>2. DOMAIN pool = 1 .. Len(pool) /\ Db!ToSet(pool) = DbItems(pool)
  BY <1>1 DEF Db!ToSet, DbItems
<1>3. Cardinality(Db!ToSet(pool)) = Len(pool)
  BY <1>1, <1>2, PoolCounted DEF Db!PoolInv
<1>4. ASSUME NEW c \in Db!Connections \ {Db!Safe}
      PROVE  /\ Cardinality(Db!Borrowers(c)) <= 1
             /\ state = "ready" => (c \in Db!ToSet(pool) <=> c \in open /\ Db!Borrowers(c) = {})
  <2>1. c # None /\ c # Db!Safe
    BY DbFacts
  <2>2. Cardinality(Db!Borrowers(c)) <= 1
    BY <2>1, AtMostOne DEF Db!Borrowers, Db!PoolInv
  <2>3. Db!Borrowers(c) = {} <=> c \notin Db!Lent
    BY <2>1 DEF Db!Borrowers, Db!Lent
  <2>4. state = "ready" => open = {Db!Safe} \cup (Db!Lent \cup DbItems(pool))
    BY DEF Db!PoolInv, DbItems
  <2>5. \A x \in DbItems(pool) : x \notin Db!Lent
    BY DEF Db!PoolInv, DbItems
  <2>6. QED
    BY <1>2, <2>1, <2>2, <2>3, <2>4, <2>5
<1>5. state = "closed" => open \ {Db!Safe} = {borrowed[t] : t \in DbThreads} \ {None, Db!Safe}
  BY DEF Db!PoolInv, Db!Lent
<1>6. Db!PoolSafe
  <2>1. /\ \A t, u \in DbThreads : t # u /\ within[t] # None => within[t] # within[u]
        /\ \A t \in DbThreads : within[t] # None => within[t] = borrowed[t] /\ within[t] \in open
    BY Zenon DEF Db!LockInv
  <2>2. state = "failed" => open = {}
    BY DEF Db!PoolInv
  <2>3. \A c \in Db!Connections \ {Db!Safe} :
          /\ Cardinality(Db!Borrowers(c)) <= 1
          /\ state = "ready" => (c \in Db!ToSet(pool) <=> c \in open /\ Db!Borrowers(c) = {})
    BY <1>4
  <2>4. \A S : Db!Cardinality(S) = Cardinality(S)
    BY DEF Db!Cardinality, Cardinality
  <2>5. QED
    BY <1>3, <1>5, <2>1, <2>2, <2>3, <2>4 DEF Db!PoolSafe
<1>7. Db!CursorSafe
  BY DEF Db!CursorSafe, Db!CursorInv
<1>8. QED
  BY <1>6, <1>7

(* Who has a lock and what was read do not depend on the pool.             *)
LEMMA DbFill ==
  ASSUME Db!IInv, Db!FillOne \/ Db!FillFails
  PROVE  Db!IInv'
<1> USE DEF Db!IInv, Db!handles
<1>1. pool \in Seq(Db!Connections \ {Db!Safe}) /\ state = "filling" /\ Db!Lent = {}
  BY DEF Db!FillOne, Db!FillFails, Db!TypeOK, Db!PoolInv
<1>2. UNCHANGED <<driver, borrowed, within, set, seen>>
  BY DEF Db!FillOne, Db!FillFails
<1>3. Db!CursorInv'
  BY <1>2 DEF Db!CursorInv
<1>4. Db!Lent' = {} /\ \A t \in DbThreads : borrowed[t] = None
  BY <1>1, <1>2 DEF Db!Lent
<1>5. \A t \in DbThreads : within[t] = None
  BY <1>4 DEF Db!LockInv
<1>6. Db!LockInv'
  BY <1>2, <1>5 DEF Db!LockInv
<1>7. CASE Db!FillOne
  <2>1. PICK c \in Db!Connections \ open :
          /\ open' = open \cup {c} /\ pool' = Append(pool, c)
          /\ state' \in {"ready", "filling"}
    BY <1>1, <1>7 DEF Db!FillOne
  <2>2. open = {Db!Safe} \cup (Db!Lent \cup {pool[i] : i \in 1 .. Len(pool)})
    BY <1>1 DEF Db!PoolInv
  <2>3. c # Db!Safe /\ \A i \in 1 .. Len(pool) : pool[i] # c
    BY <2>2
  <2>4. /\ pool' \in Seq(Db!Connections \ {Db!Safe}) /\ Len(pool') = Len(pool) + 1
        /\ Len(pool) \in Nat
        /\ \A i \in 1 .. Len(pool) : pool'[i] = pool[i]
        /\ pool'[Len(pool) + 1] = c
    BY <1>1, <2>1, <2>3
  <2>5. \A i, j \in 1 .. Len(pool') : pool'[i] = pool'[j] => i = j
    <3> SUFFICES ASSUME NEW i \in 1 .. Len(pool'), NEW j \in 1 .. Len(pool'), pool'[i] = pool'[j]
                 PROVE  i = j
      OBVIOUS
    <3>1. \A k \in 1 .. Len(pool') : k \in 1 .. Len(pool) \/ k = Len(pool) + 1
      BY <2>4
    <3>2. QED
      BY <2>3, <2>4, <3>1 DEF Db!PoolInv
  <2>6. {pool'[i] : i \in 1 .. Len(pool')} = {pool[i] : i \in 1 .. Len(pool)} \cup {c}
    <3>1. 1 .. Len(pool') = 1 .. Len(pool) \cup {Len(pool) + 1}
      BY <2>4
    <3>2. QED
      BY <2>4, <3>1
  <2>7. open' = {Db!Safe} \cup (Db!Lent' \cup {pool'[i] : i \in 1 .. Len(pool')})
    BY <1>1, <1>4, <2>1, <2>2, <2>6
  <2>8. Db!PoolInv'
    BY <1>1, <1>2, <1>4, <2>1, <2>5, <2>7 DEF Db!PoolInv
  <2>9. Db!TypeOK'
    BY <1>2, <2>1, <2>4 DEF Db!TypeOK
  <2>10. QED
    BY <1>3, <1>6, <2>8, <2>9
<1>8. CASE Db!FillFails
  <2>1. open' = {} /\ pool' = <<>> /\ state' = "failed"
    BY <1>8 DEF Db!FillFails
  <2>2. Db!PoolInv'
    BY <1>2, <1>4, <2>1 DEF Db!PoolInv
  <2>3. Db!TypeOK'
    BY <1>2, <2>1 DEF Db!TypeOK
  <2>4. QED
    BY <1>3, <1>6, <2>2, <2>3
<1>9. QED
  BY <1>7, <1>8

LEMMA DbBorrow ==
  ASSUME Db!IInv, NEW t \in DbThreads, Db!Borrow(t)
  PROVE  Db!IInv'
<1> USE DEF Db!IInv
<1>1. /\ state = "ready" /\ borrowed[t] = None
      /\ UNCHANGED <<driver, open, state, within, set, seen>>
      /\ pool \in Seq(Db!Connections \ {Db!Safe})
      /\ borrowed \in [DbThreads -> Db!Connections \cup {None}]
  BY DEF Db!Borrow, Db!TypeOK
<1>2. Db!CursorInv'
  BY <1>1 DEF Db!CursorInv
<1>3. within[t] = None /\ \A u \in DbThreads \ {t} : borrowed'[u] = borrowed[u]
  BY <1>1 DEF Db!LockInv, Db!Borrow
<1>4. Db!LockInv'
  BY <1>1, <1>3 DEF Db!LockInv
<1>5. open = {Db!Safe} \cup (Db!Lent \cup {pool[i] : i \in 1 .. Len(pool)})
  BY <1>1 DEF Db!PoolInv
<1>6. CASE pool = <<>>
  <2>1. borrowed' = [borrowed EXCEPT ![t] = Db!Safe] /\ pool' = <<>>
    BY <1>6 DEF Db!Borrow
  <2>2. Db!Lent' = Db!Lent \cup {Db!Safe}
    BY <1>1, <2>1, DbFacts DEF Db!Lent
  <2>3. Db!PoolInv'
    BY <1>1, <1>5, <1>6, <2>1, <2>2 DEF Db!PoolInv
  <2>4. Db!TypeOK'
    BY <1>1, <1>6, <2>1, DbFacts DEF Db!TypeOK
  <2>5. QED
    BY <1>2, <1>4, <2>3, <2>4
<1>7. CASE pool # <<>>
  <2> DEFINE c == pool[1]
  <2>1. /\ borrowed' = [borrowed EXCEPT ![t] = c] /\ pool' = Tail(pool)
        /\ pool' \in Seq(Db!Connections \ {Db!Safe})
        /\ Len(pool) \in Nat \ {0} /\ Len(pool') = Len(pool) - 1
        /\ \A i \in 1 .. Len(pool') : pool'[i] = pool[i + 1]
        /\ c \in Db!Connections \ {Db!Safe}
    BY <1>1, <1>7 DEF Db!Borrow
  <2> HIDE DEF c
  <2>2. Db!Lent' = Db!Lent \cup {c}
    BY <1>1, <2>1, DbFacts DEF Db!Lent
  <2>3. \A i \in 1 .. Len(pool') : pool'[i] # c
    BY <2>1 DEF Db!PoolInv, c
  <2>4. \A i \in 1 .. Len(pool) : i # 1 => i - 1 \in 1 .. Len(pool') /\ pool'[i - 1] = pool[i]
    BY <2>1
  <2>5. {pool[i] : i \in 1 .. Len(pool)} = {pool'[i] : i \in 1 .. Len(pool')} \cup {c}
    <3>1. \A i \in 1 .. Len(pool') : i + 1 \in 1 .. Len(pool)
      BY <2>1
    <3>2. 1 \in 1 .. Len(pool)
      BY <2>1
    <3>3. \A i \in 1 .. Len(pool) : i = 1 \/ i - 1 \in 1 .. Len(pool')
      BY <2>1
    <3>4. \A x : (\E i \in 1 .. Len(pool) : x = pool[i])
                 => x = c \/ \E i \in 1 .. Len(pool') : x = pool'[i]
      BY <2>4, <3>3 DEF c
    <3>5. \A x : x = c \/ (\E i \in 1 .. Len(pool') : x = pool'[i])
                 => \E i \in 1 .. Len(pool) : x = pool[i]
      BY <2>1, <3>1, <3>2 DEF c
    <3>6. QED
      BY <3>4, <3>5, Zenon
  <2>6. \A i, j \in 1 .. Len(pool') : pool'[i] = pool'[j] => i = j
    BY <2>1 DEF Db!PoolInv
  <2>7. \A i \in 1 .. Len(pool') : pool'[i] \notin Db!Lent'
    BY <2>1, <2>2, <2>3 DEF Db!PoolInv
  <2>8. \A u \in DbThreads : borrowed[u] # c
    <3>1. c \notin Db!Lent /\ c # None
      BY <2>1, DbFacts DEF Db!PoolInv, c
    <3>2. QED
      BY <3>1 DEF Db!Lent
  <2>9. \A s, u \in DbThreads :
          borrowed'[s] \notin {None, Db!Safe} /\ borrowed'[s] = borrowed'[u] => s = u
    BY <1>1, <2>1, <2>8 DEF Db!PoolInv
  <2>10. open = {Db!Safe} \cup (Db!Lent' \cup {pool'[i] : i \in 1 .. Len(pool')})
    BY <1>5, <2>2, <2>5
  <2>11. Db!PoolInv'
    BY <1>1, <2>6, <2>7, <2>9, <2>10 DEF Db!PoolInv
  <2>12. Db!TypeOK'
    BY <1>1, <2>1 DEF Db!TypeOK
  <2>13. QED
    BY <1>2, <1>4, <2>11, <2>12
<1>8. QED
  BY <1>6, <1>7

LEMMA DbReturn ==
  ASSUME Db!IInv, NEW t \in DbThreads, Db!Return(t)
  PROVE  Db!IInv'
<1> USE DEF Db!IInv
<1> DEFINE c == borrowed[t]
<1>1. /\ state = "ready" /\ c # None /\ within[t] = None
      /\ UNCHANGED <<driver, open, state, within, set, seen>>
      /\ borrowed' = [borrowed EXCEPT ![t] = None]
      /\ pool \in Seq(Db!Connections \ {Db!Safe})
      /\ borrowed \in [DbThreads -> Db!Connections \cup {None}]
      /\ c \in Db!Connections
  BY DEF Db!Return, Db!Idle, Db!TypeOK
<1> HIDE DEF c
<1>2. Db!CursorInv'
  BY <1>1 DEF Db!CursorInv
<1>3. Db!LockInv'
  BY <1>1 DEF Db!LockInv
<1>4. open = {Db!Safe} \cup (Db!Lent \cup {pool[i] : i \in 1 .. Len(pool)})
  BY <1>1 DEF Db!PoolInv
<1>5. /\ \A s, u \in DbThreads :
           borrowed'[s] \notin {None, Db!Safe} /\ borrowed'[s] = borrowed'[u] => s = u
      /\ Db!Lent' \subseteq Db!Lent
  BY <1>1 DEF Db!PoolInv, Db!Lent
<1>6. CASE c = Db!Safe
  <2>1. pool' = pool
    BY <1>6 DEF Db!Return, c
  <2>2. \A x \in Db!Lent : x # Db!Safe => x \in Db!Lent'
    BY <1>1, <1>6 DEF Db!Lent, c
  <2>3. open = {Db!Safe} \cup (Db!Lent' \cup {pool'[i] : i \in 1 .. Len(pool')})
    BY <1>4, <1>5, <2>1, <2>2
  <2>4. \A i \in 1 .. Len(pool') : pool'[i] \notin Db!Lent'
    BY <1>5, <2>1 DEF Db!PoolInv
  <2>5. Db!PoolInv'
    BY <1>1, <1>5, <2>1, <2>3, <2>4 DEF Db!PoolInv
  <2>6. Db!TypeOK'
    BY <1>1, <2>1 DEF Db!TypeOK
  <2>7. QED
    BY <1>2, <1>3, <2>5, <2>6
<1>7. CASE c # Db!Safe
  <2>1. /\ pool' = Append(pool, c)
        /\ pool' \in Seq(Db!Connections \ {Db!Safe})
        /\ Len(pool) \in Nat /\ Len(pool') = Len(pool) + 1
        /\ \A i \in 1 .. Len(pool) : pool'[i] = pool[i]
        /\ pool'[Len(pool) + 1] = c
    BY <1>1, <1>7 DEF Db!Return, c
  <2>2. c \in Db!Lent /\ \A i \in 1 .. Len(pool) : pool[i] # c
    BY <1>1 DEF Db!PoolInv, Db!Lent, c
  <2>3. Db!Lent' = Db!Lent \ {c}
    <3>1. \A u \in DbThreads : borrowed[u] = c => u = t
      BY <1>1, <1>7 DEF Db!PoolInv, c
    <3>2. QED
      BY <1>1, <3>1 DEF Db!Lent, c
  <2>4. \A k \in 1 .. Len(pool') : k \in 1 .. Len(pool) \/ k = Len(pool) + 1
    BY <2>1
  <2>5. \A i, j \in 1 .. Len(pool') : pool'[i] = pool'[j] => i = j
    BY <2>1, <2>2, <2>4 DEF Db!PoolInv
  <2>6. {pool'[i] : i \in 1 .. Len(pool')} = {pool[i] : i \in 1 .. Len(pool)} \cup {c}
    <3>1. 1 .. Len(pool') = 1 .. Len(pool) \cup {Len(pool) + 1}
      BY <2>1
    <3>2. QED
      BY <2>1, <3>1
  <2>7. open = {Db!Safe} \cup (Db!Lent' \cup {pool'[i] : i \in 1 .. Len(pool')})
    BY <1>4, <2>2, <2>3, <2>6
  <2>8. \A i \in 1 .. Len(pool') : pool'[i] \notin Db!Lent'
    BY <2>1, <2>3, <2>4 DEF Db!PoolInv
  <2>9. Db!PoolInv'
    BY <1>1, <1>5, <2>5, <2>7, <2>8 DEF Db!PoolInv
  <2>10. Db!TypeOK'
    BY <1>1, <2>1 DEF Db!TypeOK
  <2>11. QED
    BY <1>2, <1>3, <2>9, <2>10
<1>8. QED
  BY <1>6, <1>7

LEMMA DbCloses ==
  ASSUME Db!IInv, Db!ClosePool
  PROVE  Db!IInv'
<1> USE DEF Db!IInv
<1>1. /\ state = "ready" /\ open' = open \ (Db!ToSet(pool) \cup {Db!Safe})
      /\ pool' = <<>> /\ state' = "closed" /\ \A t \in DbThreads : within[t] = None
      /\ UNCHANGED <<driver, borrowed, within, set, seen>>
  BY DEF Db!ClosePool, Db!handles, Db!Idle
<1>2. Db!ToSet(pool) = {pool[i] : i \in 1 .. Len(pool)}
  <2>1. pool \in Seq(Db!Connections \ {Db!Safe})
    BY DEF Db!TypeOK
  <2>2. DOMAIN pool = 1 .. Len(pool)
    BY <2>1
  <2>3. QED
    BY <2>2 DEF Db!ToSet
<1>3. open' = Db!Lent' \ {Db!Safe} /\ Db!Lent' = Db!Lent
  BY <1>1, <1>2 DEF Db!PoolInv, Db!Lent
<1>4. Db!PoolInv'
  BY <1>1, <1>3 DEF Db!PoolInv
<1>5. Db!LockInv' /\ Db!CursorInv'
  BY <1>1 DEF Db!LockInv, Db!CursorInv
<1>6. Db!TypeOK'
  BY <1>1 DEF Db!TypeOK
<1>7. QED
  BY <1>4, <1>5, <1>6

(* Steps that leave the pool and those who borrowed.                       *)
LEMMA DbPoolSame ==
  ASSUME Db!PoolInv, UNCHANGED <<pool, borrowed, state, open>>
  PROVE  Db!PoolInv'
<1>1. Db!Lent' = Db!Lent
  BY DEF Db!Lent
<1>2. QED
  BY <1>1 DEF Db!PoolInv

LEMMA DbLocks ==
  ASSUME Db!IInv, NEW t \in DbThreads, Db!Lock(t)
  PROVE  Db!IInv'
<1> USE DEF Db!IInv
<1>1. /\ within' = [within EXCEPT ![t] = borrowed[t]] /\ borrowed[t] \in open
      /\ \A u \in DbThreads : within[u] # borrowed[t]
      /\ UNCHANGED <<driver, open, pool, state, borrowed, set, seen>>
  BY DEF Db!Lock
<1>2. Db!PoolInv' /\ Db!CursorInv'
  BY <1>1, DbPoolSame DEF Db!CursorInv
<1>3. Db!LockInv' /\ Db!TypeOK'
  BY <1>1 DEF Db!LockInv, Db!TypeOK
<1>4. QED
  BY <1>2, <1>3

(* Steps on the recordset of a thread.                                     *)
LEMMA DbCursor ==
  ASSUME Db!IInv, NEW t \in DbThreads,
         NEW s \in [has : BOOLEAN, real : 0 .. Rows, rows : 0 .. Word - 1, row : 0 .. Word - 1],
         NEW n \in Nat,
         set' = [set EXCEPT ![t] = s], seen' = [seen EXCEPT ![t] = n],
         s.row # 0 => s.row < s.rows,
         driver = "mysql" => n <= s.real,
         driver = "sqlite" /\ s.real > 0 =>
           s.rows = s.real - 1 /\ n <= (IF s.real > 1 THEN s.real - 1 ELSE 1),
         UNCHANGED <<driver, open, pool, state, borrowed>>,
         within' = within \/ within' = [within EXCEPT ![t] = None]
  PROVE  Db!IInv'
<1> USE DEF Db!IInv
<1>1. Db!PoolInv'
  BY DbPoolSame
<1>2. Db!TypeOK'
  BY DEF Db!TypeOK
<1>3. Db!LockInv'
  BY DEF Db!LockInv, Db!TypeOK
<1>4. Db!CursorInv'
  <2> SUFFICES ASSUME NEW u \in DbThreads
               PROVE  /\ set'[u].row # 0 => set'[u].row < set'[u].rows
                      /\ driver = "mysql" => seen'[u] <= set'[u].real
                      /\ driver = "sqlite" /\ set'[u].real > 0 =>
                           /\ set'[u].rows = set'[u].real - 1
                           /\ seen'[u] <= (IF set'[u].real > 1 THEN set'[u].real - 1 ELSE 1)
    BY DEF Db!CursorInv
  <2>1. CASE u = t
    BY <2>1 DEF Db!TypeOK
  <2>2. CASE u # t
    BY <2>2 DEF Db!TypeOK, Db!CursorInv
  <2>3. QED
    BY <2>1, <2>2
<1>5. QED
  BY <1>1, <1>2, <1>3, <1>4

LEMMA DbQuery ==
  ASSUME Db!IInv, NEW t \in DbThreads, Db!Query(t)
  PROVE  Db!IInv'
<1> USE DEF Db!IInv
<1>0. set[t] \in [has : BOOLEAN, real : 0 .. Rows, rows : 0 .. Word - 1, row : 0 .. Word - 1]
  BY DEF Db!TypeOK
<1>1. /\ seen' = [seen EXCEPT ![t] = 0] /\ within' = [within EXCEPT ![t] = None]
      /\ UNCHANGED <<driver, open, pool, state, borrowed>>
  BY DEF Db!Query
<1>2. CASE UNCHANGED set
  <2>1. set' = [set EXCEPT ![t] = set[t]]
    BY <1>2 DEF Db!TypeOK
  <2>2. /\ set[t].row # 0 => set[t].row < set[t].rows
        /\ set[t].real \in 0 .. Rows
        /\ driver = "sqlite" /\ set[t].real > 0 => set[t].rows = set[t].real - 1
    BY <1>0 DEF Db!CursorInv
  <2>3. /\ 0 <= set[t].real
        /\ set[t].real > 0 => 0 <= (IF set[t].real > 1 THEN set[t].real - 1 ELSE 1)
    BY <2>2, DbAssumption
  <2>4. QED
    BY <1>0, <1>1, <2>1, <2>2, <2>3, DbCursor
<1>3. CASE \E n \in 0 .. Rows :
             set' = [set EXCEPT ![t] = [has |-> TRUE, real |-> n, rows |-> Db!Announced(n), row |-> 0]]
  <2>1. PICK n \in 0 .. Rows :
          set' = [set EXCEPT ![t] = [has |-> TRUE, real |-> n, rows |-> Db!Announced(n), row |-> 0]]
    BY <1>3
  <2> DEFINE s == [has |-> TRUE, real |-> n, rows |-> Db!Announced(n), row |-> 0]
  <2>2. /\ Db!Announced(n) \in 0 .. Word - 1
        /\ driver = "sqlite" /\ n > 0 => Db!Announced(n) = n - 1
    <3>1. n - 1 + Word \in Int /\ n \in 0 .. Word - 1 /\ (n > 0 => n \in 1 .. Word - 1)
      BY DbAssumption
    <3>2. (n - 1 + Word) % Word \in 0 .. Word - 1
      BY <3>1, WordRange
    <3>3. n > 0 => (n - 1 + Word) % Word = n - 1
      BY <3>1, WordStep
    <3>4. QED
      BY <3>1, <3>2, <3>3 DEF Db!Announced
  <2>3. s \in [has : BOOLEAN, real : 0 .. Rows, rows : 0 .. Word - 1, row : 0 .. Word - 1]
    BY <2>2, DbFacts
  <2>4. s.row = 0 /\ s.real = n /\ s.rows = Db!Announced(n) /\ 0 <= n
        /\ (n > 0 => 0 <= (IF n > 1 THEN n - 1 ELSE 1))
    BY DbAssumption
  <2> HIDE DEF s
  <2>5. QED
    BY <1>1, <2>1, <2>2, <2>3, <2>4, DbCursor DEF s
<1>4. QED
  BY <1>2, <1>3 DEF Db!Query

LEMMA DbMoves ==
  ASSUME Db!IInv, NEW t \in DbThreads, Db!MoveAny(t)
  PROVE  Db!IInv'
<1> USE DEF Db!IInv
<1>0. /\ set[t] \in [has : BOOLEAN, real : 0 .. Rows, rows : 0 .. Word - 1, row : 0 .. Word - 1]
      /\ seen[t] \in Nat /\ seen' = [seen EXCEPT ![t] = seen[t]]
      /\ UNCHANGED <<driver, open, pool, state, borrowed, within>>
  BY DEF Db!TypeOK, Db!MoveAny
<1>1. \A i \in Int : i % Word \in 0 .. Word - 1
  BY WordRange
<1>2. PICK row \in 0 .. Word - 1 : row < set[t].rows /\ set' = [set EXCEPT ![t].row = row]
  <2>1. /\ set[t].row + 1 \in Int /\ set[t].row - 1 + Word \in Int
        /\ set[t].rows - 1 + Word \in Int
    BY <1>0, DbAssumption
  <2>2. {0, Db!NextRow(t), Db!PrevRow(t), Db!LastRow(t)} \subseteq 0 .. Word - 1
    BY <1>1, <2>1, DbFacts DEF Db!NextRow, Db!PrevRow, Db!LastRow
  <2>3. QED
    BY <2>2 DEF Db!MoveAny, Db!Move
<1> DEFINE s == [set[t] EXCEPT !.row = row]
<1>3. /\ s \in [has : BOOLEAN, real : 0 .. Rows, rows : 0 .. Word - 1, row : 0 .. Word - 1]
      /\ s.row = row /\ s.rows = set[t].rows /\ s.real = set[t].real
  BY <1>0
<1>4. set' = [set EXCEPT ![t] = s]
  BY <1>2
<1>5. /\ driver = "mysql" => seen[t] <= set[t].real
      /\ driver = "sqlite" /\ set[t].real > 0 =>
           /\ set[t].rows = set[t].real - 1
           /\ seen[t] <= (IF set[t].real > 1 THEN set[t].real - 1 ELSE 1)
  BY DEF Db!CursorInv
<1> HIDE DEF s
<1>6. QED
  BY <1>0, <1>2, <1>3, <1>4, <1>5, DbCursor

LEMMA DbReads ==
  ASSUME Db!IInv, NEW t \in DbThreads, Db!Field(t)
  PROVE  Db!IInv'
<1> USE DEF Db!IInv
<1> DEFINE s == set[t]
<1>0. /\ s \in [has : BOOLEAN, real : 0 .. Rows, rows : 0 .. Word - 1, row : 0 .. Word - 1]
      /\ seen[t] \in Nat /\ set' = [set EXCEPT ![t] = s]
      /\ UNCHANGED <<driver, open, pool, state, borrowed, within>>
  BY DEF Db!TypeOK, Db!Field
<1>1. /\ s.row # 0 => s.row < s.rows
      /\ driver = "mysql" => seen[t] <= s.real
      /\ driver = "sqlite" /\ s.real > 0 =>
           /\ s.rows = s.real - 1
           /\ seen[t] <= (IF s.real > 1 THEN s.real - 1 ELSE 1)
  BY DEF Db!CursorInv
<1>2. s.row \in Nat /\ s.rows \in Nat /\ s.real \in Nat
  BY <1>0, DbAssumption
<1>3. \/ seen' = seen
      \/ seen' = [seen EXCEPT ![t] = s.row + 1] /\ ~ (driver = "mysql" /\ s.row >= s.real)
  BY DEF Db!Field
<1> HIDE DEF s
<1>4. CASE seen' = seen
  <2>1. seen' = [seen EXCEPT ![t] = seen[t]]
    BY <1>4 DEF Db!TypeOK
  <2>2. QED
    BY <1>0, <1>1, <2>1, DbCursor
<1>5. CASE seen' = [seen EXCEPT ![t] = s.row + 1] /\ ~ (driver = "mysql" /\ s.row >= s.real)
  <2>1. /\ s.row + 1 \in Nat
        /\ driver = "mysql" => s.row + 1 <= s.real
        /\ driver = "sqlite" /\ s.real > 0 =>
             s.row + 1 <= (IF s.real > 1 THEN s.real - 1 ELSE 1)
    BY <1>1, <1>2, <1>5
  <2>2. QED
    BY <1>0, <1>1, <1>5, <2>1, DbCursor
<1>6. QED
  BY <1>3, <1>4, <1>5

LEMMA DbFrees ==
  ASSUME Db!IInv, NEW t \in DbThreads, Db!Free(t)
  PROVE  Db!IInv'
<1>1. /\ Db!NoSet \in [has : BOOLEAN, real : 0 .. Rows, rows : 0 .. Word - 1, row : 0 .. Word - 1]
      /\ Db!NoSet.row = 0 /\ Db!NoSet.real = 0
  BY DbFacts DEF Db!NoSet
<1>2. /\ set' = [set EXCEPT ![t] = Db!NoSet] /\ seen' = [seen EXCEPT ![t] = 0]
      /\ UNCHANGED <<driver, open, pool, state, borrowed, within>>
  BY DEF Db!Free
<1>3. /\ Db!NoSet.row # 0 => Db!NoSet.row < Db!NoSet.rows
      /\ driver = "mysql" => 0 <= Db!NoSet.real
      /\ driver = "sqlite" /\ Db!NoSet.real > 0 =>
           /\ Db!NoSet.rows = Db!NoSet.real - 1
           /\ 0 <= (IF Db!NoSet.real > 1 THEN Db!NoSet.real - 1 ELSE 1)
  BY <1>1
<1>4. 0 \in Nat
  OBVIOUS
<1>5. QED
  BY <1>1, <1>2, <1>3, <1>4, DbCursor

LEMMA DbNext == ASSUME Db!IInv, [Db!Next]_dbVars PROVE Db!IInv'
<1>1. CASE UNCHANGED dbVars
  <2>1. Db!PoolInv' /\ Db!TypeOK'
    BY <1>1, DbPoolSame DEF dbVars, Db!IInv, Db!TypeOK
  <2>2. Db!LockInv' /\ Db!CursorInv'
    BY <1>1 DEF dbVars, Db!IInv, Db!LockInv, Db!CursorInv
  <2>3. QED
    BY <2>1, <2>2 DEF Db!IInv
<1>2. CASE Db!FillOne \/ Db!FillFails
  BY <1>2, DbFill
<1>3. CASE Db!ClosePool
  BY <1>3, DbCloses
<1>4. ASSUME NEW t \in DbThreads,
             \/ Db!Borrow(t) \/ Db!Return(t) \/ Db!Lock(t) \/ Db!Query(t)
             \/ Db!MoveAny(t) \/ Db!Field(t) \/ Db!Free(t)
      PROVE  Db!IInv'
  BY <1>4, DbBorrow, DbReturn, DbLocks, DbQuery, DbMoves, DbReads, DbFrees
<1>5. QED
  BY <1>1, <1>2, <1>3, <1>4 DEF Db!Next

(* A connection is lent to one thread at a time, none but the safe one is  *)
(* lost or made twice while the pool is open, two threads never query one, *)
(* and no row is read beyond the recordset, whatever the size of the pool, *)
(* the threads and the width of the counters.                              *)
THEOREM DatabaseIsSafe == PartsSpec => []DbSafe
<1>1. ASSUME Db!IInv, [PartsNext]_partsVars PROVE Db!IInv'
  <2>1. [Db!Next]_dbVars
    BY <1>1 DEF PartsNext, Others, partsVars
  <2>2. QED
    BY <1>1, <2>1, DbNext
<1>2. QED
  BY <1>1, DbInit, DbIsSafe, PTL DEF PartsSpec

-----------------------------------------------------------------------------
(* The processes of the server.                                            *)

LEMMA LowestIs ==
  ASSUME NEW S \in SUBSET Int, NEW n \in S, \A m \in S : n <= m
  PROVE  Start!Lowest(S) = n
<1>1. \A x \in S : (\A m \in S : x <= m) => x = n
  OBVIOUS
<1>2. QED
  BY <1>1 DEF Start!Lowest

LEMMA OpenIs ==
  ASSUME NEW t, NEW x, NEW n \in Start!Numbers, t[n] = None,
         \A m \in Start!Numbers : m < n => t[m] # None
  PROVE  Start!Open(t, x) = [t EXCEPT ![n] = x]
<1>1. /\ Start!Free(t) \in SUBSET Int /\ n \in Start!Free(t)
      /\ \A m \in Start!Free(t) : n <= m
  BY DEF Start!Free, Start!Numbers
<1>2. Start!Lowest(Start!Free(t)) = n
  BY <1>1, LowestIs
<1>3. QED
  BY <1>2 DEF Start!Open

LEMMA LaunchInit == PartsInit => Start!IInv
<1> SUFFICES ASSUME Start!Init PROVE Start!IInv
  BY DEF PartsInit
<1> USE DEF Start!Init, Start!Procs, Start!Closed
<1>1. Start!TypeOK
  BY DEF Start!TypeOK
<1>2. ASSUME NEW n \in Start!Numbers
      PROVE  /\ launchFd["priv"][n] = Start!PrivHas(n)
             /\ launchFd["server"][n] = Start!ServerHas(n)
             /\ launchFd["logger"][n] = Start!LoggerHas(n)
  <2>1. /\ launchPc["priv"] = "start" /\ launchPc["server"] = "none"
        /\ launchPc["logger"] = "none" /\ daemon \in BOOLEAN
        /\ launchFd["server"][n] = None /\ launchFd["logger"][n] = None
        /\ launchFd["priv"][n] = IF Start!Terminal(n) THEN "tty" ELSE None
    BY DEF Start!Terminal
  <2>2. launchFd["priv"][n] = Start!PrivHas(n)
    BY <2>1 DEF Start!Before, Start!PrivHas
  <2>3. launchPc["server"] \in {"none", "gone"} /\ launchPc["logger"] # "logging"
    BY <2>1
  <2>4. Start!ServerHas(n) = None
    BY <2>3 DEF Start!Before, Start!ServerHas
  <2>5. Start!LoggerHas(n) = None
    BY <2>3 DEF Start!LoggerHas
  <2>6. QED
    BY <2>1, <2>2, <2>4, <2>5
<1>3. Start!OrderInv /\ Start!SignalKept /\ Start!CleanExit
  BY DEF Start!OrderInv, Start!SignalKept, Start!CleanExit, Start!Live
<1>4. QED
  BY <1>1, <1>2, <1>3 DEF Start!IInv, Start!TablesInv

LEMMA LaunchIsSafe == Start!IInv => LaunchSafe
<1> SUFFICES ASSUME Start!IInv PROVE Start!AllEnd
  BY DEF LaunchSafe, Start!LaunchSafe, Start!IInv
<1>0. /\ launchPc["priv"] \in {"start", "exposed", "serving", "reaping", "gone"}
      /\ launchPc["logger"] \in {"none", "logging", "gone"}
      /\ daemon \in BOOLEAN
  BY DEF Start!IInv, Start!TypeOK
<1>1. ASSUME NEW n \in Start!Numbers
      PROVE  /\ launchFd["priv"][n] # "write"
             /\ launchPc["priv"] = "serving" => launchFd["priv"][n] # "inner"
             /\ launchFd["logger"][n] \notin {"inner", "write"}
  BY DescriptorAssumption DEF Start!IInv, Start!TablesInv, Start!PrivHas, Start!Before, Start!LoggerHas
<1>2. launchPc["logger"] = "logging" => launchFd["logger"][0] = "read"
  BY DEF Start!IInv, Start!TablesInv, Start!LoggerHas, Start!Numbers
<1>3. ASSUME launchPc["server"] \notin {"none", "gone", "forked", "pipe"}
      PROVE  /\ Start!Inner \in Start!Numbers /\ launchFd["server"][Start!Inner] = "inner"
             /\ daemon => launchFd["server"][2] = "write"
  <2>1. Start!Inner \in Start!Numbers /\ 2 \in Start!Numbers /\ (daemon => Start!Inner # 2)
    BY DEF Start!Inner, Start!Numbers
  <2>2. QED
    BY <1>3, <2>1 DEF Start!IInv, Start!TablesInv, Start!Before, Start!ServerHas
<1>4. /\ launchPc["server"] = "gone" /\ launchPc["priv"] = "serving" => ~ Start!HeldOpen("inner")
      /\ launchPc["server"] = "gone" => ~ Start!HeldOpen("write")
  BY <1>0, <1>1 DEF Start!HeldOpen, Start!Live, Start!Procs
<1>5. QED
  BY <1>0, <1>2, <1>3, <1>4 DEF Start!AllEnd, Start!Live

(* Steps of the server that touch no descriptor.                           *)
LateServer == {"init", "keyboard", "deaf", "install", "block", "test", "suspend",
               "fini", "kill", "exit", "answer"}

LEMMA LaunchMoves ==
  ASSUME Start!IInv, NEW to \in LateServer, launchPc["server"] \in LateServer,
         launchPc' = [launchPc EXCEPT !["server"] = to], UNCHANGED <<launchFd, daemon>>
  PROVE  /\ Start!TablesInv'
         /\ launchPc' \in [Start!Procs -> {"none", "gone", "start", "exposed", "serving",
              "reaping", "forked", "pipe", "init", "keyboard", "deaf", "install",
              "block", "test", "suspend", "fini", "kill", "exit", "answer", "logging"}]
         /\ launchPc'["server"] = to
         /\ launchPc'["priv"] = launchPc["priv"] /\ launchPc'["logger"] = launchPc["logger"]
<1>1. launchPc' \in [Start!Procs -> {"none", "gone", "start", "exposed", "serving",
              "reaping", "forked", "pipe", "init", "keyboard", "deaf", "install",
              "block", "test", "suspend", "fini", "kill", "exit", "answer", "logging"}]
      /\ launchPc'["server"] = to
      /\ launchPc'["priv"] = launchPc["priv"] /\ launchPc'["logger"] = launchPc["logger"]
  BY DEF Start!IInv, Start!TypeOK, Start!Procs, LateServer
<1>2. Start!TablesInv'
  <2> SUFFICES ASSUME NEW n \in Start!Numbers
               PROVE  (/\ launchFd["priv"][n] = Start!PrivHas(n)
                       /\ launchFd["server"][n] = Start!ServerHas(n)
                       /\ launchFd["logger"][n] = Start!LoggerHas(n))'
    BY DEF Start!TablesInv
  <2>1. Start!Inner' = Start!Inner /\ Start!Outer' = Start!Outer
        /\ (Start!Terminal(n))' = Start!Terminal(n)
    BY DEF Start!Inner, Start!Outer, Start!Terminal
  <2>2. launchPc["server"] \notin {"none", "gone", "forked", "pipe"}
        /\ to \notin {"none", "gone", "forked", "pipe"}
    BY DEF LateServer
  <2>3. QED
    BY <1>1, <2>1, <2>2 DEF Start!IInv, Start!TablesInv, Start!PrivHas, Start!Before, Start!ServerHas,
                            Start!LoggerHas
<1>3. QED
  BY <1>1, <1>2

LEMMA LaunchLate ==
  ASSUME Start!IInv,
         \/ Start!ServerInit \/ Start!Key \/ Start!Install \/ Start!Block \/ Start!Test
         \/ Start!Suspend \/ Start!Fini \/ Start!Exit
  PROVE  Start!IInv'
<1> USE DEF Start!To, Start!signals
<1>1. ASSUME NEW to \in LateServer, launchPc["server"] \in LateServer,
             launchPc' = [launchPc EXCEPT !["server"] = to], UNCHANGED <<launchFd, daemon>>,
             call' \in {"none", "sent", "answered"}, handler' \in BOOLEAN,
             blocked' \in BOOLEAN, pending' \in BOOLEAN, interrupt' \in BOOLEAN,
             served' \in BOOLEAN, cleaned' \in BOOLEAN,
             to \in {"block", "test", "suspend"} => handler',
             to \in {"test", "suspend"} => blocked',
             to = "suspend" => ~ interrupt', to = "kill" => daemon,
             to \in {"kill", "exit", "answer"} => cleaned',
             to \in {"exit", "answer"} => ~ Start!Live("logger"),
             call' # "none" => to = "answer"
      PROVE  Start!IInv'
  <2>1. /\ Start!TablesInv'
        /\ launchPc' \in [Start!Procs -> {"none", "gone", "start", "exposed", "serving",
             "reaping", "forked", "pipe", "init", "keyboard", "deaf", "install",
             "block", "test", "suspend", "fini", "kill", "exit", "answer", "logging"}]
        /\ launchPc'["server"] = to
        /\ launchPc'["priv"] = launchPc["priv"] /\ launchPc'["logger"] = launchPc["logger"]
    BY <1>1, LaunchMoves
  <2>2. Start!TypeOK'
    BY <1>1, <2>1 DEF Start!IInv, Start!TypeOK, LateServer
  <2>3. (Start!Live("logger"))' = Start!Live("logger")
    BY <2>1 DEF Start!Live
  <2>4. Start!OrderInv'
    BY <1>1, <2>1, <2>3 DEF Start!IInv, Start!OrderInv, LateServer
  <2>5. Start!SignalKept' /\ Start!CleanExit'
    BY <1>1, <2>1, <2>3 DEF Start!SignalKept, Start!CleanExit
  <2>6. QED
    BY <2>1, <2>2, <2>4, <2>5 DEF Start!IInv
<1>0. /\ call \in {"none", "sent", "answered"} /\ handler \in BOOLEAN /\ blocked \in BOOLEAN
      /\ pending \in BOOLEAN /\ interrupt \in BOOLEAN /\ served \in BOOLEAN
      /\ cleaned \in BOOLEAN
      /\ launchPc["server"] \in LateServer => (call # "none" => launchPc["server"] = "answer")
  BY DEF Start!IInv, Start!TypeOK, Start!OrderInv, LateServer
<1> USE DEF LateServer
<1>2. CASE Start!ServerInit
  BY <1>0, <1>1, <1>2 DEF Start!ServerInit
<1>3. CASE Start!Key
  BY <1>0, <1>1, <1>3 DEF Start!Key
<1>4. CASE Start!Install
  BY <1>0, <1>1, <1>4 DEF Start!Install
<1>5. CASE Start!Block
  BY <1>0, <1>1, <1>5 DEF Start!Block, Start!IInv, Start!OrderInv
<1>6. CASE Start!Test
  BY <1>0, <1>1, <1>6 DEF Start!Test, Start!IInv, Start!OrderInv
<1>7. CASE Start!Suspend
  BY <1>0, <1>1, <1>7 DEF Start!Suspend, Start!IInv, Start!OrderInv
<1>8. CASE Start!Fini
  <2>1. ~ daemon => ~ Start!Live("logger")
    BY DEF Start!IInv, Start!OrderInv, Start!Live
  <2>2. QED
    BY <1>0, <1>1, <1>8, <2>1 DEF Start!Fini
<1>9. CASE Start!Exit
  BY <1>0, <1>1, <1>9 DEF Start!Exit, Start!IInv, Start!OrderInv
<1>10. QED
  BY <1>2, <1>3, <1>4, <1>5, <1>6, <1>7, <1>8, <1>9

(* Steps that give new descriptors to the processes.                       *)
LaunchPlaces ==
  {"none", "gone", "start", "exposed", "serving", "reaping", "forked", "pipe", "init",
   "keyboard", "deaf", "install", "block", "test", "suspend", "fini", "kill", "exit",
   "answer", "logging"}
LaunchTable == [Start!Numbers -> {"tty", "inner", "outer", "read", "write", None}]

LEMMA LaunchType ==
  ASSUME Start!IInv
  PROVE  /\ daemon \in BOOLEAN /\ launchPc \in [Start!Procs -> LaunchPlaces]
         /\ launchFd \in [Start!Procs -> LaunchTable]
         /\ launchPc["priv"] \in {"start", "exposed", "serving", "reaping", "gone"}
         /\ launchPc["server"] \in LaunchPlaces \ {"start", "exposed", "serving", "reaping", "logging"}
         /\ launchPc["logger"] \in {"none", "logging", "gone"}
         /\ DOMAIN launchPc = Start!Procs /\ DOMAIN launchFd = Start!Procs
BY DEF Start!IInv, Start!TypeOK, LaunchPlaces, LaunchTable, Start!Procs

LEMMA LaunchFork == ASSUME Start!IInv, Start!Fork PROVE Start!IInv'
<1> DEFINE t == launchFd["priv"]
           t1 == Start!Open(t, "inner")
           t2 == Start!Open(t1, "outer")
<1> USE LaunchType DEF Start!Procs
<1>1. /\ launchPc["priv"] = "start" /\ launchPc["server"] = "none" /\ launchPc["logger"] = "none"
      /\ launchPc' = [launchPc EXCEPT !["priv"] = "exposed", !["server"] = "forked"]
      /\ launchFd' = [launchFd EXCEPT !["priv"] = t2, !["server"] = t2]
      /\ UNCHANGED <<daemon, call, handler, blocked, pending, interrupt, served, cleaned>>
  BY DEF Start!Fork, Start!IInv, Start!OrderInv, Start!signals
<1>2. t \in LaunchTable
      /\ \A n \in Start!Numbers : t[n] = IF Start!Terminal(n) THEN "tty" ELSE None
  BY <1>1 DEF Start!IInv, Start!TablesInv, Start!PrivHas, Start!Before
<1>3. /\ Start!Inner \in Start!Numbers /\ Start!Outer \in Start!Numbers
      /\ Start!Outer = Start!Inner + 1
      /\ \A n \in Start!Numbers : Start!Terminal(n) <=> n < Start!Inner
  BY DEF Start!Inner, Start!Outer, Start!Numbers, Start!Terminal
<1> HIDE DEF t
<1>4. t1 = [t EXCEPT ![Start!Inner] = "inner"]
  <2>1. t[Start!Inner] = None /\ \A m \in Start!Numbers : m < Start!Inner => t[m] # None
    BY <1>2, <1>3, DescriptorAssumption DEF Start!Numbers
  <2>2. QED
    BY <1>3, <2>1, OpenIs
<1>5. t1 \in LaunchTable
      /\ \A n \in Start!Numbers : t1[n] = IF n = Start!Inner THEN "inner" ELSE t[n]
  BY <1>2, <1>3, <1>4 DEF LaunchTable
<1> HIDE DEF t1
<1>6. t2 = [t1 EXCEPT ![Start!Outer] = "outer"]
  <2>1. /\ t1[Start!Outer] = None
        /\ \A m \in Start!Numbers : m < Start!Outer => t1[m] # None
    BY <1>2, <1>3, <1>5, DescriptorAssumption DEF Start!Numbers
  <2>2. QED
    BY <1>3, <2>1, OpenIs
<1>7. /\ t2 \in LaunchTable
      /\ \A n \in Start!Numbers : t2[n] = IF n = Start!Outer THEN "outer"
                                          ELSE IF n = Start!Inner THEN "inner" ELSE t[n]
  BY <1>3, <1>5, <1>6 DEF LaunchTable
<1> HIDE DEF t2
<1>8. /\ launchPc'["priv"] = "exposed" /\ launchPc'["server"] = "forked"
      /\ launchPc'["logger"] = "none" /\ launchPc' \in [Start!Procs -> LaunchPlaces]
      /\ launchFd'["priv"] = t2 /\ launchFd'["server"] = t2
      /\ launchFd'["logger"] = launchFd["logger"] /\ launchFd' \in [Start!Procs -> LaunchTable]
  BY <1>1, <1>7 DEF LaunchPlaces
<1>9. Start!TypeOK'
  BY <1>1, <1>8 DEF Start!IInv, Start!TypeOK, LaunchPlaces, LaunchTable
<1>10. ASSUME NEW n \in Start!Numbers
       PROVE  (/\ launchFd["priv"][n] = Start!PrivHas(n)
               /\ launchFd["server"][n] = Start!ServerHas(n)
               /\ launchFd["logger"][n] = Start!LoggerHas(n))'
  <2>1. /\ Start!Inner' = Start!Inner /\ Start!Outer' = Start!Outer
        /\ (Start!Terminal(n))' = Start!Terminal(n)
    BY <1>1 DEF Start!Inner, Start!Outer, Start!Terminal
  <2>2. launchFd["logger"][n] = None
    BY <1>1 DEF Start!IInv, Start!TablesInv, Start!LoggerHas
  <2>3. QED
    BY <1>2, <1>3, <1>7, <1>8, <2>1, <2>2 DEF Start!Before, Start!PrivHas, Start!ServerHas, Start!LoggerHas, Start!Numbers
<1>11. Start!OrderInv' /\ Start!SignalKept' /\ Start!CleanExit'
  BY <1>1, <1>8 DEF Start!IInv, Start!OrderInv, Start!SignalKept, Start!CleanExit, Start!Live
<1>12. QED
  BY <1>9, <1>10, <1>11 DEF Start!IInv, Start!TablesInv

(* Steps of the privileged process after the fork.                         *)
LEMMA LaunchPriv ==
  ASSUME Start!IInv,
         Start!Serve \/ Start!LastRequest \/ Start!EndOfChannel \/ Start!Reap
  PROVE  Start!IInv'
<1> USE LaunchType DEF Start!Procs, Start!signals
<1>1. /\ launchPc["priv"] \in {"exposed", "serving", "reaping"}
      /\ \E to \in {"serving", "reaping", "gone"} :
           /\ launchPc' = [launchPc EXCEPT !["priv"] = to]
           /\ to = "serving" => launchPc["priv"] = "exposed"
           /\ to = "reaping" => launchPc["priv"] = "serving"
           /\ launchFd' = [launchFd EXCEPT !["priv"] =
                IF to = "serving" THEN Start!Close(@, "inner")
                ELSE IF to = "reaping" THEN Start!Close(@, "outer") ELSE Start!Closed]
      /\ \/ call' = call \/ (call = "sent" /\ call' = "answered")
      /\ UNCHANGED <<daemon, handler, blocked, pending, interrupt, served, cleaned>>
  BY DEF Start!Serve, Start!LastRequest, Start!EndOfChannel, Start!Reap, Start!To, Start!End
<1>2. PICK to \in {"serving", "reaping", "gone"} :
        /\ launchPc' = [launchPc EXCEPT !["priv"] = to]
        /\ to = "serving" => launchPc["priv"] = "exposed"
        /\ to = "reaping" => launchPc["priv"] = "serving"
        /\ launchFd' = [launchFd EXCEPT !["priv"] =
             IF to = "serving" THEN Start!Close(@, "inner")
             ELSE IF to = "reaping" THEN Start!Close(@, "outer") ELSE Start!Closed]
  BY <1>1
<1>3. ASSUME NEW x \in {"inner", "outer"}
      PROVE  /\ Start!Close(launchFd["priv"], x) \in LaunchTable
             /\ \A n \in Start!Numbers : Start!Close(launchFd["priv"], x)[n] =
                  IF launchFd["priv"][n] = x THEN None ELSE launchFd["priv"][n]
  BY DEF Start!Close, LaunchTable
<1>4. Start!Closed \in LaunchTable /\ \A n \in Start!Numbers : Start!Closed[n] = None
  BY DEF Start!Closed, LaunchTable
<1>5. /\ launchPc'["priv"] = to /\ launchPc'["server"] = launchPc["server"]
      /\ launchPc'["logger"] = launchPc["logger"] /\ launchPc' \in [Start!Procs -> LaunchPlaces]
      /\ launchFd'["server"] = launchFd["server"] /\ launchFd'["logger"] = launchFd["logger"]
      /\ launchFd' \in [Start!Procs -> LaunchTable]
      /\ launchFd'["priv"] = IF to = "serving" THEN Start!Close(launchFd["priv"], "inner")
                             ELSE IF to = "reaping" THEN Start!Close(launchFd["priv"], "outer")
                             ELSE Start!Closed
  BY <1>2, <1>3, <1>4 DEF LaunchPlaces
<1>6. Start!TypeOK'
  BY <1>1, <1>5 DEF Start!IInv, Start!TypeOK, LaunchPlaces, LaunchTable
<1>7. ASSUME NEW n \in Start!Numbers
      PROVE  (/\ launchFd["priv"][n] = Start!PrivHas(n)
              /\ launchFd["server"][n] = Start!ServerHas(n)
              /\ launchFd["logger"][n] = Start!LoggerHas(n))'
  <2>1. /\ Start!Inner' = Start!Inner /\ Start!Outer' = Start!Outer
        /\ (Start!Terminal(n))' = Start!Terminal(n) /\ Start!Inner # Start!Outer
    BY <1>1 DEF Start!Inner, Start!Outer, Start!Terminal
  <2>2. launchFd["priv"][n] = Start!PrivHas(n)
    BY DEF Start!IInv, Start!TablesInv
  <2>3. launchFd'["priv"][n] = (Start!PrivHas(n))'
    <3>1. CASE to = "serving"
      <4>1. launchFd'["priv"][n] = IF launchFd["priv"][n] = "inner" THEN None ELSE launchFd["priv"][n]
        BY <1>3, <1>5, <3>1
      <4>2. launchPc["priv"] = "exposed" /\ launchPc'["priv"] = "serving"
        BY <1>2, <1>5, <3>1
      <4>3. Start!PrivHas(n) = IF n = Start!Inner THEN "inner" ELSE IF n = Start!Outer THEN "outer"
                               ELSE IF Start!Terminal(n) THEN "tty" ELSE None
        BY <4>2 DEF Start!Before, Start!PrivHas
      <4>4. (Start!PrivHas(n))' = IF n = Start!Outer THEN "outer"
                                  ELSE IF Start!Terminal(n) THEN "tty" ELSE None
        BY <2>1, <4>2 DEF Start!Before, Start!PrivHas
      <4>5. ~ Start!Terminal(Start!Inner)
        BY DEF Start!Terminal, Start!Inner
      <4>6. QED
        BY <2>1, <2>2, <4>1, <4>3, <4>4, <4>5, DescriptorAssumption
    <3>2. CASE to = "reaping"
      <4>1. launchFd'["priv"][n] = IF launchFd["priv"][n] = "outer" THEN None ELSE launchFd["priv"][n]
        BY <1>3, <1>5, <3>2
      <4>2. launchPc["priv"] = "serving" /\ launchPc'["priv"] = "reaping"
        BY <1>2, <1>5, <3>2
      <4>3. Start!PrivHas(n) = IF n = Start!Outer THEN "outer"
                               ELSE IF Start!Terminal(n) THEN "tty" ELSE None
        BY <4>2 DEF Start!Before, Start!PrivHas
      <4>4. (Start!PrivHas(n))' = IF Start!Terminal(n) THEN "tty" ELSE None
        BY <2>1, <4>2 DEF Start!Before, Start!PrivHas
      <4>5. ~ Start!Terminal(Start!Outer)
        BY DEF Start!Terminal, Start!Outer
      <4>6. QED
        BY <2>1, <2>2, <4>1, <4>3, <4>4, <4>5, DescriptorAssumption
    <3>3. CASE to = "gone"
      BY <1>4, <1>5, <3>3 DEF Start!Before, Start!PrivHas
    <3>4. QED
      BY <3>1, <3>2, <3>3
  <2>4. (Start!ServerHas(n))' = Start!ServerHas(n) /\ (Start!LoggerHas(n))' = Start!LoggerHas(n)
    BY <1>1, <1>5, <2>1 DEF Start!Before, Start!ServerHas, Start!LoggerHas
  <2>5. QED
    BY <1>5, <2>3, <2>4 DEF Start!IInv, Start!TablesInv
<1>8. Start!OrderInv' /\ Start!SignalKept' /\ Start!CleanExit'
  BY <1>1, <1>5 DEF Start!IInv, Start!OrderInv, Start!SignalKept, Start!CleanExit, Start!Live
<1>9. QED
  BY <1>6, <1>7, <1>8 DEF Start!IInv, Start!TablesInv

(* The processes of K end, and the server may go on by itself.             *)
LEMMA LaunchEnds ==
  ASSUME Start!IInv, NEW K \in SUBSET Start!Procs, UNCHANGED daemon,
         launchPc' \in [Start!Procs -> LaunchPlaces], launchFd' \in [Start!Procs -> LaunchTable],
         \A p \in K : launchPc'[p] = "gone" /\ launchFd'[p] = Start!Closed,
         \A p \in Start!Procs \ K :
           /\ launchFd'[p] = launchFd[p]
           /\ \/ launchPc'[p] = launchPc[p]
              \/ p = "server" /\ launchPc[p] \in LateServer /\ launchPc'[p] \in LateServer
  PROVE  Start!TablesInv'
<1> SUFFICES ASSUME NEW n \in Start!Numbers
             PROVE  (/\ launchFd["priv"][n] = Start!PrivHas(n)
                     /\ launchFd["server"][n] = Start!ServerHas(n)
                     /\ launchFd["logger"][n] = Start!LoggerHas(n))'
  BY DEF Start!TablesInv
<1>1. /\ Start!Inner' = Start!Inner /\ Start!Outer' = Start!Outer
      /\ (Start!Terminal(n))' = Start!Terminal(n)
  BY DEF Start!Inner, Start!Outer, Start!Terminal
<1>2. /\ launchFd["priv"][n] = Start!PrivHas(n) /\ launchFd["server"][n] = Start!ServerHas(n)
      /\ launchFd["logger"][n] = Start!LoggerHas(n) /\ Start!Closed[n] = None
  BY DEF Start!IInv, Start!TablesInv, Start!Closed
<1>3. launchFd'["priv"][n] = (Start!PrivHas(n))'
  BY <1>1, <1>2 DEF Start!Before, Start!PrivHas, Start!Procs
<1>4. launchFd'["server"][n] = (Start!ServerHas(n))'
  <2>1. CASE "server" \in K
    <3>1. launchPc'["server"] = "gone" /\ launchFd'["server"][n] = None
      BY <1>2, <2>1
    <3>2. launchPc'["server"] \in {"none", "gone"}
      BY <3>1
    <3>3. (Start!ServerHas(n))' = None
      BY <3>2 DEF Start!Before, Start!ServerHas
    <3>4. QED
      BY <3>1, <3>3
  <2>2. CASE "server" \notin K
    <3>1. "server" \in Start!Procs \ K
      BY <2>2 DEF Start!Procs
    <3>2. launchFd'["server"] = launchFd["server"]
      BY <3>1
    <3>3. CASE launchPc'["server"] = launchPc["server"]
      BY <1>1, <1>2, <3>2, <3>3 DEF Start!Before, Start!ServerHas
    <3>4. CASE launchPc["server"] \in LateServer /\ launchPc'["server"] \in LateServer
      <4>1. /\ launchPc["server"] \notin {"none", "gone", "forked", "pipe"}
            /\ launchPc'["server"] \notin {"none", "gone", "forked", "pipe"}
        BY <3>4 DEF LateServer
      <4>2. QED
        BY <1>1, <1>2, <3>2, <4>1 DEF Start!Before, Start!ServerHas
    <3>5. QED
      BY <3>1, <3>3, <3>4
  <2>3. QED
    BY <2>1, <2>2
<1>5. launchFd'["logger"][n] = (Start!LoggerHas(n))'
  BY <1>2 DEF Start!LoggerHas, Start!Procs
<1>6. QED
  BY <1>3, <1>4, <1>5

LEMMA LaunchGone ==
  ASSUME Start!IInv,
         \/ Start!DropPrivileges /\ launchPc'["server"] = "gone"
         \/ Start!LoggerEnds \/ Start!KillLogger \/ Start!ServerEnds
  PROVE  Start!IInv'
<1> USE LaunchType DEF Start!Procs, Start!signals, Start!End, Start!To
<1>1. /\ UNCHANGED <<daemon, call, handler, blocked, pending, interrupt, served, cleaned>>
      /\ \/ /\ launchPc["server"] \in {"forked", "answer"}
            /\ launchPc' = [launchPc EXCEPT !["server"] = "gone"]
            /\ launchFd' = [launchFd EXCEPT !["server"] = Start!Closed]
         \/ /\ launchPc["logger"] = "logging"
            /\ launchPc' = [launchPc EXCEPT !["logger"] = "gone"]
            /\ launchFd' = [launchFd EXCEPT !["logger"] = Start!Closed]
         \/ /\ launchPc["server"] = "kill"
            /\ launchPc' = [launchPc EXCEPT !["server"] = "exit", !["logger"] = "gone"]
            /\ launchFd' = [launchFd EXCEPT !["logger"] = Start!Closed]
  <2>1. CASE Start!DropPrivileges /\ launchPc'["server"] = "gone"
    BY <2>1 DEF Start!DropPrivileges
  <2>2. CASE Start!LoggerEnds
    BY <2>2 DEF Start!LoggerEnds
  <2>3. CASE Start!KillLogger
    BY <2>3 DEF Start!KillLogger
  <2>4. CASE Start!ServerEnds
    BY <2>4 DEF Start!ServerEnds
  <2>5. QED
    BY <2>1, <2>2, <2>3, <2>4
<1>2. Start!Closed \in LaunchTable
  BY DEF Start!Closed, LaunchTable
<1>3. /\ launchPc' \in [Start!Procs -> LaunchPlaces] /\ launchFd' \in [Start!Procs -> LaunchTable]
      /\ launchPc'["priv"] = launchPc["priv"] /\ launchFd'["priv"] = launchFd["priv"]
      /\ \/ /\ launchPc["server"] \in {"forked", "answer"} /\ launchPc'["server"] = "gone"
            /\ launchFd'["server"] = Start!Closed
            /\ launchPc'["logger"] = launchPc["logger"] /\ launchFd'["logger"] = launchFd["logger"]
         \/ /\ launchPc["logger"] = "logging" /\ launchPc'["logger"] = "gone"
            /\ launchFd'["logger"] = Start!Closed
            /\ launchPc'["server"] = launchPc["server"] /\ launchFd'["server"] = launchFd["server"]
         \/ /\ launchPc["server"] = "kill" /\ launchPc'["server"] = "exit"
            /\ launchFd'["server"] = launchFd["server"]
            /\ launchPc'["logger"] = "gone" /\ launchFd'["logger"] = Start!Closed
  BY <1>1, <1>2 DEF LaunchPlaces
<1>4. Start!TypeOK'
  BY <1>1, <1>3 DEF Start!IInv, Start!TypeOK, LaunchPlaces, LaunchTable
<1>5. PICK K \in SUBSET Start!Procs :
        /\ \A p \in K : launchPc'[p] = "gone" /\ launchFd'[p] = Start!Closed
        /\ \A p \in Start!Procs \ K :
             /\ launchFd'[p] = launchFd[p]
             /\ \/ launchPc'[p] = launchPc[p]
                \/ p = "server" /\ launchPc[p] \in LateServer /\ launchPc'[p] \in LateServer
  <2>1. CASE launchPc'["server"] = "gone" /\ launchFd'["server"] = Start!Closed
             /\ launchPc'["logger"] = launchPc["logger"] /\ launchFd'["logger"] = launchFd["logger"]
    <3> WITNESS {"server"} \in SUBSET Start!Procs
    <3>1. QED
      BY <1>3, <2>1
  <2>2. CASE launchPc'["logger"] = "gone" /\ launchFd'["logger"] = Start!Closed
             /\ launchFd'["server"] = launchFd["server"]
             /\ \/ launchPc'["server"] = launchPc["server"]
                \/ launchPc["server"] = "kill" /\ launchPc'["server"] = "exit"
    <3> WITNESS {"logger"} \in SUBSET Start!Procs
    <3>1. QED
      BY <1>3, <2>2 DEF LateServer
  <2>3. QED
    BY <1>3, <2>1, <2>2
<1>6. Start!TablesInv'
  BY <1>1, <1>3, <1>5, LaunchEnds
<1>7. Start!OrderInv'
  <2> USE DEF Start!IInv, Start!OrderInv, Start!Live
  <2>1. CASE launchPc["server"] \in {"forked", "answer"} /\ launchPc'["server"] = "gone"
             /\ launchPc'["logger"] = launchPc["logger"]
    BY <1>1, <1>3, <2>1
  <2>2. CASE launchPc["logger"] = "logging" /\ launchPc'["logger"] = "gone"
             /\ launchPc'["server"] = launchPc["server"]
    BY <1>1, <1>3, <2>2
  <2>3. CASE launchPc["server"] = "kill" /\ launchPc'["server"] = "exit"
             /\ launchPc'["logger"] = "gone"
    BY <1>1, <1>3, <2>3
  <2>4. QED
    BY <1>3, <2>1, <2>2, <2>3
<1>8. Start!SignalKept'
  BY <1>1, <1>3 DEF Start!IInv, Start!SignalKept
<1>9. Start!CleanExit'
  BY <1>1, <1>3 DEF Start!IInv, Start!CleanExit, Start!Live
<1>10. QED
  BY <1>4, <1>6, <1>7, <1>8, <1>9 DEF Start!IInv

(* SIGUSR1 kills the processes that are not ready for it.                  *)
LEMMA LaunchSignal == ASSUME Start!IInv, Start!Signal PROVE Start!IInv'
<1> USE LaunchType DEF Start!Procs
<1> DEFINE K == (IF handler THEN {} ELSE {"server"})
                \cup (IF launchPc["priv"] = "exposed" THEN {"priv"} ELSE {})
<1>1. /\ daemon /\ launchPc["server"] \notin {"none", "gone", "forked"}
      /\ launchPc' = [p \in Start!Procs |-> IF p \in K THEN "gone" ELSE launchPc[p]]
      /\ launchFd' = [p \in Start!Procs |-> IF p \in K THEN Start!Closed ELSE launchFd[p]]
      /\ UNCHANGED <<daemon, call, handler, blocked, served, cleaned>>
  BY DEF Start!Signal, Start!Live
<1>2. /\ pending' \in BOOLEAN /\ interrupt' \in BOOLEAN
      /\ interrupt' => handler /\ ~ blocked
  <2>1. handler \in BOOLEAN /\ blocked \in BOOLEAN
    BY DEF Start!IInv, Start!TypeOK
  <2>2. pending' = (handler /\ blocked) /\ interrupt' = (handler /\ ~ blocked)
    BY DEF Start!Signal
  <2>3. QED
    BY <2>1, <2>2
<1>3. Start!Closed \in LaunchTable
  BY DEF Start!Closed, LaunchTable
<1>4. /\ K \in SUBSET Start!Procs
      /\ launchPc' \in [Start!Procs -> LaunchPlaces] /\ launchFd' \in [Start!Procs -> LaunchTable]
      /\ \A p \in K : launchPc'[p] = "gone" /\ launchFd'[p] = Start!Closed
      /\ \A p \in Start!Procs \ K : launchFd'[p] = launchFd[p] /\ launchPc'[p] = launchPc[p]
  BY <1>1, <1>3 DEF LaunchPlaces
<1>5. /\ launchPc'["logger"] = launchPc["logger"]
      /\ launchPc'["server"] = launchPc["server"] \/ (~ handler /\ launchPc'["server"] = "gone")
      /\ \/ launchPc'["priv"] = launchPc["priv"]
         \/ launchPc["priv"] = "exposed" /\ launchPc'["priv"] = "gone"
  BY <1>1
<1> HIDE DEF K
<1>6. Start!TablesInv'
  BY <1>1, <1>4, LaunchEnds
<1>7. Start!TypeOK'
  BY <1>1, <1>2, <1>4, <1>5 DEF Start!IInv, Start!TypeOK, LaunchPlaces, LaunchTable
<1>8. Start!OrderInv'
  BY <1>1, <1>5 DEF Start!IInv, Start!OrderInv, Start!Live
<1>9. Start!SignalKept'
  BY <1>2, <1>5 DEF Start!IInv, Start!OrderInv, Start!SignalKept
<1>10. Start!CleanExit'
  BY <1>1, <1>5 DEF Start!IInv, Start!CleanExit, Start!Live
<1>11. QED
  BY <1>6, <1>7, <1>8, <1>9, <1>10 DEF Start!IInv

(* The server starts: it closes the end of the privileged process, and a   *)
(* daemon has a logger.                                                    *)
LEMMA LaunchDrops ==
  ASSUME Start!IInv, Start!DropPrivileges, launchPc'["server"] # "gone"
  PROVE  Start!IInv'
<1> USE LaunchType DEF Start!Procs, Start!signals, Start!End, Start!To
<1> DEFINE to == IF daemon THEN "pipe" ELSE "init"
<1>1. /\ launchPc["server"] = "forked" /\ launchPc' = [launchPc EXCEPT !["server"] = to]
      /\ launchFd' = [launchFd EXCEPT !["server"] = Start!Close(launchFd["server"], "outer")]
      /\ UNCHANGED <<daemon, call, handler, blocked, pending, interrupt, served, cleaned>>
  BY DEF Start!DropPrivileges
<1>2. /\ Start!Close(launchFd["server"], "outer") \in LaunchTable
      /\ \A n \in Start!Numbers : Start!Close(launchFd["server"], "outer")[n] =
           IF launchFd["server"][n] = "outer" THEN None ELSE launchFd["server"][n]
  BY DEF Start!Close, LaunchTable
<1>3. /\ launchPc' \in [Start!Procs -> LaunchPlaces] /\ launchFd' \in [Start!Procs -> LaunchTable]
      /\ launchPc'["server"] = to /\ launchPc'["priv"] = launchPc["priv"]
      /\ launchPc'["logger"] = launchPc["logger"]
      /\ launchFd'["server"] = Start!Close(launchFd["server"], "outer")
      /\ launchFd'["priv"] = launchFd["priv"] /\ launchFd'["logger"] = launchFd["logger"]
  BY <1>1, <1>2 DEF LaunchPlaces
<1>4. Start!TypeOK'
  BY <1>1, <1>3 DEF Start!IInv, Start!TypeOK, LaunchPlaces, LaunchTable
<1>5. ASSUME NEW n \in Start!Numbers
      PROVE  (/\ launchFd["priv"][n] = Start!PrivHas(n)
              /\ launchFd["server"][n] = Start!ServerHas(n)
              /\ launchFd["logger"][n] = Start!LoggerHas(n))'
  <2>1. /\ Start!Inner' = Start!Inner /\ Start!Outer' = Start!Outer
        /\ (Start!Terminal(n))' = Start!Terminal(n) /\ Start!Inner # Start!Outer
        /\ ~ Start!Terminal(Start!Outer) /\ (daemon => ~ Start!Terminal(n))
    BY <1>1 DEF Start!Inner, Start!Outer, Start!Terminal
  <2>2. launchFd["server"][n] = Start!ServerHas(n)
    BY DEF Start!IInv, Start!TablesInv
  <2>3. launchFd'["server"][n] = (Start!ServerHas(n))'
    BY <1>1, <1>2, <1>3, <2>1, <2>2, DescriptorAssumption DEF Start!Before, Start!ServerHas
  <2>4. (Start!PrivHas(n))' = Start!PrivHas(n) /\ (Start!LoggerHas(n))' = Start!LoggerHas(n)
    BY <1>1, <1>3, <2>1 DEF Start!Before, Start!PrivHas, Start!LoggerHas
  <2>5. QED
    BY <1>3, <2>3, <2>4 DEF Start!IInv, Start!TablesInv
<1>6. Start!OrderInv' /\ Start!SignalKept' /\ Start!CleanExit'
  BY <1>1, <1>3 DEF Start!IInv, Start!OrderInv, Start!SignalKept, Start!CleanExit, Start!Live
<1>7. QED
  BY <1>4, <1>5, <1>6 DEF Start!IInv, Start!TablesInv

LEMMA LaunchLogger == ASSUME Start!IInv, Start!ForkLogger PROVE Start!IInv'
<1> USE LaunchType DEF Start!Procs, Start!signals
<1> DEFINE s == launchFd["server"]
           t1 == Start!Open(s, "read")
           t == Start!Open(t1, "write")
           mine == [Start!Close(t, "read") EXCEPT ![2] = "write"]
           its == [Start!Close(t, "write") EXCEPT ![0] = "read"]
<1>1. /\ launchPc["server"] = "pipe" /\ daemon
      /\ launchPc' = [launchPc EXCEPT !["server"] = "init", !["logger"] = "logging"]
      /\ launchFd' = [launchFd EXCEPT !["server"] = mine, !["logger"] = its]
      /\ UNCHANGED <<daemon, call, handler, blocked, pending, interrupt, served, cleaned>>
  BY DEF Start!ForkLogger, Start!IInv, Start!OrderInv
<1>2. Start!Inner = 0 /\ Start!Outer = 1 /\ \A n \in Start!Numbers : ~ Start!Terminal(n)
  BY <1>1 DEF Start!Inner, Start!Outer, Start!Terminal
<1>3. s \in LaunchTable /\ \A n \in Start!Numbers : s[n] = IF n = 0 THEN "inner" ELSE None
  BY <1>1, <1>2 DEF Start!IInv, Start!TablesInv, Start!Before, Start!ServerHas
<1> HIDE DEF s
<1>4. t1 = [s EXCEPT ![1] = "read"]
  BY <1>3, OpenIs, DescriptorAssumption DEF Start!Numbers
<1>5. /\ t1 \in LaunchTable
      /\ \A n \in Start!Numbers : t1[n] = IF n = 0 THEN "inner" ELSE IF n = 1 THEN "read" ELSE None
  BY <1>3, <1>4 DEF LaunchTable, Start!Numbers
<1> HIDE DEF t1
<1>6. t = [t1 EXCEPT ![2] = "write"]
  BY <1>5, OpenIs, DescriptorAssumption DEF Start!Numbers
<1>7. /\ t \in LaunchTable
      /\ \A n \in Start!Numbers : t[n] = IF n = 0 THEN "inner" ELSE IF n = 1 THEN "read"
                                         ELSE IF n = 2 THEN "write" ELSE None
  BY <1>5, <1>6 DEF LaunchTable, Start!Numbers
<1> HIDE DEF t
<1>8. /\ mine \in LaunchTable /\ its \in LaunchTable
      /\ \A n \in Start!Numbers : mine[n] = IF n = 0 THEN "inner" ELSE IF n = 2 THEN "write" ELSE None
  BY <1>7, DescriptorAssumption DEF LaunchTable, Start!Close, Start!Numbers
<1>9. ASSUME NEW n \in Start!Numbers
      PROVE  its[n] = IF n \in {0, 1} THEN "read" ELSE None
  <2>1. its[n] = IF n = 0 THEN "read" ELSE IF t[n] = "write" THEN None ELSE t[n]
    BY <1>7 DEF Start!Close, LaunchTable
  <2>2. QED
    BY <1>7, <2>1, DescriptorAssumption DEF Start!Numbers
<1> HIDE DEF mine, its
<1>10. /\ launchPc' \in [Start!Procs -> LaunchPlaces] /\ launchFd' \in [Start!Procs -> LaunchTable]
       /\ launchPc'["server"] = "init" /\ launchPc'["priv"] = launchPc["priv"]
       /\ launchPc'["logger"] = "logging" /\ launchFd'["server"] = mine
       /\ launchFd'["priv"] = launchFd["priv"] /\ launchFd'["logger"] = its
  BY <1>1, <1>8 DEF LaunchPlaces
<1>11. Start!TypeOK'
  BY <1>1, <1>10 DEF Start!IInv, Start!TypeOK, LaunchPlaces, LaunchTable
<1>12. ASSUME NEW n \in Start!Numbers
       PROVE  (/\ launchFd["priv"][n] = Start!PrivHas(n)
               /\ launchFd["server"][n] = Start!ServerHas(n)
               /\ launchFd["logger"][n] = Start!LoggerHas(n))'
  <2>1. /\ Start!Inner' = Start!Inner /\ Start!Outer' = Start!Outer
        /\ (Start!Terminal(n))' = Start!Terminal(n)
    BY <1>1 DEF Start!Inner, Start!Outer, Start!Terminal
  <2>2. launchFd["priv"][n] = Start!PrivHas(n)
    BY DEF Start!IInv, Start!TablesInv
  <2>3. QED
    BY <1>1, <1>2, <1>8, <1>9, <1>10, <2>1, <2>2 DEF Start!Before, Start!PrivHas, Start!ServerHas, Start!LoggerHas
<1>13. Start!OrderInv' /\ Start!SignalKept' /\ Start!CleanExit'
  BY <1>1, <1>10 DEF Start!IInv, Start!OrderInv, Start!SignalKept, Start!CleanExit, Start!Live
<1>14. QED
  BY <1>11, <1>12, <1>13 DEF Start!IInv, Start!TablesInv

LEMMA LaunchNext == ASSUME Start!IInv, [Start!Next]_launchVars PROVE Start!IInv'
<1>1. CASE UNCHANGED launchVars
  <2>1. Start!TablesInv'
    <3>1. /\ launchPc' \in [Start!Procs -> LaunchPlaces] /\ launchFd' \in [Start!Procs -> LaunchTable]
          /\ UNCHANGED daemon
          /\ \A p \in Start!Procs \ {} : launchFd'[p] = launchFd[p] /\ launchPc'[p] = launchPc[p]
      BY <1>1, LaunchType DEF launchVars
    <3>2. /\ {} \in SUBSET Start!Procs
          /\ \A p \in {} : launchPc'[p] = "gone" /\ launchFd'[p] = Start!Closed
          /\ \A p \in Start!Procs \ {} :
               /\ launchFd'[p] = launchFd[p]
               /\ \/ launchPc'[p] = launchPc[p]
                  \/ p = "server" /\ launchPc[p] \in LateServer /\ launchPc'[p] \in LateServer
      BY <3>1
    <3>3. QED
      BY <3>1, <3>2, LaunchEnds
  <2>2. Start!TypeOK' /\ Start!OrderInv' /\ Start!SignalKept' /\ Start!CleanExit'
    BY <1>1 DEF launchVars, Start!IInv, Start!TypeOK, Start!OrderInv, Start!SignalKept,
                Start!CleanExit, Start!Live
  <2>3. QED
    BY <2>1, <2>2 DEF Start!IInv
<1>2. CASE Start!Fork
  BY <1>2, LaunchFork
<1>3. CASE Start!Serve \/ Start!LastRequest \/ Start!EndOfChannel \/ Start!Reap
  BY <1>3, LaunchPriv
<1>4. CASE Start!DropPrivileges
  BY <1>4, LaunchDrops, LaunchGone
<1>5. CASE Start!ForkLogger
  BY <1>5, LaunchLogger
<1>6. CASE Start!LoggerEnds \/ Start!KillLogger \/ Start!ServerEnds
  BY <1>6, LaunchGone
<1>7. CASE \/ Start!ServerInit \/ Start!Key \/ Start!Install \/ Start!Block \/ Start!Test
           \/ Start!Suspend \/ Start!Fini \/ Start!Exit
  BY <1>7, LaunchLate
<1>8. CASE Start!Signal
  BY <1>8, LaunchSignal
<1>9. QED
  BY <1>1, <1>2, <1>3, <1>4, <1>5, <1>6, <1>7, <1>8 DEF Start!Next

(* No signal that finds its handler is slept through, each process sees    *)
(* the end of the one it depends on, and the server asks for the last      *)
(* request after it has cleaned up.                                        *)
THEOREM ProcessesAreSafe == PartsSpec => []LaunchSafe
<1>1. ASSUME Start!IInv, [PartsNext]_partsVars PROVE Start!IInv'
  <2>1. [Start!Next]_launchVars
    BY <1>1 DEF PartsNext, Others, partsVars
  <2>2. QED
    BY <1>1, <2>1, LaunchNext
<1>2. QED
  BY <1>1, LaunchInit, LaunchIsSafe, PTL DEF PartsSpec

-----------------------------------------------------------------------------
(* The queue that is polled: what is proved of every ring.                 *)

Ring == INSTANCE SocketQueue_proofs WITH
  Max <- RingSize, Ids <- RingIds, Producers <- RingAdders, Consumers <- {}, pc <- queuePc

LEMMA RingAssumed ==
  /\ Ring!MaxAssumption /\ Ring!IdsAssumption /\ Ring!ThreadsAssumption
  /\ Ring!PollLenAssumption /\ Ring!PaddingAssumption /\ Ring!SingleUse
BY RingAssumption DEF Ring!MaxAssumption, Ring!IdsAssumption, Ring!ThreadsAssumption,
   Ring!PollLenAssumption, Ring!PaddingAssumption, Ring!Threads, Ring!SingleUse

LEMMA RingHelpers ==
  /\ Poll!Cells = Ring!Cells /\ Poll!Threads = Ring!Threads /\ Poll!Busy = Ring!Busy
  /\ \A x : Poll!Wrap(x) = Ring!Wrap(x)
  /\ \A x : Poll!RawRead(x) = Ring!RawRead(x)
  /\ \A x, y : Poll!Between(x, y) = Ring!Between(x, y)
  /\ \A x, y : Poll!Count(x, y) = Ring!Count(x, y)
  /\ \A x, y : Poll!CellAt(x, y) = Ring!CellAt(x, y)
  /\ \A x : Poll!Elements(x) = Ring!Elements(x)
  /\ \A x, y : Poll!Goto(x, y) <=> Ring!Goto(x, y)
<1> USE DEF Poll!Cells, Ring!Cells, Poll!Threads, Ring!Threads, Poll!Busy, Ring!Busy, Poll!Wrap, Ring!Wrap, Poll!RawRead, Ring!RawRead, Poll!Between, Ring!Between, Poll!Count, Ring!Count, Poll!CellAt, Ring!CellAt, Poll!Elements, Ring!Elements, Poll!Goto, Ring!Goto
<1>1. QED
  OBVIOUS

LEMMA RingContents ==
  /\ Poll!Window = Ring!Window /\ Poll!Contents = Ring!Contents
  /\ Poll!Adding = Ring!Adding
  /\ \A x : Poll!NextCell(x) = Ring!NextCell(x)
  /\ \A x : Poll!Polled(x) = Ring!Polled(x)
<1>1. Poll!Window = Ring!Window /\ Poll!Adding = Ring!Adding
  BY RingHelpers DEF Poll!Window, Ring!Window, Poll!Adding, Ring!Adding
<1>2. Poll!Contents = Ring!Contents
  BY RingHelpers DEF Poll!Contents, Ring!Contents
<1>3. \A x : Poll!NextCell(x) = Ring!NextCell(x)
  BY RingHelpers DEF Poll!NextCell, Ring!NextCell
<1>4. \A S : Poll!Cardinality(S) = Ring!Cardinality(S)
  BY DEF Poll!Cardinality, Ring!Cardinality
<1>5. \A x : Poll!Polled(x) = Ring!Polled(x)
  BY <1>2, <1>4 DEF Poll!Polled, Ring!Polled
<1>6. QED
  BY <1>1, <1>2, <1>3, <1>5

LEMMA RingElements == Poll!Elements(Poll!Contents) = Ring!Elements(Ring!Contents)
BY RingHelpers, RingContents

LEMMA RingSame == Poll!IInv <=> Ring!IInv
<1>1. Poll!TypeOK <=> Ring!TypeOK
  BY RingHelpers DEF Poll!TypeOK, Ring!TypeOK
<1>2. Poll!LockInv <=> Ring!LockInv
  BY RingHelpers, RingContents DEF Poll!LockInv, Ring!LockInv
<1>3. Poll!RingInv <=> Ring!RingInv
  BY RingHelpers, RingContents DEF Poll!RingInv, Ring!RingInv
<1>4. Poll!OnePlace <=> Ring!OnePlace
  BY RingHelpers, RingContents DEF Poll!OnePlace, Ring!OnePlace
<1>5. QED
  BY <1>1, <1>2, <1>3, <1>4 DEF Poll!IInv, Ring!IInv

LEMMA RingNext == Poll!Next <=> Ring!Next
<1>1. \A t \in RingAdders : Poll!Add(t) <=> Ring!Add(t)
  <2>1. \A t : Poll!AddZero(t) <=> Ring!AddZero(t)
    BY RingHelpers DEF Poll!AddZero, Ring!AddZero
  <2>2. \A t, x : Poll!AddLock(t, x) <=> Ring!AddLock(t, x)
    BY RingHelpers DEF Poll!AddLock, Ring!AddLock
  <2>3. \A t : Poll!AddStore(t) <=> Ring!AddStore(t)
    BY RingHelpers, RingContents DEF Poll!AddStore, Ring!AddStore
  <2>4. QED
    BY <2>1, <2>2, <2>3 DEF Poll!Add, Ring!Add
<1>2. \A t \in Pollers : Poll!Poll(t) <=> Ring!Poll(t)
  <2>1. \A t : Poll!PollHead(t) <=> Ring!PollHead(t)
    BY RingHelpers DEF Poll!PollHead, Ring!PollHead
  <2>2. \A t : Poll!PollTail(t) <=> Ring!PollTail(t)
    BY RingHelpers DEF Poll!PollTail, Ring!PollTail
  <2>3. \A t : Poll!PollScan(t) <=> Ring!PollScan(t)
    BY RingHelpers, RingContents DEF Poll!PollScan, Ring!PollScan, Poll!ClearQueue, Ring!ClearQueue
  <2>4. QED
    BY <2>1, <2>2, <2>3 DEF Poll!Poll, Ring!Poll
<1>3. QED
  BY <1>1, <1>2 DEF Poll!Next, Ring!Next

LEMMA RingInit == PartsInit => Poll!IInv
<1> SUFFICES ASSUME Poll!Init PROVE Ring!IInv
  BY RingSame DEF PartsInit
<1>1. Ring!Init
  BY RingHelpers DEF Poll!Init, Ring!Init
<1>2. QED
  BY <1>1, RingAssumed, Ring!InitInv

LEMMA RingStep == ASSUME Poll!IInv, [Poll!Next]_pollVars PROVE Poll!IInv'
<1>1. Ring!IInv /\ [Ring!Next]_(Ring!vars)
  BY RingSame, RingNext DEF Ring!vars, pollVars
<1>2. Ring!IInv'
  BY <1>1, RingAssumed, Ring!StepInv
<1>3. (Poll!IInv <=> Ring!IInv)'
  BY RingSame, PTL
<1>4. QED
  BY <1>2, <1>3

(* The ring of an event loop keeps every identifier once and ends where    *)
(* its mark is, however large it is and however many threads poll it.      *)
THEOREM PolledRingIsSafe == PartsSpec => []PollInv
<1>1. ASSUME Poll!IInv, [PartsNext]_partsVars PROVE Poll!IInv'
  <2>1. [Poll!Next]_pollVars
    BY <1>1 DEF PartsNext, Others, partsVars
  <2>2. QED
    BY <1>1, <2>1, RingStep
<1>2. Poll!IInv => PollInv
  <2>1. Ring!IInv => Ring!EndMark
    BY RingAssumed, Ring!EndMarkHolds
  <2>2. Poll!EndMark <=> Ring!EndMark
    BY RingHelpers DEF Poll!EndMark, Ring!EndMark
  <2>3. QED
    BY <2>1, <2>2, RingSame DEF PollInv
<1>3. QED
  BY <1>1, <1>2, RingInit, PTL DEF PartsSpec

(* A poll that empties the ring leaves no identifier behind.               *)
THEOREM PolledRingTakesAll == PartsSpec => PollTakesAll
<1>1. ASSUME Poll!IInv, [PartsNext]_partsVars PROVE Poll!IInv'
  <2>1. [Poll!Next]_pollVars
    BY <1>1 DEF PartsNext, Others, partsVars
  <2>2. QED
    BY <1>1, <2>1, RingStep
<1>2. ASSUME Poll!IInv, [PartsNext]_partsVars, NEW t \in Pollers,
             queuePc[t] = "poll_scan", queuePc'[t] = "idle"
      PROVE  Poll!Elements(Poll!Contents) \subseteq Poll!Elements(Poll!Contents)' \cup held'
  <2>1. [Poll!Next]_pollVars
    BY <1>2 DEF PartsNext, Others, partsVars
  <2>2. Ring!IInv /\ [Ring!Next]_(Ring!vars)
    BY <1>2, <2>1, RingSame, RingNext DEF Ring!vars, pollVars
  <2>3. Ring!Elements(Ring!Contents) \subseteq Ring!Elements(Ring!Contents)' \cup held'
    BY <1>2, <2>2, RingAssumed, Ring!TakesAllStep
  <2>4. Poll!Elements(Poll!Contents) = Ring!Elements(Ring!Contents)
    BY RingElements
  <2>5. (Poll!Elements(Poll!Contents) = Ring!Elements(Ring!Contents))'
    BY RingElements, PTL
  <2>6. QED
    BY <2>3, <2>4, <2>5
<1>3. Poll!IInv /\ [PartsNext]_partsVars =>
        [\A t \in Pollers : queuePc[t] = "poll_scan" /\ queuePc'[t] = "idle" =>
           Poll!Elements(Poll!Contents) \subseteq Poll!Elements(Poll!Contents)' \cup held']_(Poll!vars)
  BY <1>2
<1>4. QED
  BY <1>1, <1>3, RingInit, PTL DEF PartsSpec, PollTakesAll, Poll!PollTakesAll

=============================================================================
