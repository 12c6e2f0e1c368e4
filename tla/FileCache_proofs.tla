-------------------------- MODULE FileCache_proofs --------------------------
(* Proofs about the file cache, for any number of threads, of paths and of *)
(* structures: nothing is freed under its users.                           *)
EXTENDS Services, FiniteSetTheorems, TLAPS

LEMMA SameCount == \A S : Cache!Cardinality(S) = Cardinality(S)
BY DEF Cache!Cardinality, Cardinality

LEMMA FilesInit == PartsInit => Cache!IInv
<1> SUFFICES ASSUME PartsInit PROVE Cache!IInv
  OBVIOUS
<1> USE FilesAssumption DEF PartsInit, Cache!Init, Cache!Idle
<1>1. Cache!TypeOK
  BY DEF Cache!TypeOK, Cache!Places, Cache!Ops
<1>2. Cache!PlaceInv
  BY DEF Cache!PlaceInv, Cache!Busy, Cache!Idle
<1>3. Cache!TrieInv
  BY DEF Cache!TrieInv
<1>4. Cache!LockInv
  BY DEF Cache!LockInv, Cache!Holder
<1>5. Cache!CountInv
  BY DEF Cache!CountInv, Cache!Unseen, Cache!Busy
<1>6. QED
  BY <1>1, <1>2, <1>3, <1>4, <1>5 DEF Cache!IInv

(* A step of one thread that leaves the trie, the structures and their     *)
(* counts alone, and neither begins nor ends the close of a file whose     *)
(* mapping was never replaced.                                             *)
LEMMA CountKept ==
  ASSUME Cache!IInv, NEW t \in FileThreads,
         UNCHANGED <<cache, live, path, refs, remapped, holds>>,
         \A f \in Files : lock'[f] = -1 <=> lock[f] = -1,
         \A u \in FileThreads : u # t => fileOp'[u] = fileOp[u],
         \A f \in Files : path[f] \notin remapped =>
           /\ (fileOp[t].pc = "close" /\ fileOp[t].cur = f) <=> (fileOp'[t].pc = "close" /\ fileOp'[t].cur = f)
           /\ ~ (fileOp'[t].pc = "close_remove" /\ fileOp'[t].cur = f)
           /\ fileOp'[t].old = f => f \in live
           /\ Cache!Busy(t)' /\ fileOp'[t].cur = f => f \in live
  PROVE  Cache!CountInv'
<1> USE DEF Cache!IInv
<1> SUFFICES ASSUME NEW f \in Files, path[f] \notin remapped
             PROVE  (f \in live => Cache!Counted(f)') /\ (f \notin live => Cache!Unseen(f)')
  BY DEF Cache!CountInv
<1>1. Cache!References(f)' = Cache!References(f)
  BY DEF Cache!References
<1>2. \A u \in FileThreads \ {t} : Cache!Busy(u)' <=> Cache!Busy(u)
  BY DEF Cache!Busy
<1>3. (f \in live => Cache!Counted(f)) /\ (f \notin live => Cache!Unseen(f))
  BY DEF Cache!CountInv
<1>4. CASE f \in live
  BY <1>1, <1>3, <1>4 DEF Cache!Counted
<1>5. CASE f \notin live
  BY <1>2, <1>3, <1>5 DEF Cache!Unseen
<1>6. QED
  BY <1>4, <1>5

(* What the steps of an operation do to the state of their thread.         *)
FileStep(t) ==
  /\ \A u \in FileThreads : u # t => fileOp'[u] = fileOp[u]
  /\ fileOp' = [fileOp EXCEPT ![t] = fileOp'[t]]
  /\ fileOp'[t] \in Cache!Ops

LEMMA ToIs ==
  ASSUME Cache!TypeOK, NEW t \in FileThreads, NEW l \in Cache!Places, Cache!To(t, l)
  PROVE  /\ FileStep(t) /\ fileOp'[t].pc = l
         /\ fileOp'[t].want = fileOp[t].want /\ fileOp'[t].mode = fileOp[t].mode
         /\ fileOp'[t].cur = fileOp[t].cur /\ fileOp'[t].old = fileOp[t].old
BY DEF Cache!TypeOK, Cache!To, Cache!Ops, FileStep

LEMMA DoneIs ==
  ASSUME Cache!TypeOK, NEW t \in FileThreads, Cache!Done(t)
  PROVE  FileStep(t) /\ fileOp'[t] = Cache!Idle
BY DEF Cache!TypeOK, Cache!Done, Cache!Ops, Cache!Idle, Cache!Places, FileStep

LEMMA MapEndIs ==
  ASSUME Cache!TypeOK, NEW t \in FileThreads, NEW done \in BOOLEAN, Cache!MapEnd(t, done)
  PROVE  /\ FileStep(t)
         /\ fileOp'[t].old = fileOp[t].old
         /\ IF fileOp[t].old = None THEN fileOp'[t] = Cache!Idle
            ELSE /\ fileOp'[t].pc \in {"rename_done", "rename_failed"}
                 /\ fileOp'[t].cur = fileOp[t].cur
<1>1. CASE fileOp[t].old = None
  BY <1>1, DoneIs DEF Cache!MapEnd, Cache!Idle
<1>2. CASE fileOp[t].old # None
  BY <1>2, ToIs DEF Cache!MapEnd, Cache!Places
<1>3. QED
  BY <1>1, <1>2

(* A lookup begins.                                                        *)
LEMMA FilesLookup ==
  ASSUME Cache!IInv, NEW t \in FileThreads, NEW p \in Paths,
         \/ \E m \in {{"shared"}, {"shared", "create"}} : Cache!Open(t, p, m)
         \/ \E m \in {{}, {"replace"}} : Cache!Map(t, p, m)
  PROVE  Cache!IInv'
<1> USE DEF Cache!IInv
<1>1. PICK m \in {{"shared"}, {"shared", "create"}, {}, {"replace"}}, l \in {"open", "map"} :
        /\ fileOp[t].pc = "idle" /\ Cache!Lookup(t, p, m, None, l)
        /\ l = "open" => \A f \in Files : holds[t][f] < Uses
        /\ UNCHANGED <<disk, cache, live, Cache!fields, remapped, holds>>
  BY DEF Cache!Open, Cache!Map
<1>2. /\ fileOp[t].old = None /\ fileOp[t].cur = None
      /\ \A u \in FileThreads : u # t => fileOp'[u] = fileOp[u]
      /\ fileOp'[t].want = p /\ fileOp'[t].mode = m
      /\ fileOp'[t].cur = cache[p] /\ fileOp'[t].old = None
      /\ fileOp'[t].pc = IF cache[p] = None THEN Cache!Missing[l] ELSE Cache!Waiting[l]
      /\ fileOp'[t] \in Cache!Ops
      /\ fileOp' = [fileOp EXCEPT ![t] = fileOp'[t]]
  BY <1>1 DEF Cache!Lookup, Cache!TypeOK, Cache!PlaceInv, Cache!Idle, Cache!Places, Cache!Ops,
     Cache!Missing, Cache!Waiting
<1>3. fileOp'[t].pc \in {"open_none", "open_wait", "map_none", "map_wait"}
  BY <1>2 DEF Cache!Missing, Cache!Waiting
<1>4. Cache!TypeOK'
  BY <1>1, <1>2 DEF Cache!TypeOK, Cache!fields
<1>5. Cache!PlaceInv'
  BY <1>1, <1>2, <1>3 DEF Cache!PlaceInv, Cache!Busy, Cache!TrieInv, Cache!fields,
     Cache!Missing, Cache!Waiting
<1>6. Cache!TrieInv'
  BY <1>1 DEF Cache!TrieInv, Cache!fields
<1>7. Cache!LockInv'
  BY <1>1, <1>2, <1>3, FilesAssumption DEF Cache!LockInv, Cache!Holder, Cache!fields
<1>8. Cache!CountInv'
  BY <1>1, <1>2, <1>3, CountKept, FilesAssumption DEF Cache!TrieInv, Cache!fields
<1>9. QED
  BY <1>4, <1>5, <1>6, <1>7, <1>8


(* A lookup gets the lock of what it found, or finds it broken.            *)
LEMMA FilesAcquire ==
  ASSUME Cache!IInv, NEW t \in FileThreads, NEW l \in {"open", "map"}, Cache!Acquire(t, l)
  PROVE  Cache!IInv'
<1> USE DEF Cache!IInv
<1> DEFINE f == fileOp[t].cur
<1>1. /\ fileOp[t].pc = Cache!Waiting[l] /\ fileOp[t].pc \in {"open_wait", "map_wait"}
      /\ f \in Files /\ lock[f] # 0
      /\ UNCHANGED <<disk, cache, live, path, refs, flags, viewed, remapped, holds>>
  BY DEF Cache!Acquire, Cache!Waiting, Cache!TypeOK, Cache!Ops, Cache!PlaceInv, Cache!Busy
<1>2. CASE lock[f] = -1
  <2>1. /\ FileStep(t) /\ lock' = lock
        /\ fileOp'[t].pc = Cache!Missing[l] /\ fileOp'[t].pc \in {"open_none", "map_none"}
        /\ fileOp'[t].want = fileOp[t].want /\ fileOp'[t].cur = None
        /\ fileOp'[t].old = fileOp[t].old
    BY <1>2 DEF Cache!Acquire, Cache!TypeOK, Cache!Ops, Cache!Missing, Cache!Places, FileStep
  <2>2. Cache!TypeOK'
    BY <1>1, <2>1 DEF Cache!TypeOK, FileStep
  <2>3. Cache!PlaceInv'
    BY <1>1, <2>1, FilesAssumption DEF Cache!PlaceInv, Cache!Busy, FileStep, Cache!Missing,
       Cache!Waiting
  <2>4. Cache!TrieInv'
    BY <1>1 DEF Cache!TrieInv
  <2>5. Cache!LockInv'
    BY <1>1, <2>1, FilesAssumption DEF Cache!LockInv, Cache!Holder, FileStep
  <2>6. Cache!CountInv'
    <3>1. \A g \in Files : path[g] \notin remapped /\ fileOp[t].old = g => g \in live
      BY DEF Cache!CountInv, Cache!Unseen
    <3>2. QED
      BY <1>1, <2>1, <3>1, CountKept, FilesAssumption DEF FileStep, Cache!Busy
  <2>7. QED
    BY <2>2, <2>3, <2>4, <2>5, <2>6
<1>3. CASE lock[f] # -1
  <2>1. /\ FileStep(t) /\ lock' = [lock EXCEPT ![f] = 0]
        /\ fileOp'[t].pc = Cache!Met[l] /\ fileOp'[t].pc \in {"open_found", "map_found"}
        /\ fileOp'[t].want = fileOp[t].want /\ fileOp'[t].cur = f
        /\ fileOp'[t].old = fileOp[t].old
    BY <1>3, ToIs DEF Cache!Acquire, Cache!Met, Cache!Places
  <2>2. Cache!TypeOK'
    BY <1>1, <2>1 DEF Cache!TypeOK, FileStep
  <2>3. Cache!PlaceInv'
    BY <1>1, <2>1 DEF Cache!PlaceInv, Cache!Busy, FileStep, Cache!Met, Cache!Waiting
  <2>4. Cache!TrieInv'
    BY <1>1 DEF Cache!TrieInv
  <2>5. Cache!LockInv'
    <3>1. \A u \in FileThreads : ~ Cache!Holder(u, f)
      BY <1>1 DEF Cache!LockInv
    <3>2. \A u \in FileThreads, g \in Files :
            Cache!Holder(u, g)' <=> Cache!Holder(u, g) \/ (u = t /\ g = f)
      BY <1>1, <2>1 DEF Cache!Holder, FileStep
    <3>3. \A g \in Files \ {f} : lock'[g] = lock[g]
      BY <2>1 DEF Cache!TypeOK
    <3>4. lock'[f] = 0
      BY <1>1, <2>1 DEF Cache!TypeOK
    <3>5. fileOp'[t].old # fileOp'[t].cur
      BY <2>1, <3>1 DEF Cache!Holder
    <3>6. QED
      BY <1>1, <2>1, <3>1, <3>2, <3>3, <3>4, <3>5 DEF Cache!LockInv, FileStep
  <2>6. Cache!CountInv'
    <3>1. \A g \in Files : path[g] \notin remapped =>
            /\ fileOp[t].old = g => g \in live
            /\ f = g => g \in live
      BY <1>1 DEF Cache!CountInv, Cache!Unseen, Cache!Busy
    <3>2. \A g \in Files : lock'[g] = -1 <=> lock[g] = -1
      BY <1>1, <1>3, <2>1 DEF Cache!TypeOK
    <3>3. QED
      BY <1>1, <2>1, <3>1, <3>2, CountKept DEF FileStep, Cache!Busy
  <2>7. QED
    BY <2>2, <2>3, <2>4, <2>5, <2>6
<1>4. QED
  BY <1>2, <1>3

(* A thread gives up the lock of a structure.                              *)
LEMMA LockReleased ==
  ASSUME Cache!IInv, NEW t \in FileThreads, NEW f \in Files, Cache!Holder(t, f),
         lock' = Cache!Unlocked(f), FileStep(t), fileOp'[t].pc # "map_found",
         \A g \in Files : Cache!Holder(t, g)' <=> Cache!Holder(t, g) /\ g # f
  PROVE  Cache!LockInv' /\ lock' = [lock EXCEPT ![f] = 1] /\ lock[f] = 0
<1> USE DEF Cache!IInv
<1>1. lock[f] = 0
  BY DEF Cache!LockInv
<1>2. lock' = [lock EXCEPT ![f] = 1]
  BY <1>1 DEF Cache!Unlocked, Cache!TypeOK
<1>3. \A u \in FileThreads, g \in Files :
        Cache!Holder(u, g)' <=> Cache!Holder(u, g) /\ g # f
  <2> SUFFICES ASSUME NEW u \in FileThreads, NEW g \in Files, u # t
               PROVE  Cache!Holder(u, g)' <=> Cache!Holder(u, g) /\ g # f
    OBVIOUS
  <2>1. Cache!Holder(u, g)' <=> Cache!Holder(u, g)
    BY DEF Cache!Holder, FileStep
  <2>2. ~ Cache!Holder(u, f)
    BY DEF Cache!LockInv
  <2>3. QED
    BY <2>1, <2>2
<1>4. lock'[f] = 1 /\ \A g \in Files \ {f} : lock'[g] = lock[g]
  BY <1>2 DEF Cache!TypeOK
<1>5. \A u \in FileThreads \ {t} : fileOp'[u] = fileOp[u]
  BY DEF FileStep
<1>6. Cache!LockInv'
  BY <1>3, <1>4, <1>5 DEF Cache!LockInv
<1>7. QED
  BY <1>1, <1>2, <1>6

(* A step that takes and gives up no lock.                                 *)
LEMMA LockKept ==
  ASSUME Cache!IInv, NEW t \in FileThreads, lock' = lock, FileStep(t),
         fileOp'[t].pc # "map_found",
         \A g \in Files : Cache!Holder(t, g)' <=> Cache!Holder(t, g)
  PROVE  Cache!LockInv'
<1> USE DEF Cache!IInv
<1>1. \A u \in FileThreads, g \in Files : Cache!Holder(u, g)' <=> Cache!Holder(u, g)
  BY DEF Cache!Holder, FileStep
<1>2. \A u \in FileThreads \ {t} : fileOp'[u] = fileOp[u]
  BY DEF FileStep
<1>3. QED
  BY <1>1, <1>2 DEF Cache!LockInv

(* What a thread works on is allocated.                                    *)
LEMMA WorkedOn ==
  ASSUME Cache!IInv, NEW t \in FileThreads, NEW f \in Files, path[f] \notin remapped,
         fileOp[t].old = f \/ (Cache!Busy(t) /\ fileOp[t].cur = f) \/ holds[t][f] # 0
  PROVE  f \in live
BY DEF Cache!IInv, Cache!CountInv, Cache!Unseen

(* The end of an operation leaves its thread nothing but, in fs_rename, the *)
(* old mapping.                                                            *)
LEMMA EndPlace ==
  ASSUME Cache!IInv, NEW t \in FileThreads, UNCHANGED <<cache, path, viewed, holds, remapped>>,
         FileStep(t),
         \/ fileOp'[t] = Cache!Idle
         \/ /\ fileOp'[t].pc \in {"rename_done", "rename_failed"} /\ fileOp'[t].old # None
            /\ fileOp'[t].cur = fileOp[t].cur
  PROVE  Cache!PlaceInv'
<1> USE DEF Cache!IInv
<1>1. CASE fileOp'[t] = Cache!Idle
  <2> SUFFICES ASSUME NEW u \in FileThreads PROVE Cache!PlaceInv!(u)'
    BY DEF Cache!PlaceInv
  <2>1. CASE u = t
    BY <1>1, <2>1, FilesAssumption DEF Cache!PlaceInv, Cache!Busy, Cache!Idle
  <2>2. CASE u # t
    BY <2>2 DEF Cache!PlaceInv, Cache!Busy, FileStep
  <2>3. QED
    BY <2>1, <2>2
<1>2. CASE fileOp'[t] # Cache!Idle
  BY <1>2 DEF Cache!PlaceInv, Cache!Busy, FileStep
<1>3. QED
  BY <1>1, <1>2

(* The file is not there, or it is opened.                                 *)
LEMMA FilesPhysical ==
  ASSUME Cache!IInv, NEW t \in FileThreads, Cache!OpenPhysical(t)
  PROVE  Cache!IInv'
<1> USE DEF Cache!IInv
<1>1. /\ fileOp[t].pc = "open_none" /\ fileOp[t].old = None /\ fileOp[t].want \in Paths
      /\ UNCHANGED <<cache, live, path, refs, lock, flags, viewed, remapped, holds>>
  BY DEF Cache!OpenPhysical, Cache!PlaceInv, Cache!fields
<1>2. /\ FileStep(t) /\ fileOp'[t].old = None
      /\ \/ fileOp'[t] = Cache!Idle
         \/ /\ fileOp'[t].pc = "open_insert" /\ fileOp'[t].want = fileOp[t].want
            /\ fileOp'[t].cur = fileOp[t].cur
  <2>1. CASE Cache!Done(t)
    BY <2>1, DoneIs DEF Cache!Idle
  <2>2. CASE Cache!To(t, "open_insert")
    BY <1>1, <2>2, ToIs DEF Cache!Places
  <2>3. QED
    BY <2>1, <2>2 DEF Cache!OpenPhysical
<1>3. Cache!TypeOK'
  BY <1>1, <1>2 DEF Cache!TypeOK, Cache!OpenPhysical, FileStep
<1>4. Cache!PlaceInv'
  <2>1. CASE fileOp'[t] = Cache!Idle
    BY <1>1, <1>2, <2>1, EndPlace
  <2>2. CASE fileOp'[t] # Cache!Idle
    BY <1>1, <1>2, <2>2 DEF Cache!PlaceInv, Cache!Busy, FileStep
  <2>3. QED
    BY <2>1, <2>2
<1>5. Cache!TrieInv'
  BY <1>1 DEF Cache!TrieInv
<1>6. Cache!LockInv'
  <2>1. \A g \in Files : Cache!Holder(t, g)' <=> Cache!Holder(t, g)
    BY <1>1, <1>2, FilesAssumption DEF Cache!Holder, Cache!Idle
  <2>2. QED
    BY <1>1, <1>2, <2>1, LockKept DEF Cache!Idle
<1>7. Cache!CountInv'
  BY <1>1, <1>2, CountKept, FilesAssumption DEF FileStep, Cache!Busy, Cache!Idle
<1>8. QED
  BY <1>3, <1>4, <1>5, <1>6, <1>7

(* The mapping that was found may be replaced, or not.                     *)
LEMMA FilesMapFound ==
  ASSUME Cache!IInv, NEW t \in FileThreads, Cache!MapFound(t)
  PROVE  Cache!IInv'
<1> USE DEF Cache!IInv
<1> DEFINE f == fileOp[t].cur
<1>1. /\ fileOp[t].pc = "map_found" /\ f \in Files
      /\ Cache!Holder(t, f) /\ fileOp[t].old # f /\ fileOp[t].want \in Paths
      /\ lock' = Cache!Unlocked(f)
      /\ UNCHANGED <<disk, cache, live, path, refs, flags, viewed, remapped, holds>>
  BY DEF Cache!MapFound, Cache!PlaceInv, Cache!Busy, Cache!TypeOK, Cache!Ops, Cache!Holder,
     Cache!LockInv
<1>2. /\ FileStep(t) /\ fileOp'[t].pc \in {"map_update", "map_refused"}
      /\ fileOp'[t].want = fileOp[t].want /\ fileOp'[t].cur = f
      /\ fileOp'[t].old = fileOp[t].old
  <2>1. PICK l \in {"map_update", "map_refused"} : Cache!To(t, l)
    BY DEF Cache!MapFound
  <2>2. QED
    BY <2>1, ToIs DEF Cache!Places
<1>3. Cache!LockInv' /\ lock' = [lock EXCEPT ![f] = 1] /\ lock[f] = 0
  <2>1. \A g \in Files : Cache!Holder(t, g)' <=> Cache!Holder(t, g) /\ g # f
    BY <1>1, <1>2 DEF Cache!Holder
  <2>2. QED
    BY <1>1, <1>2, <2>1, LockReleased
<1>4. Cache!TypeOK'
  BY <1>1, <1>2, <1>3 DEF Cache!TypeOK, FileStep
<1>5. Cache!PlaceInv'
  BY <1>1, <1>2 DEF Cache!PlaceInv, Cache!Busy, FileStep
<1>6. Cache!TrieInv'
  BY <1>1 DEF Cache!TrieInv
<1>7. Cache!CountInv'
  <2>1. \A g \in Files : lock'[g] = -1 <=> lock[g] = -1
    BY <1>3 DEF Cache!TypeOK
  <2>2. QED
    BY <1>1, <1>2, <2>1, CountKept, WorkedOn DEF FileStep, Cache!Busy
<1>8. QED
  BY <1>3, <1>4, <1>5, <1>6, <1>7

(* A mapping that was refused ends its caller, or lets fs_rename go on.    *)
LEMMA FilesMapRefused ==
  ASSUME Cache!IInv, NEW t \in FileThreads, Cache!MapRefused(t)
  PROVE  Cache!IInv'
<1> USE DEF Cache!IInv
<1>1. /\ fileOp[t].pc = "map_refused"
      /\ UNCHANGED <<disk, cache, live, path, refs, lock, flags, viewed, remapped, holds>>
  BY DEF Cache!MapRefused, Cache!fields
<1>2. /\ FileStep(t)
      /\ fileOp'[t].old = fileOp[t].old
      /\ IF fileOp[t].old = None THEN fileOp'[t] = Cache!Idle
         ELSE /\ fileOp'[t].pc \in {"rename_done", "rename_failed"}
              /\ fileOp'[t].cur = fileOp[t].cur
  BY MapEndIs DEF Cache!MapRefused
<1>3. Cache!TypeOK'
  BY <1>1, <1>2 DEF Cache!TypeOK, FileStep
<1>4. Cache!PlaceInv'
  BY <1>1, <1>2, EndPlace
<1>5. Cache!TrieInv'
  BY <1>1 DEF Cache!TrieInv
<1>6. Cache!LockInv'
  <2>1. \A g \in Files : Cache!Holder(t, g)' <=> Cache!Holder(t, g)
    BY <1>1, <1>2, FilesAssumption DEF Cache!Holder, Cache!Idle
  <2>2. QED
    BY <1>1, <1>2, <2>1, LockKept DEF Cache!Idle
<1>7. Cache!CountInv'
  BY <1>1, <1>2, CountKept, WorkedOn, FilesAssumption DEF FileStep, Cache!Busy, Cache!Idle
<1>8. QED
  BY <1>3, <1>4, <1>5, <1>6, <1>7

(* fs_rename holds the lock of the old mapping and looks the new one up.   *)
LEMMA FilesRenameMapping ==
  ASSUME Cache!IInv, NEW t \in FileThreads, NEW p \in Paths, NEW q \in Paths,
         Cache!RenameMapping(t, p, q)
  PROVE  Cache!IInv'
<1> USE DEF Cache!IInv
<1> DEFINE f == cache[p]
<1>1. /\ fileOp[t].pc = "idle" /\ fileOp[t].old = None /\ fileOp[t].cur = None
      /\ f \in Files /\ f \in live /\ lock[f] = 1 /\ lock' = [lock EXCEPT ![f] = 0]
      /\ UNCHANGED <<disk, cache, live, path, refs, flags, viewed, remapped, holds>>
  BY DEF Cache!RenameMapping, Cache!TypeOK, Cache!TrieInv, Cache!PlaceInv, Cache!Idle
<1>2. /\ FileStep(t) /\ fileOp'[t].pc \in {"map_none", "map_wait"}
      /\ fileOp'[t].want = q /\ fileOp'[t].old = f /\ fileOp'[t].cur = cache[q]
      /\ fileOp'[t].pc = "map_wait" => cache[q] # None
  BY DEF Cache!RenameMapping, Cache!Lookup, Cache!TypeOK, Cache!Ops, Cache!Places,
     Cache!Missing, Cache!Waiting, FileStep
<1>3. Cache!TypeOK'
  BY <1>1, <1>2 DEF Cache!TypeOK, FileStep
<1>4. Cache!PlaceInv'
  BY <1>1, <1>2 DEF Cache!PlaceInv, Cache!Busy, Cache!TrieInv, FileStep
<1>5. Cache!TrieInv'
  BY <1>1 DEF Cache!TrieInv
<1>6. Cache!LockInv'
  <2>1. \A u \in FileThreads, g \in Files :
          Cache!Holder(u, g)' <=> Cache!Holder(u, g) \/ (u = t /\ g = f)
    BY <1>1, <1>2, FilesAssumption DEF Cache!Holder, FileStep
  <2>2. \A u \in FileThreads : ~ Cache!Holder(u, f)
    BY <1>1 DEF Cache!LockInv
  <2>3. lock'[f] = 0 /\ \A g \in Files \ {f} : lock'[g] = lock[g]
    BY <1>1 DEF Cache!TypeOK
  <2>4. \A u \in FileThreads \ {t} : fileOp'[u] = fileOp[u]
    BY <1>2 DEF FileStep
  <2>5. QED
    BY <1>2, <2>1, <2>2, <2>3, <2>4 DEF Cache!LockInv
<1>7. Cache!CountInv'
  <2>1. \A g \in Files : lock'[g] = -1 <=> lock[g] = -1
    BY <1>1 DEF Cache!TypeOK
  <2>2. QED
    BY <1>1, <1>2, <2>1, CountKept DEF FileStep, Cache!Busy, Cache!TrieInv
<1>8. QED
  BY <1>3, <1>4, <1>5, <1>6, <1>7

(* fs_rename gives the lock of the old mapping up.                         *)
LEMMA FilesRenameEnd ==
  ASSUME Cache!IInv, NEW t \in FileThreads, Cache!RenameEnd(t)
  PROVE  Cache!IInv'
<1> USE DEF Cache!IInv
<1> DEFINE f == fileOp[t].old
<1>1. /\ fileOp[t].pc \in {"rename_done", "rename_failed"} /\ f \in Files
      /\ Cache!Holder(t, f) /\ lock' = Cache!Unlocked(f)
      /\ UNCHANGED <<disk, cache, live, path, refs, viewed, remapped, holds>>
  BY DEF Cache!RenameEnd, Cache!PlaceInv, Cache!TypeOK, Cache!Ops, Cache!Holder
<1>2. FileStep(t) /\ fileOp'[t] = Cache!Idle
  BY DoneIs DEF Cache!RenameEnd
<1>3. Cache!LockInv' /\ lock' = [lock EXCEPT ![f] = 1] /\ lock[f] = 0
  <2>1. \A g \in Files : Cache!Holder(t, g)' <=> Cache!Holder(t, g) /\ g # f
    BY <1>1, <1>2, FilesAssumption DEF Cache!Holder, Cache!Idle
  <2>2. QED
    BY <1>1, <1>2, <2>1, LockReleased DEF Cache!Idle
<1>4. Cache!TypeOK'
  <2>1. flags' \in [Files -> SUBSET {"virtual", "private", "deleted"}]
    BY DEF Cache!RenameEnd, Cache!TypeOK
  <2>2. QED
    BY <1>1, <1>2, <1>3, <2>1 DEF Cache!TypeOK, FileStep
<1>5. Cache!PlaceInv'
  BY <1>1, <1>2, EndPlace, FilesAssumption DEF Cache!Idle
<1>6. Cache!TrieInv'
  BY <1>1 DEF Cache!TrieInv
<1>7. Cache!CountInv'
  <2>1. \A g \in Files : lock'[g] = -1 <=> lock[g] = -1
    BY <1>3 DEF Cache!TypeOK
  <2>2. QED
    BY <1>1, <1>2, <2>1, CountKept, FilesAssumption DEF FileStep, Cache!Busy, Cache!Idle
<1>8. QED
  BY <1>3, <1>4, <1>5, <1>6, <1>7

(* Files are renamed and unlinked under the cache, mappings are marked.    *)
LEMMA FilesMarked ==
  ASSUME Cache!IInv, NEW t \in FileThreads, NEW p \in Paths, NEW q \in Paths,
         Cache!RenameFile(t, p, q) \/ Cache!DeleteFile(t, p) \/ Cache!DeleteMapping(t, p)
  PROVE  Cache!IInv'
<1> USE DEF Cache!IInv
<1>1. UNCHANGED <<cache, live, path, refs, lock, viewed, remapped, holds, fileOp>>
  BY DEF Cache!RenameFile, Cache!DeleteFile, Cache!DeleteMapping, Cache!fields
<1>2. Cache!TypeOK'
  <2>1. flags' \in [Files -> SUBSET {"virtual", "private", "deleted"}]
    BY DEF Cache!TypeOK, Cache!RenameFile, Cache!DeleteFile, Cache!DeleteMapping, Cache!fields
  <2>2. disk' \subseteq Paths
    BY DEF Cache!TypeOK, Cache!RenameFile, Cache!DeleteFile, Cache!DeleteMapping
  <2>3. QED
    BY <1>1, <2>1, <2>2 DEF Cache!TypeOK
<1>3. Cache!PlaceInv'
  BY <1>1 DEF Cache!PlaceInv, Cache!Busy
<1>4. Cache!TrieInv'
  BY <1>1 DEF Cache!TrieInv
<1>5. Cache!LockInv'
  BY <1>1 DEF Cache!LockInv, Cache!Holder
<1>6. Cache!CountInv'
  <2>1. \A f \in Files : Cache!References(f)' = Cache!References(f)
    BY <1>1 DEF Cache!References
  <2>2. QED
    BY <1>1, <2>1 DEF Cache!CountInv, Cache!Counted, Cache!Unseen, Cache!Busy
<1>7. QED
  BY <1>2, <1>3, <1>4, <1>5, <1>6

(* The structure that was replaced loses its view.                         *)
LEMMA FilesMapOrphan ==
  ASSUME Cache!IInv, NEW t \in FileThreads, Cache!MapOrphan(t)
  PROVE  Cache!IInv'
<1> USE DEF Cache!IInv
<1> DEFINE f == fileOp[t].cur
<1>1. /\ fileOp[t].pc = "map_orphan" /\ f \in Files /\ path[f] \in remapped
      /\ \A p \in Paths : cache[p] # f
      /\ viewed' = [viewed EXCEPT ![f] = FALSE]
      /\ UNCHANGED <<disk, cache, live, path, refs, lock, flags, remapped, holds>>
  BY DEF Cache!MapOrphan, Cache!PlaceInv, Cache!TypeOK, Cache!Ops, Cache!Busy
<1>2. /\ FileStep(t) /\ fileOp'[t].old = fileOp[t].old
      /\ \/ fileOp'[t] = Cache!Idle
         \/ fileOp'[t].pc = "close" /\ fileOp'[t].cur = f
         \/ /\ fileOp'[t].pc \in {"rename_done", "rename_failed"} /\ fileOp'[t].old # None
            /\ fileOp'[t].cur = f
  <2>1. CASE refs[f] = 0
    BY <2>1, ToIs DEF Cache!MapOrphan, Cache!Places
  <2>2. CASE refs[f] # 0
    BY <2>2, MapEndIs DEF Cache!MapOrphan
  <2>3. QED
    BY <2>1, <2>2
<1>3. viewed' \in [Files -> BOOLEAN] /\ \A g \in Files : viewed'[g] <=> viewed[g] /\ g # f
  BY <1>1 DEF Cache!TypeOK
<1>4. Cache!TypeOK'
  BY <1>1, <1>2, <1>3 DEF Cache!TypeOK, FileStep
<1>5. Cache!PlaceInv'
  <2> SUFFICES ASSUME NEW u \in FileThreads PROVE Cache!PlaceInv!(u)'
    BY DEF Cache!PlaceInv
  <2>1. CASE u # t
    BY <1>1, <1>2, <1>3, <2>1 DEF Cache!PlaceInv, Cache!Busy, FileStep, Cache!TypeOK, Cache!Ops
  <2>2. CASE u = t /\ fileOp'[t] = Cache!Idle
    BY <1>1, <1>2, <2>2, FilesAssumption DEF Cache!PlaceInv, Cache!Busy, Cache!Idle
  <2>3. CASE u = t /\ fileOp'[t] # Cache!Idle
    BY <1>1, <1>2, <2>3 DEF Cache!PlaceInv, Cache!Busy
  <2>4. QED
    BY <2>1, <2>2, <2>3
<1>6. Cache!TrieInv'
  BY <1>1, <1>3 DEF Cache!TrieInv, Cache!TypeOK
<1>7. Cache!LockInv'
  <2>1. \A g \in Files : Cache!Holder(t, g)' <=> Cache!Holder(t, g)
    BY <1>1, <1>2, FilesAssumption DEF Cache!Holder, Cache!Idle
  <2>2. QED
    BY <1>1, <1>2, <2>1, LockKept DEF Cache!Idle
<1>8. Cache!CountInv'
  BY <1>1, <1>2, CountKept, WorkedOn, FilesAssumption DEF FileStep, Cache!Busy, Cache!Idle
<1>9. QED
  BY <1>4, <1>5, <1>6, <1>7, <1>8

(* A new structure is memory nobody refers to.                             *)
LEMMA MakeIs ==
  ASSUME Cache!IInv, NEW f \in Files, NEW p \in Paths, NEW n \in Nat,
         NEW fl \in SUBSET {"virtual", "private", "deleted"}, Cache!Make(f, p, fl, n)
  PROVE  /\ f \notin live /\ \A q \in Paths : cache[q] # f
         /\ \A u \in FileThreads : holds[u][f] = 0 /\ fileOp[u].cur # f /\ fileOp[u].old # f
         /\ live' = live \cup {f} /\ live' \subseteq Files
         /\ path' \in [Files -> Paths \cup {None}] /\ refs' \in [Files -> Nat]
         /\ lock' \in [Files -> {-1, 0, 1}] /\ viewed' \in [Files -> BOOLEAN]
         /\ flags' \in [Files -> SUBSET {"virtual", "private", "deleted"}]
         /\ path'[f] = p /\ refs'[f] = n /\ lock'[f] = 1 /\ viewed'[f]
         /\ \A g \in Files \ {f} :
              /\ path'[g] = path[g] /\ refs'[g] = refs[g] /\ lock'[g] = lock[g]
              /\ viewed'[g] = viewed[g]
<1> USE DEF Cache!IInv
<1>1. f \in Cache!Unused
  BY DEF Cache!Make
<1>2. /\ f \notin live
      /\ \A u \in FileThreads : holds[u][f] = 0 /\ fileOp[u].cur # f /\ fileOp[u].old # f
  BY <1>1 DEF Cache!Unused
<1>3. \A q \in Paths : cache[q] # f
  BY <1>2, FilesAssumption DEF Cache!TrieInv
<1>4. QED
  BY <1>2, <1>3 DEF Cache!Make, Cache!TypeOK

(* The new structure takes the place of none or of one that is replaced.   *)
LEMMA MadeKeeps ==
  ASSUME Cache!IInv, NEW f \in Files, NEW p \in Paths, NEW n \in Nat,
         NEW fl \in SUBSET {"virtual", "private", "deleted"}, Cache!Make(f, p, fl, n),
         NEW t \in FileThreads, FileStep(t),
         fileOp[t].pc # "close", fileOp'[t].pc \notin {"close", "close_remove", "map_found"},
         fileOp'[t].old = fileOp[t].old, fileOp'[t].cur # f,
         \A g \in Files : Cache!Holder(t, g)' <=> Cache!Holder(t, g),
         \A u \in FileThreads : u # t => holds'[u] = holds[u],
         \A g \in Files \ {f} : holds'[t][g] = holds[t][g],
         cache' = [cache EXCEPT ![p] = f],
         remapped \subseteq remapped', cache[p] = None \/ p \in remapped',
         \A g \in Files : Cache!Busy(t)' /\ fileOp'[t].cur = g => path[g] \in remapped',
         Cardinality(Cache!References(f)') = n
  PROVE  Cache!TrieInv' /\ Cache!LockInv' /\ Cache!CountInv'
<1> USE DEF Cache!IInv
<1>1. /\ f \notin live /\ \A q \in Paths : cache[q] # f
      /\ \A u \in FileThreads : holds[u][f] = 0 /\ fileOp[u].cur # f /\ fileOp[u].old # f
      /\ live' = live \cup {f}
      /\ path'[f] = p /\ refs'[f] = n /\ lock'[f] = 1 /\ viewed'[f]
      /\ \A g \in Files \ {f} :
           /\ path'[g] = path[g] /\ refs'[g] = refs[g] /\ lock'[g] = lock[g]
           /\ viewed'[g] = viewed[g]
  BY MakeIs
<1>2. cache'[p] = f /\ \A q \in Paths \ {p} : cache'[q] = cache[q]
  BY DEF Cache!TypeOK
<1>3. \A u \in FileThreads \ {t} : fileOp'[u] = fileOp[u]
  BY DEF FileStep
<1>4. Cache!TrieInv'
  BY <1>1, <1>2 DEF Cache!TrieInv, Cache!TypeOK
<1>5. Cache!LockInv'
  <2>1. \A u \in FileThreads, g \in Files : Cache!Holder(u, g)' <=> Cache!Holder(u, g)
    BY <1>3 DEF Cache!Holder
  <2>2. \A u \in FileThreads : ~ Cache!Holder(u, f)
    BY <1>1 DEF Cache!Holder
  <2>3. QED
    BY <1>1, <1>3, <2>1, <2>2 DEF Cache!LockInv
<1>6. Cache!CountInv'
  <2> SUFFICES ASSUME NEW g \in Files, path'[g] \notin remapped'
               PROVE  (g \in live' => Cache!Counted(g)') /\ (g \notin live' => Cache!Unseen(g)')
    BY DEF Cache!CountInv
  <2>1. CASE g = f
    <3>1. Cache!Counted(f)'
      <4>1. \A u \in FileThreads : ~ (fileOp'[u].pc = "close_remove" /\ fileOp'[u].cur = f)
        BY <1>1, <1>3
      <4>2. cache'[path'[f]] = f /\ refs'[f] = Cardinality(Cache!References(f)') /\ lock'[f] # -1
        BY <1>1, <1>2
      <4>3. QED
        BY <1>1, <4>1, <4>2, SameCount DEF Cache!Counted
    <3>2. QED
      BY <1>1, <2>1, <3>1
  <2>2. CASE g # f
    <3>1. /\ path[g] \notin remapped' /\ path[g] \notin remapped
          /\ g \in live' <=> g \in live
          /\ path'[g] = path[g] /\ refs'[g] = refs[g] /\ lock'[g] = lock[g]
      BY <1>1, <2>2
    <3>2. (g \in live => Cache!Counted(g)) /\ (g \notin live => Cache!Unseen(g))
      BY <3>1 DEF Cache!CountInv
    <3>3. Cache!References(g)' = Cache!References(g)
      BY <1>3, <2>2 DEF Cache!References
    <3>4. CASE g \in live
      <4>1. path[g] # p /\ cache'[path[g]] = cache[path[g]]
        BY <3>1, <3>2, <3>4, FilesAssumption DEF Cache!Counted, Cache!TypeOK
      <4>2. QED
        BY <1>3, <3>1, <3>2, <3>3, <3>4, <4>1 DEF Cache!Counted
    <3>5. CASE g \notin live
      <4>1. \A u \in FileThreads \ {t} : Cache!Busy(u)' <=> Cache!Busy(u)
        BY <1>3 DEF Cache!Busy
      <4>2. \A u \in FileThreads : holds'[u][g] = holds[u][g]
        BY <2>2
      <4>3. QED
        BY <1>3, <3>1, <3>2, <3>5, <4>1, <4>2 DEF Cache!Unseen
    <3>6. QED
      BY <3>1, <3>4, <3>5
  <2>3. QED
    BY <2>1, <2>2
<1>7. QED
  BY <1>4, <1>5, <1>6

(* A new structure is nothing to the other threads.                        *)
LEMMA MadePlace ==
  ASSUME Cache!IInv, NEW f \in Files, NEW p \in Paths, NEW n \in Nat,
         NEW fl \in SUBSET {"virtual", "private", "deleted"}, Cache!Make(f, p, fl, n),
         NEW u \in FileThreads, fileOp'[u] = fileOp[u],
         \A g \in Files \ {f} : holds'[u][g] = holds[u][g],
         holds'[u][f] = 0, cache' = [cache EXCEPT ![p] = f], remapped \subseteq remapped'
  PROVE  Cache!PlaceInv!(u)'
<1> USE DEF Cache!IInv
<1>1. /\ \A q \in Paths : cache[q] # f
      /\ holds[u][f] = 0 /\ fileOp[u].cur # f /\ fileOp[u].old # f
      /\ path'[f] = p /\ viewed'[f]
      /\ \A g \in Files \ {f} : path'[g] = path[g] /\ viewed'[g] = viewed[g]
  BY MakeIs
<1>2. \A q \in Paths : cache'[q] = cache[q] \/ cache'[q] = f
  BY DEF Cache!TypeOK
<1>3. fileOp[u].cur \in Files \cup {None}
  BY DEF Cache!TypeOK, Cache!Ops
<1>4. \A g \in Files : holds'[u][g] = holds[u][g]
  BY <1>1
<1>5. Cache!PlaceInv!(u)
  BY DEF Cache!PlaceInv
<1>6. Cache!Busy(u)' <=> Cache!Busy(u)
  BY DEF Cache!Busy
<1>7. Cache!Busy(u) => fileOp[u].cur \in Files \ {f}
  BY <1>1, <1>3, <1>5
<1>8. \A g \in Files : holds'[u][g] > 0 \/ fileOp'[u].cur = g => path'[g] \in Paths
  BY <1>1, <1>4, <1>5
<1>9. fileOp'[u].pc = "map_orphan" =>
        path'[fileOp'[u].cur] \in remapped' /\ \A q \in Paths : cache'[q] # fileOp'[u].cur
  BY <1>1, <1>2, <1>5, <1>7 DEF Cache!Busy
<1>10. fileOp'[u].pc = "close_free" =>
         path'[fileOp'[u].cur] \in remapped' /\ ~ viewed'[fileOp'[u].cur]
  BY <1>1, <1>5, <1>7 DEF Cache!Busy
<1>11. QED
  BY <1>4, <1>5, <1>6, <1>8, <1>9, <1>10 DEF Cache!Idle

(* A file is opened that the trie did not have.                            *)
LEMMA FilesOpenInsert ==
  ASSUME Cache!IInv, NEW t \in FileThreads, Cache!OpenInsert(t)
  PROVE  Cache!IInv'
<1> USE DEF Cache!IInv
<1> DEFINE p == fileOp[t].want
<1>1. /\ fileOp[t].pc = "open_insert" /\ p \in Paths /\ fileOp[t].old = None
      /\ \A f \in Files : holds[t][f] < Uses
      /\ UNCHANGED <<disk, remapped>>
  BY DEF Cache!OpenInsert, Cache!PlaceInv
<1>2. CASE cache[p] = None
  <2>1. PICK f \in Files : Cache!Make(f, p, {}, 1) /\ cache' = [cache EXCEPT ![p] = f]
                          /\ Cache!Count(t, f, 1) /\ Cache!Done(t)
    BY <1>2 DEF Cache!OpenInsert
  <2>2. FileStep(t) /\ fileOp'[t] = Cache!Idle
    BY <2>1, DoneIs
  <2>3. /\ f \notin live /\ \A q \in Paths : cache[q] # f
        /\ \A u \in FileThreads : holds[u][f] = 0 /\ fileOp[u].cur # f /\ fileOp[u].old # f
        /\ live' = live \cup {f} /\ live' \subseteq Files
        /\ path' \in [Files -> Paths \cup {None}] /\ refs' \in [Files -> Nat]
        /\ lock' \in [Files -> {-1, 0, 1}] /\ viewed' \in [Files -> BOOLEAN]
        /\ flags' \in [Files -> SUBSET {"virtual", "private", "deleted"}]
        /\ path'[f] = p /\ viewed'[f]
        /\ \A g \in Files \ {f} : path'[g] = path[g] /\ viewed'[g] = viewed[g]
    BY <1>1, <2>1, MakeIs
  <2>4. /\ holds' \in [FileThreads -> [Files -> 0 .. Uses + 1]]
        /\ \A u \in FileThreads : u # t => holds'[u] = holds[u]
        /\ \A g \in Files \ {f} : holds'[t][g] = holds[t][g]
        /\ holds'[t][f] = 1
    BY <2>1, <2>3, FilesAssumption DEF Cache!Count, Cache!TypeOK
  <2>5. Cache!TypeOK'
    BY <1>1, <2>1, <2>2, <2>3, <2>4 DEF Cache!TypeOK, FileStep
  <2>6. Cache!PlaceInv'
    <3> SUFFICES ASSUME NEW u \in FileThreads PROVE Cache!PlaceInv!(u)'
      BY DEF Cache!PlaceInv
    <3>1. CASE u # t
      <4>1. {} \in SUBSET {"virtual", "private", "deleted"} /\ 1 \in Nat
        OBVIOUS
      <4>2. fileOp'[u] = fileOp[u] /\ holds'[u] = holds[u] /\ remapped \subseteq remapped'
        BY <1>1, <2>2, <2>4, <3>1 DEF FileStep
      <4> HIDE DEF p
      <4>3. holds'[u][f] = 0 /\ \A g \in Files \ {f} : holds'[u][g] = holds[u][g]
        BY <4>2, <2>3
      <4>4. Cache!Make(f, p, {}, 1) /\ cache' = [cache EXCEPT ![p] = f] /\ p \in Paths
        BY <1>1, <2>1
      <4>5. QED
        BY <4>1, <4>2, <4>3, <4>4, MadePlace
    <3>2. CASE u = t
      BY <1>1, <2>2, <2>3, <2>4, <3>2, FilesAssumption DEF Cache!PlaceInv, Cache!Busy, Cache!Idle
    <3>3. QED
      BY <3>1, <3>2
  <2>7. Cache!TrieInv' /\ Cache!LockInv' /\ Cache!CountInv'
    <3>1. \A g \in Files : Cache!Holder(t, g)' <=> Cache!Holder(t, g)
      BY <1>1, <2>2, FilesAssumption DEF Cache!Holder, Cache!Idle
    <3>2. Cache!References(f)' = {<<t, 1>>}
      <4>1. \A u \in FileThreads : fileOp'[u].cur # f
        BY <2>2, <2>3, FilesAssumption DEF FileStep, Cache!Idle
      <4>2. \A u \in FileThreads : holds'[u][f] = IF u = t THEN 1 ELSE 0
        BY <2>3, <2>4
      <4>3. 1 \in 0 .. Uses + 1
        BY FilesAssumption
      <4>4. QED
        BY <4>1, <4>2, <4>3 DEF Cache!References
    <3>3. Cardinality(Cache!References(f)') = 1
      BY <3>2, FS_Singleton
    <3>4. fileOp'[t].old = fileOp[t].old /\ fileOp'[t].cur # f /\ fileOp'[t].pc = "idle"
      BY <1>1, <2>2, FilesAssumption DEF Cache!Idle
    <3>5. ~ Cache!Busy(t)'
      BY <3>4 DEF Cache!Busy
    <3>6. {} \in SUBSET {"virtual", "private", "deleted"} /\ 1 \in Nat
      OBVIOUS
    <3>7. fileOp[t].pc # "close" /\ remapped \subseteq remapped'
      BY <1>1
    <3>8. fileOp'[t].pc \notin {"close", "close_remove", "map_found"}
      BY <3>4
    <3>9. \A g \in Files : Cache!Busy(t)' /\ fileOp'[t].cur = g => path[g] \in remapped'
      BY <3>5
    <3> HIDE DEF p
    <3>10. QED
      BY <1>1, <1>2, <2>1, <2>2, <2>4, <3>1, <3>3, <3>4, <3>6, <3>7, <3>8, <3>9, MadeKeeps
  <2>8. QED
    BY <2>5, <2>6, <2>7
<1>3. CASE cache[p] # None /\ "create" \in fileOp[t].mode
  <2>1. /\ Cache!Done(t)
        /\ UNCHANGED <<cache, live, path, refs, lock, flags, viewed, holds>>
    BY <1>3 DEF Cache!OpenInsert, Cache!fields
  <2>2. FileStep(t) /\ fileOp'[t] = Cache!Idle
    BY <2>1, DoneIs
  <2>3. Cache!TypeOK'
    BY <1>1, <2>1, <2>2 DEF Cache!TypeOK, FileStep
  <2>4. Cache!PlaceInv'
    BY <1>1, <2>1, <2>2, EndPlace
  <2>5. Cache!TrieInv'
    BY <1>1, <2>1 DEF Cache!TrieInv
  <2>6. Cache!LockInv'
    <3>1. \A g \in Files : Cache!Holder(t, g)' <=> Cache!Holder(t, g)
      BY <1>1, <2>2, FilesAssumption DEF Cache!Holder, Cache!Idle
    <3>2. QED
      BY <2>1, <2>2, <3>1, LockKept DEF Cache!Idle
  <2>7. Cache!CountInv'
    BY <1>1, <2>1, <2>2, CountKept, FilesAssumption DEF FileStep, Cache!Busy, Cache!Idle
  <2>8. QED
    BY <2>3, <2>4, <2>5, <2>6, <2>7
<1>4. CASE cache[p] # None /\ "create" \notin fileOp[t].mode
  <2>1. /\ Cache!Lookup(t, p, fileOp[t].mode, None, "open")
        /\ UNCHANGED <<cache, live, path, refs, lock, flags, viewed, holds>>
    BY <1>4 DEF Cache!OpenInsert, Cache!fields
  <2>2. /\ FileStep(t) /\ fileOp'[t].pc = "open_wait" /\ fileOp'[t].want = p
        /\ fileOp'[t].cur = cache[p] /\ fileOp'[t].old = None
    BY <1>1, <1>4, <2>1 DEF Cache!Lookup, Cache!TypeOK, Cache!Ops, Cache!Waiting,
       Cache!Places, FileStep
  <2>3. Cache!TypeOK'
    BY <1>1, <2>1, <2>2 DEF Cache!TypeOK, FileStep
  <2>4. Cache!PlaceInv'
    BY <1>1, <1>4, <2>1, <2>2 DEF Cache!PlaceInv, Cache!Busy, Cache!TrieInv, FileStep
  <2>5. Cache!TrieInv'
    BY <1>1, <2>1 DEF Cache!TrieInv
  <2>6. Cache!LockInv'
    <3>1. \A g \in Files : Cache!Holder(t, g)' <=> Cache!Holder(t, g)
      BY <1>1, <2>2 DEF Cache!Holder
    <3>2. QED
      BY <2>1, <2>2, <3>1, LockKept
  <2>7. Cache!CountInv'
    BY <1>1, <1>4, <2>1, <2>2, CountKept, FilesAssumption DEF FileStep, Cache!Busy, Cache!TrieInv
  <2>8. QED
    BY <2>3, <2>4, <2>5, <2>6, <2>7
<1>5. QED
  BY <1>2, <1>3, <1>4

(* A mapping is made, by itself or for fs_rename.                          *)
LEMMA FilesMapInsert ==
  ASSUME Cache!IInv, NEW t \in FileThreads, Cache!MapInsert(t)
  PROVE  Cache!IInv'
<1> USE DEF Cache!IInv
<1> DEFINE p == fileOp[t].want
<1>1. /\ fileOp[t].pc = "map_none" /\ p \in Paths
      /\ UNCHANGED <<disk, remapped, holds>>
  BY DEF Cache!MapInsert, Cache!PlaceInv
<1>2. /\ FileStep(t)
      /\ fileOp'[t].old = fileOp[t].old
      /\ IF fileOp[t].old = None THEN fileOp'[t] = Cache!Idle
         ELSE /\ fileOp'[t].pc \in {"rename_done", "rename_failed"}
              /\ fileOp'[t].cur = fileOp[t].cur
  <2>1. PICK done \in BOOLEAN : Cache!MapEnd(t, done)
    BY DEF Cache!MapInsert
  <2>2. QED
    BY <2>1, MapEndIs
<1>3. \A g \in Files : Cache!Holder(t, g)' <=> Cache!Holder(t, g)
  BY <1>1, <1>2, FilesAssumption DEF Cache!Holder, Cache!Idle
<1>4. fileOp'[t].pc \in {"idle", "rename_done", "rename_failed"} /\ ~ Cache!Busy(t)'
  BY <1>2 DEF Cache!Idle, Cache!Busy
<1>5. CASE cache[p] = None
  <2>1. PICK f \in Files : Cache!Make(f, p, {"virtual"}, 0) /\ cache' = [cache EXCEPT ![p] = f]
    BY <1>5 DEF Cache!MapInsert
  <2>2. /\ f \notin live /\ \A q \in Paths : cache[q] # f
        /\ \A u \in FileThreads : holds[u][f] = 0 /\ fileOp[u].cur # f /\ fileOp[u].old # f
        /\ live' = live \cup {f} /\ live' \subseteq Files
        /\ path' \in [Files -> Paths \cup {None}] /\ refs' \in [Files -> Nat]
        /\ lock' \in [Files -> {-1, 0, 1}] /\ viewed' \in [Files -> BOOLEAN]
        /\ flags' \in [Files -> SUBSET {"virtual", "private", "deleted"}]
        /\ path'[f] = p /\ viewed'[f]
        /\ \A g \in Files \ {f} : path'[g] = path[g] /\ viewed'[g] = viewed[g]
    BY <1>1, <2>1, MakeIs
  <2>3. fileOp'[t].cur # f
    BY <1>2, <2>2, FilesAssumption DEF Cache!Idle
  <2>4. Cache!TypeOK'
    BY <1>1, <1>2, <2>1, <2>2 DEF Cache!TypeOK, FileStep
  <2>5. Cache!PlaceInv'
    <3> SUFFICES ASSUME NEW u \in FileThreads PROVE Cache!PlaceInv!(u)'
      BY DEF Cache!PlaceInv
    <3>1. CASE u # t
      <4>1. {"virtual"} \in SUBSET {"virtual", "private", "deleted"} /\ 0 \in Nat
        OBVIOUS
      <4>2. fileOp'[u] = fileOp[u] /\ holds'[u] = holds[u] /\ remapped \subseteq remapped'
        BY <1>1, <1>2, <3>1 DEF FileStep
      <4> HIDE DEF p
      <4>3. QED
        BY <1>1, <2>1, <2>2, <4>1, <4>2, MadePlace
    <3>2. CASE u = t /\ fileOp'[t] = Cache!Idle
      BY <1>1, <2>2, <3>2, FilesAssumption DEF Cache!PlaceInv, Cache!Busy, Cache!Idle
    <3>3. CASE u = t /\ fileOp'[t] # Cache!Idle
      BY <1>1, <1>2, <2>2, <3>3, FilesAssumption DEF Cache!PlaceInv, Cache!Busy
    <3>4. QED
      BY <3>1, <3>2, <3>3
  <2>6. Cache!TrieInv' /\ Cache!LockInv' /\ Cache!CountInv'
    <3>1. Cache!References(f)' = {}
      <4>1. \A u \in FileThreads : fileOp'[u].cur # f
        BY <1>2, <2>2, <2>3 DEF FileStep
      <4>2. \A u \in FileThreads : holds'[u][f] = 0
        BY <1>1, <2>2
      <4>3. QED
        BY <4>1, <4>2, FilesAssumption DEF Cache!References
    <3>2. Cardinality(Cache!References(f)') = 0
      BY <3>1, FS_EmptySet
    <3>3. {"virtual"} \in SUBSET {"virtual", "private", "deleted"} /\ 0 \in Nat
      OBVIOUS
    <3>4. fileOp[t].pc # "close" /\ remapped \subseteq remapped'
      BY <1>1
    <3>5. fileOp'[t].pc \notin {"close", "close_remove", "map_found"}
      BY <1>4
    <3>6. \A g \in Files : Cache!Busy(t)' /\ fileOp'[t].cur = g => path[g] \in remapped'
      BY <1>4
    <3>7. /\ \A u \in FileThreads : u # t => holds'[u] = holds[u]
          /\ \A g \in Files \ {f} : holds'[t][g] = holds[t][g]
      BY <1>1
    <3> HIDE DEF p
    <3>8. QED
      BY <1>1, <1>2, <1>3, <1>5, <2>1, <2>3, <3>2, <3>3, <3>4, <3>5, <3>6, <3>7, MadeKeeps
  <2>7. QED
    BY <2>4, <2>5, <2>6
<1>6. CASE cache[p] # None
  <2>1. UNCHANGED <<cache, live, path, refs, lock, flags, viewed>>
    BY <1>6 DEF Cache!MapInsert, Cache!fields
  <2>2. Cache!TypeOK'
    BY <1>1, <1>2, <2>1 DEF Cache!TypeOK, FileStep
  <2>3. Cache!PlaceInv'
    BY <1>1, <1>2, <2>1, EndPlace
  <2>4. Cache!TrieInv'
    BY <1>1, <2>1 DEF Cache!TrieInv
  <2>5. Cache!LockInv'
    BY <1>2, <1>3, <1>4, <2>1, LockKept
  <2>6. Cache!CountInv'
    BY <1>1, <1>2, <1>4, <2>1, CountKept, WorkedOn, FilesAssumption DEF FileStep
  <2>7. QED
    BY <2>2, <2>3, <2>4, <2>5, <2>6
<1>7. QED
  BY <1>5, <1>6

(* A mapping takes the place of another, or of one that has gone.          *)
LEMMA FilesMapUpdate ==
  ASSUME Cache!IInv, NEW t \in FileThreads, Cache!MapUpdate(t)
  PROVE  Cache!IInv'
<1> USE DEF Cache!IInv
<1> DEFINE p == fileOp[t].want
<1>1. /\ fileOp[t].pc = "map_update" /\ p \in Paths
      /\ UNCHANGED <<disk, holds>>
  BY DEF Cache!MapUpdate, Cache!PlaceInv
<1>2. CASE cache[p] = None
  <2>1. /\ Cache!MapEnd(t, TRUE)
        /\ UNCHANGED <<cache, live, path, refs, lock, flags, viewed, remapped>>
    BY <1>2 DEF Cache!MapUpdate, Cache!fields
  <2>2. /\ FileStep(t)
        /\ fileOp'[t].old = fileOp[t].old
        /\ IF fileOp[t].old = None THEN fileOp'[t] = Cache!Idle
           ELSE /\ fileOp'[t].pc \in {"rename_done", "rename_failed"}
                /\ fileOp'[t].cur = fileOp[t].cur
    BY <2>1, MapEndIs
  <2>3. Cache!TypeOK'
    BY <1>1, <2>1, <2>2 DEF Cache!TypeOK, FileStep
  <2>4. Cache!PlaceInv'
    BY <1>1, <2>1, <2>2, EndPlace
  <2>5. Cache!TrieInv'
    BY <1>1, <2>1 DEF Cache!TrieInv
  <2>6. fileOp'[t].pc \in {"idle", "rename_done", "rename_failed"} /\ ~ Cache!Busy(t)'
    BY <2>2 DEF Cache!Idle, Cache!Busy
  <2>7. Cache!LockInv'
    <3>1. \A g \in Files : Cache!Holder(t, g)' <=> Cache!Holder(t, g)
      BY <1>1, <2>2, FilesAssumption DEF Cache!Holder, Cache!Idle
    <3>2. QED
      BY <2>1, <2>2, <2>6, <3>1, LockKept
  <2>8. Cache!CountInv'
    BY <1>1, <2>1, <2>2, <2>6, CountKept, WorkedOn, FilesAssumption DEF FileStep
  <2>9. QED
    BY <2>3, <2>4, <2>5, <2>7, <2>8
<1>3. CASE cache[p] # None
  <2> DEFINE prev == cache[p]
  <2>1. PICK f \in Files :
          /\ Cache!Make(f, p, {"virtual"}, 0) /\ cache' = [cache EXCEPT ![p] = f]
          /\ remapped' = remapped \cup {p}
          /\ fileOp' = [fileOp EXCEPT ![t].cur = prev, ![t].pc = "map_orphan"]
    BY <1>3 DEF Cache!MapUpdate
  <2>2. prev \in Files /\ prev \in live /\ path[prev] = p
    BY <1>1, <1>3 DEF Cache!TrieInv, Cache!TypeOK
  <2>3. /\ FileStep(t) /\ fileOp'[t].pc = "map_orphan" /\ fileOp'[t].cur = prev
        /\ fileOp'[t].old = fileOp[t].old
    <3>1. fileOp[t] \in Cache!Ops
      BY DEF Cache!TypeOK
    <3>2. fileOp'[t] = [fileOp[t] EXCEPT !.cur = prev, !.pc = "map_orphan"]
      BY <2>1 DEF Cache!TypeOK
    <3> HIDE DEF prev
    <3>3. fileOp'[t] \in Cache!Ops
      BY <2>2, <3>1, <3>2 DEF Cache!Ops, Cache!Places
    <3>4. QED
      BY <2>1, <3>1, <3>2, <3>3 DEF Cache!TypeOK, Cache!Ops, FileStep
  <2>4. /\ f \notin live /\ \A q \in Paths : cache[q] # f
        /\ \A u \in FileThreads : holds[u][f] = 0 /\ fileOp[u].cur # f /\ fileOp[u].old # f
        /\ live' = live \cup {f} /\ live' \subseteq Files
        /\ path' \in [Files -> Paths \cup {None}] /\ refs' \in [Files -> Nat]
        /\ lock' \in [Files -> {-1, 0, 1}] /\ viewed' \in [Files -> BOOLEAN]
        /\ flags' \in [Files -> SUBSET {"virtual", "private", "deleted"}]
        /\ path'[f] = p /\ viewed'[f]
        /\ \A g \in Files \ {f} : path'[g] = path[g] /\ viewed'[g] = viewed[g]
    BY <1>1, <2>1, MakeIs
  <2>5. prev # f /\ \A q \in Paths : cache'[q] # prev
    BY <1>1, <1>3, <2>1, <2>2, <2>4 DEF Cache!TypeOK, Cache!TrieInv
  <2>6. Cache!TypeOK'
    BY <1>1, <2>1, <2>3, <2>4 DEF Cache!TypeOK, FileStep
  <2>7. Cache!PlaceInv'
    <3> SUFFICES ASSUME NEW u \in FileThreads PROVE Cache!PlaceInv!(u)'
      BY DEF Cache!PlaceInv
    <3>1. CASE u # t
      <4>1. {"virtual"} \in SUBSET {"virtual", "private", "deleted"} /\ 0 \in Nat
        OBVIOUS
      <4>2. fileOp'[u] = fileOp[u] /\ holds'[u] = holds[u] /\ remapped \subseteq remapped'
        BY <1>1, <2>1, <2>3, <3>1 DEF FileStep
      <4> HIDE DEF p
      <4>3. QED
        BY <1>1, <2>1, <2>4, <4>1, <4>2, MadePlace
    <3>2. CASE u = t
      <4>1. \A g \in Files : holds'[t][g] > 0 \/ fileOp'[t].cur = g => path'[g] \in Paths
        <5>1. \A g \in Files : holds[t][g] > 0 => path[g] \in Paths
          BY DEF Cache!PlaceInv
        <5>2. QED
          BY <1>1, <2>2, <2>3, <2>4, <5>1
      <4>2. path'[prev] \in remapped'
        BY <2>1, <2>2, <2>4, <2>5
      <4> HIDE DEF prev
      <4>3. QED
        BY <2>2, <2>3, <2>5, <3>2, <4>1, <4>2, FilesAssumption DEF Cache!Busy
    <3>3. QED
      BY <3>1, <3>2
  <2>8. Cache!TrieInv' /\ Cache!LockInv' /\ Cache!CountInv'
    <3>1. Cache!References(f)' = {}
      <4>1. \A u \in FileThreads : fileOp'[u].cur # f
        BY <2>3, <2>4, <2>5 DEF FileStep
      <4>2. \A u \in FileThreads : holds'[u][f] = 0
        BY <1>1, <2>4
      <4>3. QED
        BY <4>1, <4>2, FilesAssumption DEF Cache!References
    <3>2. Cardinality(Cache!References(f)') = 0
      BY <3>1, FS_EmptySet
    <3>3. {"virtual"} \in SUBSET {"virtual", "private", "deleted"} /\ 0 \in Nat
      OBVIOUS
    <3>4. fileOp[t].pc # "close" /\ remapped \subseteq remapped' /\ p \in remapped'
      BY <1>1, <2>1
    <3>5. fileOp'[t].pc \notin {"close", "close_remove", "map_found"}
      BY <2>3
    <3>6. \A g \in Files : Cache!Busy(t)' /\ fileOp'[t].cur = g => path[g] \in remapped'
      BY <2>2, <2>3, <3>4
    <3>7. /\ \A u \in FileThreads : u # t => holds'[u] = holds[u]
          /\ \A g \in Files \ {f} : holds'[t][g] = holds[t][g]
      BY <1>1
    <3>8. \A g \in Files : Cache!Holder(t, g)' <=> Cache!Holder(t, g)
      BY <1>1, <2>3 DEF Cache!Holder
    <3>9. fileOp'[t].old = fileOp[t].old /\ fileOp'[t].cur # f
      BY <2>3, <2>5
    <3> HIDE DEF p, prev
    <3>10. QED
      BY <1>1, <2>1, <2>3, <3>2, <3>3, <3>4, <3>5, <3>6, <3>7, <3>8, <3>9, MadeKeeps
  <2>9. QED
    BY <2>6, <2>7, <2>8
<1>4. QED
  BY <1>2, <1>3

-----------------------------------------------------------------------------
(* Counting the users of a file.                                           *)

LEMMA CountedFinite ==
  ASSUME NEW f \in Files
  PROVE  IsFiniteSet(Cache!References(f)) /\ Cardinality(Cache!References(f)) \in Nat
<1>1. IsFiniteSet(FileThreads \X (0 .. Uses + 1))
  <2>1. 0 \in Int /\ Uses + 1 \in Int
    BY FilesAssumption
  <2>2. IsFiniteSet(0 .. Uses + 1)
    BY <2>1, FS_Interval
  <2>3. QED
    BY <2>2, FS_Product, FilesAssumption
<1>2. Cache!References(f) \in SUBSET (FileThreads \X (0 .. Uses + 1))
  BY DEF Cache!References
<1>3. QED
  BY <1>1, <1>2, FS_Subset, FS_CardinalityType

(* A thread has one handle more.                                           *)
LEMMA OneMore ==
  ASSUME Cache!IInv, NEW t \in FileThreads, NEW f \in Files, holds[t][f] < Uses + 1,
         holds' = [holds EXCEPT ![t][f] = @ + 1],
         \A u \in FileThreads, g \in Files :
           (fileOp'[u].pc = "close" /\ fileOp'[u].cur = g) <=>
           (fileOp[u].pc = "close" /\ fileOp[u].cur = g)
  PROVE  /\ Cardinality(Cache!References(f)') = Cardinality(Cache!References(f)) + 1
         /\ \A g \in Files \ {f} : Cache!References(g)' = Cache!References(g)
<1> USE DEF Cache!IInv
<1> DEFINE n == holds[t][f] + 1
<1>1. n \in 1 .. Uses + 1
  BY FilesAssumption DEF Cache!TypeOK
<1>2. /\ holds'[t][f] = n /\ \A g \in Files \ {f} : holds'[t][g] = holds[t][g]
      /\ \A u \in FileThreads \ {t}, g \in Files : holds'[u][g] = holds[u][g]
  BY DEF Cache!TypeOK
<1>3. holds[t][f] \in Nat /\ \A u \in FileThreads, g \in Files : holds[u][g] \in Nat
  BY FilesAssumption DEF Cache!TypeOK
<1>4. <<t, n>> \notin Cache!References(f)
  BY <1>1, <1>3 DEF Cache!References
<1>5. Cache!References(f)' = Cache!References(f) \cup {<<t, n>>}
  BY <1>1, <1>2, <1>3, FilesAssumption DEF Cache!References
<1>6. \A g \in Files \ {f} : Cache!References(g)' = Cache!References(g)
  BY <1>2 DEF Cache!References
<1>7. Cardinality(Cache!References(f) \cup {<<t, n>>}) = Cardinality(Cache!References(f)) + 1
  <2>1. IsFiniteSet(Cache!References(f))
    BY CountedFinite
  <2>2. QED
    BY <1>4, <2>1, FS_AddElement
<1>8. QED
  BY <1>5, <1>6, <1>7

(* A file has one user more.                                               *)
LEMMA UserMore ==
  ASSUME Cache!IInv, NEW t \in FileThreads, NEW f \in Files, holds[t][f] < Uses + 1,
         UNCHANGED <<cache, live, path, remapped>>,
         holds' = [holds EXCEPT ![t][f] = @ + 1], refs' = [refs EXCEPT ![f] = @ + 1],
         path[f] \notin remapped => f \in live,
         \A g \in Files : lock'[g] = -1 <=> lock[g] = -1,  lock'[f] # -1,
         \A u \in FileThreads : u # t => fileOp'[u] = fileOp[u],
         fileOp[t].pc # "close", fileOp'[t] = Cache!Idle
  PROVE  Cache!CountInv'
<1> USE DEF Cache!IInv
<1>0. fileOp'[t].pc = "idle" /\ fileOp'[t].old = None /\ ~ Cache!Busy(t)'
  BY DEF Cache!Idle, Cache!Busy
<1>1. \A u \in FileThreads, g \in Files :
        (fileOp'[u].pc = "close" /\ fileOp'[u].cur = g) <=>
        (fileOp[u].pc = "close" /\ fileOp[u].cur = g)
  BY <1>0
<1>2. /\ Cardinality(Cache!References(f)') = Cardinality(Cache!References(f)) + 1
      /\ \A g \in Files \ {f} : Cache!References(g)' = Cache!References(g)
  BY <1>1, OneMore
<1>3. refs'[f] = refs[f] + 1 /\ \A g \in Files \ {f} : refs'[g] = refs[g]
  BY DEF Cache!TypeOK
<1>4. \A u \in FileThreads, g \in Files \ {f} : holds'[u][g] = holds[u][g]
  BY DEF Cache!TypeOK
<1>5. \A u \in FileThreads \ {t} : Cache!Busy(u)' <=> Cache!Busy(u)
  BY DEF Cache!Busy
<1> SUFFICES ASSUME NEW g \in Files, path[g] \notin remapped
             PROVE  (g \in live => Cache!Counted(g)') /\ (g \notin live => Cache!Unseen(g)')
  BY DEF Cache!CountInv
<1>6. (g \in live => Cache!Counted(g)) /\ (g \notin live => Cache!Unseen(g))
  BY DEF Cache!CountInv
<1>7. CASE g \in live
  <2>1. refs'[g] = Cardinality(Cache!References(g)')
    BY <1>2, <1>3, <1>6, <1>7, SameCount DEF Cache!Counted
  <2>2. lock'[g] = -1 => refs'[g] = 0
    BY <1>3, <1>6, <1>7 DEF Cache!Counted
  <2>3. QED
    BY <1>0, <1>6, <1>7, <2>1, <2>2, SameCount DEF Cache!Counted
<1>8. CASE g \notin live
  BY <1>0, <1>4, <1>5, <1>6, <1>8, FilesAssumption DEF Cache!Unseen
<1>9. QED
  BY <1>7, <1>8

LEMMA UserPlace ==
  ASSUME Cache!IInv, NEW t \in FileThreads, NEW f \in Files, path[f] \in Paths,
         UNCHANGED <<cache, path, viewed, remapped>>,
         holds' = [holds EXCEPT ![t][f] = @ + 1], FileStep(t), fileOp'[t] = Cache!Idle
  PROVE  Cache!PlaceInv'
<1> USE DEF Cache!IInv
<1>1. /\ \A g \in Files \ {f} : holds'[t][g] = holds[t][g]
      /\ \A u \in FileThreads \ {t} : holds'[u] = holds[u]
  BY DEF Cache!TypeOK
<1> SUFFICES ASSUME NEW u \in FileThreads PROVE Cache!PlaceInv!(u)'
  BY DEF Cache!PlaceInv
<1>2. CASE u # t
  BY <1>1, <1>2 DEF Cache!PlaceInv, Cache!Busy, FileStep
<1>3. CASE u = t
  BY <1>1, <1>3, FilesAssumption DEF Cache!PlaceInv, Cache!Busy, Cache!Idle
<1>4. QED
  BY <1>2, <1>3

(* What a lookup met is opened, or refused.                                *)
LEMMA FilesOpenFound ==
  ASSUME Cache!IInv, NEW t \in FileThreads, Cache!OpenFound(t)
  PROVE  Cache!IInv'
<1> USE DEF Cache!IInv
<1> DEFINE f == fileOp[t].cur
<1>1. /\ fileOp[t].pc = "open_found" /\ f \in Files /\ fileOp[t].old = None
      /\ Cache!Holder(t, f) /\ Cache!Busy(t) /\ holds[t][f] < Uses /\ path[f] \in Paths
      /\ lock' = Cache!Unlocked(f) /\ Cache!Done(t)
      /\ UNCHANGED <<disk, cache, live, path, flags, viewed, remapped>>
  BY DEF Cache!OpenFound, Cache!PlaceInv, Cache!Busy, Cache!TypeOK, Cache!Ops, Cache!Holder
<1>2. FileStep(t) /\ fileOp'[t] = Cache!Idle
  BY <1>1, DoneIs
<1>3. Cache!LockInv' /\ lock' = [lock EXCEPT ![f] = 1] /\ lock[f] = 0
  <2>1. \A g \in Files : Cache!Holder(t, g)' <=> Cache!Holder(t, g) /\ g # f
    BY <1>1, <1>2, FilesAssumption DEF Cache!Holder, Cache!Idle
  <2>2. QED
    BY <1>1, <1>2, <2>1, LockReleased DEF Cache!Idle
<1>4. \A g \in Files : lock'[g] = -1 <=> lock[g] = -1
  BY <1>3 DEF Cache!TypeOK
<1>5. Cache!TrieInv'
  BY <1>1 DEF Cache!TrieInv
<1>6. CASE UNCHANGED <<refs, holds>>
  <2>1. Cache!TypeOK'
    BY <1>1, <1>2, <1>3, <1>6 DEF Cache!TypeOK, FileStep
  <2>2. Cache!PlaceInv'
    BY <1>1, <1>2, <1>6, EndPlace
  <2>3. Cache!CountInv'
    BY <1>1, <1>2, <1>4, <1>6, CountKept, FilesAssumption DEF FileStep, Cache!Busy, Cache!Idle
  <2>4. QED
    BY <1>3, <1>5, <2>1, <2>2, <2>3
<1>7. CASE refs' = [refs EXCEPT ![f] = @ + 1] /\ holds' = [holds EXCEPT ![t][f] = @ + 1]
  <2>1. Cache!TypeOK'
    BY <1>1, <1>2, <1>3, <1>7, FilesAssumption DEF Cache!TypeOK, FileStep
  <2>2. Cache!PlaceInv'
    BY <1>1, <1>2, <1>7, UserPlace
  <2>3. Cache!CountInv'
    <3>1. path[f] \notin remapped => f \in live
      BY <1>1, WorkedOn
    <3>2. lock'[f] # -1
      BY <1>3 DEF Cache!TypeOK
    <3>3. holds[t][f] < Uses + 1
      BY <1>1, FilesAssumption DEF Cache!TypeOK
    <3>4. \A u \in FileThreads : u # t => fileOp'[u] = fileOp[u]
      BY <1>2 DEF FileStep
    <3> HIDE DEF f
    <3>5. QED
      BY <1>1, <1>2, <1>4, <1>7, <3>1, <3>2, <3>3, <3>4, UserMore
  <2>4. QED
    BY <1>3, <1>5, <2>1, <2>2, <2>3
<1>8. QED
  BY <1>6, <1>7 DEF Cache!OpenFound, Cache!Count

(* A file is opened once more.                                             *)
LEMMA FilesReopen ==
  ASSUME Cache!IInv, NEW t \in FileThreads, NEW f \in Files, Cache!Reopen(t, f)
  PROVE  Cache!IInv'
<1> USE DEF Cache!IInv
<1>1. /\ fileOp[t].pc = "idle" /\ fileOp[t] = Cache!Idle /\ path[f] \in Paths
      /\ holds[t][f] \in 1 .. Uses /\ lock[f] = 1
      /\ refs' = [refs EXCEPT ![f] = @ + 1] /\ holds' = [holds EXCEPT ![t][f] = @ + 1]
      /\ UNCHANGED <<disk, cache, live, path, lock, flags, viewed, remapped, fileOp>>
  BY FilesAssumption DEF Cache!Reopen, Cache!Count, Cache!PlaceInv
<1>2. FileStep(t) /\ fileOp'[t] = Cache!Idle
  BY <1>1 DEF FileStep, Cache!TypeOK
<1>3. Cache!TypeOK'
  BY <1>1, FilesAssumption DEF Cache!TypeOK
<1>4. Cache!PlaceInv'
  BY <1>1, <1>2, UserPlace
<1>5. Cache!TrieInv'
  BY <1>1 DEF Cache!TrieInv
<1>6. Cache!LockInv'
  BY <1>1 DEF Cache!LockInv, Cache!Holder
<1>7. Cache!CountInv'
  <2>1. path[f] \notin remapped => f \in live
    BY <1>1, WorkedOn
  <2>2. lock'[f] # -1 /\ holds[t][f] < Uses + 1
    BY <1>1, FilesAssumption
  <2>3. QED
    BY <1>1, <2>1, <2>2, UserMore
<1>8. QED
  BY <1>3, <1>4, <1>5, <1>6, <1>7

(* A user becomes one who closes the file, which refs counts as well.      *)
LEMMA FilesClose ==
  ASSUME Cache!IInv, NEW t \in FileThreads, NEW f \in Files, Cache!Close(t, f)
  PROVE  Cache!IInv'
<1> USE DEF Cache!IInv
<1> DEFINE n == holds[t][f]
<1>1. /\ fileOp[t].pc = "idle" /\ fileOp[t].old = None /\ fileOp[t].cur = None
      /\ n \in 1 .. Uses + 1 /\ path[f] \in Paths
      /\ holds' = [holds EXCEPT ![t][f] = n - 1]
      /\ UNCHANGED <<disk, cache, live, path, refs, lock, flags, viewed, remapped>>
  <2>1. n \in 1 .. Uses + 1
    BY FilesAssumption DEF Cache!Close, Cache!TypeOK
  <2>2. holds' = [holds EXCEPT ![t][f] = n - 1]
    BY DEF Cache!Close, Cache!Count, Cache!TypeOK
  <2>3. QED
    BY <2>1, <2>2, FilesAssumption DEF Cache!Close, Cache!PlaceInv, Cache!fields, Cache!Idle
<1>2. /\ FileStep(t) /\ fileOp'[t].pc = "close" /\ fileOp'[t].cur = f /\ fileOp'[t].old = None
  BY <1>1 DEF Cache!Close, Cache!TypeOK, Cache!Ops, Cache!Places, FileStep
<1>3. /\ holds'[t][f] = n - 1 /\ \A g \in Files \ {f} : holds'[t][g] = holds[t][g]
      /\ \A u \in FileThreads \ {t} : holds'[u] = holds[u]
      /\ holds' \in [FileThreads -> [Files -> 0 .. Uses + 1]]
  BY <1>1, FilesAssumption DEF Cache!TypeOK
<1>4. Cache!TypeOK'
  BY <1>1, <1>2, <1>3 DEF Cache!TypeOK, FileStep
<1>5. Cache!PlaceInv'
  <2> SUFFICES ASSUME NEW u \in FileThreads PROVE Cache!PlaceInv!(u)'
    BY DEF Cache!PlaceInv
  <2>1. CASE u # t
    BY <1>1, <1>2, <1>3, <2>1 DEF Cache!PlaceInv, Cache!Busy, FileStep
  <2>2. CASE u = t
    <3>1. \A g \in Files : holds[t][g] > 0 => path[g] \in Paths
      BY DEF Cache!PlaceInv
    <3>2. \A g \in Files : holds'[t][g] > 0 \/ fileOp'[t].cur = g => path'[g] \in Paths
      BY <1>1, <1>2, <1>3, <3>1
    <3>3. QED
      BY <1>2, <2>2, <3>2, FilesAssumption DEF Cache!Busy
  <2>3. QED
    BY <2>1, <2>2
<1>6. Cache!TrieInv'
  BY <1>1 DEF Cache!TrieInv
<1>7. Cache!LockInv'
  <2>1. \A g \in Files : Cache!Holder(t, g)' <=> Cache!Holder(t, g)
    BY <1>1, <1>2 DEF Cache!Holder
  <2>2. QED
    BY <1>1, <1>2, <2>1, LockKept
<1>8. Cache!CountInv'
  <2>1. \A u \in FileThreads, g \in Files :
          /\ holds[u][g] \in 0 .. Uses + 1 /\ holds'[u][g] \in 0 .. Uses + 1
          /\ u # t \/ g # f => holds'[u][g] = holds[u][g]
    BY <1>3 DEF Cache!TypeOK
  <2>2. \A u \in FileThreads \ {t} : fileOp'[u] = fileOp[u] /\ (Cache!Busy(u)' <=> Cache!Busy(u))
    BY <1>2 DEF FileStep, Cache!Busy
  <2> SUFFICES ASSUME NEW g \in Files, path[g] \notin remapped
               PROVE  (g \in live => Cache!Counted(g)') /\ (g \notin live => Cache!Unseen(g)')
    BY <1>1 DEF Cache!CountInv
  <2>3. (g \in live => Cache!Counted(g)) /\ (g \notin live => Cache!Unseen(g))
    BY DEF Cache!CountInv
  <2>4. g = f => g \in live
    BY <1>1, <2>3, FilesAssumption DEF Cache!Unseen
  <2>5. Cardinality(Cache!References(g)') = Cardinality(Cache!References(g))
    <3>1. CASE g # f
      <4>1. Cache!References(g)' = Cache!References(g)
        BY <1>1, <1>2, <2>1, <2>2, <3>1, FilesAssumption DEF Cache!References
      <4>2. QED
        BY <4>1
    <3>2. CASE g = f
      <4>1. Cache!References(f)' = (Cache!References(f) \ {<<t, n>>}) \cup {<<t, 0>>}
        BY <1>1, <1>2, <1>3, <2>1, <2>2, FilesAssumption DEF Cache!References
      <4>2. <<t, n>> \in Cache!References(f) /\ <<t, 0>> \notin Cache!References(f)
        BY <1>1, FilesAssumption DEF Cache!References
      <4>3. IsFiniteSet(Cache!References(f)) /\ Cardinality(Cache!References(f)) \in Nat
        BY CountedFinite
      <4>4. /\ IsFiniteSet(Cache!References(f) \ {<<t, n>>})
            /\ Cardinality(Cache!References(f) \ {<<t, n>>}) = Cardinality(Cache!References(f)) - 1
        BY <4>2, <4>3, FS_RemoveElement
      <4>5. Cardinality((Cache!References(f) \ {<<t, n>>}) \cup {<<t, 0>>})
              = Cardinality(Cache!References(f) \ {<<t, n>>}) + 1
        BY <4>2, <4>4, FS_AddElement
      <4>6. QED
        BY <3>2, <4>1, <4>3, <4>4, <4>5
    <3>3. QED
      BY <3>1, <3>2
  <2>6. CASE g \in live
    BY <1>1, <1>2, <2>2, <2>3, <2>5, <2>6, SameCount DEF Cache!Counted
  <2>7. CASE g \notin live
    BY <1>2, <2>1, <2>2, <2>3, <2>4, <2>7, FilesAssumption DEF Cache!Unseen
  <2>8. QED
    BY <2>6, <2>7
<1>9. QED
  BY <1>4, <1>5, <1>6, <1>7, <1>8

(* One user less, or the last one breaks the lock.                         *)
LEMMA FilesCloseCount ==
  ASSUME Cache!IInv, NEW t \in FileThreads, Cache!CloseCount(t)
  PROVE  Cache!IInv'
<1> USE DEF Cache!IInv
<1>0. PICK f \in Files : f = fileOp[t].cur /\ fileOp[t].pc = "close"
  BY DEF Cache!CloseCount, Cache!PlaceInv, Cache!Busy, Cache!TypeOK, Cache!Ops
<1> DEFINE n == IF refs[f] > 0 THEN refs[f] - 1 ELSE 0
<1>1. /\ fileOp[t].pc = "close" /\ fileOp[t].cur = f /\ Cache!Busy(t) /\ path[f] \in Paths
      /\ lock[f] \in {-1, 1} /\ n \in Nat
      /\ UNCHANGED <<disk, cache, live, path, flags, viewed, remapped, holds>>
  BY <1>0 DEF Cache!CloseCount, Cache!PlaceInv, Cache!Busy, Cache!TypeOK, Cache!Ops
<1>2. Cache!TrieInv'
  BY <1>1 DEF Cache!TrieInv
<1>3. path[f] \notin remapped =>
        f \in live /\ lock[f] = 1 /\ refs[f] = n + 1 /\ viewed[f]
  <2> SUFFICES ASSUME path[f] \notin remapped
               PROVE  f \in live /\ lock[f] = 1 /\ refs[f] = n + 1 /\ viewed[f]
    OBVIOUS
  <2>1. f \in live
    BY <1>1, WorkedOn
  <2>2. cache[path[f]] = f /\ refs[f] = Cardinality(Cache!References(f))
        /\ (lock[f] = -1 => refs[f] = 0)
    BY <1>1, <2>1, SameCount DEF Cache!CountInv, Cache!Counted
  <2>3. <<t, 0>> \in Cache!References(f)
    BY <1>1, FilesAssumption DEF Cache!References
  <2>4. Cardinality(Cache!References(f)) # 0 /\ Cardinality(Cache!References(f)) \in Nat
    BY <1>1, <2>3, CountedFinite, FS_EmptySet
  <2>5. viewed[f]
    BY <1>1, <2>2, FilesAssumption DEF Cache!TrieInv
  <2>6. QED
    BY <1>1, <2>1, <2>2, <2>4, <2>5
<1>4. CASE lock[f] = -1
  <2>1. Cache!MapEnd(t, TRUE) /\ UNCHANGED <<refs, lock>>
    BY <1>0, <1>4 DEF Cache!CloseCount
  <2>2. /\ FileStep(t)
        /\ fileOp'[t].old = fileOp[t].old
        /\ IF fileOp[t].old = None THEN fileOp'[t] = Cache!Idle
           ELSE /\ fileOp'[t].pc \in {"rename_done", "rename_failed"}
                /\ fileOp'[t].cur = fileOp[t].cur
    BY <2>1, MapEndIs
  <2>3. fileOp'[t].pc \in {"idle", "rename_done", "rename_failed"} /\ ~ Cache!Busy(t)'
    BY <2>2 DEF Cache!Idle, Cache!Busy
  <2>4. Cache!TypeOK'
    BY <1>1, <2>1, <2>2 DEF Cache!TypeOK, FileStep
  <2>5. Cache!PlaceInv'
    BY <1>1, <2>2, EndPlace
  <2>6. Cache!LockInv'
    <3>1. \A g \in Files : Cache!Holder(t, g)' <=> Cache!Holder(t, g)
      BY <1>1, <2>2, FilesAssumption DEF Cache!Holder, Cache!Idle
    <3>2. QED
      BY <2>1, <2>2, <2>3, <3>1, LockKept
  <2>7. Cache!CountInv'
    <3>1. path[f] \in remapped
      BY <1>3, <1>4
    <3>2. QED
      BY <1>1, <2>1, <2>2, <2>3, <3>1, CountKept, WorkedOn, FilesAssumption DEF FileStep
  <2>8. QED
    BY <1>2, <2>4, <2>5, <2>6, <2>7
<1>5. CASE lock[f] = 1
  <2>1. /\ refs' = [refs EXCEPT ![f] = n]
        /\ IF n > 0 THEN Cache!MapEnd(t, TRUE) /\ UNCHANGED lock
           ELSE /\ lock' = [lock EXCEPT ![f] = -1]
                /\ Cache!To(t, IF viewed[f] THEN "close_remove" ELSE "close_free")
    <3>1. lock[f] # -1
      BY <1>5
    <3>2. QED
      BY <1>0, <3>1 DEF Cache!CloseCount
  <2>0. n \in Nat /\ (path[f] \notin remapped => f \in live /\ refs[f] = n + 1 /\ viewed[f])
    BY <1>1, <1>3
  <2> HIDE DEF n
  <2>2. /\ FileStep(t) /\ fileOp'[t].old = fileOp[t].old
        /\ n > 0 => \/ fileOp'[t] = Cache!Idle
                    \/ /\ fileOp'[t].pc \in {"rename_done", "rename_failed"}
                       /\ fileOp'[t].old # None /\ fileOp'[t].cur = f
        /\ n = 0 => /\ fileOp'[t].cur = f
                    /\ fileOp'[t].pc = IF viewed[f] THEN "close_remove" ELSE "close_free"
    <3>1. CASE n > 0
      <4>1. Cache!MapEnd(t, TRUE)
        BY <2>1, <3>1
      <4>2. /\ FileStep(t) /\ fileOp'[t].old = fileOp[t].old
            /\ IF fileOp[t].old = None THEN fileOp'[t] = Cache!Idle
               ELSE /\ fileOp'[t].pc \in {"rename_done", "rename_failed"}
                    /\ fileOp'[t].cur = fileOp[t].cur
        BY <4>1, MapEndIs
      <4>3. n # 0
        BY <2>0, <3>1
      <4>4. QED
        BY <1>1, <4>2, <4>3
    <3>2. CASE n = 0
      <4>1. PICK l \in {"close_remove", "close_free"} :
              Cache!To(t, l) /\ l = IF viewed[f] THEN "close_remove" ELSE "close_free"
        BY <2>1, <3>2
      <4>2. QED
        BY <1>1, <3>2, <4>1, ToIs DEF Cache!Places
    <3>3. QED
      BY <2>0, <3>1, <3>2
  <2>3. /\ refs'[f] = n /\ \A g \in Files \ {f} : refs'[g] = refs[g] /\ lock'[g] = lock[g]
        /\ lock'[f] = IF n > 0 THEN 1 ELSE -1
        /\ refs' \in [Files -> Nat] /\ lock' \in [Files -> {-1, 0, 1}]
    BY <1>1, <1>5, <2>0, <2>1 DEF Cache!TypeOK
  <2>4. Cache!TypeOK'
    BY <1>1, <2>2, <2>3 DEF Cache!TypeOK, FileStep
  <2>5. Cache!PlaceInv'
    <3>1. CASE n > 0
      BY <1>1, <2>2, <3>1, EndPlace
    <3>2. CASE n = 0
      <4> SUFFICES ASSUME NEW u \in FileThreads PROVE Cache!PlaceInv!(u)'
        BY DEF Cache!PlaceInv
      <4>1. CASE u # t
        BY <1>1, <2>2, <4>1 DEF Cache!PlaceInv, Cache!Busy, FileStep
      <4>2. CASE u = t
        <5>1. \A g \in Files : holds[t][g] > 0 => path[g] \in Paths
          BY DEF Cache!PlaceInv
        <5>2. fileOp'[t].pc = "close_free" => path[f] \in remapped /\ ~ viewed[f]
          BY <2>0, <2>2, <3>2
        <5> HIDE DEF n
        <5>3. QED
          BY <1>1, <2>2, <3>2, <4>2, <5>1, <5>2, FilesAssumption DEF Cache!Busy
      <4>3. QED
        BY <4>1, <4>2
    <3>3. QED
      BY <2>0, <3>1, <3>2
  <2>6. Cache!LockInv'
    <3>1. \A u \in FileThreads : ~ Cache!Holder(u, f)
      BY <1>1, <1>5 DEF Cache!LockInv
    <3>2. fileOp'[t].pc \notin {"open_found", "map_found"}
      BY <2>0, <2>2 DEF Cache!Idle
    <3>3. \A u \in FileThreads, g \in Files : Cache!Holder(u, g)' <=> Cache!Holder(u, g)
      BY <1>1, <2>2, <3>2 DEF Cache!Holder, FileStep
    <3>4. \A u \in FileThreads \ {t} : fileOp'[u] = fileOp[u]
      BY <2>2 DEF FileStep
    <3>5. \A g \in Files : lock'[g] = 0 <=> lock[g] = 0
      BY <1>5, <2>3
    <3>6. QED
      BY <3>1, <3>2, <3>3, <3>4, <3>5 DEF Cache!LockInv
  <2>7. Cache!CountInv'
    <3>0. /\ \A u \in FileThreads \ {t} : fileOp'[u] = fileOp[u] /\ (Cache!Busy(u)' <=> Cache!Busy(u))
          /\ fileOp'[t].pc # "close"
      BY <2>0, <2>2 DEF FileStep, Cache!Busy, Cache!Idle
    <3> SUFFICES ASSUME NEW g \in Files, path[g] \notin remapped
                 PROVE  (g \in live => Cache!Counted(g)') /\ (g \notin live => Cache!Unseen(g)')
      BY <1>1 DEF Cache!CountInv
    <3>1. (g \in live => Cache!Counted(g)) /\ (g \notin live => Cache!Unseen(g))
      BY DEF Cache!CountInv
    <3>2. CASE g = f
      <4>1. f \in live /\ refs[f] = n + 1 /\ viewed[f]
        BY <2>0, <3>2
      <4>2. cache[path[f]] = f /\ refs[f] = Cardinality(Cache!References(f))
        BY <3>1, <3>2, <4>1, SameCount DEF Cache!Counted
      <4>3. Cache!References(f)' = Cache!References(f) \ {<<t, 0>>}
        BY <1>1, <3>0, FilesAssumption DEF Cache!References
      <4>4. <<t, 0>> \in Cache!References(f)
        BY <1>1, FilesAssumption DEF Cache!References
      <4>5. Cardinality(Cache!References(f) \ {<<t, 0>>}) = Cardinality(Cache!References(f)) - 1
        BY <1>1, <4>4, CountedFinite, FS_RemoveElement
      <4>6. refs'[f] = Cardinality(Cache!References(f)')
        BY <2>0, <2>3, <4>1, <4>2, <4>3, <4>5
      <4>7. \A u \in FileThreads \ {t} : ~ (fileOp[u].pc = "close_remove" /\ fileOp[u].cur = f)
        BY <1>5, <3>1, <3>2, <4>1 DEF Cache!Counted
      <4>8. fileOp'[t].pc = "close_remove" => n = 0
        BY <2>0, <2>2 DEF Cache!Idle
      <4>9. Cache!Counted(f)'
        <5> HIDE DEF n
        <5>1. QED
          BY <1>1, <2>3, <3>0, <4>2, <4>6, <4>7, <4>8, SameCount DEF Cache!Counted
      <4>10. QED
        BY <1>1, <3>2, <4>1, <4>9
    <3>3. CASE g # f
      <4>1. Cache!References(g)' = Cache!References(g)
        BY <1>1, <3>0, <3>3, FilesAssumption DEF Cache!References
      <4>2. ~ (fileOp'[t].pc \in {"close_remove", "close_free"} /\ fileOp'[t].cur = g)
        BY <2>0, <2>2, <3>3 DEF Cache!Idle
      <4>3. ~ (Cache!Busy(t)' /\ fileOp'[t].cur = g)
        BY <2>0, <2>2, <3>3 DEF Cache!Busy, Cache!Idle
      <4>4. CASE g \in live
        BY <1>1, <2>3, <3>0, <3>1, <3>3, <4>1, <4>2, <4>4, SameCount DEF Cache!Counted
      <4>5. CASE g \notin live
        BY <1>1, <2>2, <3>0, <3>1, <4>3, <4>5 DEF Cache!Unseen
      <4>6. QED
        BY <4>4, <4>5
    <3>4. QED
      BY <3>2, <3>3
  <2>8. QED
    BY <1>2, <2>4, <2>5, <2>6, <2>7
<1>6. QED
  BY <1>1, <1>4, <1>5

(* The last user takes the file out of the trie and frees it: as long as   *)
(* its mapping was not replaced it is the one that is there, and nobody    *)
(* else has come to it.                                                    *)
LEMMA FilesCloseRemove ==
  ASSUME Cache!IInv, NEW t \in FileThreads, Cache!CloseRemove(t)
  PROVE  Cache!IInv'
<1> USE DEF Cache!IInv
<1>1. PICK c \in Files, p \in Paths :
        /\ fileOp[t].pc = "close_remove" /\ fileOp[t].cur = c /\ path[c] = p
        /\ ~ Cache!Reading /\ Cache!Busy(t) /\ Cache!MapEnd(t, TRUE)
        /\ IF cache[p] = None THEN UNCHANGED <<live, flags, viewed>> ELSE Cache!Free(cache[p])
        /\ cache' = [cache EXCEPT ![p] = None]
        /\ UNCHANGED <<disk, path, refs, lock, remapped, holds>>
  BY DEF Cache!CloseRemove, Cache!PlaceInv, Cache!Busy, Cache!TypeOK, Cache!Ops
<1>2. PICK g \in Files \cup {None} : g = cache[p]
  BY DEF Cache!TypeOK
<1>3. /\ FileStep(t)
      /\ fileOp'[t].old = fileOp[t].old
      /\ IF fileOp[t].old = None THEN fileOp'[t] = Cache!Idle
         ELSE /\ fileOp'[t].pc \in {"rename_done", "rename_failed"}
              /\ fileOp'[t].cur = fileOp[t].cur
  BY <1>1, MapEndIs
<1>4. fileOp'[t].pc \in {"idle", "rename_done", "rename_failed"} /\ ~ Cache!Busy(t)'
  BY <1>3 DEF Cache!Idle, Cache!Busy
<1>5. /\ live' = live \ {g} /\ live' \subseteq Files
      /\ flags' \in [Files -> SUBSET {"virtual", "private", "deleted"}]
      /\ viewed' \in [Files -> BOOLEAN]
      /\ \A f \in Files : viewed'[f] <=> viewed[f] /\ f # g
  <2>1. CASE g = None
    <3>1. UNCHANGED <<live, flags, viewed>> /\ None \notin live
      BY <1>1, <1>2, <2>1, FilesAssumption DEF Cache!TypeOK
    <3>2. QED
      BY <2>1, <3>1, FilesAssumption DEF Cache!TypeOK
  <2>2. CASE g # None
    <3>1. /\ live' = live \ {g} /\ flags' = [flags EXCEPT ![g] = {}]
          /\ viewed' = [viewed EXCEPT ![g] = FALSE]
      BY <1>1, <1>2, <2>2 DEF Cache!Free
    <3>2. QED
      BY <2>2, <3>1 DEF Cache!TypeOK
  <2>3. QED
    BY <2>1, <2>2
<1>6. cache'[p] = None /\ \A q \in Paths \ {p} : cache'[q] = cache[q]
  BY <1>1 DEF Cache!TypeOK
<1>7. \A u \in FileThreads \ {t} : fileOp'[u] = fileOp[u] /\ (Cache!Busy(u)' <=> Cache!Busy(u))
  BY <1>3 DEF FileStep, Cache!Busy
<1>8. Cache!TypeOK'
  <2>1. cache' \in [Paths -> Files \cup {None}]
    BY <1>1 DEF Cache!TypeOK
  <2>2. fileOp' \in [FileThreads -> Cache!Ops]
    BY <1>3 DEF Cache!TypeOK, FileStep
  <2>3. QED
    BY <1>1, <1>5, <2>1, <2>2 DEF Cache!TypeOK
<1>9. Cache!PlaceInv'
  <2> SUFFICES ASSUME NEW u \in FileThreads PROVE Cache!PlaceInv!(u)'
    BY DEF Cache!PlaceInv
  <2>1. CASE u # t
    <3>1. Cache!PlaceInv!(u)
      BY DEF Cache!PlaceInv
    <3>2. fileOp[u].cur \in Files \cup {None} /\ (Cache!Busy(u) => fileOp[u].cur \in Files)
      BY <3>1 DEF Cache!TypeOK, Cache!Ops
    <3>3. fileOp[u].pc = "map_orphan" => \A q \in Paths : cache'[q] # fileOp[u].cur
      BY <1>6, <3>1, <3>2, FilesAssumption DEF Cache!Busy
    <3>4. fileOp[u].pc = "close_free" => ~ viewed'[fileOp[u].cur]
      BY <1>5, <3>1, <3>2 DEF Cache!Busy
    <3>5. QED
      BY <1>1, <1>7, <2>1, <3>1, <3>3, <3>4 DEF Cache!Idle
  <2>2. CASE u = t /\ fileOp'[t] = Cache!Idle
    BY <1>1, <2>2, FilesAssumption DEF Cache!PlaceInv, Cache!Busy, Cache!Idle
  <2>3. CASE u = t /\ fileOp'[t] # Cache!Idle
    BY <1>1, <1>3, <1>4, <2>3 DEF Cache!PlaceInv, Cache!Idle
  <2>4. QED
    BY <2>1, <2>2, <2>3
<1>10. Cache!TrieInv'
  BY <1>1, <1>2, <1>5, <1>6 DEF Cache!TrieInv, Cache!TypeOK
<1>11. Cache!LockInv'
  <2>1. \A f \in Files : Cache!Holder(t, f)' <=> Cache!Holder(t, f)
    BY <1>1, <1>3, FilesAssumption DEF Cache!Holder, Cache!Idle
  <2>2. QED
    BY <1>1, <1>3, <1>4, <2>1, LockKept
<1>12. Cache!CountInv'
  <2> SUFFICES ASSUME NEW f \in Files, path[f] \notin remapped
               PROVE  (f \in live' => Cache!Counted(f)') /\ (f \notin live' => Cache!Unseen(f)')
    BY <1>1 DEF Cache!CountInv
  <2>1. (f \in live => Cache!Counted(f)) /\ (f \notin live => Cache!Unseen(f))
    BY DEF Cache!CountInv
  <2>2. CASE f = g
    <3>1. f \in live /\ path[f] = p /\ f = c
      <4>1. f \in live /\ path[f] = p
        BY <1>2, <2>2, FilesAssumption DEF Cache!TrieInv
      <4>2. c \in live
        BY <1>1, <4>1, WorkedOn
      <4>3. cache[p] = c
        BY <1>1, <4>1, <4>2 DEF Cache!CountInv, Cache!Counted
      <4>4. QED
        BY <1>2, <2>2, <4>1, <4>3
    <3>2. lock[f] = -1 /\ Cardinality(Cache!References(f)) = 0
          /\ \A u \in FileThreads \ {t} : ~ (fileOp[u].pc = "close_remove" /\ fileOp[u].cur = f)
      BY <1>1, <2>1, <3>1, SameCount DEF Cache!Counted
    <3>3. Cache!References(f) = {}
      BY <3>2, CountedFinite, FS_EmptySet
    <3>4. ASSUME NEW u \in FileThreads
          PROVE  holds[u][f] = 0 /\ ~ (fileOp[u].pc = "close" /\ fileOp[u].cur = f)
      <4>1. <<u, 0>> \notin Cache!References(f) /\ <<u, holds[u][f]>> \notin Cache!References(f)
        BY <3>3
      <4>2. holds[u][f] \in 0 .. Uses + 1
        BY DEF Cache!TypeOK
      <4>3. QED
        BY <4>1, <4>2, FilesAssumption DEF Cache!References
    <3>5. \A u \in FileThreads : ~ Cache!Holder(u, f)
      BY <3>2 DEF Cache!LockInv
    <3>6. \A u \in FileThreads \ {t} : Cache!Busy(u) => fileOp[u].cur # f
      <4>1. \A u \in FileThreads : fileOp[u].pc \notin {"open_wait", "map_wait"}
        BY <1>1 DEF Cache!Reading
      <4>2. \A u \in FileThreads :
              fileOp[u].pc \in {"map_orphan", "close_free"} => fileOp[u].cur # f
        BY DEF Cache!PlaceInv
      <4>3. QED
        BY <3>2, <3>4, <3>5, <4>1, <4>2 DEF Cache!Busy, Cache!Holder
    <3>7. Cache!Unseen(f)'
      <4>1. \A u \in FileThreads : fileOp'[u].old # f
        BY <1>3, <1>7, <3>5 DEF Cache!Holder
      <4>2. QED
        BY <1>1, <1>4, <1>7, <3>4, <3>6, <4>1 DEF Cache!Unseen
    <3>8. QED
      BY <1>5, <2>2, <3>7
  <2>3. CASE f # g
    <3>1. Cache!References(f)' = Cache!References(f)
      BY <1>1, <1>4, <1>7 DEF Cache!References
    <3>2. CASE f \in live
      <4>1. path[f] # p /\ cache'[path[f]] = cache[path[f]]
        <5>1. cache[path[f]] = f
          BY <2>1, <3>2 DEF Cache!Counted
        <5>2. path[f] \in Paths
          BY <2>1, <3>2 DEF Cache!Counted
        <5>3. QED
          BY <1>2, <1>6, <2>3, <5>1, <5>2
      <4>2. QED
        BY <1>1, <1>4, <1>5, <1>7, <2>1, <2>3, <3>1, <3>2, <4>1, SameCount DEF Cache!Counted
    <3>3. CASE f \notin live
      BY <1>1, <1>3, <1>4, <1>5, <1>7, <2>1, <3>3 DEF Cache!Unseen
    <3>4. QED
      BY <3>2, <3>3
  <2>4. QED
    BY <2>2, <2>3
<1>13. QED
  BY <1>8, <1>9, <1>10, <1>11, <1>12

(* What has no view any more is freed alone.                               *)
LEMMA FilesCloseFree ==
  ASSUME Cache!IInv, NEW t \in FileThreads, Cache!CloseFree(t)
  PROVE  Cache!IInv'
<1> USE DEF Cache!IInv
<1>1. PICK c \in Files :
        /\ fileOp[t].pc = "close_free" /\ fileOp[t].cur = c
        /\ path[c] \in remapped /\ ~ viewed[c]
        /\ Cache!Free(c) /\ Cache!MapEnd(t, TRUE)
        /\ UNCHANGED <<disk, cache, path, refs, lock, remapped, holds>>
  BY DEF Cache!CloseFree, Cache!PlaceInv, Cache!Busy, Cache!TypeOK, Cache!Ops
<1>2. /\ FileStep(t)
      /\ fileOp'[t].old = fileOp[t].old
      /\ IF fileOp[t].old = None THEN fileOp'[t] = Cache!Idle
         ELSE /\ fileOp'[t].pc \in {"rename_done", "rename_failed"}
              /\ fileOp'[t].cur = fileOp[t].cur
  BY <1>1, MapEndIs
<1>3. fileOp'[t].pc \in {"idle", "rename_done", "rename_failed"} /\ ~ Cache!Busy(t)'
  BY <1>2 DEF Cache!Idle, Cache!Busy
<1>4. /\ live' = live \ {c} /\ live' \subseteq Files
      /\ flags' \in [Files -> SUBSET {"virtual", "private", "deleted"}]
      /\ viewed' = viewed
  BY <1>1 DEF Cache!Free, Cache!TypeOK
<1>5. \A u \in FileThreads \ {t} : fileOp'[u] = fileOp[u] /\ (Cache!Busy(u)' <=> Cache!Busy(u))
  BY <1>2 DEF FileStep, Cache!Busy
<1>6. Cache!TypeOK'
  BY <1>1, <1>2, <1>4 DEF Cache!TypeOK, FileStep
<1>7. Cache!PlaceInv'
  BY <1>1, <1>2, <1>4, EndPlace
<1>8. Cache!TrieInv'
  BY <1>1, <1>4 DEF Cache!TrieInv
<1>9. Cache!LockInv'
  <2>1. \A f \in Files : Cache!Holder(t, f)' <=> Cache!Holder(t, f)
    BY <1>1, <1>2, FilesAssumption DEF Cache!Holder, Cache!Idle
  <2>2. QED
    BY <1>1, <1>2, <1>3, <2>1, LockKept
<1>10. Cache!CountInv'
  <2> SUFFICES ASSUME NEW f \in Files, path[f] \notin remapped
               PROVE  (f \in live' => Cache!Counted(f)') /\ (f \notin live' => Cache!Unseen(f)')
    BY <1>1 DEF Cache!CountInv
  <2>1. f # c /\ (f \in live' <=> f \in live)
    BY <1>1, <1>4
  <2>2. (f \in live => Cache!Counted(f)) /\ (f \notin live => Cache!Unseen(f))
    BY DEF Cache!CountInv
  <2>3. Cache!References(f)' = Cache!References(f)
    BY <1>1, <1>3, <1>5 DEF Cache!References
  <2>4. CASE f \in live
    BY <1>1, <1>3, <1>5, <2>1, <2>2, <2>3, <2>4, SameCount DEF Cache!Counted
  <2>5. CASE f \notin live
    BY <1>1, <1>2, <1>3, <1>5, <2>1, <2>2, <2>5 DEF Cache!Unseen
  <2>6. QED
    BY <2>4, <2>5
<1>11. QED
  BY <1>6, <1>7, <1>8, <1>9, <1>10

LEMMA FilesStutter ==
  ASSUME Cache!IInv,
         UNCHANGED <<disk, cache, live, path, refs, lock, flags, viewed, remapped, holds, fileOp>>
  PROVE  Cache!IInv'
<1> USE DEF Cache!IInv
<1>1. \A f \in Files : Cache!References(f)' = Cache!References(f)
  BY DEF Cache!References
<1>2. Cache!CountInv'
  BY <1>1 DEF Cache!CountInv, Cache!Counted, Cache!Unseen, Cache!Busy
<1>3. QED
  BY <1>2 DEF Cache!TypeOK, Cache!PlaceInv, Cache!Busy, Cache!TrieInv, Cache!LockInv,
     Cache!Holder

LEMMA FilesNext ==
  ASSUME Cache!IInv, Cache!Next
  PROVE  Cache!IInv'
<1>1. PICK t \in FileThreads :
    \/ \E p \in Paths, m \in {{"shared"}, {"shared", "create"}} : Cache!Open(t, p, m)
    \/ Cache!Acquire(t, "open") \/ Cache!OpenFound(t) \/ Cache!OpenPhysical(t)
    \/ Cache!OpenInsert(t)
    \/ \E p \in Paths, m \in {{}, {"replace"}} : Cache!Map(t, p, m)
    \/ Cache!Acquire(t, "map") \/ Cache!MapFound(t) \/ Cache!MapRefused(t)
    \/ Cache!MapInsert(t) \/ Cache!MapUpdate(t) \/ Cache!MapOrphan(t)
    \/ \E p, q \in Paths : Cache!RenameFile(t, p, q) \/ Cache!RenameMapping(t, p, q)
    \/ \E p \in Paths : Cache!DeleteFile(t, p) \/ Cache!DeleteMapping(t, p)
    \/ Cache!RenameEnd(t)
    \/ \E f \in Files : Cache!Reopen(t, f) \/ Cache!Close(t, f)
    \/ Cache!CloseCount(t) \/ Cache!CloseRemove(t) \/ Cache!CloseFree(t)
  BY DEF Cache!Next
<1>2. CASE \E p \in Paths : \/ \E m \in {{"shared"}, {"shared", "create"}} : Cache!Open(t, p, m)
                          \/ \E m \in {{}, {"replace"}} : Cache!Map(t, p, m)
  BY <1>2, FilesLookup
<1>3. CASE Cache!Acquire(t, "open") \/ Cache!Acquire(t, "map")
  BY <1>3, FilesAcquire
<1>4. CASE Cache!OpenFound(t) \/ Cache!OpenPhysical(t) \/ Cache!OpenInsert(t)
  BY <1>4, FilesOpenFound, FilesPhysical, FilesOpenInsert
<1>5. CASE \/ Cache!MapFound(t) \/ Cache!MapRefused(t) \/ Cache!MapInsert(t)
          \/ Cache!MapUpdate(t) \/ Cache!MapOrphan(t)
  BY <1>5, FilesMapFound, FilesMapRefused, FilesMapInsert, FilesMapUpdate, FilesMapOrphan
<1>6. CASE \E p, q \in Paths : \/ Cache!RenameFile(t, p, q) \/ Cache!RenameMapping(t, p, q)
                             \/ Cache!DeleteFile(t, p) \/ Cache!DeleteMapping(t, p)
  BY <1>6, FilesMarked, FilesRenameMapping
<1>7. CASE Cache!RenameEnd(t)
  BY <1>7, FilesRenameEnd
<1>8. CASE \E f \in Files : Cache!Reopen(t, f) \/ Cache!Close(t, f)
  BY <1>8, FilesReopen, FilesClose
<1>9. CASE Cache!CloseCount(t) \/ Cache!CloseRemove(t) \/ Cache!CloseFree(t)
  BY <1>9, FilesCloseCount, FilesCloseRemove, FilesCloseFree
<1>10. QED
  BY <1>1, <1>2, <1>3, <1>4, <1>5, <1>6, <1>7, <1>8, <1>9

LEMMA FilesAreAlive == Cache!IInv => Cache!FilesAlive
<1> SUFFICES ASSUME Cache!IInv, NEW f \in Files, path[f] \notin remapped
             PROVE  /\ Cache!Users(f) > 0 => f \in live /\ refs[f] >= Cache!Users(f) /\ lock[f] >= 0
                    /\ \A t \in FileThreads : Cache!Busy(t) /\ fileOp[t].cur = f => f \in live
                    /\ f \in live => cache[path[f]] = f
  BY DEF Cache!FilesAlive
<1> USE DEF Cache!IInv
<1>1. (f \in live => Cache!Counted(f)) /\ (f \notin live => Cache!Unseen(f))
  BY DEF Cache!CountInv
<1>2. \A t \in FileThreads : Cache!Busy(t) /\ fileOp[t].cur = f => f \in live
  BY <1>1 DEF Cache!Unseen
<1>3. f \in live => cache[path[f]] = f
  BY <1>1 DEF Cache!Counted
<1>4. IsFiniteSet(Cache!References(f)) /\ Cardinality(Cache!References(f)) \in Nat
  BY CountedFinite
<1>5. Cache!Handles(f) \subseteq Cache!References(f)
  BY FilesAssumption DEF Cache!Handles, Cache!References
<1>6. /\ IsFiniteSet(Cache!Handles(f)) /\ Cardinality(Cache!Handles(f)) \in Nat
      /\ Cardinality(Cache!Handles(f)) <= Cardinality(Cache!References(f))
  BY <1>4, <1>5, FS_Subset, FS_CardinalityType
<1>7. Cache!Users(f) = Cardinality(Cache!Handles(f))
  BY SameCount DEF Cache!Users
<1>8. ASSUME Cache!Users(f) > 0
      PROVE  f \in live /\ refs[f] >= Cache!Users(f) /\ lock[f] >= 0
  <2>1. f \in live
    <3> SUFFICES ASSUME f \notin live PROVE FALSE
      OBVIOUS
    <3>1. \A t \in FileThreads : holds[t][f] = 0
      BY <1>1 DEF Cache!Unseen
    <3>2. Cache!Handles(f) = {}
      BY <3>1 DEF Cache!Handles
    <3>3. QED
      BY <1>7, <1>8, <3>2, FS_EmptySet
  <2>2. refs[f] = Cardinality(Cache!References(f)) /\ (lock[f] = -1 => refs[f] = 0)
    BY <1>1, <2>1, SameCount DEF Cache!Counted
  <2>3. lock[f] \in {-1, 0, 1}
    BY DEF Cache!TypeOK
  <2>4. QED
    BY <1>4, <1>6, <1>7, <1>8, <2>1, <2>2, <2>3
<1>9. QED
  BY <1>2, <1>3, <1>8

LEMMA FilesGoOn == Cache!IInv => Cache!StuckOnlyByRename
<1> SUFFICES ASSUME Cache!IInv, \A t \in FileThreads : Cache!Waits(t),
                    \A t \in FileThreads : fileOp[t].old = None
             PROVE  FALSE
  BY DEF Cache!StuckOnlyByRename
<1> USE DEF Cache!IInv
<1>1. \A f \in Files : lock[f] # 0
  <2> SUFFICES ASSUME NEW f \in Files, lock[f] = 0 PROVE FALSE
    OBVIOUS
  <2>1. PICK t \in FileThreads : Cache!Holder(t, f)
    BY DEF Cache!LockInv
  <2>2. fileOp[t].pc \in {"open_found", "map_found"}
    BY <2>1, FilesAssumption DEF Cache!Holder
  <2>3. QED
    BY <2>2 DEF Cache!Waits
<1>2. \A t \in FileThreads : fileOp[t].pc \notin {"open_wait", "map_wait", "close"}
  <2> SUFFICES ASSUME NEW t \in FileThreads, fileOp[t].pc \in {"open_wait", "map_wait", "close"}
               PROVE  FALSE
    OBVIOUS
  <2>1. fileOp[t].cur \in Files
    BY DEF Cache!PlaceInv, Cache!Busy, Cache!TypeOK, Cache!Ops
  <2>2. QED
    BY <1>1, <2>1 DEF Cache!Waits
<1>3. ~ Cache!Reading
  BY <1>2 DEF Cache!Reading
<1>4. QED
  BY <1>2, <1>3, FilesAssumption DEF Cache!Waits

(* No file is freed under those who have it open, look it up or close it,  *)
(* and its users are counted, for any number of threads, paths and         *)
(* structures, as long as no mapping of its path was replaced; and only a  *)
(* rename of a mapping can stop all threads: a lookup waits for a          *)
(* structure inside the lock of the trie, which whoever has the structure  *)
(* does not need.                                                          *)
THEOREM FilesAreSafe == PartsSpec => []CacheSafe
<1>1. PartsInit => Cache!IInv
  BY FilesInit
<1>2. Cache!IInv /\ [PartsNext]_partsVars => Cache!IInv'
  <2> SUFFICES ASSUME Cache!IInv, [PartsNext]_partsVars PROVE Cache!IInv'
    OBVIOUS
  <2>1. CASE Cache!Next
    BY <2>1, FilesNext
  <2>2. CASE ~ Cache!Next
    BY <2>2, FilesStutter DEF PartsNext, Others, partsVars, fileVars
  <2>3. QED
    BY <2>1, <2>2
<1>3. Cache!IInv => CacheSafe
  BY FilesAreAlive, FilesGoOn DEF CacheSafe, Cache!CacheSafe
<1>4. QED
  BY <1>1, <1>2, <1>3, PTL DEF PartsSpec
=============================================================================
