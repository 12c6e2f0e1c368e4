----------------------------- MODULE FileCache -----------------------------
(***************************************************************************)
(* The cache of open files of a view (lib/m_file.c).  A trie maps paths to *)
(* file structures; a structure counts its users under a lock of its own,  *)
(* 1 when free, 0 when held and -1 when broken by the last user.  The lock *)
(* is waited for inside the lookup, under the read lock of the trie; every *)
(* change of the trie takes its write lock and is one step.                *)
(***************************************************************************)
EXTENDS Integers, Sequences, FiniteSets

CONSTANTS
  Threads, Paths,
  Files,      (* the memory of the structures                              *)
  Disk,       (* the paths that exist as files at the start                *)
  Renamers,   (* the threads that call fs_map, fs_rename and fs_delete     *)
  Uses,       (* bound: how often a thread holds a file before it reopens  *)
              (* or opens another                                          *)
  Remaps,     (* bound: the paths whose mapping may be remapped            *)
  None

VARIABLES
  disk,       (* the paths access() finds                                  *)
  cache,      (* the trie: path -> structure                               *)
  live,       (* the structures allocated                                  *)
  path, refs, lock, flags, viewed,   (* the fields of each structure       *)
  remapped,   (* the paths whose mapping fs_map or fs_remap remapped       *)
  holds,      (* how often each thread has each structure open             *)
  op          (* what each thread is doing                                 *)

vars == <<disk, cache, live, path, refs, lock, flags, viewed, remapped, holds, op>>
fields == <<path, refs, lock, flags, viewed>>

(* The step of an operation, its path and flags, the structure it met, and *)
(* the old mapping fs_rename holds.                                        *)
Idle == [pc |-> "idle", want |-> None, mode |-> {}, cur |-> None, old |-> None]

Init ==
  /\ disk = Disk
  /\ cache = [p \in Paths |-> None]
  /\ live = {}
  /\ path = [f \in Files |-> None] /\ refs = [f \in Files |-> 0]
  /\ lock = [f \in Files |-> 1] /\ flags = [f \in Files |-> {}]
  /\ viewed = [f \in Files |-> FALSE]
  /\ remapped = {}
  /\ holds = [t \in Threads |-> [f \in Files |-> 0]]
  /\ op = [t \in Threads |-> Idle]

(* A lookup that waits for a structure keeps the read lock of the trie.    *)
Reading == \E t \in Threads : op[t].pc \in {"open_wait", "map_wait"}

To(t, l) == op' = [op EXCEPT ![t].pc = l]

Done(t) == op' = [op EXCEPT ![t] = Idle]

(* malloc and the initialisation of a structure.  Memory somebody still    *)
(* refers to is not used again: a mistake shows as a reference to it.      *)
Unused == {f \in Files \ live :
             \A t \in Threads : holds[t][f] = 0 /\ f \notin {op[t].cur, op[t].old}}
Make(f, p, fl, n) ==
  /\ Unused # {} /\ f = CHOOSE g \in Unused : TRUE
  /\ live' = live \cup {f}
  /\ path' = [path EXCEPT ![f] = p]
  /\ refs' = [refs EXCEPT ![f] = n]
  /\ lock' = [lock EXCEPT ![f] = 1]
  /\ flags' = [flags EXCEPT ![f] = fl]
  /\ viewed' = [viewed EXCEPT ![f] = TRUE]

Count(t, f, n) == holds' = [holds EXCEPT ![t][f] = @ + n]

-----------------------------------------------------------------------------
(* _fs_openfile: fs_openfile is {"shared"}, fs_createfile adds "create".   *)

(* The places in the code of a lookup, which opens a file or maps one.     *)
Waiting == [open |-> "open_wait", map |-> "map_wait"]
Missing == [open |-> "open_none", map |-> "map_none"]
Met == [open |-> "open_found", map |-> "map_found"]

(* trie_findexec starts.                                                   *)
Lookup(t, p, m, old, l) ==
  op' = [op EXCEPT ![t] = [pc |-> IF cache[p] = None THEN Missing[l] ELSE Waiting[l],
                           want |-> p, mode |-> m, cur |-> cache[p], old |-> old]]

Open(t, p, m) ==
  /\ op[t].pc = "idle" /\ \A f \in Files : holds[t][f] < Uses
  /\ Lookup(t, p, m, None, "open")
  /\ UNCHANGED <<disk, cache, live, fields, remapped, holds>>

(* _fs_refcount_acquire: a broken lock is as good as no entry.             *)
Acquire(t, l) ==
  /\ op[t].pc = Waiting[l] /\ lock[op[t].cur] # 0
  /\ IF lock[op[t].cur] = -1
     THEN UNCHANGED lock /\ op' = [op EXCEPT ![t].pc = Missing[l], ![t].cur = None]
     ELSE lock' = [lock EXCEPT ![op[t].cur] = 0] /\ To(t, Met[l])
  /\ UNCHANGED <<disk, cache, live, path, refs, flags, viewed, remapped, holds>>

(* _fs_refcount_unlock.                                                    *)
Unlocked(f) == IF lock[f] >= 0 THEN [lock EXCEPT ![f] = @ + 1] ELSE lock

OpenFound(t) ==
  /\ op[t].pc = "open_found"
  /\ LET f == op[t].cur IN
       /\ IF "create" \in op[t].mode \/ flags[f] \cap {"private", "deleted"} # {}
          THEN UNCHANGED <<refs, holds>>
          ELSE refs' = [refs EXCEPT ![f] = @ + 1] /\ Count(t, f, 1)
       /\ lock' = Unlocked(f)
  /\ Done(t)
  /\ UNCHANGED <<disk, cache, live, path, flags, viewed, remapped>>

(* access, stat and open.                                                  *)
OpenPhysical(t) ==
  /\ op[t].pc = "open_none"
  /\ IF (op[t].want \in disk) = ("create" \in op[t].mode)
     THEN Done(t) /\ UNCHANGED disk
     ELSE disk' = disk \cup {op[t].want} /\ To(t, "open_insert")
  /\ UNCHANGED <<cache, live, fields, remapped, holds>>

(* An entry made since the lookup: a shared open starts again.             *)
OpenInsert(t) ==
  /\ op[t].pc = "open_insert" /\ ~ Reading
  /\ IF cache[op[t].want] = None
     THEN \E f \in Files :
            /\ Make(f, op[t].want, {}, 1)
            /\ cache' = [cache EXCEPT ![op[t].want] = f]
            /\ Count(t, f, 1)
            /\ Done(t)
     ELSE /\ IF "create" \in op[t].mode THEN Done(t)
             ELSE Lookup(t, op[t].want, op[t].mode, None, "open")
          /\ UNCHANGED <<cache, live, fields, holds>>
  /\ UNCHANGED <<disk, remapped>>

(* fs_reopenfile, on a file the thread has open.                           *)
Reopen(t, f) ==
  /\ op[t].pc = "idle" /\ holds[t][f] \in 1 .. Uses /\ lock[f] = 1
  /\ flags[f] \cap {"private", "deleted"} = {}
  /\ refs' = [refs EXCEPT ![f] = @ + 1]
  /\ Count(t, f, 1)
  /\ UNCHANGED <<disk, cache, live, path, lock, flags, viewed, remapped, op>>

-----------------------------------------------------------------------------
(* _fs_map: fs_map, or fs_remap with "replace".                            *)

Map(t, p, m) ==
  /\ t \in Renamers /\ op[t].pc = "idle" /\ p \notin disk
  /\ Lookup(t, p, m, None, "map")
  /\ UNCHANGED <<disk, cache, live, fields, remapped, holds>>

(* The previous mapping may be remapped when it is virtual, and asked for  *)
(* or deleted.                                                             *)
MapFound(t) ==
  /\ op[t].pc = "map_found"
  /\ LET fl == flags[op[t].cur] IN
       To(t, IF "virtual" \in fl /\ ("deleted" \in fl \/ "replace" \in op[t].mode)
             THEN "map_update" ELSE "map_refused")
  /\ lock' = Unlocked(op[t].cur)
  /\ UNCHANGED <<disk, cache, live, path, refs, flags, viewed, remapped, holds>>

(* fs_rename gives up the lock of the old mapping when fs_map fails.       *)
MapEnd(t, done) ==
  IF op[t].old = None THEN Done(t)
  ELSE To(t, IF done THEN "rename_done" ELSE "rename_failed")

MapRefused(t) ==
  /\ op[t].pc = "map_refused"
  /\ MapEnd(t, FALSE)
  /\ UNCHANGED <<disk, cache, live, fields, remapped, holds>>

MapInsert(t) ==
  /\ op[t].pc = "map_none" /\ ~ Reading
  /\ IF cache[op[t].want] = None
     THEN \E f \in Files :
            /\ Make(f, op[t].want, {"virtual"}, 0)
            /\ cache' = [cache EXCEPT ![op[t].want] = f]
            /\ MapEnd(t, TRUE)
     ELSE MapEnd(t, FALSE) /\ UNCHANGED <<cache, live, fields>>
  /\ UNCHANGED <<disk, remapped, holds>>

(* trie_update: nothing is stored when the entry has gone meanwhile, and   *)
(* the caller is told that the mapping is made.                            *)
MapUpdate(t) ==
  /\ op[t].pc = "map_update" /\ ~ Reading
  /\ op[t].want \in remapped \/ Cardinality(remapped) < Remaps
  /\ IF cache[op[t].want] = None
     THEN MapEnd(t, TRUE) /\ UNCHANGED <<cache, live, fields, remapped>>
     ELSE \E f \in Files :
            LET prev == cache[op[t].want] IN
            /\ Make(f, op[t].want, {"virtual"}, 0)
            /\ cache' = [cache EXCEPT ![op[t].want] = f]
            /\ remapped' = remapped \cup {op[t].want}
            /\ op' = [op EXCEPT ![t].cur = prev, ![t].pc = "map_orphan"]
  /\ UNCHANGED <<disk, holds>>

(* The old structure loses its view, and is closed if nobody uses it.      *)
MapOrphan(t) ==
  /\ op[t].pc = "map_orphan"
  /\ viewed' = [viewed EXCEPT ![op[t].cur] = FALSE]
  /\ IF refs[op[t].cur] = 0 THEN To(t, "close") ELSE MapEnd(t, TRUE)
  /\ UNCHANGED <<disk, cache, live, path, refs, lock, flags, remapped, holds>>

-----------------------------------------------------------------------------
(* fs_rename and fs_delete.                                                *)

(* Physical files are renamed and unlinked under the cache.                *)
RenameFile(t, p, q) ==
  /\ t \in Renamers /\ op[t].pc = "idle" /\ p \in disk /\ q \notin disk
  /\ disk' = (disk \ {p}) \cup {q}
  /\ UNCHANGED <<cache, live, fields, remapped, holds, op>>

DeleteFile(t, p) ==
  /\ t \in Renamers /\ op[t].pc = "idle" /\ p \in disk
  /\ disk' = disk \ {p}
  /\ UNCHANGED <<cache, live, fields, remapped, holds, op>>

(* The lookup of a mapping by fs_delete and fs_rename.                     *)
DeleteMapping(t, p) ==
  /\ t \in Renamers /\ op[t].pc = "idle" /\ p \notin disk
  /\ cache[p] # None /\ lock[cache[p]] = 1
  /\ flags' = [flags EXCEPT ![cache[p]] = @ \cup {"deleted"}]
  /\ UNCHANGED <<disk, cache, live, path, refs, lock, viewed, remapped, holds, op>>

(* The lock of the old mapping is kept while the new one is made.          *)
RenameMapping(t, p, q) ==
  /\ t \in Renamers /\ op[t].pc = "idle" /\ p \notin disk /\ q \notin disk
  /\ cache[p] # None /\ lock[cache[p]] = 1
  /\ lock' = [lock EXCEPT ![cache[p]] = 0]
  /\ Lookup(t, q, {}, cache[p], "map")
  /\ UNCHANGED <<disk, cache, live, path, refs, flags, viewed, remapped, holds>>

RenameEnd(t) ==
  /\ op[t].pc \in {"rename_done", "rename_failed"}
  /\ LET f == op[t].old IN
       /\ flags' = IF op[t].pc = "rename_done" THEN [flags EXCEPT ![f] = @ \cup {"deleted"}]
                   ELSE flags
       /\ lock' = Unlocked(f)
  /\ Done(t)
  /\ UNCHANGED <<disk, cache, live, path, refs, viewed, remapped, holds>>

-----------------------------------------------------------------------------
(* fs_closefile.                                                           *)

Close(t, f) ==
  /\ op[t].pc = "idle" /\ holds[t][f] > 0
  /\ Count(t, f, -1)
  /\ op' = [op EXCEPT ![t].cur = f, ![t].pc = "close"]
  /\ UNCHANGED <<disk, cache, live, fields, remapped>>

CloseCount_Unbroken(t) ==         \* mutant: the last user gives the lock up unbroken
  /\ op[t].pc = "close" /\ lock[op[t].cur] # 0
  /\ LET f == op[t].cur  n == IF refs[f] > 0 THEN refs[f] - 1 ELSE 0 IN
       /\ refs' = [refs EXCEPT ![f] = n]
       /\ IF n > 0 THEN MapEnd(t, TRUE)
          ELSE To(t, IF viewed[f] THEN "close_remove" ELSE "close_free")
  /\ UNCHANGED <<disk, cache, live, path, lock, flags, viewed, remapped, holds>>

(* The last user breaks the lock and looks whether the file has a view.    *)
CloseCount(t) ==
  /\ op[t].pc = "close" /\ lock[op[t].cur] # 0
  /\ LET f == op[t].cur  n == IF refs[f] > 0 THEN refs[f] - 1 ELSE 0 IN
       IF lock[f] = -1 THEN MapEnd(t, TRUE) /\ UNCHANGED <<refs, lock>>
       ELSE /\ refs' = [refs EXCEPT ![f] = n]
            /\ IF n > 0 THEN MapEnd(t, TRUE) /\ UNCHANGED lock
               ELSE /\ lock' = [lock EXCEPT ![f] = -1]
                    /\ To(t, IF viewed[f] THEN "close_remove" ELSE "close_free")
  /\ UNCHANGED <<disk, cache, live, path, flags, viewed, remapped, holds>>

(* free: what its flags were is of no use to anybody.                      *)
Free(f) ==
  /\ live' = live \ {f}
  /\ flags' = [flags EXCEPT ![f] = {}] /\ viewed' = [viewed EXCEPT ![f] = FALSE]

(* What is freed is what the view has under that path.                     *)
CloseRemove(t) ==
  /\ op[t].pc = "close_remove" /\ ~ Reading
  /\ LET p == path[op[t].cur] IN
       /\ IF cache[p] = None THEN UNCHANGED <<live, flags, viewed>> ELSE Free(cache[p])
       /\ cache' = [cache EXCEPT ![p] = None]
  /\ MapEnd(t, TRUE)
  /\ UNCHANGED <<disk, path, refs, lock, remapped, holds>>

CloseFree(t) ==
  /\ op[t].pc = "close_free"
  /\ Free(op[t].cur)
  /\ MapEnd(t, TRUE)
  /\ UNCHANGED <<disk, cache, path, refs, lock, remapped, holds>>

Next ==
  \E t \in Threads :
    \/ \E p \in Paths, m \in {{"shared"}, {"shared", "create"}} : Open(t, p, m)
    \/ Acquire(t, "open") \/ OpenFound(t) \/ OpenPhysical(t) \/ OpenInsert(t)
    \/ \E p \in Paths, m \in {{}, {"replace"}} : Map(t, p, m)
    \/ Acquire(t, "map") \/ MapFound(t) \/ MapRefused(t) \/ MapInsert(t)
    \/ MapUpdate(t) \/ MapOrphan(t)
    \/ \E p, q \in Paths : RenameFile(t, p, q) \/ RenameMapping(t, p, q)
    \/ \E p \in Paths : DeleteFile(t, p) \/ DeleteMapping(t, p)
    \/ RenameEnd(t)
    \/ \E f \in Files : Reopen(t, f) \/ Close(t, f)
    \/ CloseCount(t) \/ CloseRemove(t) \/ CloseFree(t)

-----------------------------------------------------------------------------
(* A file is opened at most once more than Uses (Reopen).                  *)
Handles(f) == {h \in Threads \X (1 .. Uses + 1) : h[2] <= holds[h[1]][f]}
Users(f) == Cardinality(Handles(f))

(* Where a thread works on the structure it met.                           *)
Busy(t) == op[t].pc \in {"open_wait", "open_found", "map_wait", "map_found", "map_orphan",
                      "close", "close_remove", "close_free"}

(* A file that is open, looked up or being closed is not freed under its   *)
(* users, its users are counted, and the view has it under its path until  *)
(* the last of them closes it, as long as no mapping of that path was      *)
(* replaced.                                                               *)
FilesAlive ==
  \A f \in Files : path[f] \notin remapped =>
    /\ Users(f) > 0 => f \in live /\ refs[f] >= Users(f) /\ lock[f] >= 0
    /\ \A t \in Threads : Busy(t) /\ op[t].cur = f => f \in live
    /\ f \in live => cache[path[f]] = f

(* The threads that cannot go on: a lookup waits for a structure, a change *)
(* of the trie for the lookups.                                            *)
Waits(t) ==
  \/ op[t].pc \in {"open_wait", "map_wait", "close"} /\ lock[op[t].cur] = 0
  \/ op[t].pc \in {"open_insert", "map_none", "map_update", "close_remove"} /\ Reading

(* All threads wait for each other only when one renames a mapping, whose  *)
(* lock it keeps, while another looks the mapping up.                      *)
StuckOnlyByRename ==
  (\A t \in Threads : Waits(t)) => \E t \in Threads : op[t].old # None

CacheSafe == FilesAlive /\ StuckOnlyByRename

-----------------------------------------------------------------------------
(* The inductive invariant.                                                *)

Places ==
  {"idle", "open_wait", "open_none", "open_found", "open_insert", "map_wait", "map_none",
   "map_found", "map_refused", "map_update", "map_orphan", "rename_done", "rename_failed",
   "close", "close_remove", "close_free"}

Ops == [pc : Places, want : Paths \cup {None}, mode : SUBSET {"shared", "create", "replace"},
        cur : Files \cup {None}, old : Files \cup {None}]

TypeOK ==
  /\ disk \subseteq Paths
  /\ cache \in [Paths -> Files \cup {None}]
  /\ live \subseteq Files
  /\ path \in [Files -> Paths \cup {None}]
  /\ refs \in [Files -> Nat]
  /\ lock \in [Files -> {-1, 0, 1}]
  /\ flags \in [Files -> SUBSET {"virtual", "private", "deleted"}]
  /\ viewed \in [Files -> BOOLEAN]
  /\ remapped \subseteq Paths
  /\ holds \in [Threads -> [Files -> 0 .. Uses + 1]]
  /\ op \in [Threads -> Ops]

(* What a thread has at each place.                                        *)
PlaceInv ==
  \A t \in Threads :
    /\ op[t].pc = "idle" => op[t] = Idle
    /\ op[t].pc \in {"open_none", "open_wait", "open_insert", "map_none", "map_wait",
                    "map_found", "map_update"} => op[t].want \in Paths
    /\ Busy(t) => op[t].cur # None
    /\ \A f \in Files : holds[t][f] > 0 \/ op[t].cur = f => path[f] \in Paths
    /\ op[t].pc \in {"open_wait", "open_none", "open_found", "open_insert"} =>
         op[t].old = None /\ \A f \in Files : holds[t][f] < Uses
    /\ op[t].pc \in {"rename_done", "rename_failed"} => op[t].old # None
    /\ op[t].pc = "map_orphan" =>
         path[op[t].cur] \in remapped /\ \A p \in Paths : cache[p] # op[t].cur
    /\ op[t].pc = "close_free" => path[op[t].cur] \in remapped /\ ~ viewed[op[t].cur]

(* What the trie shows is there.                                           *)
TrieInv ==
  \A p \in Paths : cache[p] # None =>
    cache[p] \in live /\ path[cache[p]] = p /\ viewed[cache[p]]

(* Who holds the lock of a structure: a lookup that met it, or the renamer *)
(* of its mapping.                                                         *)
Holder(t, f) == op[t].old = f \/ (op[t].pc \in {"open_found", "map_found"} /\ op[t].cur = f)

LockInv ==
  \A f \in Files :
    /\ lock[f] = 0 => \E t \in Threads : Holder(t, f)
    /\ \A t \in Threads : Holder(t, f) =>
         lock[f] = 0 /\ (op[t].pc = "map_found" => op[t].old # op[t].cur)
    /\ \A t, u \in Threads : Holder(t, f) /\ Holder(u, f) => t = u

(* Those whom refs counts: a thread that closes a file is the handle 0.    *)
References(f) ==
  {h \in Threads \X (0 .. Uses + 1) :
     IF h[2] = 0 THEN op[h[1]].pc = "close" /\ op[h[1]].cur = f
     ELSE h[2] <= holds[h[1]][f]}

(* An allocated file is in the trie and refs counts its users; the last of *)
(* them has broken the lock, and removes the file alone.                   *)
Counted(f) ==
  /\ path[f] \in Paths /\ cache[path[f]] = f
  /\ refs[f] = Cardinality(References(f))
  /\ lock[f] = -1 => refs[f] = 0
  /\ \A t \in Threads : op[t].pc = "close_remove" /\ op[t].cur = f =>
       /\ lock[f] = -1
       /\ \A u \in Threads : op[u].pc = "close_remove" /\ op[u].cur = f => u = t

(* Nobody uses a file that is not allocated.                               *)
Unseen(f) ==
  \A t \in Threads : holds[t][f] = 0 /\ op[t].old # f /\ (Busy(t) => op[t].cur # f)

CountInv ==
  \A f \in Files : path[f] \notin remapped =>
    (f \in live => Counted(f)) /\ (f \notin live => Unseen(f))

IInv == TypeOK /\ PlaceInv /\ TrieInv /\ LockInv /\ CountInv
=============================================================================
