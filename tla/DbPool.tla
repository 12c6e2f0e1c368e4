------------------------------- MODULE DbPool -------------------------------
(***************************************************************************)
(* Database connections (lib/m_db.c): the pool that lends them, queries    *)
(* under the lock of a connection, and the cursor of a recordset.  The     *)
(* pool opens one connection more than it is asked for, and an empty pool  *)
(* lends its safe connection to everybody.                                 *)
(***************************************************************************)
EXTENDS Integers, Sequences, FiniteSets, SequencesExt

CONSTANTS
  Threads,
  Drivers,   (* of "mysql" and "sqlite"                                    *)
  Asked,     (* the connections dbpool_open is asked for                   *)
  Rows,      (* bound: the rows of a result set                            *)
  Word,      (* 2^w of an unsigned int, more than Rows + 1                 *)
  None

Safe == 0
Connections == 0 .. Asked + 1

VARIABLES
  driver,    (* _driver                                                    *)
  open,      (* the connections open                                       *)
  pool,      (* _pool                                                      *)
  state,     (* of the pool: "filling", "ready", "failed", "closed"        *)
  borrowed,  (* the connection each thread has                             *)
  inside,    (* the connection whose lock each thread has                  *)
  set,       (* its recordset                                              *)
  seen       (* the rows it read                                           *)

vars == <<driver, open, pool, state, borrowed, inside, set, seen>>

NoSet == [has |-> FALSE, real |-> 0, rows |-> 0, row |-> 0]

Init ==
  /\ driver \in Drivers
  /\ open = {Safe} /\ pool = <<>> /\ state = "filling"
  /\ borrowed = [t \in Threads |-> None] /\ inside = [t \in Threads |-> None]
  /\ set = [t \in Threads |-> NoSet] /\ seen = [t \in Threads |-> 0]

Idle(t) == inside[t] = None /\ ~ set[t].has
handles == <<borrowed, inside, set, seen>>

-----------------------------------------------------------------------------
(* dbpool_open: the do loop, one turn a step.                              *)

FillOne ==
  /\ state = "filling"
  /\ \E c \in Connections \ open :
       /\ open' = open \cup {c}
       /\ pool' = Append(pool, c)
       /\ state' = IF Len(pool') = Asked + 1 THEN "ready" ELSE state
  /\ UNCHANGED <<driver, handles>>

(* One connection fails: those made are closed, the safe one too.          *)
FillFails ==
  /\ state = "filling"
  /\ open' = {} /\ pool' = <<>> /\ state' = "failed"
  /\ UNCHANGED <<driver, handles>>

Borrow(t) ==
  /\ state = "ready" /\ borrowed[t] = None
  /\ IF pool = <<>>
     THEN borrowed' = [borrowed EXCEPT ![t] = Safe] /\ UNCHANGED pool
     ELSE borrowed' = [borrowed EXCEPT ![t] = Head(pool)] /\ pool' = Tail(pool)
  /\ UNCHANGED <<driver, open, state, inside, set, seen>>

Return_AddsSafe(t) ==             \* mutant: the safe connection joins the pool
  /\ state = "ready" /\ borrowed[t] # None /\ Idle(t)
  /\ pool' = Append(pool, borrowed[t])
  /\ borrowed' = [borrowed EXCEPT ![t] = None]
  /\ UNCHANGED <<driver, open, state, inside, set, seen>>

Return(t) ==
  /\ state = "ready" /\ borrowed[t] # None /\ Idle(t)
  /\ pool' = IF borrowed[t] = Safe THEN pool ELSE Append(pool, borrowed[t])
  /\ borrowed' = [borrowed EXCEPT ![t] = None]
  /\ UNCHANGED <<driver, open, state, inside, set, seen>>

(* Only what is in the pool is closed.                                     *)
ClosePool ==
  /\ state = "ready" /\ \A t \in Threads : Idle(t)
  /\ open' = open \ (ToSet(pool) \cup {Safe})
  /\ pool' = <<>> /\ state' = "closed"
  /\ UNCHANGED <<driver, handles>>

-----------------------------------------------------------------------------
(* _db_sql: the lock of the connection, the driver, the unlock.            *)

Lock(t) ==
  /\ borrowed[t] \in open /\ Idle(t)
  /\ \A u \in Threads : inside[u] # borrowed[t]
  /\ inside' = [inside EXCEPT ![t] = borrowed[t]]
  /\ UNCHANGED <<driver, open, pool, state, borrowed, set, seen>>

(* The rows the driver announces: the SQLite one takes off one more, for   *)
(* the names of the columns.                                               *)
Announced(n) == IF driver = "mysql" THEN n ELSE (n - 1 + Word) % Word

(* A query that fails, that has no result set (db_exec, or db_free at      *)
(* once), or that gives n rows; db_movefirst is refused on none.           *)
Query(t) ==
  /\ inside[t] # None
  /\ \/ UNCHANGED set
     \/ \E n \in 0 .. Rows :
          set' = [set EXCEPT ![t] = [has |-> TRUE, real |-> n, rows |-> Announced(n), row |-> 0]]
  /\ seen' = [seen EXCEPT ![t] = 0]
  /\ inside' = [inside EXCEPT ![t] = None]
  /\ UNCHANGED <<driver, open, pool, state, borrowed>>

(* db_move and the calls that compute its row, as unsigned.                *)
Move(t, row) ==
  /\ set[t].has /\ row < set[t].rows
  /\ set' = [set EXCEPT ![t].row = row]

NextRow(t) == (set[t].row + 1) % Word
PrevRow(t) == (set[t].row - 1 + Word) % Word
LastRow(t) == (set[t].rows - 1 + Word) % Word

MoveAny(t) ==
  /\ \/ Move(t, 0) \/ Move(t, NextRow(t)) \/ Move(t, PrevRow(t)) \/ Move(t, LastRow(t))
  /\ UNCHANGED <<driver, open, pool, state, borrowed, inside, seen>>

(* db_field, which does not look at rows: past the end the MySQL driver    *)
(* has nothing and the SQLite one reads on.                                *)
Field(t) ==
  /\ set[t].has
  /\ seen' = IF driver = "mysql" /\ set[t].row >= set[t].real THEN seen
             ELSE [seen EXCEPT ![t] = set[t].row + 1]
  /\ UNCHANGED <<driver, open, pool, state, borrowed, inside, set>>

Free(t) ==
  /\ set[t].has
  /\ set' = [set EXCEPT ![t] = NoSet]
  /\ seen' = [seen EXCEPT ![t] = 0]
  /\ UNCHANGED <<driver, open, pool, state, borrowed, inside>>

Next ==
  \/ FillOne \/ FillFails \/ ClosePool
  \/ \E t \in Threads :
       Borrow(t) \/ Return(t) \/ Lock(t) \/ Query(t) \/ MoveAny(t) \/ Field(t) \/ Free(t)

-----------------------------------------------------------------------------
Borrowers(c) == {t \in Threads : borrowed[t] = c}

(* A connection but the safe one is either in the pool or lent to a single *)
(* thread, never both nor twice; no two threads run a query on the same    *)
(* connection; the safe one is lent only beyond the others; and what is    *)
(* in use is open.  Connections still lent when the pool closes leak.      *)
PoolSafe ==
  /\ \A c \in Connections \ {Safe} :
       /\ Cardinality(Borrowers(c)) <= 1
       /\ state = "ready" => (c \in ToSet(pool) <=> c \in open /\ Borrowers(c) = {})
  /\ Cardinality(ToSet(pool)) = Len(pool)
  /\ \A t, u \in Threads : t # u /\ inside[t] # None => inside[t] # inside[u]
  /\ \A t \in Threads : inside[t] # None => inside[t] = borrowed[t] /\ inside[t] \in open
  /\ state = "failed" => open = {}
  /\ state = "closed" => open \ {Safe} = {borrowed[t] : t \in Threads} \ {None, Safe}

(* A recordset is read inside its rows, whatever the moves; by the SQLite  *)
(* driver only when it has a row, and then without its last, if it has two.*)
CursorSafe ==
  \A t \in Threads :
    LET s == set[t] IN
    /\ driver = "mysql" => seen[t] <= s.real
    /\ driver = "sqlite" /\ s.real > 0 => seen[t] <= (IF s.real > 1 THEN s.real - 1 ELSE 1)

DbSafe == PoolSafe /\ CursorSafe

-----------------------------------------------------------------------------
(* The inductive invariant: what is open and not lent is in the pool, each *)
(* connection once.                                                        *)

TypeOK ==
  /\ driver \in Drivers /\ open \subseteq Connections
  /\ pool \in Seq(Connections \ {Safe})
  /\ state \in {"filling", "ready", "failed", "closed"}
  /\ borrowed \in [Threads -> Connections \cup {None}]
  /\ inside \in [Threads -> Connections \cup {None}]
  /\ set \in [Threads -> [has : BOOLEAN, real : 0 .. Rows, rows : 0 .. Word - 1, row : 0 .. Word - 1]]
  /\ seen \in [Threads -> Nat]

Lent == {borrowed[t] : t \in Threads} \ {None}

PoolInv ==
  /\ \A i, j \in 1 .. Len(pool) : pool[i] = pool[j] => i = j
  /\ \A i \in 1 .. Len(pool) : pool[i] \notin Lent
  /\ \A t, u \in Threads : borrowed[t] \notin {None, Safe} /\ borrowed[t] = borrowed[u] => t = u
  /\ state \in {"filling", "failed"} => Lent = {}
  /\ state \in {"filling", "ready"} =>
       open = {Safe} \cup (Lent \cup {pool[i] : i \in 1 .. Len(pool)})
  /\ state = "failed" => open = {}
  /\ state = "closed" => open = Lent \ {Safe} /\ pool = <<>>

LockInv ==
  /\ \A t \in Threads : inside[t] # None => inside[t] = borrowed[t] /\ inside[t] \in open
  /\ \A t, u \in Threads : t # u /\ inside[t] # None => inside[t] # inside[u]

CursorInv ==
  \A t \in Threads :
    LET s == set[t] IN
    /\ s.row # 0 => s.row < s.rows
    /\ driver = "mysql" => seen[t] <= s.real
    /\ driver = "sqlite" /\ s.real > 0 =>
         s.rows = s.real - 1 /\ seen[t] <= (IF s.real > 1 THEN s.real - 1 ELSE 1)

IInv == TypeOK /\ PoolInv /\ LockInv /\ CursorInv
=============================================================================
