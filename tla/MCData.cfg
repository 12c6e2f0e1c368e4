\* Two threads add, take and push back pointers, the third also sleeps; the rest
\* of the library is called in any order.
SPECIFICATION MCSpec
CONSTANTS
  t1 = t1
  t2 = t2
  t3 = t3
  x = x
  y = y
  z = z
  n0 = n0
  n1 = n1
  n2 = n2
  n3 = n3
  n4 = n4
  None = None
  Absent = Absent
  Threads = {t1, t2, t3}
  Pushers = {t1, t2}
  Waiters = {t3}
  Items = {x, y, z}
  Nodes = {n0, n1, n2, n3, n4}
  Dummy = n0
  TrieKeys <- KeptKeys
  Used = {"queue", "table", "trie", "strings", "inputs", "sha1"}
SYMMETRY Symmetry
CHECK_DEADLOCK FALSE
INVARIANTS QueueSafe 
PROPERTIES DequeSpec TableMapSpec  
