\* Two threads send the first replies to a socket together.
SPECIFICATION Spec
CONSTANTS
  None = None
  Replies = {r1, r2, r3}
  Acked = {r1}
  Ending = {r2}
  Delayed = {r3}
  Length = 2
  Senders = {t1, t2}
  Queues = {q1, q2}
  Sockets = 1
  Losses = 0
CHECK_DEADLOCK FALSE
PROPERTY NeverInterleaved
