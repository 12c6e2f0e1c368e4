\* One thread sends while the worker answers; the identifier is used twice.
SPECIFICATION FairSpec
CONSTANTS
  None = None
  Replies = {r1, r2, r3}
  Acked = {r1}
  Ending = {r2}
  Delayed = {r3}
  Length = 2
  Senders = {t1}
  Queues = {q1, q2}
  Sockets = 2
  Losses = 1
CHECK_DEADLOCK FALSE
INVARIANT OneHome
PROPERTIES NeverInterleaved NotOvertaken NoLeftovers EachAnswered
