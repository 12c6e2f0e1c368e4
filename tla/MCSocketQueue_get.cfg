\* _readable, _writable and _free_ids: read with socket_queue_get only.
SPECIFICATION FairSpec
CONSTANTS
  p1 = p1
  p2 = p2
  c1 = c1
  c2 = c2
  w1 = w1
  w2 = w2
  None = None
  Max = 4
  Ids = {1, 2, 3}
  Producers = {p1, p2}
  Consumers = {c1, c2}
  Pollers = {}
  PollLen = 4
  Padding = {0, 7}
INVARIANTS OnePlace EndMark NoLostWakeup
PROPERTIES FifoSpec EachServed
