\* A listener and the one connection it accepts, again and again.
SPECIFICATION LiveSpec
CONSTANTS
  w1 = w1
  w2 = w2
  p = p
  None = None
  Workers = {w1, w2}
  Plugin = p
  Max = 3
  Kinds = {}
  Reuse = TRUE
  MaxSends = 1

PROPERTIES ReplyServed KeepsAccepting
