\* A listener, clients and outbound connections.  Failed connections are closed, and no identifier is used twice.
SPECIFICATION Spec
CONSTANTS
  w1 = w1
  w2 = w2
  p = p
  None = None
  Workers = {w1, w2}
  Plugin = p
  Max = 4
  Kinds = {"client", "outbound"}
  Reuse = FALSE
  MaxSends = 1
SYMMETRY Symmetry
INVARIANTS OneToken NoLockCycle
