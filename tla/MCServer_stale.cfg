\* Failed connections are closed, and their identifiers come back.
SPECIFICATION Spec
CONSTANTS
  w1 = w1
  w2 = w2
  p = p
  None = None
  Workers = {w1, w2}
  Plugin = p
  Max = 3
  Kinds = {"client", "outbound"}
  Reuse = TRUE
  MaxSends = 1
SYMMETRY Symmetry
INVARIANT NoStaleId
