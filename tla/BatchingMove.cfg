\* Guards may be moved: the life of the batch.
CONSTANTS
  Guard = {g1, g2, g3}
  None = None
  BatchSize = 2
  MaxPuts = 5
  MaxMoves = 1
SPECIFICATION Spec
SYMMETRY GuardSymmetry
INVARIANTS GuardKeepsBatching
CHECK_DEADLOCK FALSE
