\* Guards may be moved, twice at most.
CONSTANTS
  Guard = {g1, g2, g3}
  None = None
  BatchSize = 2
  MaxPuts = 5
  MaxMoves = 2
SPECIFICATION Spec
SYMMETRY GuardSymmetry
INVARIANTS RefsCounted EndFlushes InOrder
CHECK_DEADLOCK FALSE
