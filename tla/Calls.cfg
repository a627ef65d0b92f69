\* Every method, two calls with the same options, at most two options set or
\* all of them.
CONSTANTS
  MaxCalls = 2
  MaxSet = 2
  Periods = {0, 1, 2}
SPECIFICATION Spec
INVARIANTS OptionsArrive ReleasedOnce  CallerKnows
CHECK_DEADLOCK FALSE
