\* One call, at most one option set or all of them: a call that ignores a field.
CONSTANTS
  MaxCalls = 1
  MaxSet = 1
  Periods = {1}
SPECIFICATION Spec
INVARIANT EveryFieldArrives
CHECK_DEADLOCK FALSE
