CONSTANTS
  Wrappers = {w1, w2, w3}
  CStructs = {c1}
  Args = {a1}
  Obj = {o1, o2, o3, o4}
  Null = Null
  Gone = Gone
SPECIFICATION Spec
INVARIANTS UniqueOwner NoDangling NoLeak
CHECK_DEADLOCK FALSE
