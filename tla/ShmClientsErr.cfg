\* A failed addition reported through err.
CONSTANT N = 2
SPECIFICATION Spec
INVARIANT OkIsComplete
CHECK_DEADLOCK FALSE
