\* One entity: what a failed declaration returns.
CONSTANTS
  Entity = {e1}
  Scope = {sess, pub}
  Session = sess
  MaxRunning = 1
SPECIFICATION Spec
INVARIANT FailedHandlerIsGravestone
CHECK_DEADLOCK FALSE
