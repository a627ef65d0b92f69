\* Two entities, the session and one publisher: an entity of the session and a
\* listener of the publisher, or two entities of either.
CONSTANTS
  Entity = {e1, e2}
  Scope = {sess, pub}
  Session = sess
  MaxRunning = 2
SPECIFICATION FairSpec
INVARIANTS CallsOnLiveContext DropOnce ContextHasReleaser  ClosedMeansUnregistered
PROPERTIES  ImplementsClosures
CHECK_DEADLOCK FALSE
