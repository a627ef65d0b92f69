\* A FIFO or a ring channel of a subscriber, a queryable or a query.
CONSTANTS
  Capacity = 2
  Producers = {p1, p2}
  Consumers = {c1, c2}
  MaxMsgs = 4
SPECIFICATION FairSpec
INVARIANTS BufferIsTail
PROPERTIES ImplementsStream DestroyReturns RecvReturns EndReturns DroppedHandlerFreesSender CancelReturns EndIsSeen
CHECK_DEADLOCK FALSE
