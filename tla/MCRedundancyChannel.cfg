SPECIFICATION FairSpec
CONSTANTS
  t1 = t1
  Transports <- MCTransports
  Garbage <- MCGarbage
  NDefer = 2
  WindowFactor = 2
  MaxSeq = 6
INVARIANTS
  TypeOK
  DeliveredInOrder
  NothingSkipped
  
  DeferredAhead
PROPERTIES
  LeavesDelivered
  HandedUp
  ImplementsInOrderDelivery
CHECK_DEADLOCK FALSE
