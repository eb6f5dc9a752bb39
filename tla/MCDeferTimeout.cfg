SPECIFICATION FairSpec
CONSTANTS
  t1 = t1
  Transports <- MCTransports
  Garbage <- MCGarbage
  NDefer = 2
  WindowFactor = 2
  MaxSeq = 3
PROPERTY
  DeferredIsReleased
CHECK_DEADLOCK FALSE
