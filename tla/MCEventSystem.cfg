SPECIFICATION Spec
CONSTANTS
  Conns = {1, 2}
  Capacity = 2
  IoInterval = 3
  TmoInterval = 1
  TMax = 3
  CallTicks = 1
  MaxLate = 3
INVARIANTS
  TypeOK
  IoStaysFirst
  SinglePeerExact
  WalkEnds
  CalledInTime
CHECK_DEADLOCK FALSE
