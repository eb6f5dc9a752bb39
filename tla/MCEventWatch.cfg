SPECIFICATION Spec
CONSTANTS
  Conns = {1, 2}
  Capacity = 2
  IoInterval = 3
  TmoInterval = 1
  TMax = 3
  CallTicks = 1
  MaxLate = 3
INVARIANTS
  UpIsWatched
CHECK_DEADLOCK FALSE
