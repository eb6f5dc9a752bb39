SPECIFICATION Spec
CONSTANTS
  Callers = {"a", "b"}
  ReactsA = {"send"}
  ReactsB = {"disconnect"}
  Reacts <- MCReacts
  InitA = 1
  InitB = 3
  UpA = 1
  UpB = 0
  InitSn <- MCInitSn
  Boot <- MCBoot
  TMax = 2
  MaxPacket = 1
  SnRange = 10
  RetrCap = 3
  RecvCap = 1
  SnMod = 100
  MaxTime = 2
  MaxMsg = 2
  MaxPdus = 12
  MaxDrops = 2
  MaxStops = 0
INVARIANTS
  ChannelWhileOpen
  StaysClosed
  
PROPERTIES
  Lifecycle
  KeepsWatch
  NeverBack
CHECK_DEADLOCK FALSE
