SPECIFICATION Spec
CONSTANTS
  Callers = {"a"}
  ReactsA = {"send"}
  ReactsB = {"send"}
  Reacts <- MCReacts
  InitA = 1
  InitB = 3
  UpA = 0
  UpB = 0
  InitSn <- MCInitSn
  Boot <- MCBoot
  TMax = 2
  MaxPacket = 1
  SnRange = 10
  RetrCap = 3
  RecvCap = 1
  SnMod = 100
  MaxTime = 0
  MaxMsg = 3
  MaxPdus = 16
  MaxDrops = 2
  MaxStops = 1
INVARIANTS
  TypeOK
  
  
  RetrInOrder
  PassedIsDelivered
CHECK_DEADLOCK FALSE
