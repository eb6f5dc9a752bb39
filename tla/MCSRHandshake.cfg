SPECIFICATION Spec
CONSTANTS
  Callers = {"a"}
  ReactsA = {}
  ReactsB = {}
  Reacts <- MCReacts
  InitA = 1
  InitB = 3
  UpA = 0
  UpB = 2
  InitSn <- MCInitSn
  Boot <- MCBoot
  TMax = 2
  MaxPacket = 1
  SnRange = 10
  RetrCap = 3
  RecvCap = 1
  SnMod = 100
  MaxTime = 0
  MaxMsg = 1
  MaxPdus = 14
  MaxDrops = 0
  MaxStops = 0
PROPERTY
  HandshakeInTime
CHECK_DEADLOCK FALSE
