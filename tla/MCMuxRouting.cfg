SPECIFICATION Spec
CONSTANTS
  p = p
  q = q
  Peers = {p, q}
  NPorts = 2
  Ports <- MCPorts
  NDefer = 1
  MaxSeq = 2
SYMMETRY Symmetry
INVARIANTS
  SentToReceiver
CHECK_DEADLOCK FALSE
