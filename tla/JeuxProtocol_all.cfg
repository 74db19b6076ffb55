SPECIFICATION Spec
CONSTANTS
  p1 = p1
  p2 = p2
  p3 = p3
  Packets = {p1, p2, p3}
  PayloadSize <- MCPayloadSize
  HdrSize = 3
  SizeEnd = 2
  BufSize = 4
INVARIANTS
  PacketsFramed
PROPERTY SentIsReceived
CHECK_DEADLOCK FALSE
