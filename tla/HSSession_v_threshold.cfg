SPECIFICATION Spec
CONSTANTS
  HDR <- HeaderSize
  MAXPKT <- PacketSize
  RecvLen = 8
  SendLen = 4
  OtherLens = {16}
  MaxStream = 12
  MaxSends = 0
  SendSizes = {}
INVARIANT ReadLoopAlive
CHECK_DEADLOCK FALSE
