SPECIFICATION Spec
CONSTANTS
  HDR <- HeaderSize
  MAXPKT <- PacketSize
  RecvLen = 4
  SendLen = 4
  OtherLens = {}
  MaxStream = 0
  MaxSends = 1
  SendSizes = {0,2}
INVARIANT NoAssertFailure
CHECK_DEADLOCK FALSE
