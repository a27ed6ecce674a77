SPECIFICATION FairSpec
CONSTANTS
  HDR <- HeaderSize
  MAXPKT <- PacketSize
  RecvLen = 8
  SendLen = 4
  OtherLens = {6, 16}
  MaxStream = 10
  MaxSends = 0
  SendSizes = {}
INVARIANTS TypeOK RecvBounds FittingLoopAlive PacketIntact
PROPERTIES ImplementsStream StreamProcessed
CHECK_DEADLOCK FALSE
