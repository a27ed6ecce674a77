SPECIFICATION FairSpec
CONSTANTS
  HDR <- HeaderSize
  MAXPKT <- PacketSize
  RecvLen = 4
  SendLen = 6
  OtherLens = {}
  MaxStream = 2
  MaxSends = 3
  SendSizes <- SendEdges
INVARIANTS WriteInOrder SendingMeansInFlight DisconnectBound
PROPERTIES SendingSettles Drains
CHECK_DEADLOCK FALSE
