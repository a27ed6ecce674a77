SPECIFICATION ClientSpec
CONSTANTS
  HDR = 2
  MAXPKT = 4
  DefaultLen = 4
  ClientLen = 6
  DataSizes = {0, 2}
  MaxInits = 1
PROPERTY RoomComesBack
CHECK_DEADLOCK FALSE
