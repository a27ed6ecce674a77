SPECIFICATION ChannelFairSpec
CONSTANTS
  MaxCalls = 1
  OtherWork = TRUE
PROPERTY FallbackAccepts
CHECK_DEADLOCK FALSE
