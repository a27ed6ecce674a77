SPECIFICATION GameSpec
CONSTANTS
  Ids = 3
  MaxSessions = 2
  MaxCalls = 3
  OtherWork = FALSE
INVARIANTS LookupFindsOwn ConnectedOwnsSocket
PROPERTIES ConnectSettles AcceptSettles KeepsAccepting
CHECK_DEADLOCK FALSE
