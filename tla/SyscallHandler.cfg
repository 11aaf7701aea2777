CONSTANTS
  t1 = t1
  t2 = t2
  Callers <- MCCallers
  Ids <- MCIds
  ChannelCapacity = 1
  MaxCalls = 2
  MaxSlot = 3
SPECIFICATION FairHandlerSpec
CHECK_DEADLOCK FALSE
INVARIANTS
  HandlerTypeOK
  EventsAccounted
  StatsFollowTotal
  SlotsInCallOrder
PROPERTY
  HandleReturns
