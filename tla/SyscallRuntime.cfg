CONSTANTS
  main = main
  Callers <- MCCallers
  Ids <- MCIds
  ChannelCapacity = 2
  TotalEvents = 5
  SlotPeriod = 2
  MaxCalls = 5
  MaxSlot = 5
SPECIFICATION RuntimeSpec
CHECK_DEADLOCK FALSE
INVARIANTS
  ReportComplete
PROPERTY
  RuntimeEnds
