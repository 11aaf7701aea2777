CONSTANTS
  e1 = e1
  e2 = e2
  Events <- MCEvents
  Garbage = Garbage
  Size = 3
  MaxPushes = 6
SPECIFICATION FairSpec
INVARIANTS
  TypeOK
  NoDataRace
  LenIsReliable
PROPERTIES
  ImplementsQueue
  Delivered
