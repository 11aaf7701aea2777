CONSTANTS
  c1 = c1
  c2 = c2
  Clients <- MCClients
  Ids <- MCIds
  capacity = 2
  MaxEpoch = 1
  MaxSlot = 1
  MaxGets = 4
SPECIFICATION Spec
SYMMETRY ClientSymmetry
INVARIANTS
  TypeOK
  WithinCapacity
  HitFresh
PROPERTIES
  PermanentKept
  HotKept
