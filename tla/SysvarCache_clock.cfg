CONSTANTS
  c1 = c1
  c2 = c2
  Clients <- MCClients
  Ids <- ClockOnly
  capacity = 2
  MaxEpoch = 1
  MaxSlot = 1
  MaxGets = 2
SPECIFICATION Spec
INVARIANT
  ClockStaleEverySlot
