CONSTANTS
  t1 = t1
  t2 = t2
  Txs <- MCTxs
  Slots = {1}
  max_window_size = 2
  MaxEvents = 4
  MaxFaults = 1
SPECIFICATION LogSpec
SYMMETRY TxSymmetry
INVARIANTS
  TypeOK
  OrderKept
  LossExplained
  ReadsBack
  DamageContained
