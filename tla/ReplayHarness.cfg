CONSTANTS
  t0 = t0
  t1 = t1
  Txs <- MCTxs
  ZeroTx = t0
  ForeignLines <- MCForeignLines
  CryptoCounts = {2}
  ReadCounts = {3, 9}
  CryptoPool = {20, 22}
  MockCounts = {3, 9}
  MockPool = {10}
  PerSlot = 2
  Slots = {}
  max_window_size = 13
  MaxEvents = 0
  MaxLines = 4
SPECIFICATION ReplaySpec
CHECK_DEADLOCK FALSE
INVARIANTS
  LineByLine
  GeneratedComesThrough
