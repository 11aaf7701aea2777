CONSTANTS
  t1 = t1
  t2 = t2
  p1 = p1
  Txs <- MCTxs
  Programs <- MCPrograms
  Ids <- ReturnIds
  Args = {1, 2}
  MaxCalls = 3
  MaxRuns = 3
SPECIFICATION Spec
CHECK_DEADLOCK FALSE
INVARIANT
  DedupSafe
