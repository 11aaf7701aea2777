CONSTANTS
  t1 = t1
  t2 = t2
  p1 = p1
  f1 = f1
  f2 = f2
  Txs <- MCTxs
  Programs <- MCPrograms
  Prefetchers <- MCPrefetchers
  Ids <- MCIds
  Args = {1}
  confidence_threshold = 30000
  top_k = 2
  MaxCalls = 3
  MaxRuns = 2
  MaxTriggers = 2
SPECIFICATION PathSpec
CHECK_DEADLOCK FALSE
SYMMETRY PathSymmetry
INVARIANTS
  DeviationsConfined
  RepeatableReads
  TableHoldsOwnCalls
  FetchesAccounted
PROPERTY
  ReplacedOnlyByOverlap
