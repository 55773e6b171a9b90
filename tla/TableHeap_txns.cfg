CONSTANTS
  BUSTUB_PAGE_SIZE = 7
  SIZE_TABLE_PAGE_HEADER = 2
  SIZE_TUPLE = 1
  t1 = t1
  t2 = t2
  Txns <- MCTxns
  Scanners = {s1}
  None = None
  Tuples <- MCTuples
  InitialRow <- MCInitialRow
  MaxPages = 2
  MaxWrites <- MCMaxWrites
SPECIFICATION Spec
CHECK_DEADLOCK FALSE
INVARIANTS HeapWellFormed QuiescentWhenBlocked ScansComplete
PROPERTY ImplementsPromise
