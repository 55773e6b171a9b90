CONSTANTS
  replacer_size = 1
  k = 2
  Threads = {t1, t2}
  Contents = {0, 1}
  Zeroed = 0
  MaxPages = 3
  MaxAccesses = 3
  FlushUnpinned = FALSE
SPECIFICATION Spec
INVARIANT CleanMeansOnDisk
PROPERTY Implements
