CONSTANTS
  replacer_size = 1
  k = 2
  Threads = {t1, t2}
  Contents = {0, 1}
  Zeroed = 0
  MaxPages = 2
  MaxAccesses = 2
  FlushUnpinned = TRUE
SPECIFICATION Spec
PROPERTY OnlyHoldersChangeContent
