CONSTANTS
  replacer_size = 2
  k = 2
  Threads = {t1, t2}
  Contents = {0}
  Zeroed = 0
  MaxPages = 3
  MaxAccesses = 2
  FlushUnpinned = FALSE
SPECIFICATION Spec
INVARIANTS
  FrameInv
  PinInv
  EvictNeverFails
PROPERTY PinnedPagesStay
