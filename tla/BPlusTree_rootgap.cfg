\* A reader between the root latch and the latch of the root page.
SPECIFICATION Spec
CONSTANTS
  Keys = {1, 2, 3}
  leaf_max_size = 3
  internal_max_size = 3
  MaxPages = 8
  Finders = {t1}
  Inserters = {t2}
  Removers = {}
  Scanners = {}
  KeyScanners = {}
  Prefill = {1, 2}
  PrefillLate = {}
  MaxOps = 1
PROPERTIES ReadsLinearizable
\* The calls are bounded: when all are done nothing moves.
CHECK_DEADLOCK FALSE
