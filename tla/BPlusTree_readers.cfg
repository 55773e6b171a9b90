\* A reader, which looks up or scans, beside an inserter and a remover, in a
\* tree of three levels whose root stays the root.
SPECIFICATION Spec
CONSTANTS
  Keys = {1, 2, 3, 4, 5, 6, 7, 8, 9}
  leaf_max_size = 3
  internal_max_size = 3
  MaxPages = 18
  Finders = {t1}
  Inserters = {t2}
  Removers = {t3}
  Scanners = {t1}
  KeyScanners = {t1}
  Prefill = {1, 2, 5, 6, 7, 8, 9}
  PrefillLate = {4}
  MaxOps = 1
PROPERTIES NothingBroken ReadsLinearizable ScansComplete
\* The calls are bounded: when all are done nothing moves.
CHECK_DEADLOCK FALSE
