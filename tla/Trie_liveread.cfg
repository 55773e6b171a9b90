CONSTANTS
  a = a
  b = b
  Chars <- MCChars
  Keys <- MCKeys
  Types = {int, string}
  Values = {v1}
  Garbage = Garbage
  Threads = {t1, t2}
  None = None
SPECIFICATION Spec
CHECK_DEADLOCK FALSE
INVARIANT ReadsLiveNodes
