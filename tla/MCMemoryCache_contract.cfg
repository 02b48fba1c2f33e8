SPECIFICATION CacheSpec
CONSTANTS
  None = none
  Keys = {"k"}
  Callers = {c1, c2}
  Texts = {}
  Blank = blank
  IntEdge = 8
  Calls <- SomeCalls
  MaxTime = 1
PROPERTY KeepsTheContract
CHECK_DEADLOCK FALSE
