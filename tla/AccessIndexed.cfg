SPECIFICATION Spec
CONSTANTS
  BufSize = 2
  MemBufSize = 2
  MaxTraces = 3
  Indexed = TRUE
  Page = {0, 1}
  CodePages = {}
  Pc = {load}
  load = load
  Stores = {}
  Budget = 5
INVARIANT NothingLost
