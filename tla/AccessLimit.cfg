SPECIFICATION Spec
CONSTANTS
  BufSize = 2
  MemBufSize = 2
  MaxTraces = 2
  Indexed = FALSE
  Page = {0, 1}
  CodePages = {1}
  Pc = {load, store}
  load = load
  Stores = {store}
  Budget = 6
  store = store
INVARIANT NothingLost
INVARIANT NoAccessLost
INVARIANT PagesAttributed
