SPECIFICATION Spec
CONSTANTS
  Begins = {b, both}
  Ends = {e, both}
  Others = {o}
  Data = {x, y, b}
  Stored = {x}
  b = b
  o = o
  both = both
  e = e
  x = x
  y = y
  Indices <- Second
  MaxTraces = 1
  NoLimit = NoLimit
  N_EVENTS = 2
  MaxBlock = 3
  Budget = 7
INVARIANT LogExact
INVARIANT IndicesKept
