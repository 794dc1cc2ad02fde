SPECIFICATION FairSpec
CONSTANTS
  Guarded = {g, h, c}
  Loose = {l}
  Own = {}
  Writable = {g, h, l}
  Code = {c}
  Pc = {i, j}
  c = c
  g = g
  h = h
  i = i
  j = j
  l = l
  Options <- AllOptions
  Nothing = Nothing
  Budget = 5
INVARIANT GuardedInitial
INVARIANT Complete
INVARIANT WritesLogged
INVARIANT UsedInitial
INVARIANT LimitPerTrace
PROPERTY SnapshotSpec
PROPERTY AccessMade
