SPECIFICATION Spec
CONSTANTS
  Starts = {s}
  Ends = {e, f}
  e = e
  f = f
  s = s
  Forms <- CommandLines
  MAX_SAMPLES = 2
  Enough = 1
  MaxDepth = 2
  Signals = {"sig", "term", "kill", "fork", "alarm"}
  Budget = 11
INVARIANT MeasuredOnce
INVARIANT RowsComplete
INVARIANT NoTrapLeft
