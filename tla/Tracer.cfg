SPECIFICATION FairSpec
CONSTANTS
  e = e
  f = f
  o = o
  s = s
  t = t
  x = x
  Forms <- AllForms
  Budget = 16
INVARIANT SplitsOutsideHandler
INVARIANT TracesAsPromised
INVARIANT CallsAlternate
INVARIANT BreakpointsInForce
INVARIANT NoOrphan
INVARIANT LimitKept
INVARIANT IndexedExact
PROPERTY EveryInvocationTraced
PROPERTY EndClosesTrace
PROPERTY Terminates
PROPERTY TraceDirectorySpec
