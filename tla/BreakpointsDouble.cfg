SPECIFICATION Spec
CONSTANTS
  StartList <- TwoStarts
  EndList <- TwoEnds
  WordSize = 2
  BreakSize = 2
  LittleEndian = FALSE
  Blank = {3}
  LastCell = 7
  PageSize = 4
INVARIANT TextRestored
INVARIANT MarksInForce
INVARIANT PagesOriginal
