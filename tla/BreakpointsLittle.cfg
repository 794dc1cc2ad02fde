SPECIFICATION Spec
CONSTANTS
  StartList <- TwoStarts
  EndList <- TwoEnds
  WordSize = 2
  BreakSize = 2
  LittleEndian = TRUE
  Blank = {}
  LastCell = 7
  PageSize = 4
INVARIANT FixResumes
