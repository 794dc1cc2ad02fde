SPECIFICATION Spec
CONSTANTS
  MaxAddress = 5
  Pages <- ElevenPages
  Image <- Program
  Loads <- Loader
  Unmaps <- Data
  Needed <- Library
  Free <- DataPages
  Rights <- DataRights
  Used <- UsedPages
  Entry = 1
  ReservedSets <- SymbolPages
  Forms <- CommandLines
  RegionsMax = 8
  CallBound = 6
  TraceBound = 3
INVARIANT HandlerSafe
INVARIANT CoveredBelow
INVARIANT Converted
