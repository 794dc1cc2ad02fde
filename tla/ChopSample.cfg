SPECIFICATION FairSpec
CONSTANTS
  Size = 16
  Counters = 2
  OtherLen = 4
  MaxTaken = 4
INVARIANT SamplesIntact
INVARIANT LostAccounted
INVARIANT NeverStarved
INVARIANT NoChildLeft
PROPERTY SamplingEnds
