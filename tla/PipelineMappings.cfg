CONSTANTS
  Users <- Split
  Layout <- McLayout
  Scale = 2
  NoTarget = 99
  SampleBound = 2
SPECIFICATION Spec
INVARIANT CountsShown
