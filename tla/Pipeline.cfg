CONSTANTS
  Users <- McUsers
  Layout <- McLayout
  Scale = 2
  NoTarget = 99
  SampleBound = 2
SPECIFICATION Spec
INVARIANT GraphCovers
INVARIANT CountsExact
INVARIANT PathsExact
