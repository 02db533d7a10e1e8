SPECIFICATION Spec
CONSTANTS
  RingCases <- MCRingCases
  TreeCases <- MCTreeCases
  RingCapacity = 2
  TreeCapacity = 1
INVARIANTS
  Correct
  NoAliasing
  CallPending
PROPERTIES
  Completes
