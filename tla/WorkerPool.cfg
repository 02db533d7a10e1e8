SPECIFICATION FairSpec
CONSTANTS
  MaxChannels = 3
  Scripts <- MCScripts
INVARIANTS
  BatchOnce
  PlanAlive
  ResultFaithful
PROPERTIES
  Completes
