SPECIFICATION FairSpec
CONSTANTS
  N = 3
  Channels = {c1, c2}
  BatchSize = 2
  Capacity = 1
  Runs <- MCRuns
  Faulty <- MCFaulty
  MaxFailed = 1
INVARIANTS
  SlicesOnce
  EdgesFramed
PROPERTIES
  Completes
CHECK_DEADLOCK FALSE
