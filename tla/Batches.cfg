SPECIFICATION Spec
CONSTANTS
  ChunkBytes = 8
  TreeThresholdChunks = 4
  WorldSize = 3
  ConfigChannels = {0, 1, 2, 3}
  DefaultChannels = 4
  DynamicEnabled = TRUE
  Capacity = 2
  CallPrograms <- MCCallPrograms
  BatchPrograms <- MCBatchPrograms
INVARIANTS
  SlicesTile
  PlansAgree
  BatchesWhole
  WiredOnce
  Delivered
PROPERTIES
  Completes
