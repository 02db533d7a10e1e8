SPECIFICATION PathSpec
CONSTANTS
  SlotCount = 3
  SlotSize = 2
  RecvPool = 4
  CreditBatch = 2
  Plans <- MCPlans
  Window = 3
  Threshold = 2
  ZcChunk <- MCZcChunk
  ZcPlans <- MCZcPlans
  Failures = 1
INVARIANTS
  CreditConserved
  SlotsReady
  NoLostWakeup
  BufferOwned
  ZcExact
PROPERTIES
  ImplementsChannel
  PathCompletes
