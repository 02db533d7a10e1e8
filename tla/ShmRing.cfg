SPECIFICATION FairSpec
CONSTANTS
  Capacity = 3
  Plans <- MCSettledPlans
INVARIANTS
  TypeOK
  RingSafe
  NoLostWakeup
PROPERTIES
  ImplementsChannel
  Completes
