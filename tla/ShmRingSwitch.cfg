SPECIFICATION FairSpec
CONSTANTS
  Capacity = 3
  Plans <- MCSwitchingPlans
PROPERTIES
  Completes
