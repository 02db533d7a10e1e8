SPECIFICATION Spec
CONSTANTS
  N = 3
  Channels = {1}
  Setups <- MCSetups
  Retries = 2
  MaxFaults = 1
INVARIANTS CommonView EdgesMeet
PROPERTY Completes
CHECK_DEADLOCK FALSE
