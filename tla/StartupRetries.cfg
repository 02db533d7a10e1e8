SPECIFICATION Spec
CONSTANTS
  N = 3
  Channels = {0}
  Setups <- TcpSetups
  Retries = 2
  MaxFaults = 4
PROPERTY ExhaustionFailsInit
CHECK_DEADLOCK FALSE
