SPECIFICATION Spec
CONSTANTS
  Conns = {c1}
  FaultSets = {{"addr", "route", "unreachable"}}
PROPERTY ConnectReturns
CHECK_DEADLOCK FALSE
