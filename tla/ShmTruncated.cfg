SPECIFICATION Spec
CONSTANTS
  Conns = {c1, c2}
  Retries = 2
  ShmFaults = {"create", "connect", "transfer", "map", "accept", "truncate", "error"}
  RdmaFaultSets = {{"addr", "route", "unreachable", "setup", "zcqp", "error", "setupActive", "zcqpActive"}, {"setup", "zcqp", "error"}}
INVARIANT NoLeakAtAll
CHECK_DEADLOCK FALSE
