SPECIFICATION Spec
CONSTANTS
  ChannelCount = 2
  Plans <- MCPlans
  Cases <- MCCases
  SndCap = 1
  RcvCap = 2
  Threads <- MCThreads
  MayFail = TRUE
  w1 = w1
  w2 = w2
  Main = w1
INVARIANTS Aligned OneOwner NoLostEvent CleanReturn
PROPERTY Completes
CHECK_DEADLOCK FALSE
