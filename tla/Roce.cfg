SPECIFICATION MCSpec
CONSTANTS
  One = 8
  MinimumRate = 6
  InitialRate = 9
  MaximumRate = 11
  AdditiveRate = 1
  HyperRate = 2
  Gain = 3
  AlphaInterval = 2
  DecreaseInterval = 3
  IncreaseInterval = 2
  FastRecoverySteps = 1
  ClampTargetRate = FALSE
  MaxTime = 13
CHECK_DEADLOCK FALSE
INVARIANTS SenderIsValid ReceiverAgrees NoStall RateBounds
PROPERTY LazyIsEager
