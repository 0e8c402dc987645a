CONSTANTS
  d1 = d1
  d2 = d2
  Down <- MCDown
  Traffic <- MCTraffic
  Up = Up
  Beyond = Beyond
  Class = {1, 2}
  Size = {1, 2}
  Rate = 1
  Propagation = 1
  ReverseDelay = 1
  Xon = 0
  Xoff = 2
  MaxQueue = 2
SPECIFICATION FairSpec
INVARIANTS Lossless NoLostWakeup PauseStateAgrees
PROPERTY PauseEnds
