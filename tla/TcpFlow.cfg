SPECIFICATION FairSpec
CONSTANTS
  Mss = 2
  InitialSsthresh = 7
  Total = 13
  Preloads = {0, 8}
  MaxLosses = 3
  MaxSpurious = 2
INVARIANTS LedgerCoversFlight TimerGuardsFlight DeliveryIsExact
PROPERTY EventuallyFinished
CHECK_DEADLOCK FALSE
