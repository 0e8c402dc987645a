SPECIFICATION MCSpec
CONSTANTS
  Images <- MCImages
  MaxUsize <- MCUsize
  ReceiverSlack = 1
  LedgerFactor = 1
  LedgerSlack = 1
INVARIANT LedgerIsCanonical
PROPERTIES ImplementsFrontier RetryIsExact
CHECK_DEADLOCK FALSE
