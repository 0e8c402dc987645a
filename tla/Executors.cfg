SPECIFICATION Spec
CONSTANTS
  Node <- ProgNode
  Payload <- ProgPayload
  State <- ProgState
  MaxTime = 14
  Lookahead = 2
  RunEnd = 9
  Dispatch <- MCDispatch
  Images <- MCImages
CHECK_DEADLOCK FALSE
INVARIANTS LocalCausality ResultIsSerial HorizonIsSafe FrontierExact
INVARIANTS RoundsAreSealed ErrorIsRootCause
PROPERTIES ImplementsCausalCalendar CanonicalOrder Terminates
