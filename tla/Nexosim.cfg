SPECIFICATION MCSpec
CONSTANTS
  Size = 3
  Bucket = 1
  Jobs <- MCJobs
  MaxActivations = 1
  Waker <- MCWaker
  MaxWakes = 3
CHECK_DEADLOCK FALSE
INVARIANTS PoolExact TaskIsSafe ChannelExact
PROPERTIES ImplementsMailbox EveryoneIsServed
