SPECIFICATION Spec
CONSTANTS
  Size = 2
  Bucket = 1
  Jobs <- HotJobs
  MaxActivations = 2
CHECK_DEADLOCK FALSE
INVARIANT LastActiveWorkerOnly
